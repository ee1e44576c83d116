------------------------------ MODULE MCAssets ------------------------------
(***************************************************************************)
(* Instances of NftRegistry, AssetRegistry and ValueFlow.  They keep       *)
(* different column families and meet in no state, so a behaviour follows  *)
(* one of them: registry says which.  seal1, seal2, mint, there, back,     *)
(* use, burn, burn2 and both are the NFT blocks; gold is a token two       *)
(* issuers want, c1 and c2 are classes of one collection.                  *)
(*                                                                         *)
(* In ValueFlow two wallets, one of which also holds coins under its       *)
(* hexadecimal address; gold, which ann may mint up to five units of, pays *)
(* one native coin per unit burnt; silver loses half its value a day; one  *)
(* request per handler.                                                    *)
(***************************************************************************)
EXTENDS NftRegistry, AssetRegistry, ValueFlow, TLC

VARIABLE registry

Action(kind, list, from, to, signer, rekey) ==
    [kind |-> kind, list |-> list, ids |-> {list[i] : i \in DOMAIN list},
     from |-> from, to |-> to, signer |-> signer, rekey |-> rekey]

ActionOfTable == [
    seal1 |-> Action("Sealed", <<"n1">>, "coord", "ann", "coord", FALSE),
    seal2 |-> Action("Sealed", <<"n2">>, "coord", "ann", "coord", FALSE),
    mint  |-> Action("Mint", <<"n1">>, "coord", "coord", "coord", FALSE),
    there |-> Action("Transfer", <<"n1">>, "ann", "bob", "ann", TRUE),
    back  |-> Action("Transfer", <<"n1">>, "bob", "ann", "bob", FALSE),
    use   |-> Action("Use", <<"n1">>, "ann", "ann", "ann", FALSE),
    burn  |-> Action("Burn", <<"n1">>, "ann", "ann", "coord", FALSE),
    burn2 |-> Action("Burn", <<"n1">>, "ann", "ann", "ann", FALSE),
    both  |-> Action("BatchBurn", <<"n1", "n2", "n2">>, "ann", "ann", "coord", FALSE)]

Meta(creator, beneficiary, bps) ==
    [creator |-> creator, beneficiary |-> beneficiary, bps |-> bps,
     version |-> 0, wellFormed |-> TRUE]

RequestTable == {
    [op |-> "token", asset |-> "gold", meta |-> Meta("ann", "ann", 1)],
    [op |-> "token", asset |-> "gold", meta |-> Meta("bob", Nobody, 0)],
    [op |-> "token", asset |-> "gold", meta |-> Meta("bob", Nobody, 1)],
    [op |-> "class", asset |-> "c1", meta |-> Meta("ann", Nobody, 0)],
    [op |-> "class", asset |-> "c1", meta |-> Meta("bob", Nobody, 0)],
    [op |-> "class", asset |-> "c2", meta |-> Meta("bob", Nobody, 0)],
    [op |-> "royalty", asset |-> "gold", bps |-> Absent, beneficiary |-> "bob", by |-> "ann"],
    [op |-> "royalty", asset |-> "gold", bps |-> 2, beneficiary |-> "ann", by |-> "bob"],
    [op |-> "royalty", asset |-> "gold", bps |-> 0, beneficiary |-> Absent, by |-> "ann"],
    [op |-> "freeze", address |-> "ann"],
    [op |-> "unfreeze", address |-> "ann"],
    [op |-> "rotate", old |-> "k0", new |-> "k1"],
    [op |-> "rotate", old |-> "k1", new |-> "k0"]}

CollOfTable == [c \in ClassId |-> "coll"]

FormsOfTable == [ann |-> <<"ann", "annHex">>, bob |-> <<"bob">>]

Coin(i, addr, asset, amt, lock) ==
    [id |-> <<0, i>>, addr |-> addr, asset |-> asset, amt |-> amt, lock |-> lock, born |-> 0]

FlowStartTable == { Coin(1, "ann", "gold", 2, 0), Coin(2, "annHex", "gold", 1, 0),
             Coin(3, "bob", "pms", 3, 0), Coin(4, "ann", "pms", 2, 0),
             Coin(5, "bob", "pms", 1, 1), Coin(6, "bob", "silver", 2, 0) }

CapOfTable == [a \in FlowAsset |-> 5]
DecayOfTable == [a \in FlowAsset |-> IF a = "silver" THEN 1 ELSE 0]
AuthorityOfTable == [a \in FlowAsset |-> "ann"]
ConversionOfTable == [a \in FlowAsset |-> 1]

FlowRequestTable == {
    [op |-> "send", from |-> "ann", to |-> "bob", asset |-> "gold", amt |-> 1],
    [op |-> "send", from |-> "bob", to |-> "ann", asset |-> "pms", amt |-> 1],
    [op |-> "send", from |-> "bob", to |-> "ann", asset |-> "silver", amt |-> 2],
    [op |-> "own", from |-> "bob"],
    [op |-> "settle", seller |-> "ann", buyer |-> "bob", asset |-> "gold", qty |-> 1,
     priceAsset |-> "pms", price |-> 2],
    [op |-> "burn", from |-> "ann", asset |-> "gold", amt |-> 3],
    [op |-> "mint", to |-> "bob", asset |-> "gold", amt |-> 2],
    [op |-> "mintSft", to |-> "bob", asset |-> "gold", amt |-> 1],
    [op |-> "custodial", by |-> "ann", to |-> "ann", asset |-> "gold", amt |-> 2, lock |-> 1],
    [op |-> "faucet", to |-> "ann", asset |-> "pms", amt |-> 1, lock |-> 0],
    [op |-> "seize", address |-> "bob"],
    [op |-> "freeze", address |-> "ann"] }

\* The constants' values.  TLC works out a table once, and what the .cfg names at
\* every use.
MCActionOf == ActionOfTable
MCCollOf == CollOfTable
MCRequest == RequestTable
MCFormsOf == FormsOfTable
MCCapOf == CapOfTable
MCDecayOf == DecayOfTable
MCAuthorityOf == AuthorityOfTable
MCConversionOf == ConversionOfTable
MCFlowStart == FlowStartTable
MCFlowRequest == FlowRequestTable

CallSymmetry == Permutations(FlowCall)

\* Bounds on troubles and events: another call is still to come, and in the NFT
\* registry nothing has been pruned.  On the clock of the registries: a rotation
\* is recorded or on its way.
CallToCome == nftPruned = {} /\ nftCalls < MaxNftCalls
RegCallToCome == regCalls < MaxRegCalls
FlowCallToCome == flCalls < MaxFlowCalls
RotationInPlay == keyDb # <<>> \/ \E c \in RegInFlight : regReq[c].op = "rotate"

BoundedNft == NftWorks \/ (CallToCome /\ NftTrouble)
BoundedReg ==
    RegWorks \/ (RegCallToCome /\ RegTrouble) \/ (RotationInPlay /\ TickReg)
BoundedFlow == FlowNext /\ (flEvents' # flEvents => FlowCallToCome)

Init == NftInit /\ RegInit /\ FlowInit /\ registry \in {"nft", "assets", "coins"}

Next ==
    /\ \/ registry = "nft" /\ BoundedNft /\ UNCHANGED <<regVars, flVars>>
       \/ registry = "assets" /\ BoundedReg /\ UNCHANGED <<nftVars, flVars>>
       \/ registry = "coins" /\ BoundedFlow /\ UNCHANGED <<nftVars, regVars>>
    /\ UNCHANGED registry

Spec == Init /\ [][Next]_<<nftVars, regVars, flVars, registry>>
=============================================================================
