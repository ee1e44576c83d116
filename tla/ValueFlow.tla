----------------------------- MODULE ValueFlow -----------------------------
(***************************************************************************)
(* How value moves: the handlers of pms-server/api_fn that select coins    *)
(* and build a transaction, the validation of each payload, the commit     *)
(* point, and the bookkeeping after the insertion.                         *)
(*                                                                         *)
(* A call selects coins in one step, is validated in a later one and       *)
(* commits in a third: other calls, a freeze, a royalty change or the end  *)
(* of the process come in between.  The commit is one step, which is what  *)
(* PersistPipeline shows of the claims and of apply_diff.  Encrypted       *)
(* transactions are validated by the handler and not again.                *)
(***************************************************************************)
EXTENDS Integers, Sequences, FiniteSets, FiniteSetsExt, SequencesExt

CONSTANTS
    Wallet, FormsOf,   \* wallets; the address forms of each, primary first
    FlowAsset, Pms,    \* registered assets, the native one
    TreasuryAddr, FeeAddr, \* treasury_addresses[0], fee_recipient_address
    CapOf,             \* max_supply
    DecayOf,           \* demurrage_bps_per_day
    AuthorityOf,       \* mint_authority: a wallet
    FullRate,          \* 10_000 basis points
    BaseFee, MintFee,  \* fees of a transaction and of a token mint
    TreasuryRate,      \* treasury_fee_bps
    ConversionOf,      \* native coins a contract pays per burnt unit
    EmissionLeft,      \* budget of the epoch
    FlowStart,         \* coins at the start
    FlowRequest,       \* what clients ask
    FlowCall,          \* concurrent calls
    MaxFlowCalls, MaxFlowEvents \* bounds

AnyAsset == FlowAsset \cup {Pms}
NoLock == 0
Addr == (UNION {Range(FormsOf[w]) : w \in Wallet}) \cup {TreasuryAddr, FeeAddr}

\* A coin is output i of block n, <<n, i>>; those of the start are of block 0.
CoinId == Nat \X Nat
CoinType == [id : CoinId, addr : Addr, asset : AnyAsset, amt : Nat, lock : Nat, born : Nat]

\* The amount of a set of coins; of those of one asset; of some outputs of a
\* block; of those of one asset.
Worth(coins) == SumFunction([x \in coins |-> x.amt])
AmountIn(coins, a) == Worth({x \in coins : x.asset = a})
Paid(outs, which) == SumFunctionOnSet([i \in DOMAIN outs |-> outs[i].amt], which)
Total(outs, a) == Paid(outs, {i \in DOMAIN outs : outs[i].asset = a})

RequestType ==
    [op : {"send"}, from : Wallet, to : Addr, asset : AnyAsset, amt : Nat]
    \cup [op : {"own"}, from : Wallet]
    \cup [op : {"settle"}, seller : Wallet, buyer : Wallet, asset : FlowAsset, qty : Nat,
          priceAsset : AnyAsset, price : Nat]
    \cup [op : {"burn"}, from : Wallet, asset : AnyAsset, amt : Nat]
    \cup [op : {"mint", "mintSft"}, to : Addr, asset : AnyAsset, amt : Nat]
    \cup [op : {"custodial"}, by : Wallet, to : Addr, asset : FlowAsset, amt : Nat, lock : Nat]
    \cup [op : {"faucet"}, to : Addr, asset : {Pms}, amt : Nat, lock : Nat]
    \cup [op : {"seize", "freeze"}, address : Addr]

ASSUME FlowAssumption ==
    /\ Pms \notin FlowAsset
    /\ IsFiniteSet(FlowCall) /\ IsFiniteSet(FlowStart)
    /\ \A w \in Wallet : Len(FormsOf[w]) > 0 /\ FormsOf[w] \in Seq(Range(FormsOf[w]))
    /\ \A v, w \in Wallet : v # w => Range(FormsOf[v]) \cap Range(FormsOf[w]) = {}
    /\ {FullRate, BaseFee, MintFee, TreasuryRate, EmissionLeft} \subseteq Nat
    /\ {MaxFlowCalls, MaxFlowEvents} \subseteq Nat
    /\ FullRate > 0
    /\ {CapOf, DecayOf, ConversionOf} \subseteq [FlowAsset -> Nat]
    /\ FlowRequest \subseteq RequestType
    /\ FlowStart \subseteq CoinType
    /\ \A x \in FlowStart : x.id[1] = 0 /\ x.born = 0
    /\ \A x, y \in FlowStart : x.id = y.id => x = y
    /\ \A a \in FlowAsset : AmountIn(FlowStart, a) <= CapOf[a]

VARIABLES
    flCoins,    \* the UTXO set
    flBlocks,   \* blocks inserted: number -> plan
    flFrozen,   \* frozen_set
    flRoyalty,  \* royalty_bps and beneficiary of each asset
    flMintLock, \* custodial_mint_locks
    flPool,     \* tx fees added to the fee pool
    flTreasury, \* treasury share added to the durable pool
    flEmitted,  \* emission counter of the epoch
    flNow, flPc, flPlan,
    flIssued, flBurnt,      \* per asset: minted, burnt by TokenBurn
    flUnpooled, flUndone,   \* fees never pooled; fees a reversal re-created
    flConverted, flForgone, \* conversions minted; reservations an exit lost
    flEarly,    \* calls past their validation when an edict came
    flCapRaced, \* assets with two mints of which one holds no lock
    flSales,    \* settlements: royalty due when validated, royalty paid
    flCalls, flEvents   \* calls; edicts, ticks and exits

flShared == <<flCoins, flBlocks, flFrozen, flRoyalty, flMintLock, flPool, flTreasury, flEmitted>>
flGhost  == <<flIssued, flBurnt, flUnpooled, flUndone, flConverted, flForgone, flEarly, flCapRaced, flSales>>
flBound  == <<flNow, flCalls, flEvents>>
flVars   == <<flShared, flPc, flPlan, flGhost, flBound>>

Idle == [kind |-> "none"]
Zero == [a \in AnyAsset |-> 0]

FlowInit ==
    /\ flCoins = FlowStart
    /\ flBlocks = <<>>
    /\ flFrozen = {}
    /\ flRoyalty = [a \in FlowAsset |-> [bps |-> 1, to |-> TreasuryAddr]]
    /\ flMintLock = {}
    /\ flPool = 0 /\ flTreasury = 0 /\ flEmitted = 0 /\ flNow = 0
    /\ flPc = [c \in FlowCall |-> "idle"]
    /\ flPlan = [c \in FlowCall |-> Idle]
    /\ flIssued = [a \in AnyAsset |-> AmountIn(FlowStart, a)]
    /\ flBurnt = Zero
    /\ flUnpooled = 0 /\ flUndone = 0 /\ flConverted = 0 /\ flForgone = 0
    /\ flEarly = {} /\ flCapRaced = {} /\ flSales = {}
    /\ flCalls = 0 /\ flEvents = 0

-----------------------------------------------------------------------------
(* Amounts, coins, addresses.                                              *)

Held(a) == AmountIn(flCoins, a)

\* address_identity: the wallet behind any form of an address.
Identity(addr) == {w \in Wallet : addr \in Range(FormsOf[w])}
Owner(x) == Identity(x.addr)
Primary(w) == FormsOf[w][1]

\* select_utxos: the coins of one address and asset that are not locked, in
\* any order, until the target is reached.
Spendable(addrs, a) ==
    {x \in flCoins : x.addr \in addrs /\ x.asset = a /\ x.lock <= flNow}

SelectUtxos(addrs, a, target) ==
    {S \in SUBSET Spendable(addrs, a) :
        Worth(S) >= target /\ \E last \in S : Worth(S) - last.amt < target}

\* select_utxos_multi: the primary form alone, else all forms pooled.
SelectUtxosMulti(w, a, target) ==
    IF SelectUtxos({Primary(w)}, a, target) # {}
    THEN SelectUtxos({Primary(w)}, a, target)
    ELSE SelectUtxos(Range(FormsOf[w]), a, target)

Out(addr, a, n) == [addr |-> addr, asset |-> a, amt |-> n, lock |-> NoLock]
Pay(addr, a, n) == IF n > 0 THEN << Out(addr, a, n) >> ELSE <<>>

\* FeePolicy::compute_fee and the royalty of a sale, rounded down.
ComputeFee(n) == BaseFee
ComputeRoyalty(price, bps) == (price * bps) \div FullRate

\* demurrage::effective_value at one decay per full day since the creation.
EffectiveValue(x) ==
    IF x.asset = Pms THEN x.amt
    ELSE LET v == x.amt - (x.amt * DecayOf[x.asset] * (flNow - x.born)) \div FullRate
         IN IF v > 0 THEN v ELSE 0

-----------------------------------------------------------------------------
(* Validation.                                                             *)

Inputs(p) == {x \in flCoins : x.id \in p.spend}
Present(p) == {x.id : x \in Inputs(p)} = p.spend

SpendAuthorized(p) == \A x \in Inputs(p) : Owner(x) # {} /\ Owner(x) \subseteq p.signers
Unlocked(p) == \A x \in Inputs(p) : x.lock <= flNow

\* check_asset_conservation_with_demurrage: exact for an asset without
\* demurrage; outputs may fall short for the native asset (the fee) and for
\* a decaying one; no asset appears from nothing.
AssetConserved(p) ==
    \A a \in AnyAsset :
        LET in == SumFunction([x \in {y \in Inputs(p) : y.asset = a} |-> EffectiveValue(x)])
            out == Total(p.outs, a)
        IN IF a = Pms \/ DecayOf[a] > 0 THEN out <= in ELSE out = in

\* Mutant of NoFrozenParty: only the recipients are looked up.
NoFrozenRecipient(p) == \A i \in DOMAIN p.outs : p.outs[i].addr \notin flFrozen

NoFrozenParty(p) ==
    /\ \A x \in Inputs(p) : x.addr \notin flFrozen
    /\ \A i \in DOMAIN p.outs : p.outs[i].addr \notin flFrozen

\* validate_transaction_full, then the compliance check of validate_plain_txutxo.
ValidTx(p) ==
    /\ Present(p) /\ SpendAuthorized(p) /\ Unlocked(p) /\ AssetConserved(p)
    /\ NoFrozenParty(p)

Net(p, w, a) ==
    Paid(p.outs, {i \in DOMAIN p.outs : p.outs[i].asset = a /\ w \in Identity(p.outs[i].addr)})
    - Worth({x \in Inputs(p) : x.asset = a /\ w \in Owner(x)})
NetOf(p, addr, a) ==
    Paid(p.outs, {i \in DOMAIN p.outs : p.outs[i].asset = a /\ p.outs[i].addr = addr})
    - Worth({x \in Inputs(p) : x.asset = a /\ x.addr = addr})

RoyaltyDue(p) == ComputeRoyalty(p.req.price, flRoyalty[p.req.asset].bps)

\* Mutant of ValidSettlement: the quantity is checked, the split is not.
ValidDelivery(p) ==
    /\ Net(p, p.req.buyer, p.req.asset) = p.req.qty
    /\ Net(p, p.req.seller, p.req.asset) = -p.req.qty

\* validate_settlement: the declared split and nothing else is credited.
ValidSettlement(p) ==
    LET r == p.req
        due == RoyaltyDue(p)
        beneficiary == flRoyalty[r.asset].to
    IN /\ due <= r.price
       /\ due > 0 => beneficiary # Primary(r.buyer)
       /\ Net(p, r.buyer, r.asset) = r.qty
       /\ Net(p, r.seller, r.asset) = -r.qty
       /\ Net(p, r.seller, r.priceAsset) = r.price - due
            + (IF r.seller \in Identity(beneficiary) THEN due ELSE 0)
       /\ (due > 0 /\ Identity(beneficiary) = {}) => NetOf(p, beneficiary, r.priceAsset) = due

\* validate_token_burn_async, and the frozen burner.
ValidBurn(p) ==
    /\ Present(p) /\ p.spend # {} /\ SpendAuthorized(p) /\ Unlocked(p)
    /\ \A x \in Inputs(p) : x.asset = p.req.asset /\ x.addr \notin flFrozen
    /\ Worth(Inputs(p)) - Total(p.outs, p.req.asset) = p.req.amt

\* validate_custom_asset_mint_amounts against the supply now in circulation.
UnderCap(a, n) == a = Pms \/ Held(a) + n <= CapOf[a]

ValidMint(p) == \A a \in FlowAsset : Total(p.outs, a) > 0 => UnderCap(a, Total(p.outs, a))

ValidCustodialMint(p) ==
    /\ p.signers = {AuthorityOf[p.req.asset]}
    /\ \A i \in DOMAIN p.outs : p.outs[i].addr \notin flFrozen
    /\ ValidMint(p)

ValidPayload(p) ==
    CASE p.kind = "plain"  -> ValidTx(p)
      [] p.kind = "settle" -> ValidTx(p) /\ ValidSettlement(p)
      [] p.kind = "burn"   -> ValidBurn(p)
      [] p.kind \in {"mint", "conversion"} -> ValidMint(p)
      [] p.kind = "custodial" -> ValidCustodialMint(p)
      [] p.kind \in {"seize", "reverse"} -> TRUE

-----------------------------------------------------------------------------
(* The handlers: what each selects and builds.                             *)

FlowInFlight == {c \in FlowCall : flPc[c] # "idle"}
Plan(k, r, signers, coins, outs, fee) ==
    [kind |-> k, req |-> r, signers |-> signers, spend |-> {x.id : x \in coins},
     outs |-> outs, fee |-> fee, reserved |-> 0, due |-> 0]

Free(c) == flPc[c] = "idle" /\ flCalls < MaxFlowCalls
Enter(c, p, pc) ==
    /\ Free(c)
    /\ flCalls' = flCalls + 1
    /\ flPc' = [flPc EXCEPT ![c] = pc]
    /\ flPlan' = [flPlan EXCEPT ![c] = p]
    /\ flEarly' = flEarly \ {c}
    /\ UNCHANGED <<flCoins, flBlocks, flFrozen, flRoyalty, flMintLock, flPool, flTreasury,
                   flIssued, flBurnt, flUnpooled, flUndone, flConverted, flForgone, flSales,
                   flNow, flEvents>>
EnterFree(c, p, pc) == Enter(c, p, pc) /\ UNCHANGED <<flEmitted, flCapRaced>>

\* Mutant of PaymentPlan: the change of a native payment keeps the fee.
PaymentPlanWithoutFee(k, r, coins, feeCoins, fee) ==
    Plan(k, r, {r.from}, coins \cup feeCoins,
         << Out(r.to, r.asset, r.amt) >>
           \o Pay(Primary(r.from), r.asset, Worth(coins) - r.amt)
           \o (IF r.asset = Pms THEN <<>> ELSE Pay(Primary(r.from), Pms, Worth(feeCoins) - fee)),
         fee)

\* The coins and outputs of a payment: the asset coins, then native coins for
\* the fee of an asset transfer.
PaymentPlan(k, r, coins, feeCoins, fee) ==
    LET native == r.asset = Pms
        need == IF native THEN r.amt + fee ELSE r.amt
    IN Plan(k, r, {r.from}, coins \cup feeCoins,
            << Out(r.to, r.asset, r.amt) >>
              \o Pay(Primary(r.from), r.asset, Worth(coins) - need)
              \o (IF native THEN <<>> ELSE Pay(Primary(r.from), Pms, Worth(feeCoins) - fee)),
            fee)

\* wallet_send_simple gives up the fee when the sender has no native coins.
WalletSendSimple(c, r) ==
    /\ r.op = "send"
    /\ LET fee == ComputeFee(r.amt)
           target == IF r.asset = Pms THEN r.amt + fee ELSE r.amt
           feeSets == IF r.asset = Pms \/ fee = 0 THEN {{}} ELSE SelectUtxosMulti(r.from, Pms, fee)
       IN \E coins \in SelectUtxosMulti(r.from, r.asset, target) :
            IF feeSets = {}
            THEN EnterFree(c, PaymentPlan("sealed", r, coins, {}, 0), "handler")
            ELSE \E f \in feeSets : EnterFree(c, PaymentPlan("sealed", r, coins, f, fee), "handler")

\* prepare_tx: one address form, frozen parties refused, no free transfer.
PrepareTx(c, r) ==
    /\ r.op = "send"
    /\ Primary(r.from) \notin flFrozen /\ r.to \notin flFrozen
    /\ LET fee == ComputeFee(r.amt)
           target == IF r.asset = Pms THEN r.amt + fee ELSE r.amt
       IN \E coins \in SelectUtxos({Primary(r.from)}, r.asset, target) :
          \E f \in IF r.asset = Pms \/ fee = 0 THEN {{}} ELSE SelectUtxos({Primary(r.from)}, Pms, fee) :
             EnterFree(c, PaymentPlan("sealed", r, coins, f, fee), "prepared")

\* The client signs what it prepared and sends it sealed (wallet_send_tx: the
\* burnt fee covers the expected one) or as a plain block.
WalletSendTx(c) ==
    /\ flPc[c] = "prepared"
    /\ flPc' = [flPc EXCEPT ![c] = "handler"]
    /\ UNCHANGED <<flShared, flPlan, flGhost, flBound>>

SubmitPlainTx(c) ==
    /\ flPc[c] = "prepared"
    /\ flPc' = [flPc EXCEPT ![c] = "arm"]
    /\ flPlan' = [flPlan EXCEPT ![c].kind = "plain"]
    /\ UNCHANGED <<flShared, flGhost, flBound>>

\* A client's own transaction: one coin, signed by any wallet, paid to it at
\* its face value or at what demurrage has left of it.
SubmitOwnTx(c, r, x) ==
    /\ r.op = "own"
    /\ \E n \in {x.amt, EffectiveValue(x)} \ {0} :
         EnterFree(c, Plan("plain", r, {r.from}, {x}, << Out(Primary(r.from), x.asset, n) >>, 0), "arm")

MarketSettle(c, r) ==
    /\ r.op = "settle" /\ r.buyer # r.seller /\ r.asset # r.priceAsset
    /\ LET royalty == ComputeRoyalty(r.price, flRoyalty[r.asset].bps)
           native == r.priceAsset = Pms
           gas == ComputeFee(r.price)
           target == IF native THEN r.price + gas ELSE r.price
           gasSets == IF native \/ gas = 0 THEN {{}} ELSE SelectUtxosMulti(r.buyer, Pms, gas)
       IN \E item \in SelectUtxosMulti(r.seller, r.asset, r.qty),
             pay \in SelectUtxosMulti(r.buyer, r.priceAsset, target),
             g \in IF gasSets = {} THEN {{}} ELSE gasSets :
             LET paid == IF gasSets = {} THEN 0 ELSE gas IN
             EnterFree(c,
               Plan("settle", r, {r.seller, r.buyer}, item \cup pay \cup g,
                 Pay(Primary(r.buyer), r.asset, r.qty)
                   \o Pay(Primary(r.seller), r.asset, Worth(item) - r.qty)
                   \o Pay(flRoyalty[r.asset].to, r.priceAsset, royalty)
                   \o Pay(Primary(r.seller), r.priceAsset, r.price - royalty)
                   \o Pay(Primary(r.buyer), r.priceAsset,
                          Worth(pay) - r.price - (IF native THEN gas ELSE 0))
                   \o (IF native THEN <<>> ELSE Pay(Primary(r.buyer), Pms, Worth(g) - paid)),
                 paid), "arm")

\* wallet_burn_token: the conversion is reserved in the emission budget
\* before the burn, and refused when the budget is short.
WalletBurnToken(c, r) ==
    /\ r.op = "burn"
    /\ LET convert == IF r.asset = Pms THEN 0 ELSE r.amt * ConversionOf[r.asset] IN
       /\ flEmitted + convert <= EmissionLeft
       /\ flEmitted' = flEmitted + convert
       /\ \E coins \in SelectUtxosMulti(r.from, r.asset, r.amt) :
            Enter(c, [Plan("burn", r, {r.from}, coins,
                           Pay(Primary(r.from), r.asset, Worth(coins) - r.amt), 0)
                      EXCEPT !.reserved = convert], "arm")
       /\ UNCHANGED flCapRaced

\* Two mints of one asset race when one of them checks the cap without the
\* lock of the asset.
MintRace(a, locks) ==
    flCapRaced' = IF \E d \in FlowInFlight : /\ flPlan[d].kind \in {"mint", "custodial"}
                                             /\ flPlan[d].req.asset = a
                                             /\ (flPlan[d].kind = "mint" \/ ~locks)
                  THEN flCapRaced \cup {a} ELSE flCapRaced

\* admin_mint_token: the mint fee is one more output, native, to FeeAddr.
AdminMintToken(c, r) ==
    /\ r.op = "mint" /\ UnderCap(r.asset, r.amt)
    /\ Enter(c, Plan("mint", r, {}, {}, << Out(r.to, r.asset, r.amt) >> \o Pay(FeeAddr, Pms, MintFee), 0), "arm")
    /\ MintRace(r.asset, FALSE) /\ UNCHANGED flEmitted

AdminMintSft(c, r) ==
    /\ r.op = "mintSft" /\ UnderCap(r.asset, r.amt)
    /\ Enter(c, Plan("mint", r, {}, {}, << Out(r.to, r.asset, r.amt) >>, 0), "arm")
    /\ MintRace(r.asset, FALSE) /\ UNCHANGED flEmitted

\* custodial_mint checks the authority's key and leaves the cap to the arm.
CustodialMint(c, r) ==
    /\ r.op = "custodial" /\ AuthorityOf[r.asset] = r.by
    /\ Enter(c, Plan("custodial", r, {r.by}, {},
               << [Out(r.to, r.asset, r.amt) EXCEPT !.lock = r.lock] >>, 0), "lock")
    /\ MintRace(r.asset, TRUE) /\ UNCHANGED flEmitted

FaucetMint(c, r) ==
    /\ r.op = "faucet"
    /\ EnterFree(c, Plan("mint", r, {}, {}, << [Out(r.to, Pms, r.amt) EXCEPT !.lock = r.lock] >>, 0), "arm")

\* admin_seize: every coin of the address, locked ones too, to the treasury.
AdminSeize(c, r) ==
    /\ r.op = "seize"
    /\ LET coins == {x \in flCoins : x.addr = r.address} IN
       /\ coins # {}
       /\ EnterFree(c, Plan("seize", r, {}, coins,
            SetToSeq({Out(TreasuryAddr, a, AmountIn(coins, a)) : a \in {x.asset : x \in coins}}), 0), "arm")

\* admin_reverse: a plain transaction whose outputs are all unspent; its
\* inputs are refunded in full, the fee included.
AdminReverse(c, n) ==
    /\ n \in DOMAIN flBlocks /\ flBlocks[n].kind = "plain"
    /\ LET old == flBlocks[n]
           coins == {x \in flCoins : x.id[1] = n}
       IN /\ Cardinality(coins) = Len(old.outs)
          /\ EnterFree(c, [Plan("reverse", old.req, {}, coins, old.refund, 0) EXCEPT !.due = old.fee], "arm")

-----------------------------------------------------------------------------
(* Validation, commit and what follows the insertion.                      *)

Leave(c) ==
    /\ flPc' = [flPc EXCEPT ![c] = "idle"]
    /\ flPlan' = [flPlan EXCEPT ![c] = Idle]

\* validate_txutxo_full in the handler of a sealed transaction.
ValidateInHandler(c) ==
    /\ flPc[c] = "handler"
    /\ IF ValidTx(flPlan[c])
       THEN flPc' = [flPc EXCEPT ![c] = "commit"] /\ UNCHANGED flPlan
       ELSE Leave(c)
    /\ UNCHANGED <<flShared, flGhost, flBound>>

\* Mutant of LockCap: the lock of the asset is not awaited.
LockCapAtOnce(c) ==
    /\ flPc[c] = "lock"
    /\ flPc' = [flPc EXCEPT ![c] = "arm"]
    /\ UNCHANGED <<flShared, flPlan, flGhost, flBound>>

LockCap(c) ==
    /\ flPc[c] = "lock" /\ flPlan[c].req.asset \notin flMintLock
    /\ flMintLock' = flMintLock \cup {flPlan[c].req.asset}
    /\ flPc' = [flPc EXCEPT ![c] = "arm"]
    /\ UNCHANGED <<flCoins, flBlocks, flFrozen, flRoyalty, flPool, flTreasury, flEmitted,
                   flPlan, flGhost, flBound>>

Unlock(c) ==
    flMintLock' = IF flPlan[c].kind = "custodial" THEN flMintLock \ {flPlan[c].req.asset} ELSE flMintLock

\* The arm of the payload, then the delta: the treasury share of a plain
\* transaction's fee is credited here, before the commit point.
ArmAccept(c) ==
    /\ flPc[c] = "arm" /\ ValidPayload(flPlan[c])
    /\ flPc' = [flPc EXCEPT ![c] = "commit"]
    /\ flPlan' = IF flPlan[c].kind = "settle"
                 THEN [flPlan EXCEPT ![c].due = RoyaltyDue(flPlan[c])] ELSE flPlan
    /\ flTreasury' = flTreasury + (IF flPlan[c].kind \in {"plain", "settle"}
                                   THEN (flPlan[c].fee * TreasuryRate) \div FullRate ELSE 0)
    /\ UNCHANGED <<flCoins, flBlocks, flFrozen, flRoyalty, flMintLock, flPool, flEmitted, flGhost, flBound>>

\* Mutant of Refused: the reservation is kept.
RefusedKeepsBudget(c) ==
    /\ Leave(c) /\ Unlock(c)
    /\ UNCHANGED <<flCoins, flBlocks, flFrozen, flRoyalty, flPool, flTreasury, flEmitted, flGhost, flBound>>

\* A refused block: a burn and a conversion give their reservation back.
Refused(c) ==
    /\ Leave(c) /\ Unlock(c)
    /\ flEmitted' = flEmitted - flPlan[c].reserved
    /\ UNCHANGED <<flCoins, flBlocks, flFrozen, flRoyalty, flPool, flTreasury, flGhost, flBound>>

ArmReject(c) == flPc[c] = "arm" /\ ~ValidPayload(flPlan[c]) /\ Refused(c)

CommitLoses(c) == flPc[c] = "commit" /\ ~Present(flPlan[c]) /\ Refused(c)

\* The royalty of a settlement, unless the seller is its beneficiary.
OwedBySeller(p) == IF p.req.seller \in Identity(flRoyalty[p.req.asset].to) THEN 0 ELSE p.due

Minted(p, a) == IF p.kind \in {"mint", "custodial", "conversion"} THEN Total(p.outs, a) ELSE 0

\* The coins of the next block, and what a reversal of it would give back.
Created(p) ==
    {[id |-> <<Len(flBlocks) + 1, i>>, addr |-> p.outs[i].addr, asset |-> p.outs[i].asset,
      amt |-> p.outs[i].amt, lock |-> p.outs[i].lock, born |-> flNow] : i \in DOMAIN p.outs}
Refund(p) ==
    SetToSeq({[addr |-> x.addr, asset |-> x.asset, amt |-> x.amt, lock |-> NoLock, id |-> x.id] :
              x \in Inputs(p)})

Commit(c) ==
    /\ flPc[c] = "commit" /\ Present(flPlan[c])
    /\ LET p == flPlan[c]
       IN /\ flCoins' = (flCoins \ Inputs(p)) \cup Created(p)
          /\ flBlocks' = Append(flBlocks, [kind |-> p.kind, req |-> p.req, outs |-> p.outs, fee |-> p.fee,
                                           refund |-> IF p.kind = "plain" THEN Refund(p) ELSE <<>>])
          /\ flIssued' = [a \in AnyAsset |-> flIssued[a] + Minted(p, a)]
          /\ flBurnt' = [a \in AnyAsset |->
               flBurnt[a] + IF p.kind = "burn" /\ p.req.asset = a THEN p.req.amt ELSE 0]
          /\ flUnpooled' = flUnpooled + (IF p.kind = "plain" THEN p.fee ELSE 0)
          /\ flUndone' = flUndone + (IF p.kind = "reverse" THEN p.due ELSE 0)
          /\ flConverted' = flConverted + (IF p.kind = "conversion" THEN p.reserved ELSE 0)
          /\ flSales' = IF p.kind # "settle" THEN flSales
                        ELSE flSales \cup {[due |-> OwedBySeller(p),
                               paid |-> p.req.price - Net(p, p.req.seller, p.req.priceAsset)]}
          /\ Unlock(c)
          /\ IF (p.fee > 0 /\ p.kind \in {"sealed", "settle"}) \/ (p.reserved > 0 /\ p.kind = "burn")
             THEN flPc' = [flPc EXCEPT ![c] = "post"] /\ UNCHANGED flPlan
             ELSE Leave(c)
    /\ UNCHANGED <<flFrozen, flRoyalty, flPool, flTreasury, flEmitted, flForgone, flEarly, flCapRaced, flBound>>

\* accumulate_tx_fee after the insertion of a transaction or a settlement.
AccumulateTxFee(c) ==
    /\ flPc[c] = "post" /\ flPlan[c].kind # "burn"
    /\ flPool' = flPool + flPlan[c].fee
    /\ Leave(c)
    /\ UNCHANGED <<flCoins, flBlocks, flFrozen, flRoyalty, flMintLock, flTreasury, flEmitted, flGhost, flBound>>

\* The burn is in: the conversion is minted to the owner in a second block.
MintConversion(c) ==
    /\ flPc[c] = "post" /\ flPlan[c].kind = "burn"
    /\ flPc' = [flPc EXCEPT ![c] = "arm"]
    /\ flPlan' = [flPlan EXCEPT ![c] =
         [Plan("conversion", @.req, {}, {}, << Out(Primary(@.req.from), Pms, @.reserved) >>, 0)
          EXCEPT !.reserved = flPlan[c].reserved]]
    /\ UNCHANGED <<flShared, flGhost, flBound>>

\* The mint of a conversion is not inserted (an error of the store, no
\* parents): the reservation is released, the burn stays.
ConversionFails(c) ==
    /\ flPc[c] = "arm" /\ flPlan[c].kind = "conversion" /\ Refused(c)

-----------------------------------------------------------------------------
(* What happens around the calls.                                          *)

Event == flEvents < MaxFlowEvents /\ flEvents' = flEvents + 1
Late == {c \in FlowCall : flPc[c] = "commit"}

\* Freeze and Unfreeze blocks, and a royalty update (AssetRegistry).
Edict(addr) ==
    /\ Event
    /\ flFrozen' = IF addr \in flFrozen THEN flFrozen \ {addr} ELSE flFrozen \cup {addr}
    /\ flEarly' = flEarly \cup Late
    /\ UNCHANGED <<flCoins, flBlocks, flRoyalty, flMintLock, flPool, flTreasury, flEmitted, flPc, flPlan,
                   flIssued, flBurnt, flUnpooled, flUndone, flConverted, flForgone, flCapRaced, flSales,
                   flNow, flCalls>>

RoyaltyChange(a) ==
    /\ Event
    /\ flRoyalty' = [flRoyalty EXCEPT ![a].bps = IF @ = 0 THEN 1 ELSE 0]
    /\ UNCHANGED <<flCoins, flBlocks, flFrozen, flMintLock, flPool, flTreasury, flEmitted, flPc, flPlan, flGhost,
                   flNow, flCalls>>

FlowTick ==
    /\ Event /\ flNow' = flNow + 1
    /\ UNCHANGED <<flShared, flPc, flPlan, flGhost, flCalls>>

FeeOnItsWay == [c \in FlowCall |-> IF flPc[c] = "post" THEN flPlan[c].fee ELSE 0]
Reservation == [c \in FlowCall |-> IF flPc[c] # "idle" THEN flPlan[c].reserved ELSE 0]
Pending == SumFunction(FeeOnItsWay)
Reserved == SumFunction(Reservation)

\* The process ends: calls vanish, with the fees not yet pooled and the
\* reservations not yet minted.
FlowExit ==
    /\ Event
    /\ flUnpooled' = flUnpooled + Pending
    /\ flForgone' = flForgone + Reserved
    /\ flPc' = [c \in FlowCall |-> "idle"] /\ flPlan' = [c \in FlowCall |-> Idle]
    /\ flMintLock' = {}
    /\ UNCHANGED <<flCoins, flBlocks, flFrozen, flRoyalty, flPool, flTreasury, flEmitted, flIssued, flBurnt,
                   flUndone, flConverted, flEarly, flCapRaced, flSales, flNow, flCalls>>

FlowNext ==
    \/ \E c \in FlowCall :
         \/ /\ Free(c)
            /\ \/ \E r \in FlowRequest :
                    \/ WalletSendSimple(c, r) \/ PrepareTx(c, r) \/ MarketSettle(c, r)
                    \/ WalletBurnToken(c, r) \/ AdminMintToken(c, r) \/ AdminMintSft(c, r)
                    \/ CustodialMint(c, r) \/ FaucetMint(c, r) \/ AdminSeize(c, r)
                    \/ \E x \in flCoins : SubmitOwnTx(c, r, x)
               \/ \E n \in DOMAIN flBlocks : AdminReverse(c, n)
         \/ WalletSendTx(c) \/ SubmitPlainTx(c)
         \/ ValidateInHandler(c) \/ LockCap(c) \/ ArmAccept(c) \/ ArmReject(c)
         \/ Commit(c) \/ CommitLoses(c) \/ AccumulateTxFee(c)
         \/ MintConversion(c) \/ ConversionFails(c)
    \/ \E r \in FlowRequest : r.op = "freeze" /\ Edict(r.address)
    \/ \E a \in FlowAsset : RoyaltyChange(a)
    \/ FlowTick \/ FlowExit

-----------------------------------------------------------------------------
\* What was minted and not burnt; of the native asset, what was not paid in fees.
DueOf(a) == flIssued[a] - flBurnt[a] - (IF a = Pms THEN flPool + Pending + flUnpooled - flUndone ELSE 0)

\* Value is accounted for: of every asset, the coins held are what was minted
\* less what was burnt; of the native asset, less the fees that reached the
\* fee pool, are on their way there, or were lost, plus what reversals
\* re-created.  An asset with demurrage loses what decays, and gains nothing.
\* No handler leaks change and no fee is pooled twice.
ValueAccounted ==
    \A a \in AnyAsset :
        IF a # Pms /\ DecayOf[a] > 0 THEN Held(a) <= DueOf(a) ELSE Held(a) = DueOf(a)

\* The emission counter holds the conversions minted, the reservations of
\* calls in flight and the ones an exit of the process stranded: every other
\* way out of wallet_burn_token gives the reservation back (token_burn.rs
\* 205-330).
ReservationsBacked == flEmitted = flConverted + Reserved + flForgone

\* max_supply holds for every asset whose mints all held the lock of the
\* asset, or never overlapped (persist.rs 622-640, 774-779).  An asset with
\* demurrage is left out: others may be minted in the place of what decayed,
\* and a reversal gives the decayed coins back at their face value.
CapRespected == \A a \in FlowAsset \ flCapRaced : DecayOf[a] = 0 => Held(a) <= CapOf[a]

\* Neither way of issuing goes over its limit: the emission counter is backed
\* and the supply of an asset stays under its cap.
SupplyRespected == ReservationsBacked /\ CapRespected

\* A sale pays the beneficiary the royalty that was in force when the block
\* was validated, whatever it was when the handler built the transaction.
RoyaltyPaid == \A s \in flSales : s.paid = s.due

\* A coin leaves an address with the signature of its wallet, and not while
\* the address is frozen; an order of the coordinator (seize, reverse) is the
\* exception, and a call that was validated before the edict.
CoinsMoveByRight ==
    [][\A x \in flCoins \ flCoins' : \E c \in FlowCall :
          /\ flPc[c] = "commit" /\ x.id \in flPlan[c].spend
          /\ \/ flPlan[c].kind \in {"seize", "reverse"}
             \/ /\ Owner(x) \subseteq flPlan[c].signers
                /\ x.addr \in flFrozen => c \in flEarly]_flVars

-----------------------------------------------------------------------------
(* The machine, and the invariants of the proofs.                          *)

FlowSpec == FlowInit /\ [][FlowNext]_flVars

Transfer == {"sealed", "plain", "settle"}
CappedMint == {"mint", "custodial"}
Kind == Transfer \cup CappedMint \cup {"conversion", "burn", "seize", "reverse"}

\* The outputs of a reversal also name the coin they give back.
OutType == [addr : Addr, asset : AnyAsset, amt : Nat, lock : Nat]
           \cup [addr : Addr, asset : AnyAsset, amt : Nat, lock : Nat, id : CoinId]
PlanType == [kind : Kind, req : FlowRequest, signers : SUBSET Wallet, spend : SUBSET CoinId,
             outs : Seq(OutType), fee : Nat, reserved : Nat, due : Nat]
BlockType == [kind : Kind, req : FlowRequest, outs : Seq(OutType), fee : Nat, refund : Seq(OutType)]

FlowTypes ==
    /\ flCoins \subseteq CoinType /\ IsFiniteSet(flCoins)
    /\ flBlocks \in Seq(BlockType)
    /\ flRoyalty \in [FlowAsset -> [bps : {0, 1}, to : Addr]]
    /\ flPc \in [FlowCall -> {"idle", "prepared", "handler", "lock", "arm", "commit", "post"}]
    /\ flPlan \in [FlowCall -> PlanType \cup {Idle}]
    /\ {flPool, flUnpooled, flUndone, flConverted, flForgone, flNow} \subseteq Nat
    /\ {flIssued, flBurnt} \subseteq [AnyAsset -> Nat]
    /\ flEmitted \in Int

\* What a call carries at each step of its handler.
Stage(p, pc) ==
    IF pc = "idle" THEN p = Idle
    ELSE /\ p \in PlanType
         /\ pc \in {"prepared", "handler"} => p.kind = "sealed"
         /\ pc = "lock" => p.kind = "custodial"
         /\ pc = "arm" => p.kind # "sealed"
         /\ pc = "post" => p.kind \in {"sealed", "settle", "burn"}
         /\ p.kind \notin {"burn", "conversion"} => p.reserved = 0
         /\ p.kind \notin Transfer => p.fee = 0
         /\ p.kind \in CappedMint \cup {"conversion"} => p.spend = {}
         /\ p.kind \in {"burn", "conversion"} => p.req.op = "burn"
         /\ p.kind = "settle" => p.req.op = "settle"
         /\ p.kind = "mint" => p.req.op \in {"mint", "mintSft", "faucet"}
         /\ p.kind = "custodial" => p.req.op = "custodial"
         /\ p.kind \in {"sealed", "plain"} => p.outs # <<>>
         /\ p.kind = "burn" => \A i \in DOMAIN p.outs : p.outs[i].asset = p.req.asset
         /\ p.kind \in CappedMint => \A i \in DOMAIN p.outs : p.outs[i].asset \in {p.req.asset, Pms}
         /\ p.kind = "conversion" => \A i \in DOMAIN p.outs : p.outs[i].asset = Pms

\* Coins have one number each, and no call can name a coin of a later block.
CoinsKnown ==
    /\ \A x, y \in flCoins : x.id = y.id => x = y
    /\ \A x \in flCoins :
         /\ x.id[1] <= Len(flBlocks) /\ x.born <= flNow
         /\ x.id[1] > 0 => LET outs == flBlocks[x.id[1]].outs
                           IN /\ x.id[2] \in DOMAIN outs
                              /\ x.asset = outs[x.id[2]].asset /\ x.amt = outs[x.id[2]].amt
    /\ \A c \in FlowInFlight : \A i \in flPlan[c].spend : i[1] <= Len(flBlocks)

FlowBase == FlowTypes /\ CoinsKnown /\ \A c \in FlowCall : Stage(flPlan[c], flPc[c])

\* What a validated call spends is still its own to spend.
ByRight ==
    \A c \in FlowCall : flPc[c] = "commit" /\ flPlan[c].kind \notin {"seize", "reverse"} =>
        \A x \in Inputs(flPlan[c]) :
            /\ Owner(x) \subseteq flPlan[c].signers
            /\ x.addr \in flFrozen => c \in flEarly

\* A validated settlement still pays what was validated, if its coins are there.
Settling ==
    \A c \in FlowCall :
        LET p == flPlan[c]
        IN flPc[c] = "commit" /\ p.kind = "settle" /\ Present(p) =>
             p.req.price - Net(p, p.req.seller, p.req.priceAsset) = OwedBySeller(p)

\* What each plan takes and gives, while its coins are there.
Books(p) ==
    /\ p.kind \in Transfer => AmountIn(Inputs(p), Pms) = Total(p.outs, Pms) + p.fee
    /\ p.kind = "seize" => \A a \in AnyAsset : AmountIn(Inputs(p), a) = Total(p.outs, a)
    /\ p.kind = "reverse" =>
         \E n \in DOMAIN flBlocks :
             LET old == flBlocks[n]
             IN /\ old.kind = "plain" /\ p.outs = old.refund /\ p.due = old.fee
                /\ p.spend = {<<n, i>> : i \in DOMAIN old.outs}

\* What validation adds.
BooksChecked(p) ==
    /\ p.kind \in Transfer => \A a \in FlowAsset :
         /\ Total(p.outs, a) <= AmountIn(Inputs(p), a)
         /\ DecayOf[a] = 0 => Total(p.outs, a) = AmountIn(Inputs(p), a)
    /\ p.kind = "burn" => /\ \A x \in Inputs(p) : x.asset = p.req.asset
                          /\ AmountIn(Inputs(p), p.req.asset) = Total(p.outs, p.req.asset) + p.req.amt

\* A reversal gives back what the block took.
BlockBooks(b) ==
    b.kind = "plain" =>
        /\ b.outs # <<>>
        /\ Total(b.refund, Pms) = Total(b.outs, Pms) + b.fee
        /\ \A a \in FlowAsset : /\ Total(b.outs, a) <= Total(b.refund, a)
                                /\ DecayOf[a] = 0 => Total(b.outs, a) = Total(b.refund, a)

BooksKept ==
    /\ \A c \in FlowInFlight : Present(flPlan[c]) =>
         Books(flPlan[c]) /\ (flPc[c] = "commit" => BooksChecked(flPlan[c]))
    /\ \A n \in DOMAIN flBlocks : BlockBooks(flBlocks[n])

\* What reversals can still give back of what decayed: the blocks whose outputs
\* are all unspent.
Whole(n) == \A i \in DOMAIN flBlocks[n].outs : \E x \in flCoins : x.id = <<n, i>>
Recoverable(a) ==
    [n \in DOMAIN flBlocks |-> IF flBlocks[n].kind = "plain" /\ Whole(n)
                               THEN Total(flBlocks[n].refund, a) - Total(flBlocks[n].outs, a) ELSE 0]

Accounts ==
    \A a \in AnyAsset :
        IF a # Pms /\ DecayOf[a] > 0 THEN Held(a) + SumFunction(Recoverable(a)) <= DueOf(a)
        ELSE Held(a) = DueOf(a)

\* At most one call is between its look at the cap and its block.
Minting(c, a) == flPc[c] # "idle" /\ flPlan[c].kind \in CappedMint /\ flPlan[c].req.asset = a

CapHeld ==
    \A a \in FlowAsset :
        /\ \A c, d \in FlowCall : c # d /\ Minting(c, a) /\ Minting(d, a) =>
             \/ flPlan[c].kind = "custodial" /\ flPlan[d].kind = "custodial"
                  /\ (flPc[c] = "lock" \/ flPc[d] = "lock")
             \/ a \in flCapRaced /\ ~(flPlan[c].kind = "custodial" /\ flPlan[d].kind = "custodial")
        /\ \A c \in FlowCall : Minting(c, a) /\ flPlan[c].kind = "custodial" /\ flPc[c] # "lock" =>
             a \in flMintLock
        /\ a \notin flCapRaced /\ DecayOf[a] = 0 =>
             /\ Held(a) <= CapOf[a]
             /\ \A c \in FlowCall : Minting(c, a) /\ flPc[c] = "commit" =>
                  Held(a) + Total(flPlan[c].outs, a) <= CapOf[a]
=============================================================================
