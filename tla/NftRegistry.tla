---------------------------- MODULE NftRegistry ----------------------------
(***************************************************************************)
(* The NFT registry of one ledger: the column families nft_ownership,      *)
(* nfts_by_owner and nft_block_ids (pms-storage/rocks_store/nft_storage),  *)
(* the NFT arm of do_persist_block_internal, and the HTTP handlers of      *)
(* pms-server/api_fn/nft.rs.                                               *)
(*                                                                         *)
(* A call is one handler or one direct block submission.  Its accesses to  *)
(* RocksDB are one step each (nftTodo names the next): no lock spans two   *)
(* of them, so an access may fail, and the process may exit, with the ones *)
(* before it done.  The arm runs before the block is inserted, the burn    *)
(* handlers apply the action a second time after the insertion.  A block   *)
(* that arrives again meets the window of the DAG in memory: it is known   *)
(* until pruning evicts it or an exit loses it.                            *)
(***************************************************************************)
EXTENDS Naturals, FiniteSets, Sequences

CONSTANTS
    Nft,         \* token ids
    Holder,      \* addresses, the coordinator's included
    Coord,       \* the coordinator key
    NftBlock,    \* block ids
    NftActionOf, \* the NftAction and the signer of each block
    NftCall,     \* concurrent calls
    MaxNftCalls, MaxNftPruned, \* bounds: calls, blocks pruned from memory,
    MaxNftTroubles             \* failed accesses and exits

NoOne == "no one"

ASSUME NftAssumption ==
    /\ Coord \in Holder /\ NoOne \notin Holder \cup NftBlock
    /\ {MaxNftCalls, MaxNftPruned, MaxNftTroubles} \subseteq Nat
    \* kind: Mint (plain), Sealed (the encrypted mint of mint_nft), Transfer,
    \* Use, Burn (one id) or BatchBurn; list: its token ids in order, which a
    \* batch may repeat; rekey: new_owner_x25519_pubkey is set
    /\ \A b \in NftBlock :
         LET a == NftActionOf[b] IN
         /\ a.kind \in {"Mint", "Sealed", "Transfer", "Use", "Burn", "BatchBurn"}
         /\ a.list \in Seq(Nft) /\ a.list # <<>>
         /\ a.ids = {a.list[i] : i \in DOMAIN a.list}
         /\ {a.from, a.to, a.signer} \subseteq Holder
         /\ a.rekey \in BOOLEAN

VARIABLES
    nftOwner,   \* nft_ownership
    nftIndex,   \* nfts_by_owner
    nftPointer, \* nft_block_ids
    nftDag,     \* blocks in the window of the DAG
    nftPruned,  \* blocks inserted and pruned from it
    nftLost,    \* blocks inserted and lost in an exit before they were stored
    nftPc, nftBlk, nftVia, nftTodo, nftRead, nftList,
    nftMinted, nftBurnt, \* per token: mints applied, burn events emitted
    nftPaid, nftTwice,   \* refunds of those events; tokens one of them repeated
    nftRaced,            \* tokens and holders two overlapping calls touched
    nftTorn,             \* tokens a failure or an exit left half written
    nftCalls, nftTroubles

nftStore == <<nftOwner, nftIndex, nftPointer>>
nftLocal == <<nftPc, nftBlk, nftVia, nftTodo, nftRead, nftList>>
nftPay   == <<nftMinted, nftBurnt, nftPaid, nftTwice>>
nftBound == <<nftCalls, nftTroubles>>
nftGhost == <<nftPruned, nftLost, nftPay, nftRaced, nftTorn, nftBound>>
nftVars  == <<nftStore, nftDag, nftLocal, nftGhost>>

NftVias == {"submit", "mint_nft", "burn_nft", "burn_nft_simple"}

\* The work of a call: the next access (at), its token, the owner it sets (no
\* one: the token is deleted) and the tokens left of a batch.
NoWork == [at |-> "done", nft |-> NoOne, to |-> NoOne, left |-> <<>>]

NftInit ==
    /\ nftOwner = [n \in Nft |-> NoOne]
    /\ nftIndex = [h \in Holder |-> {}]
    /\ nftPointer = [n \in Nft |-> NoOne]
    /\ nftDag = {} /\ nftPruned = {} /\ nftLost = {}
    /\ nftPc = [c \in NftCall |-> "idle"]
    /\ nftBlk = [c \in NftCall |-> NoOne]
    /\ nftVia = [c \in NftCall |-> "submit"]
    /\ nftTodo = [c \in NftCall |-> NoWork]
    /\ nftRead = [c \in NftCall |-> NoOne]
    /\ nftList = [c \in NftCall |-> {}]
    /\ nftMinted = [n \in Nft |-> 0]
    /\ nftBurnt = [n \in Nft |-> 0]
    /\ nftPaid = [n \in Nft |-> 0]
    /\ nftTwice = {} /\ nftRaced = {} /\ nftTorn = {}
    /\ nftCalls = 0 /\ nftTroubles = 0

Act(c) == NftActionOf[nftBlk[c]]
Footprint(b) == NftActionOf[b].ids \cup {NftActionOf[b].from, NftActionOf[b].to}
InFlight == {c \in NftCall : nftPc[c] # "idle"}

-----------------------------------------------------------------------------
(* What the storage methods start with.                                    *)

SetOwner(n, p) == [at |-> "getOwner", nft |-> n, to |-> p, left |-> <<>>]

ApplyMint(n, p) == [at |-> "createOnly", nft |-> n, to |-> p, left |-> <<>>]

\* Token by token, in the order of the list; an id named twice is deleted twice.
ApplyBurn(list) ==
    IF list = <<>> THEN NoWork
    ELSE [at |-> "delPointer", nft |-> Head(list), to |-> NoOne, left |-> Tail(list)]

\* apply_mint and apply_transfer end with set_block_id; a transfer without a
\* new key leaves the pointer where it is.
SetsPointer(a) == a.kind = "Transfer" => a.rekey

ApplyAction(a) ==
    LET n == Head(a.list) IN
    CASE a.kind = "Mint" -> ApplyMint(n, a.from)
      [] a.kind = "Transfer" -> SetOwner(n, a.to)
      [] a.kind \in {"Burn", "BatchBurn"} -> ApplyBurn(a.list)
      [] OTHER -> NoWork

\* validate_nft_action: a mint is new and its signer is the coordinator and
\* the creator; the others name the owner, and the owner or the coordinator
\* signs.
ValidNftAction(a) ==
    IF a.kind = "Mint"
    THEN /\ \A n \in a.ids : nftOwner[n] = NoOne
         /\ a.signer = Coord /\ a.from = a.signer
    ELSE /\ \A n \in a.ids : nftOwner[n] = a.from
         /\ a.signer \in {a.from, Coord}

\* get_nft and get_nfts_by_owner.
GetNft(n) == [owner |-> nftOwner[n], block |-> nftPointer[n]]
NftsByOwner(h) == nftIndex[h]

\* decrypt_nft_metadata_from_dag finds metadata behind a sealed mint and
\* behind a transfer that re-encrypted it, nowhere else.
MetadataReadable(n) ==
    /\ nftPointer[n] \in nftDag \cup nftPruned
    /\ LET a == NftActionOf[nftPointer[n]] IN
       a.kind = "Sealed" \/ (a.kind = "Transfer" /\ a.rekey)

-----------------------------------------------------------------------------
(* A call begins: the checks of its handler, or none for a block that      *)
(* arrives by itself.                                                      *)

Begin(c, b, via, pc) ==
    /\ nftPc[c] = "idle" /\ nftCalls < MaxNftCalls
    /\ nftCalls' = nftCalls + 1
    /\ nftPc' = [nftPc EXCEPT ![c] = pc]
    /\ nftBlk' = [nftBlk EXCEPT ![c] = b]
    /\ nftVia' = [nftVia EXCEPT ![c] = via]
    /\ nftRaced' = nftRaced \cup UNION {Footprint(b) \cup Footprint(nftBlk[d]) :
                      d \in {e \in InFlight : Footprint(b) \cap Footprint(nftBlk[e]) # {}}}
    /\ UNCHANGED <<nftStore, nftDag, nftPruned, nftLost, nftTodo, nftRead, nftList, nftPay,
                   nftTorn, nftTroubles>>

\* A handler forges a new block: no one has seen its id.
Fresh(b) == b \notin nftDag \cup nftPruned \cup nftLost /\ \A d \in InFlight : nftBlk[d] # b

\* A block of the window is answered AlreadyExists before any arm runs.
SubmitNftBlock(c, b) ==
    /\ NftActionOf[b].kind # "Sealed"
    /\ b \notin nftDag
    /\ NftActionOf[b].rekey => b \in nftPruned \cup nftLost
    /\ Begin(c, b, "submit", "arm")

\* mint_nft forges the block itself (fresh), and lets a mint pass only for a
\* token without an owner.  The sealed payload meets no arm.
MintNft(c, b) ==
    /\ NftActionOf[b].kind = "Sealed"
    /\ Fresh(b)
    /\ \A n \in NftActionOf[b].ids : nftOwner[n] = NoOne
    /\ Begin(c, b, "mint_nft", "insert")

\* burn_nft takes the client's block and only checks that the tokens exist.
BurnNft(c, b) ==
    /\ NftActionOf[b].kind \in {"Burn", "BatchBurn"}
    /\ \A n \in NftActionOf[b].ids : nftOwner[n] # NoOne
    /\ b \notin nftDag
    /\ Begin(c, b, "burn_nft", "arm")

\* burn_nft_simple and burn_nft_batch_simple forge the block for the owner;
\* the coordinator signs it.
BurnAllowed(b) ==
    /\ NftActionOf[b].signer = Coord /\ Fresh(b)
    /\ \A n \in NftActionOf[b].ids : nftOwner[n] = NftActionOf[b].from

BurnNftSimple(c, b) ==
    /\ NftActionOf[b].kind = "Burn"
    /\ BurnAllowed(b)
    /\ Begin(c, b, "burn_nft_simple", "arm")

BurnNftBatchSimple(c, b) ==
    /\ NftActionOf[b].kind = "BatchBurn"
    /\ BurnAllowed(b)
    /\ Begin(c, b, "burn_nft_simple", "arm")

\* prepare_nft_transfer answers with a transfer that re-encrypts the
\* metadata: a client submits such a block only after it.
TransferNft(c, b) ==
    /\ NftActionOf[b].kind = "Transfer" /\ NftActionOf[b].rekey
    /\ \A n \in NftActionOf[b].ids : MetadataReadable(n)
    /\ b \notin nftDag
    /\ Begin(c, b, "submit", "arm")

-----------------------------------------------------------------------------
(* The persist arm, the insertion and what the handler does afterwards.    *)

Finish(c) ==
    /\ nftPc' = [nftPc EXCEPT ![c] = "idle"]
    /\ nftBlk' = [nftBlk EXCEPT ![c] = NoOne]
    /\ nftTodo' = [nftTodo EXCEPT ![c] = NoWork]
    /\ nftRead' = [nftRead EXCEPT ![c] = NoOne]
    /\ nftList' = [nftList EXCEPT ![c] = {}]
    /\ UNCHANGED nftVia

NftArm(c) ==
    /\ nftPc[c] = "arm"
    /\ ValidNftAction(Act(c))
    /\ nftPc' = [nftPc EXCEPT ![c] = "apply"]
    /\ nftTodo' = [nftTodo EXCEPT ![c] = ApplyAction(Act(c))]
    /\ UNCHANGED <<nftStore, nftDag, nftBlk, nftVia, nftRead, nftList, nftGhost>>

NftReject(c) ==
    /\ nftPc[c] = "arm"
    /\ ~ValidNftAction(Act(c))
    /\ Finish(c)
    /\ UNCHANGED <<nftStore, nftDag, nftGhost>>

LateAction(c) ==
    IF nftVia[c] = "mint_nft"
    THEN ApplyMint(Head(Act(c).list), Act(c).to)
    ELSE ApplyBurn(Act(c).list)

\* The arm is done: the block is looked up in the DAG, then inserted.  Every
\* handler but burn_nft's failure answers lets an inserted block apply once
\* more: mint_nft for the first time, the burn handlers for the second.
ArmDone(c) == nftPc[c] = "insert" \/ (nftPc[c] = "apply" /\ nftTodo[c].at = "done")

NftInsert(c) ==
    /\ ArmDone(c)
    /\ nftDag' = nftDag \cup {nftBlk[c]}
    /\ IF nftBlk[c] \in nftDag \/ nftVia[c] = "submit"
       THEN Finish(c)
       ELSE /\ nftPc' = [nftPc EXCEPT ![c] = "post"]
            /\ nftTodo' = [nftTodo EXCEPT ![c] = LateAction(c)]
            /\ UNCHANGED <<nftBlk, nftVia, nftRead, nftList>>
    /\ UNCHANGED <<nftStore, nftGhost>>

\* The block is in the window, but the channel to the consumer is closed: the
\* handler answers the error and applies nothing.
NftUnsent(c) ==
    /\ ArmDone(c) /\ nftBlk[c] \notin nftDag
    /\ nftTroubles < MaxNftTroubles /\ nftTroubles' = nftTroubles + 1
    /\ nftDag' = nftDag \cup {nftBlk[c]}
    /\ Finish(c)
    /\ UNCHANGED <<nftStore, nftPruned, nftLost, nftPay, nftRaced, nftTorn, nftCalls>>

\* emit_nft_burn_processed: the contract engine refunds the burn from it, once
\* for every id of the list (token_ids.len()).
Named(c, n) == {i \in DOMAIN Act(c).list : Act(c).list[i] = n}

EmitBurn(c) ==
    /\ nftBurnt' = [n \in Nft |-> nftBurnt[n] + IF n \in Act(c).ids THEN 1 ELSE 0]
    /\ nftPaid' = [n \in Nft |-> nftPaid[n] + Cardinality(Named(c, n))]
    /\ nftTwice' = nftTwice \cup
         {n \in Nft : \E i, j \in DOMAIN Act(c).list : i # j /\ {i, j} \subseteq Named(c, n)}
    /\ UNCHANGED nftMinted

Answered(c) ==
    /\ nftPc[c] = "post" /\ nftTodo[c].at = "done"
    /\ Finish(c)
    /\ UNCHANGED <<nftStore, nftDag, nftPruned, nftLost, nftRaced, nftTorn, nftBound>>

\* Mutant of NftAnswer: mint_nft emits the event as well.
NftAnswerAlike(c) == Answered(c) /\ EmitBurn(c)

NftAnswer(c) ==
    /\ Answered(c)
    /\ IF nftVia[c] = "mint_nft" THEN UNCHANGED nftPay ELSE EmitBurn(c)

\* prune_old_blocks drops a block from memory; RocksDB keeps it, and nothing
\* on the path of a submission looks there.
NftPrune(b) ==
    /\ b \in nftDag /\ Cardinality(nftPruned) < MaxNftPruned
    /\ nftDag' = nftDag \ {b}
    /\ nftPruned' = nftPruned \cup {b}
    /\ UNCHANGED <<nftStore, nftLocal, nftLost, nftPay, nftRaced, nftTorn, nftBound>>

-----------------------------------------------------------------------------
(* The operations on RocksDB.                                              *)

At(c, step) == nftTodo[c].at = step
Token(c) == nftTodo[c].nft
NewOwner(c) == nftTodo[c].to
NextAccess(c, step) == nftTodo' = [nftTodo EXCEPT ![c].at = step]

\* apply_mint bails out when the token has an owner: the arm rejects the
\* block, mint_nft logs the error and answers "inserted" all the same.
CreateOnly(c) ==
    /\ At(c, "createOnly")
    /\ IF nftOwner[Token(c)] = NoOne
       THEN NextAccess(c, "getOwner") /\ UNCHANGED <<nftPc, nftBlk, nftVia, nftRead, nftList>>
       ELSE IF nftPc[c] = "apply" THEN Finish(c)
       ELSE /\ nftTodo' = [nftTodo EXCEPT ![c] = NoWork]
            /\ UNCHANGED <<nftPc, nftBlk, nftVia, nftRead, nftList>>
    /\ UNCHANGED <<nftStore, nftDag, nftGhost>>

\* set_owner writes the record first, delete cleans the list first.
GetOwner(c) ==
    /\ At(c, "getOwner")
    /\ NextAccess(c, IF NewOwner(c) = NoOne THEN "unlist" ELSE "putOwner")
    /\ nftRead' = [nftRead EXCEPT ![c] = nftOwner[Token(c)]]
    /\ UNCHANGED <<nftStore, nftDag, nftPc, nftBlk, nftVia, nftList, nftGhost>>

WriteOwner(c) ==
    /\ nftOwner' = [nftOwner EXCEPT ![Token(c)] = NewOwner(c)]
    /\ nftMinted' = [nftMinted EXCEPT ![Token(c)] =
         @ + IF Act(c).kind \in {"Mint", "Sealed"} THEN 1 ELSE 0]
    /\ UNCHANGED <<nftIndex, nftPointer, nftDag, nftPc, nftBlk, nftVia, nftRead, nftList,
                   nftPruned, nftLost, nftBurnt, nftPaid, nftTwice, nftRaced, nftTorn, nftBound>>

\* Mutant of PutOwner: the previous owner keeps the token in its list.
PutOwnerOnlyEnlists(c) == At(c, "putOwner") /\ NextAccess(c, "enlist") /\ WriteOwner(c)

PutOwner(c) == At(c, "putOwner") /\ NextAccess(c, "unlist") /\ WriteOwner(c)

\* remove_token_from_owner_list reads the previous owner's list; nothing to
\* do when there was none, or when the owner does not change.
AfterUnlist(c) == IF NewOwner(c) = NoOne THEN "delOwner" ELSE "enlist"

Unlist(c) ==
    /\ At(c, "unlist")
    /\ IF nftRead[c] \in {NoOne, NewOwner(c)}
       THEN NextAccess(c, AfterUnlist(c)) /\ UNCHANGED nftList
       ELSE /\ NextAccess(c, "putOldList")
            /\ nftList' = [nftList EXCEPT ![c] = nftIndex[nftRead[c]] \ {Token(c)}]
    /\ UNCHANGED <<nftStore, nftDag, nftPc, nftBlk, nftVia, nftRead, nftGhost>>

PutOldList(c) ==
    /\ At(c, "putOldList")
    /\ NextAccess(c, AfterUnlist(c))
    /\ nftIndex' = [nftIndex EXCEPT ![nftRead[c]] = nftList[c]]
    /\ UNCHANGED <<nftOwner, nftPointer, nftDag, nftPc, nftBlk, nftVia, nftRead, nftList, nftGhost>>

\* add_token_to_owner_list reads the new owner's list.
AfterEnlist(c) == IF SetsPointer(Act(c)) THEN "putPointer" ELSE "done"

Enlist(c) ==
    /\ At(c, "enlist")
    /\ IF nftRead[c] = NewOwner(c)
       THEN NextAccess(c, AfterEnlist(c)) /\ UNCHANGED nftList
       ELSE /\ NextAccess(c, "putNewList")
            /\ nftList' = [nftList EXCEPT ![c] = nftIndex[NewOwner(c)] \cup {Token(c)}]
    /\ UNCHANGED <<nftStore, nftDag, nftPc, nftBlk, nftVia, nftRead, nftGhost>>

PutNewList(c) ==
    /\ At(c, "putNewList")
    /\ NextAccess(c, AfterEnlist(c))
    /\ nftIndex' = [nftIndex EXCEPT ![NewOwner(c)] = nftList[c]]
    /\ UNCHANGED <<nftOwner, nftPointer, nftDag, nftPc, nftBlk, nftVia, nftRead, nftList, nftGhost>>

PutPointer(c) ==
    /\ At(c, "putPointer") /\ NextAccess(c, "done")
    /\ nftPointer' = [nftPointer EXCEPT ![Token(c)] = nftBlk[c]]
    /\ UNCHANGED <<nftOwner, nftIndex, nftDag, nftPc, nftBlk, nftVia, nftRead, nftList, nftGhost>>

DelPointer(c) ==
    /\ At(c, "delPointer") /\ NextAccess(c, "getOwner")
    /\ nftPointer' = [nftPointer EXCEPT ![Token(c)] = NoOne]
    /\ UNCHANGED <<nftOwner, nftIndex, nftDag, nftPc, nftBlk, nftVia, nftRead, nftList, nftGhost>>

\* delete drops the record last; then the next token of the batch.
DelOwner(c) ==
    /\ At(c, "delOwner")
    /\ nftTodo' = [nftTodo EXCEPT ![c] = ApplyBurn(@.left)]
    /\ nftOwner' = [nftOwner EXCEPT ![Token(c)] = NoOne]
    /\ UNCHANGED <<nftIndex, nftPointer, nftDag, nftPc, nftBlk, nftVia, nftRead, nftList, nftGhost>>

-----------------------------------------------------------------------------
(* An access that fails, and an exit.                                      *)

\* set_owner has written, or delete has begun on a token with an owner.
Started(c) ==
    IF NewOwner(c) = NoOne THEN ~At(c, "delPointer") /\ nftOwner[Token(c)] # NoOne
    ELSE ~(nftTodo[c].at \in {"createOnly", "getOwner", "putOwner"})

Torn(c) == IF ~At(c, "done") /\ Started(c) THEN {Token(c)} ELSE {}

\* The arm answers Rejected and the block is not inserted; after the insertion
\* the handler only logs and goes on.  What was written stays.
NftFails(c) ==
    /\ nftPc[c] = "arm" \/ ~At(c, "done")
    /\ nftTroubles < MaxNftTroubles /\ nftTroubles' = nftTroubles + 1
    /\ nftTorn' = nftTorn \cup Torn(c)
    /\ IF nftPc[c] = "post"
       THEN /\ nftTodo' = [nftTodo EXCEPT ![c] = NoWork]
            /\ UNCHANGED <<nftPc, nftBlk, nftVia, nftRead, nftList>>
       ELSE Finish(c)
    /\ UNCHANGED <<nftStore, nftDag, nftPruned, nftLost, nftPay, nftRaced, nftCalls>>

\* Every call is cut.  The window is loaded from RocksDB again, without the
\* blocks that were acknowledged and not yet stored.
NftExit ==
    /\ nftTroubles < MaxNftTroubles /\ nftTroubles' = nftTroubles + 1
    /\ nftTorn' = nftTorn \cup UNION {Torn(c) : c \in NftCall}
    /\ nftPc' = [c \in NftCall |-> "idle"]
    /\ nftBlk' = [c \in NftCall |-> NoOne]
    /\ nftTodo' = [c \in NftCall |-> NoWork]
    /\ nftRead' = [c \in NftCall |-> NoOne]
    /\ nftList' = [c \in NftCall |-> {}]
    /\ \E lost \in SUBSET (nftDag \cup nftPruned) :
         /\ nftDag' = (nftDag \cup nftPruned) \ lost /\ nftPruned' = {}
         /\ nftLost' = nftLost \cup lost
    /\ UNCHANGED <<nftStore, nftVia, nftPay, nftRaced, nftCalls>>

NftWorks ==
    \/ \E c \in NftCall :
        \/ \E b \in NftBlock :
             \/ SubmitNftBlock(c, b) \/ TransferNft(c, b) \/ MintNft(c, b)
             \/ BurnNft(c, b) \/ BurnNftSimple(c, b) \/ BurnNftBatchSimple(c, b)
        \/ NftArm(c) \/ NftReject(c) \/ NftInsert(c) \/ NftAnswer(c)
        \/ CreateOnly(c) \/ GetOwner(c) \/ PutOwner(c) \/ DelOwner(c)
        \/ Unlist(c) \/ PutOldList(c) \/ Enlist(c) \/ PutNewList(c)
        \/ PutPointer(c) \/ DelPointer(c)
    \/ \E b \in nftDag : NftPrune(b)

NftTrouble == (\E c \in NftCall : NftFails(c) \/ NftUnsent(c)) \/ NftExit

NftNext == NftWorks \/ NftTrouble

NftSpec == NftInit /\ [][NftNext]_nftVars

-----------------------------------------------------------------------------
Busy == UNION {Footprint(nftBlk[c]) : c \in InFlight}
Settled == (Nft \cup Holder) \ (nftRaced \cup Busy)

\* The two answers agree: an address lists exactly the tokens whose owner it
\* is, and a token has a metadata pointer exactly when it has an owner, for
\* every address and token that no two overlapping calls ever touched.  The
\* lists are read and written back without a lock (nft_storage.rs 130-174), and
\* a failure or an exit between two puts of set_owner or delete is never
\* repaired: of a token so torn only this is left, that no pointer outlives
\* its owner.
NftIndexExact ==
    /\ \A h \in Holder \cap Settled :
         NftsByOwner(h) \ (nftRaced \cup nftTorn)
            = {n \in Nft : GetNft(n).owner = h} \ (nftRaced \cup nftTorn)
    /\ \A n \in Nft \cap Settled :
         /\ GetNft(n).block # NoOne => GetNft(n).owner # NoOne
         /\ GetNft(n).owner # NoOne => GetNft(n).block # NoOne \/ n \in nftTorn

\* A burn pays once per mint: the burn events of a token never outnumber its
\* mints, unless two calls overlapped on it, also when an access failed or the
\* process exited half way.  Neither do its refunds, unless a batch named it
\* more than once: token_ids is never deduplicated, and every repetition is
\* refunded (listener.rs 72).
NftBurnsPaidOnce ==
    \A n \in Nft \ nftRaced :
        /\ nftBurnt[n] <= nftMinted[n]
        /\ n \notin nftTwice => nftPaid[n] <= nftMinted[n]

\* Both: what a holder is shown and what a burn pays, with handlers, peers and
\* retries submitting the same actions, failing and being cut.
NftsExact == NftIndexExact /\ NftBurnsPaidOnce
=============================================================================
