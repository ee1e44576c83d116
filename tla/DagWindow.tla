----------------------------- MODULE DagWindow -----------------------------
(***************************************************************************)
(* The DAG of one ledger in memory (pms-core/concurrent_dag) and what the  *)
(* store keeps of its shape: the blocks by time, the tips, the children    *)
(* counts and the Bloom filter of recent blocks (pms-storage/rocks_store). *)
(*                                                                         *)
(* insert_block and prune_oldest touch five concurrent maps one after the  *)
(* other; no lock spans two of them.  A thread's accesses are a queue of   *)
(* operations, one step each.  The background consumer writes the inserted *)
(* blocks in batches; one batch has one timestamp.                         *)
(***************************************************************************)
EXTENDS Integers, Sequences, FiniteSets, FiniteSetsExt, SequencesExt, TLC

CONSTANTS
    DagBlock, Root,  \* block ids, the genesis block
    IdRank,          \* the order of the ids as strings
    DagThread,
    MaxWindow,       \* max_blocks
    PruneEvery,      \* PRUNE_CHECK_INTERVAL
    TipLimit,        \* tip_limit of the store
    TrimEvery,       \* TRIM_TIPS_INTERVAL
    BloomCap,        \* BLOOM_CAPACITY_PER_SEGMENT
    WarmLimit,       \* BLOOM_WARMUP_LIMIT
    MaxParents, MaxDagBatch, \* parents of a block, blocks of a batch
    MaxDagCalls, MaxDagBoots, MaxStoreFails \* bounds

ASSUME DagAssumption ==
    /\ Root \in DagBlock
    /\ \A b \in DagBlock : IdRank[b] \in Nat
    /\ \A b, d \in DagBlock : IdRank[b] = IdRank[d] => b = d
    /\ {MaxWindow, MaxDagCalls, MaxDagBoots, MaxStoreFails} \subseteq Nat
    /\ {PruneEvery, TipLimit, TrimEvery, BloomCap, WarmLimit, MaxParents, MaxDagBatch} \subseteq Nat \ {0}

NoEntry == -1

VARIABLES
    parentsOf,  \* the parents of every block that was ever received
    winBlocks, winCount, winKids, winTips, winOrder, winInserts,
    thTodo, thBlk,
    winQueue,   \* inserted blocks on their way to the store
    dbTime,     \* by_time: batch number of a stored block
    dbTips, dbCount, tipEstimate,
    persistCount, dbWrites, \* batches since the start of the process, and in all
    bloomFront, bloomBack,
    dbHeld, dbFails, \* size of the batch that is retried, or 0; failures so far
    unfiltered, \* stored blocks that a failure kept out of the filter
    rewritten,  \* blocks stored a second time, with their age
    dagAgain,   \* blocks that were received more than once
    prunesMet,  \* two prunes overlapped
    dagCalls, dagBoots

winVars  == <<winBlocks, winCount, winKids, winTips, winOrder, winInserts>>
dbVars   == <<dbTime, dbTips, dbCount, tipEstimate, persistCount, dbWrites, bloomFront, bloomBack,
              dbHeld, dbFails, unfiltered, rewritten>>
dagGhost == <<dagAgain, prunesMet, dagCalls, dagBoots>>
dagVars  == <<parentsOf, winVars, thTodo, thBlk, winQueue, dbVars, dagGhost>>

DagInit ==
    /\ parentsOf = (Root :> {})
    /\ winBlocks = {Root} /\ winTips = {Root} /\ winOrder = <<Root>> /\ winInserts = 0
    /\ winCount = [b \in DagBlock |-> IF b = Root THEN 0 ELSE NoEntry]
    /\ winKids = [b \in DagBlock |-> {}]
    /\ thTodo = [t \in DagThread |-> <<>>]
    /\ thBlk = [t \in DagThread |-> Root]
    /\ winQueue = <<>>
    /\ dbTime = (Root :> 0) /\ dbTips = {Root} /\ dbCount = [b \in DagBlock |-> 0]
    /\ tipEstimate = 1 /\ persistCount = 1 /\ dbWrites = 1
    /\ bloomFront = <<Root>> /\ bloomBack = <<>> /\ rewritten = {}
    /\ dbHeld = 0 /\ dbFails = 0 /\ unfiltered = {}
    /\ dagAgain = {} /\ prunesMet = FALSE /\ dagCalls = 0 /\ dagBoots = 0

-----------------------------------------------------------------------------
(* Reading the DAG.                                                        *)

\* find_tips and select_parents: some of the tips; any block when a prune or
\* an insertion left none for the moment.
SelectParents ==
    LET tips == IF winTips = {} THEN winBlocks ELSE winTips
    IN {ps \in SUBSET tips : Cardinality(ps) \in 1..MaxParents}

\* get_children_count: 0 for a block without an entry.
ChildrenCount(b) == IF winCount[b] = NoEntry THEN 0 ELSE winCount[b]

Stored == DOMAIN dbTime
Running == {t \in DagThread : thTodo[t] # <<>>}

-----------------------------------------------------------------------------
(* insert_block as the operations it performs.                             *)

MapOp(o, b, p) == [op |-> o, blk |-> b, on |-> p]

\* children_count and children_index are two maps; no step reads both, so one
\* step updates them.
Adopt(b, p) == << MapOp("count", b, p), MapOp("untip", b, p) >>

InsertOps(b, ps) ==
    FlattenSeq([i \in 1..Cardinality(ps) |-> Adopt(b, SetToSeq(ps)[i])])
      \o << MapOp("own", b, b), MapOp("tip", b, b), MapOp("block", b, b), MapOp("order", b, b) >>

Begins(t, b, ps) ==
    /\ thTodo[t] = <<>> /\ dagCalls < MaxDagCalls
    /\ dagCalls' = dagCalls + 1
    /\ parentsOf' = [d \in DOMAIN parentsOf \cup {b} |-> IF d = b THEN ps ELSE parentsOf[d]]
    /\ thTodo' = [thTodo EXCEPT ![t] = InsertOps(b, ps)]
    /\ thBlk' = [thBlk EXCEPT ![t] = b]
    /\ dagAgain' = dagAgain \cup ({b} \cap DOMAIN parentsOf)
    /\ UNCHANGED <<winVars, winQueue, dbVars, prunesMet, dagBoots>>

\* A block forged here builds on the tips.
ForgeBlock(t, b) ==
    /\ b \notin DOMAIN parentsOf
    /\ \E ps \in SelectParents : Begins(t, b, ps)

\* A block from a client or a peer names any known blocks, and may arrive
\* again; one that is in the window is turned away.
ReceiveBlock(t, b) ==
    /\ b \notin winBlocks
    /\ \/ b \in DOMAIN parentsOf \ {Root} /\ Begins(t, b, parentsOf[b])
       \/ /\ b \notin DOMAIN parentsOf
          /\ \E ps \in SUBSET (winBlocks \cup Stored) :
               Cardinality(ps) \in 1..MaxParents /\ Begins(t, b, ps)

Turn(t, o) == thTodo[t] # <<>> /\ Head(thTodo[t]).op = o
This(t) == Head(thTodo[t])
Done(t) == thTodo' = [thTodo EXCEPT ![t] = Tail(@)] /\ UNCHANGED <<parentsOf, thBlk, dbVars, dagGhost>>

CountChild(t) ==
    /\ Turn(t, "count") /\ Done(t)
    /\ winCount' = [winCount EXCEPT ![This(t).on] = ChildrenCount(This(t).on) + 1]
    /\ winKids' = [winKids EXCEPT ![This(t).on] = @ \cup {This(t).blk}]
    /\ UNCHANGED <<winBlocks, winTips, winOrder, winInserts, winQueue>>

UntipParent(t) ==
    /\ Turn(t, "untip") /\ Done(t)
    /\ winTips' = winTips \ {This(t).on}
    /\ UNCHANGED <<winBlocks, winCount, winKids, winOrder, winInserts, winQueue>>

OwnCount(t) ==
    /\ Turn(t, "own") /\ Done(t)
    /\ winCount' = [winCount EXCEPT ![This(t).blk] = ChildrenCount(This(t).blk)]
    /\ UNCHANGED <<winBlocks, winKids, winTips, winOrder, winInserts, winQueue>>

AddTip(t) ==
    /\ Turn(t, "tip") /\ Done(t)
    /\ winTips' = winTips \cup {This(t).blk}
    /\ UNCHANGED <<winBlocks, winCount, winKids, winOrder, winInserts, winQueue>>

AddBlock(t) ==
    /\ Turn(t, "block") /\ Done(t)
    /\ winBlocks' = winBlocks \cup {This(t).blk}
    /\ UNCHANGED <<winCount, winKids, winTips, winOrder, winInserts, winQueue>>

\* The insertion order, the amortised prune, then the snapshot of the
\* parents' counts that the caller sends to the consumer with the block.
PushOrder(t) ==
    /\ Turn(t, "order")
    /\ winOrder' = Append(winOrder, thBlk[t])
    /\ winInserts' = winInserts + 1
    /\ thTodo' = [thTodo EXCEPT ![t] =
         (IF MaxWindow > 0 /\ winInserts % PruneEvery = 0 THEN << MapOp("prune", thBlk[t], Root) >> ELSE <<>>)
           \o << MapOp("send", thBlk[t], Root) >>]
    /\ UNCHANGED <<parentsOf, thBlk, winBlocks, winCount, winKids, winTips, winQueue, dbVars, dagGhost>>

SendToConsumer(t) ==
    /\ Turn(t, "send") /\ Done(t)
    /\ winQueue' = Append(winQueue,
         [blk |-> thBlk[t], counts |-> [p \in parentsOf[thBlk[t]] |-> ChildrenCount(p)]])
    /\ UNCHANGED winVars

-----------------------------------------------------------------------------
(* prune_oldest: the victims are chosen under the lock of the order, from  *)
(* the oldest on; a tip is put back while other blocks suffice.            *)

Excess == IF Cardinality(winBlocks) > MaxWindow THEN Cardinality(winBlocks) - MaxWindow ELSE 0

TipBudget ==
    LET others == Max({Cardinality(winBlocks) - Cardinality(winTips), 0})
        deficit == Max({Excess - others, 0})
    IN Min({deficit, Max({Cardinality(winTips) - 1, 0})})

\* Mutant: the oldest blocks go, tips or not.
VictimsOldest ==
    LET live == SelectSeq(winOrder, LAMBDA b : b \in winBlocks)
        n == Min({Excess, Len(live)})
    IN [out |-> SubSeq(live, 1, n), back |-> <<>>, rest |-> SubSeq(live, n + 1, Len(live))]

Victims ==
    LET pick(acc, b) ==
          IF Len(acc.out) = Excess THEN [acc EXCEPT !.rest = Append(@, b)]
          ELSE IF b \notin winBlocks THEN acc
          ELSE IF b \in winTips /\ acc.budget = 0 THEN [acc EXCEPT !.back = Append(@, b)]
          ELSE [acc EXCEPT !.out = Append(@, b),
                           !.budget = IF b \in winTips THEN @ - 1 ELSE @]
    IN FoldLeft(pick, [out |-> <<>>, back |-> <<>>, rest |-> <<>>, budget |-> TipBudget], winOrder)

Discard(b, victim) ==
    << MapOp("dropBlock", b, victim), MapOp("dropCount", b, victim), MapOp("dropTip", b, victim) >>

PruneOldest(t) ==
    /\ Turn(t, "prune")
    /\ LET v == Victims IN
       /\ winOrder' = v.rest \o v.back
       /\ thTodo' = [thTodo EXCEPT ![t] =
            FlattenSeq([i \in 1..Len(v.out) |-> Discard(thBlk[t], v.out[i])]) \o Tail(@)]
       /\ prunesMet' = (prunesMet \/ \E u \in Running \ {t} : \E i \in DOMAIN thTodo[u] :
                                        thTodo[u][i].op \in {"dropBlock", "dropTip"})
    /\ UNCHANGED <<parentsOf, thBlk, winBlocks, winCount, winKids, winTips, winInserts, winQueue, dbVars,
                   dagAgain, dagCalls, dagBoots>>

DropBlock(t) ==
    /\ Turn(t, "dropBlock") /\ Done(t)
    /\ winBlocks' = winBlocks \ {This(t).on}
    /\ UNCHANGED <<winCount, winKids, winTips, winOrder, winInserts, winQueue>>

DropCount(t) ==
    /\ Turn(t, "dropCount") /\ Done(t)
    /\ winCount' = [winCount EXCEPT ![This(t).on] = NoEntry]
    /\ winKids' = [winKids EXCEPT ![This(t).on] = {}]
    /\ UNCHANGED <<winBlocks, winTips, winOrder, winInserts, winQueue>>

\* Mutant: a pruned block stays among the tips.
DropTipNot(t) == Turn(t, "dropTip") /\ Done(t) /\ UNCHANGED <<winVars, winQueue>>

DropTip(t) ==
    /\ Turn(t, "dropTip") /\ Done(t)
    /\ winTips' = winTips \ {This(t).on}
    /\ UNCHANGED <<winBlocks, winCount, winKids, winOrder, winInserts, winQueue>>

-----------------------------------------------------------------------------
(* The store: append_blocks_batch with the Bloom filter, and trim_tips.    *)

ByTime == SetToSortSeq(Stored, LAMBDA b, d :
            dbTime[b] < dbTime[d] \/ (dbTime[b] = dbTime[d] /\ IdRank[b] < IdRank[d]))
Newest(n) == IF Len(ByTime) > n THEN SubSeq(ByTime, Len(ByTime) - n + 1, Len(ByTime)) ELSE ByTime

\* The blocks stored with b or after it.
Age(b) == Cardinality({d \in Stored \ {b} : dbTime[d] >= dbTime[b]})

MaybeContains(b) == b \in ToSet(bloomFront) \cup ToSet(bloomBack)

\* Mutant: the id that makes the segments rotate is not inserted.
BloomRotateOnly(front, back, ids) ==
    FoldLeft(LAMBDA f, b : IF Len(f.front) >= BloomCap
                           THEN [front |-> <<>>, back |-> f.front]
                           ELSE [f EXCEPT !.front = Append(@, b)],
             [front |-> front, back |-> back], ids)

\* RecentBlocksBloom::insert of several ids: a full front becomes the back.
\* (Hash collisions, a "maybe" for a block never seen, only cost a lookup.)
BloomInsert(front, back, ids) ==
    FoldLeft(LAMBDA f, b : IF Len(f.front) >= BloomCap
                           THEN [front |-> <<b>>, back |-> f.front]
                           ELSE [f EXCEPT !.front = Append(@, b)],
             [front |-> front, back |-> back], ids)

\* Mutant: one tip too few is kept.
TrimTipsShort(tips, count, time) ==
    LET real == {b \in tips : count[b] = 0}
        newer(b) == {d \in real : time[d] > time[b] \/ (time[d] = time[b] /\ IdRank[d] < IdRank[b])}
    IN {b \in real : Cardinality(newer(b)) + 1 < Max({TipLimit, 1})}

\* trim_tips: skipped while the estimate is under the limit; otherwise the
\* tips with children go, and of the others all but the newest TipLimit.
TrimTips(tips, count, time) ==
    LET real == {b \in tips : count[b] = 0}
        ahead(b) == {d \in real : time[d] > time[b] \/ (time[d] = time[b] /\ IdRank[d] < IdRank[b])}
    IN {b \in real : Cardinality(ahead(b)) < Max({TipLimit, 1})}

\* tip_count_estimate is an unsigned atomic: below zero it wraps to a number
\* over any limit.
OverLimit(estimate) == estimate < 0 \/ estimate > TipLimit

\* The consumer takes what is there; a batch that failed is tried again as it is.
Takes(n) == n \in 1..Len(winQueue) /\ n <= MaxDagBatch /\ dbHeld \in {0, n}

\* A block that the filter may have is looked up; one that cannot be read is new.
Fresh(n, unread) ==
    SelectSeq(SubSeq(winQueue, 1, n),
              LAMBDA j : ~(MaybeContains(j.blk) /\ j.blk \in Stored \ unread))
Ids(n, unread) == [i \in DOMAIN Fresh(n, unread) |-> Fresh(n, unread)[i].blk]

TimeWith(ids) ==
    [b \in Stored \cup ToSet(ids) |-> IF b \in ToSet(ids) THEN dbWrites ELSE dbTime[b]]
CountWith(fresh) ==
    LET sent(p) == {fresh[i].counts[p] : i \in {k \in DOMAIN fresh : p \in DOMAIN fresh[k].counts}}
    IN [b \in DagBlock |-> IF sent(b) = {} THEN dbCount[b] ELSE Max(sent(b))]
TipsWith(ids) == FoldLeft(LAMBDA s, b : (s \cup {b}) \ parentsOf[b], dbTips, ids)
EstimateWith(ids) == FoldLeft(LAMBDA e, b : e + 1 - Cardinality(parentsOf[b]), tipEstimate, ids)

\* maybe_trim_tips goes beyond the estimate.
TrimsNow(ids) == ids # <<>> /\ persistCount % TrimEvery = 0 /\ OverLimit(EstimateWith(ids))

\* db.write of the batch.
WriteBatch(n, unread) ==
    LET ids == Ids(n, unread)
        unseen == unfiltered \cup unread
    IN /\ dbTime' = TimeWith(ids) /\ dbCount' = CountWith(Fresh(n, unread))
       /\ dbWrites' = IF ids = <<>> THEN dbWrites ELSE dbWrites + 1
       /\ persistCount' = IF ids = <<>> THEN persistCount ELSE persistCount + 1
       /\ rewritten' = rewritten \cup {[blk |-> b, age |-> Age(b), unseen |-> b \in unseen] :
                                       b \in ToSet(ids) \cap Stored}

Appends(n, unread) ==
    /\ Takes(n) /\ WriteBatch(n, unread)
    /\ LET ids   == Ids(n, unread)
           tips  == TrimTips(TipsWith(ids), dbCount', dbTime')
           bloom == BloomInsert(bloomFront, bloomBack, ids)
       IN /\ dbTips' = IF TrimsNow(ids) THEN tips ELSE TipsWith(ids)
          /\ tipEstimate' = IF TrimsNow(ids) THEN Cardinality(tips) ELSE EstimateWith(ids)
          /\ bloomFront' = bloom.front /\ bloomBack' = bloom.back
          /\ unfiltered' = unfiltered \ ToSet(ids)
    /\ winQueue' = SubSeq(winQueue, n + 1, Len(winQueue)) /\ dbHeld' = 0
    /\ UNCHANGED <<parentsOf, winVars, thTodo, thBlk, dagGhost>>

AppendBatch(n) == Appends(n, {}) /\ UNCHANGED dbFails

StoreFails == dbFails < MaxStoreFails /\ dbFails' = dbFails + 1

\* The look-up of a block in the batch fails, and the batch goes on.
LookupFails(n) ==
    /\ Takes(n) /\ StoreFails
    /\ \E b \in {winQueue[i].blk : i \in 1..n} \cap Stored : MaybeContains(b) /\ Appends(n, {b})

BatchFails(n) ==
    /\ Takes(n) /\ Ids(n, {}) # <<>> /\ StoreFails
    /\ dbHeld' = n
    /\ UNCHANGED <<parentsOf, winVars, thTodo, thBlk, winQueue, bloomFront, bloomBack, dagGhost>>

\* db.write failed, after the tips had been counted.
WriteFails(n) ==
    /\ BatchFails(n)
    /\ tipEstimate' = EstimateWith(Ids(n, {}))
    /\ UNCHANGED <<dbTime, dbTips, dbCount, persistCount, dbWrites, unfiltered, rewritten>>

\* The batch is on disk, trim_tips fails while it reads the tips or when it writes
\* them, and the ids never reach the filter.
TrimFails(n) ==
    LET ids == Ids(n, {}) IN
    /\ BatchFails(n) /\ TrimsNow(ids) /\ WriteBatch(n, {})
    /\ dbTips' = TipsWith(ids)
    /\ tipEstimate' \in {EstimateWith(ids), Cardinality(dbTips')}
    /\ unfiltered' = unfiltered \cup ToSet(ids)

-----------------------------------------------------------------------------
(* A restart: bootstrap_from_store_with_capacity and the warm-up of the    *)
(* filter.  The newest blocks are loaded by time, then by id.              *)

BootOrder == IF MaxWindow > 0 THEN Newest(MaxWindow) ELSE ByTime

\* bootstrap_insert in that order: every block starts as a tip.
BootTips == FoldLeft(LAMBDA tips, b : (tips \ parentsOf[b]) \cup {b}, {}, BootOrder)

\* cleanup_ghost_entries: counts and children of blocks that are not loaded go.
BootKids == [b \in DagBlock |-> IF b \in ToSet(BootOrder) THEN {d \in ToSet(BootOrder) : b \in parentsOf[d]} ELSE {}]

Reboot ==
    /\ dagBoots < MaxDagBoots /\ dagBoots' = dagBoots + 1
    /\ winBlocks' = ToSet(BootOrder)
    /\ winTips' = BootTips \cap ToSet(BootOrder)
    /\ winOrder' = BootOrder
    /\ winKids' = BootKids
    /\ winCount' = [b \in DagBlock |-> IF b \in ToSet(BootOrder) THEN Cardinality(BootKids[b]) ELSE NoEntry]
    /\ winInserts' = 0
    /\ thTodo' = [t \in DagThread |-> <<>>]
    /\ winQueue' = <<>>
    /\ tipEstimate' = 0 /\ persistCount' = 0 /\ dbHeld' = 0 /\ unfiltered' = {}
    /\ LET warm == BloomInsert(<<>>, <<>>, Reverse(Newest(WarmLimit)))
       IN bloomFront' = warm.front /\ bloomBack' = warm.back
    /\ LET known == Stored \cup UNION {parentsOf[b] : b \in Stored}
       IN parentsOf' = [b \in known |-> parentsOf[b]] /\ dagAgain' = dagAgain \cap known
    /\ UNCHANGED <<thBlk, dbTime, dbTips, dbCount, dbWrites, dbFails, rewritten, prunesMet, dagCalls>>

DagNext ==
    \/ \E t \in DagThread :
         \/ \E b \in DagBlock : ForgeBlock(t, b) \/ ReceiveBlock(t, b)
         \/ CountChild(t) \/ UntipParent(t) \/ OwnCount(t)
         \/ AddTip(t) \/ AddBlock(t) \/ PushOrder(t) \/ SendToConsumer(t)
         \/ PruneOldest(t) \/ DropBlock(t) \/ DropCount(t) \/ DropTip(t)
    \/ \E n \in 1..MaxDagBatch : AppendBatch(n) \/ LookupFails(n) \/ WriteFails(n) \/ TrimFails(n)
    \/ Reboot

-----------------------------------------------------------------------------
\* The blocks that a crash has not lost.
Kept == winBlocks \cup Stored \cup {winQueue[i].blk : i \in DOMAIN winQueue}
Childless(blocks) == {b \in blocks : \A d \in Kept : b \notin parentsOf[d]}

\* A child in its parent's batch has its timestamp, and one sent by a faster
\* thread has an earlier one.
StoredAfterChild(b) == \E d \in Stored : b \in Stored /\ b \in parentsOf[d] /\ dbTime[d] <= dbTime[b]

\* When no insertion runs, the tips of the window are exactly its blocks
\* without children, however insertions and prunes interleaved: the maps are
\* updated one by one (core.rs 113-146).  Two kinds of block are excepted: one
\* received again after it was pruned or lost, and after a restart a parent
\* stored no earlier than its child, which may be loaded after the child.
FrontierExact ==
    Running = {} => \A b \in DagBlock \ dagAgain :
        /\ b \in Childless(winBlocks) => b \in winTips
        /\ b \in winTips => b \in winBlocks /\ (b \in Childless(winBlocks) \/ StoredAfterChild(b))

\* "always keeping >= 1 tip so fee distribution and parent selection never
\* see an empty tip set" (pruning.rs 79-80): true of any insertions running
\* together, and of prunes that do not overlap.
TipSurvives == Running = {} /\ ~prunesMet => winTips # {}

\* The store is never left without a tip, through batches that hold a child
\* before its parent, trims by an estimate that drifts and by counts that a
\* prune has reset, blocks stored twice and restarts (maintenance.rs 116-209).
StoreKeepsTip == dbTips # {}

\* The frontier the node builds on, in memory and on disk: the tips are right
\* when the window is at rest, and neither side ever loses its last one.
FrontierSound == FrontierExact /\ TipSurvives /\ StoreKeepsTip

\* The filter forgets: a block is stored a second time only when at least WarmLimit
\* others were stored with it or after it (recent_blocks_bloom.rs 11-27), as long as
\* copies of a block in one batch, which take a place each, do not fill a segment.
\* Two failures of the store are excepted: the trim of the tips after a batch was
\* written, which is then tried again with a filter that has not seen it, and the
\* look-up that is to confirm what the filter says (dag_storage_impl.rs 759-767,
\* 904-915).
RecentDeduplicated == \A r \in rewritten : r.age >= WarmLimit \/ r.unseen

=============================================================================
