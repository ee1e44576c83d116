--------------------------- MODULE PersistPipeline ---------------------------
(***************************************************************************)
(* The write path of one ledger: concurrent calls of                       *)
(* do_persist_block_internal (pms-core/net_adapter/persist.rs) update the  *)
(* in-memory DAG and UTXO set, answer the caller, and hand the block to    *)
(* the single consumer of background_persist.rs, which writes batches to   *)
(* RocksDB (append_blocks_batch).  A process exit loses everything that is *)
(* not in RocksDB; the bootstrap rebuilds the memory from it.              *)
(*                                                                         *)
(* A call is a Task.  One action is one access to shared state: tokio runs *)
(* the calls on several threads and no lock spans two of these accesses.   *)
(* The RAM set of claimed outpoints and the UTXO cache are unbounded here  *)
(* (max_spent_outpoints = max_utxos = 0).                                 *)
(***************************************************************************)
EXTENDS Integers, Sequences, FiniteSets

CONSTANTS
    Block,      \* block ids
    Genesis,    \* stands for the history already stored at the first boot
    ParentOf,   \* the single parent of a block (single-writer mode)
    Outpoint,   \* (txid, index) pairs
    Spends,     \* UtxoDelta.spend of a block
    Creates,    \* UtxoDelta.create of a block
    Key,        \* anti-replay keys: a bridge lock id, or an (asset, mint nonce)
    NoKey,      \* for a block that consumes no such key
    KeyOf,      \* the key a BridgeMint or CustodialMint block consumes
    Task,       \* concurrent calls of do_persist_block_internal
    QueueCap,   \* capacity of the persist channel
    MaxBatch,   \* MAX_BATCH_SIZE
    MaxAttempts,\* 1 + the number of retry delays
    MaxBlocks,  \* max_dag_blocks, 0 for unlimited
    MaxExits,   \* bound: process exits in a behaviour
    MaxDrops,   \* bound: calls dropped by the request deadline
    MaxSubmits  \* bound: submissions in a behaviour

ASSUME GraphAssumption ==
    /\ IsFiniteSet(Block)
    /\ Genesis \in Block
    /\ ParentOf \in [Block \ {Genesis} -> Block]

ASSUME DeltaAssumption ==
    /\ Spends \in [Block -> SUBSET Outpoint]
    /\ Creates \in [Block -> SUBSET Outpoint]
    /\ Spends[Genesis] = {}

\* An outpoint names the transaction that creates it, which a block other than
\* its own carries when it is spent.
ASSUME OutpointAssumption ==
    /\ \A b, c \in Block : b # c => Creates[b] \cap Creates[c] = {}
    /\ \A b \in Block : Spends[b] \cap Creates[b] = {}

\* BridgeMint and CustodialMint deltas create outputs and spend nothing.
ASSUME KeyAssumption ==
    /\ NoKey \notin Key
    /\ KeyOf \in [Block -> Key \cup {NoKey}]
    /\ KeyOf[Genesis] = NoKey
    /\ \A b \in Block : KeyOf[b] # NoKey => Spends[b] = {}

ASSUME BoundAssumption ==
    /\ QueueCap \in Nat \ {0}
    /\ MaxBatch \in Nat \ {0}
    /\ MaxAttempts \in Nat \ {0}
    /\ MaxBlocks \in Nat
    /\ MaxExits \in Nat
    /\ MaxDrops \in Nat
    /\ MaxSubmits \in Nat

VARIABLES
    \* ConcurrentDag and ShardedUtxoSet
    dag,        \* blocks
    childCount, \* children_count
    utxo,       \* cached unspent outputs
    spent,      \* spent_outpoints
    ramKeys,    \* consumed_bridge_locks and consumed_custodial_mints
    \* the calls in progress
    pc, blk, todo, held, snap, reply,
    \* the persist channel and its consumer
    queue, batch, attempts, alive,
    \* RocksDB
    dbBlock, dbUtxo, dbSpent, dbKeys, dbCount,
    \* what the callers were told and the delta applications, since the boot
    acked, applied,
    \* exits of the process: how the last one happened, what it lost
    exits, exitKind, lost,
    \* dropped calls: how many, the claims and the blocks they left in memory
    drops, stuck, forgotten,
    submits

ram  == <<dag, childCount, utxo, spent, ramKeys>>
call == <<pc, blk, todo, held, snap, reply>>
pipe == <<queue, batch, attempts, alive>>
db   == <<dbBlock, dbUtxo, dbSpent, dbKeys, dbCount>>
boot == <<acked, applied>>
proc == <<exits, exitKind, lost, drops, stuck, forgotten>>
vars == <<ram, call, pipe, db, boot, proc, submits>>

-----------------------------------------------------------------------------
Steps == {"idle", "validate", "key", "dedup", "claimKey", "claim", "rollback",
          "apply", "edges", "insert", "snapshot", "send"}
\* The steps of a call that owns the key of its block, and those of a call
\* whose delta is applied.
Owning  == {"claim", "rollback", "apply", "edges", "insert", "snapshot", "send"}
Applied == {"edges", "insert", "snapshot", "send"}

Replies == {"none", "Inserted", "AlreadyExists", "Rejected", "Error", "Timeout"}

Job == [block : Block, count : Nat]

TypeOK ==
    /\ dag \subseteq Block
    /\ childCount \in [Block -> Nat]
    /\ utxo \subseteq Outpoint
    /\ spent \subseteq Outpoint
    /\ ramKeys \subseteq Key
    /\ pc \in [Task -> Steps]
    /\ blk \in [Task -> Block]
    /\ todo \in [Task -> SUBSET Outpoint]
    /\ held \in [Task -> SUBSET Outpoint]
    /\ snap \in [Task -> Nat]
    /\ reply \in [Task -> Replies]
    /\ queue \in Seq(Job)
    /\ batch \in Seq(Job)
    /\ attempts \in Nat
    /\ alive \in BOOLEAN
    /\ dbBlock \subseteq Block
    /\ dbUtxo \subseteq Outpoint
    /\ dbSpent \subseteq Outpoint
    /\ dbKeys \subseteq Key
    /\ dbCount \in [Block -> Nat]
    /\ acked \subseteq Block
    /\ applied \in [Block -> Nat]
    /\ exits \in Nat
    /\ exitKind \in {"none", "crash", "drained"}
    /\ lost \subseteq Block
    /\ drops \in Nat
    /\ stuck \subseteq Outpoint
    /\ forgotten \subseteq Block
    /\ submits \in Nat

Init ==
    /\ dag = {Genesis}
    /\ childCount = [b \in Block |-> 0]
    /\ utxo = Creates[Genesis]
    /\ spent = {}
    /\ ramKeys = {}
    /\ pc = [t \in Task |-> "idle"]
    /\ blk = [t \in Task |-> Genesis]
    /\ todo = [t \in Task |-> {}]
    /\ held = [t \in Task |-> {}]
    /\ snap = [t \in Task |-> 0]
    /\ reply = [t \in Task |-> "none"]
    /\ queue = <<>>
    /\ batch = <<>>
    /\ attempts = 0
    /\ alive = TRUE
    /\ dbBlock = {Genesis}
    /\ dbUtxo = Creates[Genesis]
    /\ dbSpent = {}
    /\ dbKeys = {}
    /\ dbCount = [b \in Block |-> 0]
    /\ acked = {}
    /\ applied = [b \in Block |-> 0]
    /\ exits = 0
    /\ exitKind = "none"
    /\ lost = {}
    /\ drops = 0
    /\ stuck = {}
    /\ forgotten = {}
    /\ submits = 0

-----------------------------------------------------------------------------
(* Steps of a call.                                                        *)

Goto(t, step) == pc' = [pc EXCEPT ![t] = step]

\* The call returns: nothing of it is left but what it told its caller.
Return(t, r) ==
    /\ Goto(t, "idle")
    /\ reply' = [reply EXCEPT ![t] = r]
    /\ todo' = [todo EXCEPT ![t] = {}]
    /\ held' = [held EXCEPT ![t] = {}]
    /\ UNCHANGED <<blk, snap>>

\* ConcurrentDag::contains_block: the memory only.
Contains(b) == b \in dag

\* The parent gate: the memory, then RocksDB.
AnyParent(b) == TRUE
ParentKnown(b) == ParentOf[b] \in dag \cup dbBlock

\* ShardedUtxoSet::get: the cache, then RocksDB.
Spendable == utxo \cup dbUtxo

\* Idempotence and parent gates.  The wire, signature and authority checks
\* before them depend on the block alone and reject it without effect.
Gate(t, b) ==
    /\ pc[t] = "idle"
    /\ submits < MaxSubmits
    /\ submits' = submits + 1
    /\ blk' = [blk EXCEPT ![t] = b]
    /\ todo' = [todo EXCEPT ![t] = Spends[b]]
    /\ UNCHANGED <<held, snap>>
    /\ \/ /\ Contains(b)
          /\ reply' = [reply EXCEPT ![t] = "AlreadyExists"]
          /\ UNCHANGED pc
       \/ /\ ~Contains(b)
          /\ ~ParentKnown(b)
          /\ reply' = [reply EXCEPT ![t] = "Rejected"]
          /\ UNCHANGED pc
       \/ /\ ~Contains(b)
          /\ ParentKnown(b)
          /\ Goto(t, "validate")
          /\ reply' = [reply EXCEPT ![t] = "none"]
    /\ UNCHANGED <<ram, pipe, db, boot, proc>>

\* fetch_input_outputs looks the inputs up one await at a time.
CheckInput(t, o) ==
    /\ pc[t] = "validate"
    /\ o \in todo[t]
    /\ \/ /\ o \in Spendable
          /\ todo' = [todo EXCEPT ![t] = @ \ {o}]
          /\ UNCHANGED <<pc, blk, held, snap, reply>>
       \/ o \notin Spendable /\ Return(t, "Rejected")
    /\ UNCHANGED <<ram, pipe, db, boot, proc, submits>>

InputsChecked(t) ==
    /\ pc[t] = "validate"
    /\ todo[t] = {}
    /\ Goto(t, "key")
    /\ todo' = [todo EXCEPT ![t] = Spends[blk[t]]]
    /\ UNCHANGED <<blk, held, snap, reply, ram, pipe, db, boot, proc, submits>>

\* Early reject of a consumed bridge lock or mint nonce.
CheckKey(t) ==
    /\ pc[t] = "key"
    /\ \/ KeyOf[blk[t]] \in dbKeys \cup ramKeys /\ Return(t, "Rejected")
       \/ /\ KeyOf[blk[t]] \notin dbKeys \cup ramKeys
          /\ Goto(t, "dedup")
          /\ UNCHANGED <<blk, todo, held, snap, reply>>
    /\ UNCHANGED <<ram, pipe, db, boot, proc, submits>>

\* The second contains_block, right before the state changes.
Dedup(t) ==
    /\ pc[t] = "dedup"
    /\ \/ Contains(blk[t]) /\ Return(t, "AlreadyExists")
       \/ /\ ~Contains(blk[t])
          /\ Goto(t, "claimKey")
          /\ UNCHANGED <<blk, todo, held, snap, reply>>
    /\ UNCHANGED <<ram, pipe, db, boot, proc, submits>>

\* The keys a block consumes: none or one.
Keys(b) == {KeyOf[b]} \ {NoKey}

\* try_consume_bridge_lock and try_consume_custodial_mint: test and set.
NeverConsumed(b) == FALSE
Consumed(b) == KeyOf[b] \in ramKeys

ClaimKey(t) ==
    /\ pc[t] = "claimKey"
    /\ \/ Consumed(blk[t]) /\ Return(t, "Rejected") /\ UNCHANGED ramKeys
       \/ /\ ~Consumed(blk[t])
          /\ ramKeys' = ramKeys \cup Keys(blk[t])
          /\ Goto(t, "claim")
          /\ UNCHANGED <<blk, todo, held, snap, reply>>
    /\ UNCHANGED <<dag, childCount, utxo, spent, pipe, db, boot, proc, submits>>

\* try_mark_spent on each input; the first conflict starts the rollback.
NeverMarked(o) == FALSE
Marked(o) == o \in spent

ClaimInput(t, o) ==
    /\ pc[t] = "claim"
    /\ o \in todo[t]
    /\ \/ /\ ~Marked(o)
          /\ spent' = spent \cup {o}
          /\ held' = [held EXCEPT ![t] = @ \cup {o}]
          /\ todo' = [todo EXCEPT ![t] = @ \ {o}]
          /\ UNCHANGED pc
       \/ /\ Marked(o)
          /\ Goto(t, "rollback")
          /\ UNCHANGED <<spent, held, todo>>
    /\ UNCHANGED <<dag, childCount, utxo, ramKeys, blk, snap, reply,
                   pipe, db, boot, proc, submits>>

\* unmark_spent on each claim already made, then the double-spend reject.
KeptClaim(o) == UNCHANGED spent
Unmark(o) == spent' = spent \ {o}

Rollback(t) ==
    /\ pc[t] = "rollback"
    /\ \/ \E o \in held[t] :
            /\ Unmark(o)
            /\ held' = [held EXCEPT ![t] = @ \ {o}]
            /\ UNCHANGED <<pc, blk, todo, snap, reply>>
       \/ held[t] = {} /\ Return(t, "Rejected") /\ UNCHANGED spent
    /\ UNCHANGED <<dag, childCount, utxo, ramKeys, pipe, db, boot, proc, submits>>

Claimed(t) ==
    /\ pc[t] = "claim"
    /\ todo[t] = {}
    /\ Goto(t, "apply")
    /\ UNCHANGED <<blk, todo, held, snap, reply, ram, pipe, db, boot, proc, submits>>

\* ShardedUtxoSet::apply_diff.
ApplyDiff(t) ==
    LET b == blk[t] IN
    /\ pc[t] = "apply"
    /\ utxo' = (utxo \ Spends[b]) \cup Creates[b]
    /\ applied' = [applied EXCEPT ![b] = @ + 1]
    /\ held' = [held EXCEPT ![t] = {}]
    /\ Goto(t, "edges")
    /\ UNCHANGED <<dag, childCount, spent, ramKeys, blk, todo, snap, reply,
                   pipe, db, acked, proc, submits>>

\* insert_block, first half: the contains_key fast path, the parent's count.
InsertEdges(t) ==
    LET b == blk[t] IN
    /\ pc[t] = "edges"
    /\ \/ Contains(b) /\ Goto(t, "snapshot") /\ UNCHANGED childCount
       \/ /\ ~Contains(b)
          /\ childCount' = [childCount EXCEPT ![ParentOf[b]] = @ + 1]
          /\ Goto(t, "insert")
    /\ UNCHANGED <<dag, utxo, spent, ramKeys, blk, todo, held, snap, reply,
                   pipe, db, boot, proc, submits>>

\* What prune_oldest and the selective bootstrap keep of the blocks S.
Windows(S) ==
    IF MaxBlocks = 0 \/ Cardinality(S) <= MaxBlocks
    THEN {S}
    ELSE {W \in SUBSET S : Cardinality(W) = MaxBlocks}

\* insert_block, second half: blocks.insert, then, once in a while, a prune,
\* which keeps the newest tip and forgets the counts of what it removes.
InsertBlock(t) ==
    /\ pc[t] = "insert"
    /\ \E keep \in {dag \cup {blk[t]}} \cup Windows(dag \cup {blk[t]}) :
        /\ blk[t] \in keep
        /\ dag' = keep
        /\ childCount' = [b \in Block |->
             IF b \in (dag \cup {blk[t]}) \ keep THEN 0 ELSE childCount[b]]
    /\ Goto(t, "snapshot")
    /\ UNCHANGED <<utxo, spent, ramKeys, blk, todo, held, snap, reply,
                   pipe, db, boot, proc, submits>>

\* parent_count_updates: the parent's count as this call sees it now.
SnapshotCounts(t) ==
    /\ pc[t] = "snapshot"
    /\ snap' = [snap EXCEPT ![t] = childCount[ParentOf[blk[t]]]]
    /\ Goto(t, "send")
    /\ UNCHANGED <<blk, todo, held, reply, ram, pipe, db, boot, proc, submits>>

\* persist_tx.send blocks while the channel is full, then acknowledges.
Send(t) ==
    /\ pc[t] = "send"
    /\ alive
    /\ Len(queue) < QueueCap
    /\ queue' = Append(queue, [block |-> blk[t], count |-> snap[t]])
    /\ acked' = acked \cup {blk[t]}
    /\ Return(t, "Inserted")
    /\ UNCHANGED <<ram, batch, attempts, alive, db, applied, proc, submits>>

\* The channel is closed: the error leaves the memory as it is.
CloseUnnoticed == FALSE
Closed == ~alive

SendClosed(t) ==
    /\ pc[t] = "send"
    /\ Closed
    /\ Return(t, "Error")
    /\ UNCHANGED <<ram, pipe, db, boot, proc, submits>>

\* TimeoutLayer drops the future of a request that is past its deadline, at
\* the await where it is pending: a lookup in RocksDB, a shard lock of
\* apply_diff, or a full channel.  No destructor undoes anything.
MayPend(t) ==
    \/ pc[t] \in {"validate", "key", "apply"}
    \/ pc[t] = "send" /\ Len(queue) = QueueCap

\* apply_diff takes the shards of the delta one by one.
Drop(t) ==
    LET b == blk[t] IN
    /\ drops < MaxDrops
    /\ drops' = drops + 1
    /\ MayPend(t)
    /\ Return(t, "Timeout")
    /\ \/ /\ pc[t] = "apply"
          /\ \E S \in SUBSET Spends[b], C \in SUBSET Creates[b] :
                utxo' = (utxo \ S) \cup C
          /\ stuck' = stuck \cup held[t]
          /\ UNCHANGED forgotten
       \/ /\ pc[t] = "send"
          /\ forgotten' = forgotten \cup {b}
          /\ UNCHANGED <<utxo, stuck>>
       \/ pc[t] \in {"validate", "key"} /\ UNCHANGED <<utxo, stuck, forgotten>>
    /\ UNCHANGED <<dag, childCount, spent, ramKeys, pipe, db, boot,
                   exits, exitKind, lost, submits>>

-----------------------------------------------------------------------------
(* The consumer and RocksDB.                                               *)

Least(m, n) == IF m < n THEN m ELSE n

\* What the first n jobs leave in the channel.
Rest(n) == SubSeq(queue, n + 1, Len(queue))

\* recv, then try_recv until the channel is empty or the batch is full.
Recv ==
    LET n == Least(Len(queue), MaxBatch) IN
    /\ alive
    /\ batch = <<>>
    /\ queue # <<>>
    /\ batch' = SubSeq(queue, 1, n)
    /\ queue' = Rest(n)
    /\ attempts' = 0
    /\ UNCHANGED <<alive, ram, call, db, boot, proc, submits>>

\* The jobs of the batch whose block is not stored yet.
FreshButLast == {i \in 1 .. Len(batch) - 1 : batch[i].block \notin dbBlock}
Fresh == {i \in 1 .. Len(batch) : batch[i].block \notin dbBlock}

\* The spends of a job, deleted from the utxo column family.
NothingDeleted(i) == {}
Deleted(i) == Spends[batch[i].block]

\* The count kept for a parent that several jobs of the batch update.
MinOf(S) == CHOOSE m \in S : \A n \in S : m <= n
MaxOf(S) == CHOOSE m \in S : \A n \in S : n <= m

\* append_blocks_batch: one atomic write.  A later job of the batch overrides
\* an earlier one on the same key; a parent gets the largest of its counts.
AppendBlocksBatch ==
    LET created(i) == Creates[batch[i].block]
        counts(p) == {batch[i].count : i \in {j \in Fresh : ParentOf[batch[j].block] = p}}
    IN
    /\ dbBlock' = dbBlock \cup {batch[i].block : i \in Fresh}
    /\ dbUtxo' = {o \in Outpoint :
         \/ o \in dbUtxo /\ \A i \in Fresh : o \notin Deleted(i)
         \/ \E i \in Fresh : /\ o \in created(i)
                             /\ \A j \in Fresh : j > i => o \notin Deleted(j)}
    /\ dbSpent' = dbSpent \cup UNION {Deleted(i) : i \in Fresh}
    /\ dbKeys' = dbKeys \cup UNION {Keys(batch[i].block) : i \in Fresh}
    /\ dbCount' = [p \in Block |->
                    IF counts(p) = {} THEN dbCount[p] ELSE MaxOf(counts(p))]

WriteOk ==
    /\ alive
    /\ batch # <<>>
    /\ AppendBlocksBatch
    /\ batch' = <<>>
    /\ attempts' = 0
    /\ UNCHANGED <<queue, alive, ram, call, boot, proc, submits>>

\* A failed attempt: the write itself, or the tip trimming after a write that
\* went through.  The last one ends the task and closes the channel.
WriteErr ==
    /\ alive
    /\ batch # <<>>
    /\ AppendBlocksBatch \/ UNCHANGED db
    /\ \/ /\ attempts + 1 < MaxAttempts
          /\ attempts' = attempts + 1
          /\ UNCHANGED <<queue, batch, alive>>
       \/ /\ attempts + 1 = MaxAttempts
          /\ attempts' = 0
          /\ alive' = FALSE
          /\ queue' = <<>>
          /\ batch' = <<>>
    /\ UNCHANGED <<ram, call, boot, proc, submits>>

-----------------------------------------------------------------------------
(* Exit and restart.                                                       *)

Queued == {queue[i].block : i \in DOMAIN queue} \cup {batch[i].block : i \in DOMAIN batch}

\* LedgerInstance bootstrap: the DAG from the newest stored blocks, the UTXO
\* cache from the utxo column family, everything else empty.
Restart(kind) ==
    /\ exits < MaxExits
    /\ exits' = exits + 1
    /\ exitKind' = kind
    /\ lost' = acked \ dbBlock
    /\ stuck' = {}
    /\ forgotten' = {}
    /\ \E loaded \in Windows(dbBlock) :
        /\ dag' = loaded
        /\ childCount' = [p \in Block |-> IF p \in loaded
             THEN Cardinality({b \in loaded \ {Genesis} : ParentOf[b] = p}) ELSE 0]
    /\ utxo' = dbUtxo
    /\ spent' = {}
    /\ ramKeys' = {}
    /\ pc' = [t \in Task |-> "idle"]
    /\ blk' = [t \in Task |-> Genesis]
    /\ todo' = [t \in Task |-> {}]
    /\ held' = [t \in Task |-> {}]
    /\ snap' = [t \in Task |-> 0]
    /\ reply' = [t \in Task |-> "none"]
    /\ queue' = <<>>
    /\ batch' = <<>>
    /\ attempts' = 0
    /\ alive' = TRUE
    /\ acked' = {}
    /\ applied' = [b \in Block |-> 0]
    /\ UNCHANGED <<db, drops, submits>>

Crash == Restart("crash")

\* SIGTERM: the process leaves once persist_queue_depth is zero.
DrainExit == queue = <<>> /\ Restart("drained")

-----------------------------------------------------------------------------
CallStep(t) ==
    \/ \E o \in Outpoint : CheckInput(t, o) \/ ClaimInput(t, o)
    \/ InputsChecked(t)
    \/ CheckKey(t)
    \/ Dedup(t)
    \/ ClaimKey(t)
    \/ Rollback(t)
    \/ Claimed(t)
    \/ ApplyDiff(t)
    \/ InsertEdges(t)
    \/ InsertBlock(t)
    \/ SnapshotCounts(t)
    \/ Send(t)
    \/ SendClosed(t)

Consumer == Recv \/ WriteOk \/ WriteErr

Next ==
    \/ \E t \in Task : \E b \in Block \ {Genesis} : Gate(t, b)
    \/ \E t \in Task : CallStep(t) \/ Drop(t)
    \/ Consumer
    \/ Crash
    \/ DrainExit

Spec == Init /\ [][Next]_vars

\* The runtime keeps polling every started call and the consumer.
FairSpec == Spec /\ WF_vars(Consumer) /\ \A t \in Task : WF_vars(CallStep(t))

-----------------------------------------------------------------------------
(* Properties.                                                             *)

\* Blocks whose call owns their key, or that wait for the disk.
InFlight == Queued \cup {blk[t] : t \in {u \in Task : pc[u] \in Owning}}

\* No outpoint is consumed twice by the deltas applied since the boot, by two
\* blocks or by two submissions of one block: try_mark_spent is the commit
\* point whatever the validation read (persist.rs:2088-2125).
NoDoubleSpend ==
    \A b, c \in Block :
        /\ applied[b] > 0 /\ Spends[b] # {} => applied[b] = 1
        /\ b # c /\ applied[b] > 0 /\ applied[c] > 0 => Spends[b] \cap Spends[c] = {}

\* The spent set holds exactly the inputs of the applied blocks, the claims
\* of the calls in progress and those of the calls dropped before apply_diff
\* was through: a rejected multi-input block locks nothing up and frees nothing
\* that another block owns (unmark_spent, persist.rs:2106-2110).
ClaimsExact ==
    \A o \in Outpoint :
        o \in spent <=> \/ \E b \in Block : applied[b] > 0 /\ o \in Spends[b]
                        \/ \E t \in Task : o \in held[t]
                        \/ o \in stuck

\* A bridge lock or a mint nonce backs at most one stored block, whatever the
\* races, the crashes, the pruning and the resubmissions.
AntiReplay ==
    \A b, c \in dbBlock : KeyOf[b] = KeyOf[c] /\ KeyOf[b] # NoKey => b = c

\* While the consumer lives, a block that was acknowledged is stored or waits
\* for the disk, and a block that makes a call answer AlreadyExists is stored
\* or on its way there, but for the blocks a dropped call left unsent.
AnswersBacked ==
    alive => /\ acked \subseteq dbBlock \cup Queued
             /\ dag \subseteq dbBlock \cup InFlight \cup forgotten

\* What the deltas of a set of blocks create and spend.
Created(S) == UNION {Creates[b] : b \in S}
Spent(S) == UNION {Spends[b] : b \in S}

\* The stored UTXO set, from which the next boot starts, is what the stored
\* blocks created minus what they spent.
DurableUtxoExact == dbUtxo = Created(dbBlock) \ Spent(dbBlock)

\* No two stored blocks spend the same outpoint, across restarts.
DurableNoDoubleSpend ==
    \A b, c \in dbBlock : b # c => Spends[b] \cap Spends[c] = {}

\* With one call at a time (Cardinality(Task) = 1), through crashes, failed
\* writes and resubmissions, the stored blocks are a Ledger: batches
\* are appended to a valid chain that never loses a block.
DurableLedger == INSTANCE Ledger WITH stored <- dbBlock
ImplementsLedger == DurableLedger!Spec

\* Once the pipeline has drained, the stored children counts are those in
\* memory ("RocksDB converges to the in-memory truth", background_persist.rs).
CountsConverge ==
    alive /\ Queued = {} /\ (\A t \in Task : pc[t] = "idle")
        => \A p \in dag : dbCount[p] = childCount[p]

\* An acknowledged block reaches the disk, unless the consumer gives up or the
\* process exits.
AckedBecomesDurable ==
    \A b \in Block : b \in acked ~> b \in dbBlock \/ ~alive \/ b \notin acked

\* Every call returns, also through a full channel and a dying consumer.
CallsReturn == \A t \in Task : pc[t] # "idle" ~> pc[t] = "idle"

-----------------------------------------------------------------------------
(* Inductive strengthenings, for the proofs.                               *)

\* A key is in ramKeys from the claim until the process exits, and in dbKeys
\* as soon as its block is stored; a call past CheckKey has seen no stored key
\* but those claimed since the boot.
KeyInv ==
    /\ \A b \in InFlight : Keys(b) \subseteq ramKeys
    /\ \A b \in dbBlock : Keys(b) \subseteq dbKeys
    /\ \A t \in Task : pc[t] \in {"dedup", "claimKey"}
                       => Keys(blk[t]) \cap dbKeys \subseteq ramKeys
    /\ \A b, c \in InFlight \cup dbBlock : b # c => Keys(b) \cap Keys(c) = {}

\* An input is claimed by at most one call, dropped calls included, and by
\* none once a block that spends it is applied.
ClaimsDisjoint ==
    \A t \in Task :
        /\ \A u \in Task : t # u => held[t] \cap held[u] = {}
        /\ \A b \in Block : applied[b] > 0 => held[t] \cap Spends[b] = {}
        /\ held[t] \cap stuck = {}

\* What a dropped call claimed is spent by no applied block.
StuckUnspent == \A b \in Block : applied[b] > 0 => stuck \cap Spends[b] = {}

\* What a call has claimed at each step.
CallClaims ==
    \A t \in Task :
        /\ pc[t] \notin {"claim", "rollback", "apply"} => held[t] = {}
        /\ pc[t] \in {"key", "dedup", "claimKey"} => todo[t] = Spends[blk[t]]
        /\ pc[t] = "claim" => held[t] \cup todo[t] = Spends[blk[t]]
        /\ pc[t] = "apply" => held[t] = Spends[blk[t]]

SpendInv ==
    NoDoubleSpend /\ ClaimsExact /\ ClaimsDisjoint /\ StuckUnspent /\ CallClaims

\* The calls whose delta is applied leave towards the channel only, so their
\* blocks do reach it; a block a call owns earlier may still be rolled back.
Unsent == {blk[t] : t \in {u \in Task : pc[u] \in Applied}}
BackedInv ==
    alive => /\ acked \subseteq dbBlock \cup Queued
             /\ dag \subseteq dbBlock \cup Queued \cup Unsent \cup forgotten

\* The rest is about one call at a time, without pruning and dropped calls.
Serial == (\E t \in Task : Task = {t}) /\ MaxBlocks = 0 /\ MaxDrops = 0

BatchBlocks == {batch[i].block : i \in DOMAIN batch}
QueueBlocks == {queue[i].block : i \in DOMAIN queue}

\* b may follow the blocks of S.
Ready(b, S) == ParentOf[b] \in S /\ Spends[b] \subseteq Created(S)

\* The jobs on their way to the disk are in an order in which each may follow
\* those before it.
OrderlyBatch ==
    \A i \in DOMAIN batch :
        /\ batch[i].block # Genesis
        /\ Ready(batch[i].block, dbBlock \cup {batch[j].block : j \in 1 .. i - 1})
        /\ \A j \in DOMAIN batch : batch[j].block = batch[i].block => j = i
OrderlyQueue ==
    \A i \in DOMAIN queue :
        /\ queue[i].block # Genesis
        /\ Ready(queue[i].block, dbBlock \cup BatchBlocks \cup {queue[j].block : j \in 1 .. i - 1})
        /\ \A j \in DOMAIN queue : queue[j].block = queue[i].block => j = i
        /\ queue[i].block \notin BatchBlocks

\* The blocks that the memory has applied.
Known == dbBlock \cup Queued \cup Unsent

MemoryExact ==
    /\ utxo = Created(Known) \ Spent(Known)
    /\ \A b, c \in Known : b # c => Spends[b] \cap Spends[c] = {}
    /\ \A b \in Queued \cup Unsent : applied[b] > 0

\* The inputs a call has looked up: created by a block that is stored or waits,
\* and spent by no block that was stored before the boot.
LookedUp(t) == IF pc[t] = "validate" THEN Spends[blk[t]] \ todo[t] ELSE Spends[blk[t]]
CallReady ==
    \A t \in Task : pc[t] # "idle" =>
        /\ blk[t] \notin dbBlock \cup Queued
        /\ ParentOf[blk[t]] \in dbBlock \cup Queued
        /\ LookedUp(t) \subseteq Created(dbBlock \cup Queued)
        /\ \A b \in dbBlock : applied[b] = 0 => LookedUp(t) \cap Spends[b] = {}

StoredValid ==
    /\ \A b \in dbBlock \ {Genesis} : Ready(b, dbBlock)
    /\ \A b, c \in dbBlock : b # c => Spends[b] \cap Spends[c] = {}

SerialInv ==
    /\ forgotten = {}
    /\ dbBlock \cup Queued \subseteq dag
    /\ \A t \in Task : pc[t] \in {"snapshot", "send"} => blk[t] \in dag
    /\ StoredValid
    /\ DurableUtxoExact
    /\ alive => OrderlyBatch /\ OrderlyQueue /\ MemoryExact /\ CallReady

\* The children of p in S, which children_count and CF children_count count.
Kids(S, p) == Cardinality({b \in S \ {Genesis} : ParentOf[b] = p})
Inserting == {blk[t] : t \in {u \in Task : pc[u] = "insert"}}

\* A job carries the count of its parent after its own block: what is stored,
\* what the jobs before it bring and itself.  A batch whose write went through
\* before it failed is all stored.
BatchCounted ==
    \/ BatchBlocks \subseteq dbBlock
    \/ \A i \in DOMAIN batch :
         /\ batch[i].block \notin dbBlock
         /\ batch[i].count = Kids(dbBlock \cup {batch[j].block : j \in 1 .. i}, ParentOf[batch[i].block])
QueueCounted ==
    \A i \in DOMAIN queue :
        /\ queue[i].block \notin dbBlock
        /\ queue[i].count = Kids(dbBlock \cup BatchBlocks \cup {queue[j].block : j \in 1 .. i}, ParentOf[queue[i].block])

CountInv ==
    /\ \A p \in Block : childCount[p] = Kids(dag \cup Inserting, p) /\ dbCount[p] = Kids(dbBlock, p)
    /\ alive =>
         /\ \A t \in Task : pc[t] = "send" =>
              snap[t] = Kids(dbBlock \cup Queued \cup {blk[t]}, ParentOf[blk[t]])
         /\ BatchCounted
         /\ QueueCounted
=============================================================================
