----------------------- MODULE PersistPipelineProofs -----------------------
(***************************************************************************)
(* Theorems about PersistPipeline, for every set of blocks, calls and      *)
(* outpoints and every value of the bounds.                                *)
(***************************************************************************)
EXTENDS PersistPipeline, FiniteSetFacts, SequenceTheorems, TLAPS

-----------------------------------------------------------------------------
(* Type correctness.                                                       *)

\* What MaxOf returns.
LEMMA MaxOfNat ==
    ASSUME NEW S \in SUBSET Nat, S # {}, IsFiniteSet(S)
    PROVE  MaxOf(S) \in S
<1>1. HasMax(S)
  BY FiniteMax
<1> QED BY <1>1 DEF HasMax, MaxOf

\* The index set of the jobs to write is finite.
LEMMA FreshFinite ==
    ASSUME TypeOK
    PROVE  IsFiniteSet(Fresh)
<1>1. Len(batch) \in Nat
  BY DEF TypeOK
<1>2. IsFiniteSet(1 .. Len(batch))
  BY <1>1, FS_Interval
<1> QED BY <1>2, FS_Subset DEF Fresh

\* A stored batch leaves RocksDB well typed.
LEMMA AppendType ==
    ASSUME TypeOK, AppendBlocksBatch
    PROVE  /\ dbBlock' \subseteq Block
           /\ dbUtxo' \subseteq Outpoint
           /\ dbSpent' \subseteq Outpoint
           /\ dbKeys' \subseteq Key
           /\ dbCount' \in [Block -> Nat]
<1>1. \A i \in Fresh : batch[i] \in Job
  BY DEF Fresh, TypeOK
<1>2. \A i \in Fresh : batch[i].block \in Block /\ batch[i].count \in Nat
  BY <1>1 DEF Job
<1>3. dbBlock' \subseteq Block /\ dbUtxo' \subseteq Outpoint
  BY <1>2 DEF AppendBlocksBatch, Deleted, TypeOK
<1>4. dbSpent' \subseteq Outpoint
  BY <1>2, DeltaAssumption DEF AppendBlocksBatch, Deleted, TypeOK
<1>5. dbKeys' \subseteq Key
  BY <1>2, KeyAssumption DEF AppendBlocksBatch, Keys, TypeOK
<1>6. dbCount' \in [Block -> Nat]
  <2> DEFINE jobs(p) == {j \in Fresh : ParentOf[batch[j].block] = p}
             counts(p) == {batch[i].count : i \in jobs(p)}
  <2>1. ASSUME NEW p \in Block, counts(p) # {}
        PROVE  MaxOf(counts(p)) \in Nat
    <3>1. IsFiniteSet(jobs(p))
      BY FreshFinite, FS_Subset
    <3>2. IsFiniteSet(counts(p))
      <4> DEFINE count == [i \in jobs(p) |-> batch[i].count]
      <4>1. count \in Surjection(jobs(p), counts(p))
        BY DEF Surjection
      <4> QED BY <3>1, <4>1, FS_Surjection
    <3>3. counts(p) \in SUBSET Nat
      BY <1>2
    <3> HIDE DEF counts
    <3> QED BY <2>1, <3>2, <3>3, MaxOfNat
  <2>2. dbCount' = [p \in Block |-> IF counts(p) = {} THEN dbCount[p] ELSE MaxOf(counts(p))]
    BY DEF AppendBlocksBatch
  <2>3. \A p \in Block : dbCount[p] \in Nat
    BY DEF TypeOK
  <2> HIDE DEF counts
  <2> QED BY <2>1, <2>2, <2>3
<1> QED BY <1>3, <1>4, <1>5, <1>6

\* The calls in progress never carry the genesis: its parent is undefined.
CallsNotGenesis == \A t \in Task : pc[t] # "idle" => blk[t] # Genesis

TypeInv == TypeOK /\ CallsNotGenesis

LEMMA InitType == Init => TypeInv
BY GraphAssumption, DeltaAssumption
   DEF Init, TypeInv, TypeOK, CallsNotGenesis, Steps, Replies, Job

\* A submission leaves the state well typed.
LEMMA GateType ==
    ASSUME TypeInv, NEW t \in Task, NEW b \in Block \ {Genesis}, Gate(t, b)
    PROVE  TypeInv'
<1>1. Spends[b] \in SUBSET Outpoint
  BY DeltaAssumption
<1>2. TypeOK'
  <2>1. pc' \in [Task -> Steps] /\ reply' \in [Task -> Replies]
    BY DEF Gate, Goto, TypeInv, TypeOK, Steps, Replies
  <2>2. blk' \in [Task -> Block] /\ todo' \in [Task -> SUBSET Outpoint] /\ submits' \in Nat
    BY <1>1 DEF Gate, TypeInv, TypeOK
  <2> QED BY <2>1, <2>2 DEF Gate, TypeInv, TypeOK, ram, pipe, db, boot, proc
<1>3. CallsNotGenesis'
  BY DEF Gate, Goto, TypeInv, TypeOK, CallsNotGenesis
<1> QED BY <1>2, <1>3 DEF TypeInv

\* Only Gate binds a block to a call.
LEMMA CallKeepsBlock ==
    ASSUME TypeInv, NEW t \in Task, CallStep(t)
    PROVE  /\ blk' = blk
           /\ pc[t] # "idle"
           /\ \A u \in Task : u # t => pc'[u] = pc[u]
<1>1. ASSUME NEW o \in Outpoint, CheckInput(t, o) \/ ClaimInput(t, o)
      PROVE  blk' = blk /\ pc[t] # "idle" /\ \A u \in Task : u # t => pc'[u] = pc[u]
  BY <1>1 DEF CheckInput, ClaimInput, Return, Goto, TypeInv, TypeOK
<1>2. CASE InputsChecked(t) \/ CheckKey(t) \/ Dedup(t) \/ ClaimKey(t)
  BY <1>2 DEF InputsChecked, CheckKey, Dedup, ClaimKey, Return, Goto, TypeInv, TypeOK
<1>3. CASE Rollback(t) \/ Claimed(t) \/ ApplyDiff(t) \/ InsertEdges(t)
  BY <1>3 DEF Rollback, Claimed, ApplyDiff, InsertEdges, Return, Goto, TypeInv, TypeOK
<1>4. CASE InsertBlock(t) \/ SnapshotCounts(t) \/ Send(t) \/ SendClosed(t)
  BY <1>4 DEF InsertBlock, SnapshotCounts, Send, SendClosed, Return, Goto, TypeInv, TypeOK
<1> QED BY <1>1, <1>2, <1>3, <1>4 DEF CallStep

\* A step of a call leaves the state well typed.
LEMMA CallType ==
    ASSUME TypeInv, NEW t \in Task, CallStep(t)
    PROVE  TypeInv'
<1>0. TypeOK /\ blk[t] \in Block /\ held[t] \in SUBSET Outpoint /\ todo[t] \in SUBSET Outpoint
  BY DEF TypeInv, TypeOK
<1>1. blk[t] # Genesis
  BY CallKeepsBlock DEF TypeInv, CallsNotGenesis
<1>a. CallsNotGenesis'
  BY <1>1, CallKeepsBlock DEF TypeInv, CallsNotGenesis
<1>b. SUFFICES TypeOK'
  BY <1>a DEF TypeInv
<1> USE <1>0
<1>2. ASSUME NEW o \in Outpoint, CheckInput(t, o)
      PROVE  TypeOK'
  BY <1>2 DEF CheckInput, Return, Goto, TypeOK, Steps, Replies, ram, pipe, db, boot, proc
<1>3. ASSUME NEW o \in Outpoint, ClaimInput(t, o)
      PROVE  TypeOK'
  <2>1. spent' \subseteq Outpoint
    BY <1>3 DEF ClaimInput, TypeOK
  <2>2. held' \in [Task -> SUBSET Outpoint]
    <3>1. held[t] \cup {o} \in SUBSET Outpoint
      OBVIOUS
    <3> QED BY <1>3, <3>1 DEF ClaimInput, TypeOK
  <2>3. todo' \in [Task -> SUBSET Outpoint]
    <3>1. todo[t] \ {o} \in SUBSET Outpoint
      OBVIOUS
    <3> QED BY <1>3, <3>1 DEF ClaimInput, TypeOK
  <2> QED BY <1>3, <2>1, <2>2, <2>3
          DEF ClaimInput, Goto, TypeOK, Steps, pipe, db, boot, proc
<1>4. CASE InputsChecked(t)
  <2>1. Spends[blk[t]] \in SUBSET Outpoint
    BY DeltaAssumption
  <2> QED BY <1>4, <2>1
      DEF InputsChecked, Goto, TypeOK, Steps, ram, pipe, db, boot, proc
<1>5. CASE CheckKey(t)
  BY <1>5 DEF CheckKey, Return, Goto, TypeOK, Steps, Replies, ram, pipe, db, boot, proc
<1>6. CASE Dedup(t)
  BY <1>6 DEF Dedup, Return, Goto, TypeOK, Steps, Replies, ram, pipe, db, boot, proc
<1>7. CASE ClaimKey(t)
  <2>1. ramKeys' \subseteq Key
    BY <1>7, KeyAssumption DEF ClaimKey, Keys, TypeOK
  <2> QED BY <1>7, <2>1
      DEF ClaimKey, Return, Goto, TypeOK, Steps, Replies, pipe, db, boot, proc
<1>8. CASE Rollback(t)
  <2>1. spent' \subseteq Outpoint
    BY <1>8 DEF Rollback, Unmark, TypeOK
  <2>2. held' \in [Task -> SUBSET Outpoint]
    <3>1. ASSUME NEW o PROVE held[t] \ {o} \in SUBSET Outpoint
      OBVIOUS
    <3> QED BY <1>8, <3>1 DEF Rollback, Return, TypeOK
  <2>3. pc' \in [Task -> Steps] /\ reply' \in [Task -> Replies] /\ todo' \in [Task -> SUBSET Outpoint]
    BY <1>8 DEF Rollback, Return, Goto, TypeOK, Steps, Replies
  <2>4. blk' = blk /\ snap' = snap
    BY <1>8 DEF Rollback, Return
  <2> QED BY <1>8, <2>1, <2>2, <2>3, <2>4 DEF Rollback, TypeOK, pipe, db, boot, proc
<1>9. CASE Claimed(t)
  BY <1>9 DEF Claimed, Goto, TypeOK, Steps, ram, pipe, db, boot, proc
<1>10. CASE ApplyDiff(t)
  <2>1. utxo' \subseteq Outpoint
    BY <1>10, DeltaAssumption DEF ApplyDiff, TypeOK
  <2>2. applied' \in [Block -> Nat]
    BY <1>10 DEF ApplyDiff, TypeOK
  <2> QED BY <1>10, <2>1, <2>2 DEF ApplyDiff, Goto, TypeOK, Steps, pipe, db, proc
<1>11. CASE InsertEdges(t)
  <2>1. childCount' \in [Block -> Nat]
    <3>1. ParentOf[blk[t]] \in Block
      BY <1>1, GraphAssumption
    <3>2. childCount[ParentOf[blk[t]]] + 1 \in Nat
      BY <3>1 DEF TypeOK
    <3> QED BY <1>11, <3>2 DEF InsertEdges, Goto, TypeOK
  <2> QED BY <1>11, <2>1 DEF InsertEdges, Goto, TypeOK, Steps, pipe, db, boot, proc
<1>12. CASE InsertBlock(t)
  <2>1. dag' \subseteq Block
    BY <1>12 DEF InsertBlock, Windows, TypeOK
  <2>2. childCount' \in [Block -> Nat]
    BY <1>12 DEF InsertBlock, TypeOK
  <2> QED BY <1>12, <2>1, <2>2 DEF InsertBlock, Goto, TypeOK, Steps, pipe, db, boot, proc
<1>13. CASE SnapshotCounts(t)
  <2>1. childCount[ParentOf[blk[t]]] \in Nat
    BY <1>1, GraphAssumption DEF TypeOK
  <2> QED BY <1>13, <2>1 DEF SnapshotCounts, Goto, TypeOK, Steps, ram, pipe, db, boot, proc
<1>14. CASE Send(t)
  <2>1. [block |-> blk[t], count |-> snap[t]] \in Job
    BY DEF Job, TypeOK
  <2>2. queue' \in Seq(Job)
    BY <1>14, <2>1 DEF Send, TypeOK
  <2> QED BY <1>14, <2>2 DEF Send, Return, Goto, TypeOK, Steps, Replies, ram, db, proc
<1>15. CASE SendClosed(t)
  BY <1>15 DEF SendClosed, Return, Goto, TypeOK, Steps, Replies, ram, pipe, db, boot, proc
<1> QED
  BY <1>2, <1>3, <1>4, <1>5, <1>6, <1>7, <1>8, <1>9, <1>10, <1>11, <1>12,
     <1>13, <1>14, <1>15 DEF CallStep

\* The consumer's steps leave the state well typed.
LEMMA ConsumerType ==
    ASSUME TypeInv, Consumer
    PROVE  TypeInv'
<1> USE DEF TypeInv
<1>1. CASE Recv
  <2> DEFINE n == Least(Len(queue), MaxBatch)
  <2>1. Len(queue) \in Nat /\ MaxBatch \in Nat
    BY BoundAssumption DEF TypeOK
  <2>2. n \in Nat /\ n <= Len(queue)
    BY <2>1 DEF Least
  <2>3. SubSeq(queue, 1, n) \in Seq(Job) /\ SubSeq(queue, n + 1, Len(queue)) \in Seq(Job)
    BY <2>1, <2>2 DEF TypeOK
  <2>4. batch' \in Seq(Job) /\ queue' \in Seq(Job)
    BY <1>1, <2>3 DEF Recv, Rest
  <2>5. TypeOK'
    BY <1>1, <2>4 DEF Recv, TypeOK, ram, call, db, boot, proc
  <2> QED BY <1>1, <2>5 DEF Recv, CallsNotGenesis, call
<1>2. CASE WriteOk
  <2>1. TypeOK'
    BY <1>2, AppendType DEF WriteOk, TypeOK, ram, call, boot, proc
  <2> QED BY <1>2, <2>1 DEF WriteOk, CallsNotGenesis, call
<1>3. CASE WriteErr
  <2>1. /\ dbBlock' \subseteq Block /\ dbUtxo' \subseteq Outpoint /\ dbSpent' \subseteq Outpoint
        /\ dbKeys' \subseteq Key /\ dbCount' \in [Block -> Nat]
    BY <1>3, AppendType DEF WriteErr, TypeOK, db
  <2>2. (queue' = queue \/ queue' = <<>>) /\ (batch' = batch \/ batch' = <<>>)
    BY <1>3, Zenon DEF WriteErr
  <2>3. attempts' = attempts + 1 \/ attempts' = 0
    BY <1>3, Zenon DEF WriteErr
  <2>5. alive' \in BOOLEAN
    BY <1>3, Zenon DEF WriteErr, TypeOK
  <2>6. UNCHANGED <<ram, call, boot, proc, submits>>
    BY <1>3, Zenon DEF WriteErr
  <2>7. attempts' \in Nat
    BY <2>3 DEF TypeOK
  <2>8. queue' \in Seq(Job) /\ batch' \in Seq(Job)
    <3>1. <<>> \in Seq(Job)
      OBVIOUS
    <3>2. queue \in Seq(Job) /\ batch \in Seq(Job)
      BY DEF TypeOK
    <3> QED BY <2>2, <3>1, <3>2, Zenon
  <2>4. TypeOK'
    BY <2>1, <2>5, <2>6, <2>7, <2>8 DEF TypeOK, ram, call, boot, proc
  <2> QED BY <1>3, <2>4 DEF WriteErr, CallsNotGenesis, call
<1> QED BY <1>1, <1>2, <1>3 DEF Consumer

\* A restart leaves the state well typed.
LEMMA RestartType ==
    ASSUME TypeInv, NEW kind \in {"crash", "drained"}, Restart(kind)
    PROVE  TypeInv'
<1>1. PICK loaded \in Windows(dbBlock) :
        /\ dag' = loaded
        /\ childCount' = [p \in Block |-> IF p \in loaded
             THEN Cardinality({b \in loaded \ {Genesis} : ParentOf[b] = p}) ELSE 0]
  BY DEF Restart
<1>2. loaded \subseteq Block
  BY DEF Windows, TypeInv, TypeOK
<1>3. IsFiniteSet(loaded)
  BY <1>2, GraphAssumption, FS_Subset
<1>4. \A p : Cardinality({b \in loaded \ {Genesis} : ParentOf[b] = p}) \in Nat
  BY <1>3, FS_Subset, FS_CardinalityType
<1>5. childCount' \in [Block -> Nat]
  BY <1>1, <1>4
<1>6. TypeOK'
  BY <1>1, <1>2, <1>5, GraphAssumption
     DEF Restart, TypeInv, TypeOK, Steps, Replies, db
<1>7. CallsNotGenesis'
  BY DEF Restart, CallsNotGenesis
<1> QED BY <1>6, <1>7 DEF TypeInv

\* A dropped call leaves the state well typed.
LEMMA DropType ==
    ASSUME TypeInv, NEW t \in Task, Drop(t)
    PROVE  TypeInv'
<1>0. TypeOK /\ blk[t] \in Block /\ held[t] \in SUBSET Outpoint
  BY DEF TypeInv, TypeOK
<1>1. utxo' \subseteq Outpoint
  BY <1>0, DeltaAssumption DEF Drop, TypeOK
<1>2. stuck' \subseteq Outpoint /\ forgotten' \subseteq Block /\ drops' \in Nat
  BY <1>0 DEF Drop, TypeOK
<1>3. Return(t, "Timeout")
  BY DEF Drop
<1>4. TypeOK'
  BY <1>0, <1>1, <1>2, <1>3
     DEF Drop, Return, Goto, TypeOK, Steps, Replies, pipe, db, boot
<1>5. CallsNotGenesis'
  BY <1>3 DEF Return, Goto, CallsNotGenesis, TypeInv, TypeOK
<1> QED BY <1>4, <1>5 DEF TypeInv

\* TypeInv is an invariant.
LEMMA TypeInvariance == Spec => []TypeInv
<1>1. TypeInv /\ [Next]_vars => TypeInv'
  <2> SUFFICES ASSUME TypeInv, [Next]_vars PROVE TypeInv'
    OBVIOUS
  <2>1. CASE \E t \in Task : \E b \in Block \ {Genesis} : Gate(t, b)
    BY <2>1, GateType
  <2>2. CASE \E t \in Task : CallStep(t)
    BY <2>2, CallType
  <2>6. CASE \E t \in Task : Drop(t)
    BY <2>6, DropType
  <2>3. CASE Consumer
    BY <2>3, ConsumerType
  <2>4. CASE Crash \/ DrainExit
    BY <2>4, RestartType DEF Crash, DrainExit
  <2>5. CASE UNCHANGED vars
    BY <2>5 DEF TypeInv, TypeOK, CallsNotGenesis, vars, ram, call, pipe, db, boot, proc
  <2> QED BY <2>1, <2>2, <2>3, <2>4, <2>5, <2>6 DEF Next
<1> QED BY InitType, <1>1, PTL DEF Spec

\* The state stays well typed: the strengthening says that no call in progress
\* carries the genesis, whose parent count SnapshotCounts could not read.
THEOREM TypeCorrect == Spec => []TypeOK
BY TypeInvariance, PTL DEF TypeInv

-----------------------------------------------------------------------------
(* No double spend in memory.                                              *)

\* A step that touches neither the claims nor the applied blocks.
LEMMA SpendFrame ==
    ASSUME SpendInv, UNCHANGED <<applied, held, spent, stuck>>, CallClaims'
    PROVE  SpendInv'
BY DEF SpendInv, NoDoubleSpend, ClaimsExact, ClaimsDisjoint, StuckUnspent

LEMMA SpendGate ==
    ASSUME TypeInv, SpendInv, NEW t \in Task, NEW b \in Block, Gate(t, b)
    PROVE  SpendInv'
<1>1. UNCHANGED <<applied, held, spent, stuck>>
  BY DEF Gate, ram, boot, proc
<1>2. CallClaims'
  BY DEF Gate, Goto, SpendInv, CallClaims, TypeInv, TypeOK
<1> QED BY <1>1, <1>2, SpendFrame

\* try_mark_spent gives an input to one call only.
LEMMA SpendClaimInput ==
    ASSUME TypeInv, SpendInv, NEW t \in Task, NEW o \in Outpoint, ClaimInput(t, o)
    PROVE  SpendInv'
<1> USE DEF TypeInv, SpendInv
<1>1. CASE Marked(o)
  <2>1. UNCHANGED <<applied, held, spent, stuck>>
    BY <1>1 DEF ClaimInput, boot, proc
  <2>2. CallClaims'
    BY <1>1 DEF ClaimInput, Goto, CallClaims, TypeOK
  <2> QED BY <2>1, <2>2, SpendFrame
<1>2. CASE ~Marked(o)
  <2>1. /\ spent' = spent \cup {o}
        /\ held' = [held EXCEPT ![t] = @ \cup {o}]
        /\ todo' = [todo EXCEPT ![t] = @ \ {o}]
        /\ o \in todo[t] /\ pc[t] = "claim"
        /\ UNCHANGED <<pc, blk, applied, stuck>>
    BY <1>2 DEF ClaimInput, boot, proc
  <2>2. o \notin spent
    BY <1>2 DEF Marked
  <2>3. o \notin stuck /\ \A u \in Task : o \notin held[u]
    BY <2>2 DEF ClaimsExact
  <2>4. \A b \in Block : applied[b] > 0 => o \notin Spends[b]
    BY <2>2 DEF ClaimsExact
  <2>5. \A u \in Task : held'[u] = IF u = t THEN held[t] \cup {o} ELSE held[u]
    BY <2>1 DEF TypeOK
  <2>6. NoDoubleSpend'
    BY <2>1 DEF NoDoubleSpend
  <2>7. ClaimsExact'
    BY <2>1, <2>5 DEF ClaimsExact
  <2>8. ClaimsDisjoint'
    BY <2>1, <2>3, <2>4, <2>5 DEF ClaimsDisjoint
  <2>9. CallClaims'
    BY <2>1, <2>5 DEF CallClaims, TypeOK
  <2>10. StuckUnspent'
    BY <2>1 DEF StuckUnspent
  <2> QED BY <2>6, <2>7, <2>8, <2>9, <2>10
<1> QED BY <1>1, <1>2

\* unmark_spent frees the call's own claims and nothing else.
LEMMA SpendRollback ==
    ASSUME TypeInv, SpendInv, NEW t \in Task, Rollback(t)
    PROVE  SpendInv'
<1> USE DEF TypeInv, SpendInv
<1>1. CASE held[t] = {} /\ Return(t, "Rejected") /\ UNCHANGED spent
  <2>1. held' = held
    BY <1>1 DEF Return, TypeOK
  <2>2. UNCHANGED <<applied, held, spent, stuck>>
    BY <1>1, <2>1 DEF Rollback, boot, proc
  <2>3. CallClaims'
    BY <1>1, <2>1 DEF Return, Goto, CallClaims, TypeOK
  <2> QED BY <2>2, <2>3, SpendFrame
<1>2. ASSUME NEW o \in held[t],
             Unmark(o), held' = [held EXCEPT ![t] = @ \ {o}], UNCHANGED <<pc, blk, todo>>
      PROVE  SpendInv'
  <2>1. /\ spent' = spent \ {o} /\ pc[t] = "rollback"
        /\ applied' = applied /\ stuck' = stuck
    BY <1>2 DEF Unmark, Rollback, boot, proc
  <2>2. \A u \in Task : held'[u] = IF u = t THEN held[t] \ {o} ELSE held[u]
    BY <1>2 DEF TypeOK
  <2>3. o \notin stuck /\ \A u \in Task : u # t => o \notin held[u]
    BY <1>2 DEF ClaimsDisjoint
  <2>4. \A b \in Block : applied[b] > 0 => o \notin Spends[b]
    BY <1>2 DEF ClaimsDisjoint
  <2>5. NoDoubleSpend'
    BY <2>1 DEF NoDoubleSpend
  <2>6. ClaimsExact'
    BY <2>1, <2>2, <2>3, <2>4 DEF ClaimsExact
  <2>7. ClaimsDisjoint'
    BY <2>1, <2>2 DEF ClaimsDisjoint
  <2>8. CallClaims'
    BY <1>2, <2>1, <2>2 DEF CallClaims, TypeOK
  <2>9. StuckUnspent'
    BY <2>1 DEF StuckUnspent
  <2> QED BY <2>5, <2>6, <2>7, <2>8, <2>9
<1> QED BY <1>1, <1>2 DEF Rollback

\* apply_diff turns the claims of the call into applied spends.
LEMMA SpendApply ==
    ASSUME TypeInv, SpendInv, NEW t \in Task, ApplyDiff(t)
    PROVE  SpendInv'
<1> USE DEF TypeInv, SpendInv
<1> DEFINE b == blk[t]
<1>1. /\ pc[t] = "apply" /\ b \in Block
      /\ applied' = [applied EXCEPT ![b] = @ + 1]
      /\ held' = [held EXCEPT ![t] = {}]
      /\ UNCHANGED <<spent, stuck, blk, todo>>
      /\ pc' = [pc EXCEPT ![t] = "edges"]
  BY DEF ApplyDiff, Goto, TypeOK, proc
<1>2. held[t] = Spends[b]
  BY <1>1 DEF CallClaims
<1>3. \A u \in Task : held'[u] = IF u = t THEN {} ELSE held[u]
  BY <1>1 DEF TypeOK
<1>4. \A c \in Block : applied'[c] = IF c = b THEN applied[b] + 1 ELSE applied[c]
  BY <1>1 DEF TypeOK
<1>5. \A c \in Block : applied[c] \in Nat
  BY DEF TypeOK
<1>6. \A c \in Block : applied[c] > 0 => Spends[b] \cap Spends[c] = {}
  BY <1>2 DEF ClaimsDisjoint
<1>7. \A c \in Block : applied'[c] > 0 <=> c = b \/ applied[c] > 0
  BY <1>4, <1>5
<1>8. NoDoubleSpend'
  <2>1. Spends[b] # {} => applied[b] = 0
    BY <1>1, <1>5, <1>6
  <2>2. ASSUME NEW c \in Block, applied'[c] > 0, Spends[c] # {} PROVE applied'[c] = 1
    BY <1>4, <1>5, <2>1, <2>2 DEF NoDoubleSpend
  <2>3. ASSUME NEW c \in Block, NEW d \in Block, c # d, applied'[c] > 0, applied'[d] > 0
        PROVE  Spends[c] \cap Spends[d] = {}
    BY <1>6, <1>7, <2>3 DEF NoDoubleSpend
  <2> QED BY <2>2, <2>3 DEF NoDoubleSpend
<1>9. ClaimsExact'
  <2> SUFFICES ASSUME NEW o \in Outpoint
               PROVE  o \in spent <=> \/ \E c \in Block : applied'[c] > 0 /\ o \in Spends[c]
                                      \/ \E u \in Task : o \in held'[u]
                                      \/ o \in stuck
    BY <1>1 DEF ClaimsExact
  <2>1. (\E c \in Block : applied'[c] > 0 /\ o \in Spends[c])
         <=> o \in Spends[b] \/ \E c \in Block : applied[c] > 0 /\ o \in Spends[c]
    BY <1>1, <1>7
  <2>2. (\E u \in Task : o \in held[u]) <=> o \in Spends[b] \/ \E u \in Task : o \in held'[u]
    BY <1>2, <1>3
  <2> QED BY <2>1, <2>2 DEF ClaimsExact
<1>10. ClaimsDisjoint'
  <2>1. \A u, v \in Task : u # v => held'[u] \cap held'[v] = {}
    BY <1>3 DEF ClaimsDisjoint
  <2>2. ASSUME NEW u \in Task, NEW c \in Block, applied'[c] > 0
        PROVE  held'[u] \cap Spends[c] = {}
    <3>1. CASE u = t
      BY <1>3, <3>1
    <3>2. CASE u # t /\ c = b
      BY <1>2, <1>3, <3>2 DEF ClaimsDisjoint
    <3>3. CASE u # t /\ c # b
      BY <1>3, <1>7, <2>2, <3>3 DEF ClaimsDisjoint
    <3> QED BY <3>1, <3>2, <3>3
  <2>3. \A u \in Task : held'[u] \cap stuck' = {}
    BY <1>1, <1>3 DEF ClaimsDisjoint
  <2> QED BY <2>1, <2>2, <2>3 DEF ClaimsDisjoint
<1>11. CallClaims'
  BY <1>1, <1>3 DEF CallClaims, TypeOK
<1>12. StuckUnspent'
  <2>1. stuck \cap Spends[b] = {}
    BY <1>2 DEF ClaimsDisjoint
  <2> QED BY <1>1, <1>7, <2>1 DEF StuckUnspent
<1> QED BY <1>8, <1>9, <1>10, <1>11, <1>12

\* The other steps of a call leave the claims alone.
LEMMA SpendCall ==
    ASSUME TypeInv, SpendInv, NEW t \in Task, CallStep(t)
    PROVE  SpendInv'
<1> USE DEF TypeInv, SpendInv
<1>0. ASSUME NEW r, Return(t, r), pc[t] \notin {"claim", "rollback", "apply"},
             UNCHANGED <<applied, spent, stuck>>
      PROVE  SpendInv'
  <2>1. held[t] = {}
    BY <1>0 DEF CallClaims
  <2>2. held' = held
    BY <1>0, <2>1 DEF Return, TypeOK
  <2>3. CallClaims'
    BY <1>0, <2>2 DEF Return, Goto, CallClaims, TypeOK
  <2> QED BY <1>0, <2>2, <2>3, SpendFrame
<1>1. ASSUME NEW o \in Outpoint, CheckInput(t, o) PROVE SpendInv'
  <2>1. UNCHANGED <<applied, spent, stuck>> /\ pc[t] = "validate"
    BY <1>1 DEF CheckInput, ram, boot, proc
  <2>2. CASE Return(t, "Rejected")
    BY <2>1, <2>2, <1>0
  <2>3. CASE todo' = [todo EXCEPT ![t] = @ \ {o}] /\ UNCHANGED <<pc, blk, held, snap, reply>>
    <3>1. CallClaims'
      BY <2>1, <2>3 DEF CallClaims, TypeOK
    <3> QED BY <2>1, <2>3, <3>1, SpendFrame
  <2> QED BY <1>1, <2>2, <2>3 DEF CheckInput
<1>2. CASE InputsChecked(t)
  <2>1. CallClaims'
    BY <1>2 DEF InputsChecked, Goto, CallClaims, TypeOK
  <2> QED BY <1>2, <2>1, SpendFrame DEF InputsChecked, ram, boot, proc
<1>3. CASE CheckKey(t)
  <2>1. UNCHANGED <<applied, spent, stuck>> /\ pc[t] = "key"
    BY <1>3 DEF CheckKey, ram, boot, proc
  <2>2. CASE Goto(t, "dedup") /\ UNCHANGED <<blk, todo, held, snap, reply>>
    <3>1. CallClaims'
      BY <2>1, <2>2 DEF Goto, CallClaims, TypeOK
    <3> QED BY <2>1, <2>2, <3>1, SpendFrame
  <2> QED BY <1>3, <2>1, <2>2, <1>0 DEF CheckKey
<1>4. CASE Dedup(t)
  <2>1. UNCHANGED <<applied, spent, stuck>> /\ pc[t] = "dedup"
    BY <1>4 DEF Dedup, ram, boot, proc
  <2>2. CASE Goto(t, "claimKey") /\ UNCHANGED <<blk, todo, held, snap, reply>>
    <3>1. CallClaims'
      BY <2>1, <2>2 DEF Goto, CallClaims, TypeOK
    <3> QED BY <2>1, <2>2, <3>1, SpendFrame
  <2> QED BY <1>4, <2>1, <2>2, <1>0 DEF Dedup
<1>5. CASE ClaimKey(t)
  <2>1. UNCHANGED <<applied, spent, stuck>> /\ pc[t] = "claimKey"
    BY <1>5 DEF ClaimKey, boot, proc
  <2>2. CASE Goto(t, "claim") /\ UNCHANGED <<blk, todo, held, snap, reply>>
    <3>1. CallClaims'
      BY <2>1, <2>2 DEF Goto, CallClaims, TypeOK
    <3> QED BY <2>1, <2>2, <3>1, SpendFrame
  <2> QED BY <1>5, <2>1, <2>2, <1>0 DEF ClaimKey
<1>6. CASE Claimed(t)
  <2>1. CallClaims'
    BY <1>6 DEF Claimed, Goto, CallClaims, TypeOK
  <2> QED BY <1>6, <2>1, SpendFrame DEF Claimed, ram, boot, proc
<1>7. CASE InsertEdges(t)
  <2>1. CallClaims'
    BY <1>7 DEF InsertEdges, Goto, CallClaims, TypeOK
  <2> QED BY <1>7, <2>1, SpendFrame DEF InsertEdges, boot, proc
<1>8. CASE InsertBlock(t)
  <2>1. CallClaims'
    BY <1>8 DEF InsertBlock, Goto, CallClaims, TypeOK
  <2> QED BY <1>8, <2>1, SpendFrame DEF InsertBlock, boot, proc
<1>9. CASE SnapshotCounts(t)
  <2>1. CallClaims'
    BY <1>9 DEF SnapshotCounts, Goto, CallClaims, TypeOK
  <2> QED BY <1>9, <2>1, SpendFrame DEF SnapshotCounts, ram, boot, proc
<1>10. CASE Send(t)
  BY <1>0, <1>10 DEF Send, ram, proc
<1>11. CASE SendClosed(t)
  BY <1>0, <1>11 DEF SendClosed, ram, boot, proc
<1> QED BY <1>1, <1>2, <1>3, <1>4, <1>5, <1>6, <1>7, <1>8, <1>9, <1>10, <1>11,
           SpendClaimInput, SpendRollback, SpendApply DEF CallStep

\* A dropped call hands its claims over to stuck.
LEMMA SpendDrop ==
    ASSUME TypeInv, SpendInv, NEW t \in Task, Drop(t)
    PROVE  SpendInv'
<1> USE DEF TypeInv, SpendInv
<1>1. /\ UNCHANGED <<applied, spent, blk>> /\ Return(t, "Timeout")
      /\ pc[t] \in {"validate", "key", "apply", "send"}
  BY DEF Drop, MayPend, Return, boot
<1>2. \A u \in Task : held'[u] = IF u = t THEN {} ELSE held[u]
  BY <1>1 DEF Return, TypeOK
<1>3. pc[t] # "apply" => held[t] = {}
  BY <1>1 DEF CallClaims
<1>4. stuck' = stuck \cup held[t]
  <2>1. CASE pc[t] = "apply"
    BY <2>1 DEF Drop
  <2>2. CASE pc[t] # "apply"
    BY <1>3, <2>2 DEF Drop
  <2> QED BY <2>1, <2>2
<1>5. NoDoubleSpend'
  BY <1>1 DEF NoDoubleSpend
<1>6. ClaimsExact'
  BY <1>1, <1>2, <1>4 DEF ClaimsExact
<1>7. ClaimsDisjoint'
  BY <1>1, <1>2, <1>4 DEF ClaimsDisjoint
<1>8. StuckUnspent'
  BY <1>1, <1>4 DEF StuckUnspent, ClaimsDisjoint
<1>9. CallClaims'
  BY <1>1, <1>2 DEF Return, Goto, CallClaims, TypeOK
<1> QED BY <1>5, <1>6, <1>7, <1>8, <1>9

\* A restart forgets the claims and the applied blocks together.
LEMMA SpendRestart ==
    ASSUME NEW kind, Restart(kind)
    PROVE  SpendInv'
<1>1. /\ applied' = [b \in Block |-> 0] /\ spent' = {} /\ stuck' = {}
      /\ held' = [t \in Task |-> {}] /\ pc' = [t \in Task |-> "idle"]
  BY DEF Restart
<1> QED BY <1>1
    DEF SpendInv, NoDoubleSpend, ClaimsExact, ClaimsDisjoint, StuckUnspent, CallClaims

\* SpendInv is an invariant.
LEMMA SpendInvariance == Spec => []SpendInv
<1>1. Init => SpendInv
  BY DEF Init, SpendInv, NoDoubleSpend, ClaimsExact, ClaimsDisjoint, StuckUnspent, CallClaims
<1>2. TypeInv /\ SpendInv /\ [Next]_vars => SpendInv'
  <2> SUFFICES ASSUME TypeInv, SpendInv, [Next]_vars PROVE SpendInv'
    OBVIOUS
  <2>1. CASE \E t \in Task : \E b \in Block \ {Genesis} : Gate(t, b)
    BY <2>1, SpendGate
  <2>2. CASE \E t \in Task : CallStep(t)
    BY <2>2, SpendCall
  <2>5. CASE \E t \in Task : Drop(t)
    BY <2>5, SpendDrop
  <2>3. CASE Consumer \/ UNCHANGED vars
    <3>1. UNCHANGED <<applied, held, spent, stuck, pc, blk, todo>>
      BY <2>3 DEF Consumer, Recv, WriteOk, WriteErr, vars, ram, call, boot, proc
    <3>2. CallClaims'
      BY <3>1 DEF SpendInv, CallClaims
    <3> QED BY <3>1, <3>2, SpendFrame
  <2>4. CASE Crash \/ DrainExit
    BY <2>4, SpendRestart DEF Crash, DrainExit
  <2> QED BY <2>1, <2>2, <2>3, <2>4, <2>5 DEF Next
<1> QED BY <1>1, <1>2, TypeInvariance, PTL DEF Spec

\* No outpoint is consumed twice by the blocks applied since the boot, however
\* many calls race for it: an input is held by one call from try_mark_spent to
\* apply_diff, and by an applied block afterwards.
THEOREM SpendOnce == Spec => [](NoDoubleSpend /\ ClaimsExact)
BY SpendInvariance, PTL DEF SpendInv

-----------------------------------------------------------------------------
(* A bridge lock or mint nonce is consumed once, crashes included.         *)

\* A step that puts no block in flight and stores none keeps the keys apart.
LEMMA KeyFrame ==
    ASSUME KeyInv, InFlight' \subseteq InFlight, ramKeys \subseteq ramKeys',
           UNCHANGED <<dbBlock, dbKeys>>,
           \A t \in Task : pc'[t] \in {"dedup", "claimKey"}
                           => (Keys(blk[t]) \cap dbKeys \subseteq ramKeys) /\ blk'[t] = blk[t]
    PROVE  KeyInv'
<1>1. \A b \in InFlight' : Keys(b) \subseteq ramKeys'
  BY DEF KeyInv
<1>2. \A b \in dbBlock' : Keys(b) \subseteq dbKeys'
  BY DEF KeyInv
<1>3. \A t \in Task : pc'[t] \in {"dedup", "claimKey"} => Keys(blk'[t]) \cap dbKeys' \subseteq ramKeys'
  <2> SUFFICES ASSUME NEW t \in Task, pc'[t] \in {"dedup", "claimKey"}
               PROVE  Keys(blk'[t]) \cap dbKeys' \subseteq ramKeys'
    OBVIOUS
  <2>1. blk'[t] = blk[t] /\ Keys(blk[t]) \cap dbKeys \subseteq ramKeys
    OBVIOUS
  <2> QED BY <2>1
<1>4. \A b, c \in InFlight' \cup dbBlock' : b # c => Keys(b) \cap Keys(c) = {}
  BY DEF KeyInv
<1> QED BY <1>1, <1>2, <1>3, <1>4 DEF KeyInv, Keys

\* The in-flight blocks after a call's step.
LEMMA CallInFlight ==
    ASSUME TypeInv, NEW t \in Task, UNCHANGED <<queue, batch, blk>>,
           \A u \in Task : u # t => pc'[u] = pc[u],
           pc'[t] \in Owning => pc[t] \in Owning
    PROVE  InFlight' \subseteq InFlight
BY DEF InFlight, Queued, TypeInv, TypeOK

\* ClaimKey: the key joins ramKeys in the step that puts its block in flight.
LEMMA KeyClaim ==
    ASSUME TypeInv, KeyInv, NEW t \in Task, ClaimKey(t)
    PROVE  KeyInv'
<1> USE DEF TypeInv
<1> DEFINE b == blk[t]
<1>1. /\ pc[t] = "claimKey" /\ b \in Block
      /\ UNCHANGED <<queue, batch, blk, dbBlock, dbKeys>>
      /\ \A u \in Task : u # t => pc'[u] = pc[u]
  BY CallKeepsBlock DEF ClaimKey, CallStep, pipe, db, TypeOK
<1>2. CASE Consumed(b)
  <2>1. pc'[t] = "idle" /\ ramKeys' = ramKeys
    BY <1>2 DEF ClaimKey, Return, Goto, TypeOK
  <2>2. InFlight' \subseteq InFlight
    BY <1>1, <2>1, CallInFlight DEF Owning
  <2>3. \A u \in Task : pc'[u] \in {"dedup", "claimKey"}
                        => (Keys(blk[u]) \cap dbKeys \subseteq ramKeys) /\ blk'[u] = blk[u]
    BY <1>1, <2>1 DEF KeyInv
  <2> QED BY <1>1, <2>1, <2>2, <2>3, KeyFrame
<1>3. CASE ~Consumed(b)
  <2>1. pc'[t] = "claim" /\ ramKeys' = ramKeys \cup Keys(b)
    BY <1>3 DEF ClaimKey, Goto, TypeOK
  <2>2. Keys(b) \cap ramKeys = {}
    BY <1>3 DEF Consumed, Keys
  <2>3. Keys(b) \cap dbKeys = {}
    BY <1>1, <2>2 DEF KeyInv
  <2>4. InFlight' \subseteq InFlight \cup {b}
    BY <1>1, <2>1 DEF InFlight, Queued
  <2>5. \A c \in InFlight' : Keys(c) \subseteq ramKeys'
    BY <2>1, <2>4 DEF KeyInv
  <2>6. \A c \in dbBlock' : Keys(c) \subseteq dbKeys'
    BY <1>1 DEF KeyInv
  <2>7. \A u \in Task : pc'[u] \in {"dedup", "claimKey"}
                        => Keys(blk'[u]) \cap dbKeys' \subseteq ramKeys'
    BY <1>1, <2>1 DEF KeyInv
  <2>8. \A c \in InFlight \cup dbBlock : Keys(b) \cap Keys(c) = {}
    BY <2>2, <2>3 DEF KeyInv
  <2>9. \A c, d \in InFlight' \cup dbBlock' : c # d => Keys(c) \cap Keys(d) = {}
    BY <1>1, <2>4, <2>8 DEF KeyInv
  <2> QED BY <2>5, <2>6, <2>7, <2>9 DEF KeyInv, Keys
<1> QED BY <1>2, <1>3

\* CheckKey: a call goes on only if no stored block has consumed its key.
LEMMA KeyCall ==
    ASSUME TypeInv, KeyInv, NEW t \in Task, CallStep(t)
    PROVE  KeyInv'
<1> USE DEF TypeInv
<1>1. blk' = blk /\ \A u \in Task : u # t => pc'[u] = pc[u]
  BY CallKeepsBlock
<1>2. ASSUME UNCHANGED <<dbBlock, dbKeys, ramKeys>>, InFlight' \subseteq InFlight,
             pc'[t] \in {"dedup", "claimKey"} => Keys(blk[t]) \cap dbKeys \subseteq ramKeys
      PROVE  KeyInv'
  <2>1. \A u \in Task : pc'[u] \in {"dedup", "claimKey"}
                        => (Keys(blk[u]) \cap dbKeys \subseteq ramKeys) /\ blk'[u] = blk[u]
    BY <1>1, <1>2 DEF KeyInv
  <2> QED BY <1>2, <2>1, KeyFrame
<1>3. ASSUME NEW o \in Outpoint, CheckInput(t, o) \/ ClaimInput(t, o)
      PROVE  KeyInv'
  <2>1. /\ UNCHANGED <<queue, batch, dbBlock, dbKeys, ramKeys>>
        /\ pc'[t] \in Owning => pc[t] \in Owning
        /\ pc'[t] \notin {"dedup", "claimKey"}
    BY <1>3 DEF CheckInput, ClaimInput, Return, Goto, Owning, ram, pipe, db, TypeOK
  <2> QED BY <1>1, <1>2, <2>1, CallInFlight
<1>4. CASE InputsChecked(t)
  <2>1. /\ UNCHANGED <<queue, batch, dbBlock, dbKeys, ramKeys>>
        /\ pc'[t] = "key"
    BY <1>4 DEF InputsChecked, Goto, ram, pipe, db, TypeOK
  <2> QED BY <1>1, <1>2, <2>1, CallInFlight DEF Owning
<1>5. CASE CheckKey(t)
  <2>1. /\ UNCHANGED <<queue, batch, dbBlock, dbKeys, ramKeys>>
        /\ pc'[t] = "idle" \/ (pc'[t] = "dedup" /\ KeyOf[blk[t]] \notin dbKeys)
    BY <1>5 DEF CheckKey, Return, Goto, ram, pipe, db, TypeOK
  <2>2. pc'[t] = "dedup" => Keys(blk[t]) \cap dbKeys = {}
    BY <2>1 DEF Keys
  <2> QED BY <1>1, <1>2, <2>1, <2>2, CallInFlight DEF Owning
<1>6. CASE Dedup(t)
  <2>1. /\ UNCHANGED <<queue, batch, dbBlock, dbKeys, ramKeys>>
        /\ pc[t] = "dedup" /\ pc'[t] \in {"idle", "claimKey"}
    BY <1>6 DEF Dedup, Return, Goto, ram, pipe, db, TypeOK
  <2>2. Keys(blk[t]) \cap dbKeys \subseteq ramKeys
    BY <2>1 DEF KeyInv
  <2> QED BY <1>1, <1>2, <2>1, <2>2, CallInFlight DEF Owning
<1>7. CASE Rollback(t) \/ Claimed(t) \/ ApplyDiff(t) \/ InsertEdges(t)
  <2>1. /\ UNCHANGED <<queue, batch, dbBlock, dbKeys, ramKeys>>
        /\ pc[t] \in Owning /\ pc'[t] \notin {"dedup", "claimKey"}
    BY <1>7 DEF Rollback, Claimed, ApplyDiff, InsertEdges, Return, Goto, Owning, ram, pipe, db, TypeOK
  <2> QED BY <1>1, <1>2, <2>1, CallInFlight
<1>8. CASE InsertBlock(t) \/ SnapshotCounts(t) \/ SendClosed(t)
  <2>1. /\ UNCHANGED <<queue, batch, dbBlock, dbKeys, ramKeys>>
        /\ pc[t] \in Owning /\ pc'[t] \notin {"dedup", "claimKey"}
    BY <1>8 DEF InsertBlock, SnapshotCounts, SendClosed, Return, Goto, Owning, ram, pipe, db, TypeOK
  <2> QED BY <1>1, <1>2, <2>1, CallInFlight
<1>9. CASE Send(t)
  <2> DEFINE job == [block |-> blk[t], count |-> snap[t]]
  <2>1. /\ UNCHANGED <<batch, dbBlock, dbKeys, ramKeys>>
        /\ pc[t] = "send" /\ pc'[t] = "idle" /\ queue' = Append(queue, job)
    BY <1>9 DEF Send, Return, Goto, ram, db, TypeOK
  <2>2. \A i \in DOMAIN queue' : queue'[i] = job \/ (i \in DOMAIN queue /\ queue'[i] = queue[i])
    BY <2>1 DEF TypeOK
  <2>3. job.block = blk[t]
    OBVIOUS
  <2>4. Queued' \subseteq Queued \cup {blk[t]}
    BY <2>1, <2>2, <2>3 DEF Queued
  <2>5. InFlight' \subseteq InFlight
    BY <1>1, <2>1, <2>4 DEF InFlight, Owning
  <2> QED BY <1>2, <2>1, <2>5
<1> QED BY <1>3, <1>4, <1>5, <1>6, <1>7, <1>8, <1>9, KeyClaim DEF CallStep

\* A stored batch: its blocks were in flight, so their keys are in ramKeys.
LEMMA KeyAppend ==
    ASSUME TypeInv, KeyInv, AppendBlocksBatch,
           UNCHANGED <<ramKeys, pc, blk>>, InFlight' \subseteq InFlight
    PROVE  KeyInv'
<1> DEFINE written == {batch[i].block : i \in Fresh}
<1>1. dbBlock' = dbBlock \cup written /\ dbKeys' = dbKeys \cup UNION {Keys(b) : b \in written}
  BY DEF AppendBlocksBatch
<1>2. written \subseteq InFlight
  BY DEF Fresh, InFlight, Queued, TypeInv, TypeOK
<1> HIDE DEF written
<1>3. \A b \in InFlight' : Keys(b) \subseteq ramKeys'
  BY DEF KeyInv
<1>4. \A b \in dbBlock' : Keys(b) \subseteq dbKeys'
  BY <1>1 DEF KeyInv
<1>5. \A t \in Task : pc'[t] \in {"dedup", "claimKey"} => Keys(blk'[t]) \cap dbKeys' \subseteq ramKeys'
  <2>1. \A b \in written : Keys(b) \subseteq ramKeys
    BY <1>2 DEF KeyInv
  <2> QED BY <1>1, <2>1 DEF KeyInv
<1>6. \A b, c \in InFlight' \cup dbBlock' : b # c => Keys(b) \cap Keys(c) = {}
  BY <1>1, <1>2 DEF KeyInv
<1> QED BY <1>3, <1>4, <1>5, <1>6 DEF KeyInv, Keys

LEMMA KeyConsumer ==
    ASSUME TypeInv, KeyInv, Consumer
    PROVE  KeyInv'
<1> USE DEF TypeInv
<1>0. UNCHANGED <<ramKeys, pc, blk>>
  BY DEF Consumer, Recv, WriteOk, WriteErr, ram, call
<1>1. CASE Recv
  <2> DEFINE n == Least(Len(queue), MaxBatch)
  <2>1. Len(queue) \in Nat /\ MaxBatch \in Nat /\ queue \in Seq(Job)
    BY BoundAssumption DEF TypeOK
  <2>2. n \in Nat /\ n <= Len(queue)
    BY <2>1 DEF Least
  <2>3. batch' = SubSeq(queue, 1, n) /\ queue' = SubSeq(queue, n + 1, Len(queue))
    BY <1>1 DEF Recv, Rest
  <2> HIDE DEF n
  <2>4. \A i \in DOMAIN batch' : i \in DOMAIN queue /\ batch'[i] = queue[i]
    BY <2>1, <2>2, <2>3
  <2>5. \A i \in DOMAIN queue' : n + i \in DOMAIN queue /\ queue'[i] = queue[n + i]
    BY <2>1, <2>2, <2>3
  <2>6. Queued' \subseteq Queued
    BY <2>4, <2>5 DEF Queued
  <2>7. InFlight' \subseteq InFlight
    BY <1>0, <2>6 DEF InFlight
  <2>8. UNCHANGED <<dbBlock, dbKeys>>
    BY <1>1 DEF Recv, db
  <2> QED BY <1>0, <2>7, <2>8, KeyFrame DEF KeyInv
<1>2. CASE WriteOk
  <2>1. InFlight' \subseteq InFlight
    BY <1>0, <1>2 DEF WriteOk, InFlight, Queued
  <2> QED BY <1>0, <1>2, <2>1, KeyAppend DEF WriteOk
<1>3. CASE WriteErr
  <2>1. (queue' = queue \/ queue' = <<>>) /\ (batch' = batch \/ batch' = <<>>)
    BY <1>3, Zenon DEF WriteErr
  <2>2. Queued' \subseteq Queued
    BY <2>1 DEF Queued
  <2>3. InFlight' \subseteq InFlight
    BY <1>0, <2>2 DEF InFlight
  <2>4. AppendBlocksBatch \/ UNCHANGED <<dbBlock, dbKeys>>
    BY <1>3 DEF WriteErr, db
  <2>5. CASE AppendBlocksBatch
    BY <1>0, <2>3, <2>5, KeyAppend
  <2>6. CASE UNCHANGED <<dbBlock, dbKeys>>
    BY <1>0, <2>3, <2>6, KeyFrame DEF KeyInv
  <2> QED BY <2>4, <2>5, <2>6
<1> QED BY <1>1, <1>2, <1>3 DEF Consumer

\* KeyInv is an invariant.
LEMMA KeyInvariance == Spec => []KeyInv
<1>1. Init => KeyInv
  BY KeyAssumption DEF Init, KeyInv, InFlight, Queued, Keys, Owning
<1>2. TypeInv /\ KeyInv /\ [Next]_vars => KeyInv'
  <2> SUFFICES ASSUME TypeInv, KeyInv, [Next]_vars PROVE KeyInv'
    OBVIOUS
  <2>1. ASSUME NEW t \in Task, NEW b \in Block, Gate(t, b)
        PROVE  KeyInv'
    <3>1. /\ UNCHANGED <<queue, batch, dbBlock, dbKeys, ramKeys>>
          /\ \A u \in Task : u # t => pc'[u] = pc[u] /\ blk'[u] = blk[u]
          /\ pc'[t] \in {"idle", "validate"} /\ pc[t] = "idle"
      BY <2>1 DEF Gate, Goto, ram, pipe, db, TypeInv, TypeOK
    <3>2. InFlight' \subseteq InFlight
      BY <3>1 DEF InFlight, Queued, Owning
    <3>3. \A u \in Task : pc'[u] \in {"dedup", "claimKey"}
                          => (Keys(blk[u]) \cap dbKeys \subseteq ramKeys) /\ blk'[u] = blk[u]
      BY <3>1 DEF KeyInv
    <3> QED BY <3>1, <3>2, <3>3, KeyFrame
  <2>2. CASE \E t \in Task : CallStep(t)
    BY <2>2, KeyCall
  <2>6. ASSUME NEW t \in Task, Drop(t)
        PROVE  KeyInv'
    <3>1. /\ UNCHANGED <<queue, batch, blk, dbBlock, dbKeys, ramKeys>>
          /\ pc'[t] = "idle" /\ \A u \in Task : u # t => pc'[u] = pc[u]
      BY <2>6 DEF Drop, Return, Goto, pipe, db, TypeInv, TypeOK
    <3>2. InFlight' \subseteq InFlight
      BY <3>1, CallInFlight DEF Owning
    <3>3. \A u \in Task : pc'[u] \in {"dedup", "claimKey"}
                          => (Keys(blk[u]) \cap dbKeys \subseteq ramKeys) /\ blk'[u] = blk[u]
      BY <3>1 DEF KeyInv
    <3> QED BY <3>1, <3>2, <3>3, KeyFrame
  <2>3. CASE Consumer
    BY <2>3, KeyConsumer
  <2>4. CASE Crash \/ DrainExit
    <3>1. /\ UNCHANGED <<dbBlock, dbKeys>> /\ pc' = [t \in Task |-> "idle"]
          /\ queue' = <<>> /\ batch' = <<>>
      BY <2>4 DEF Crash, DrainExit, Restart, db
    <3>2. InFlight' = {}
      BY <3>1 DEF InFlight, Queued, Owning
    <3> QED BY <3>1, <3>2 DEF KeyInv, Keys
  <2>5. CASE UNCHANGED vars
    <3>1. UNCHANGED <<InFlight, ramKeys, dbBlock, dbKeys, pc, blk>>
      BY <2>5 DEF vars, ram, call, pipe, db, InFlight, Queued
    <3> QED BY <3>1, KeyFrame DEF KeyInv
  <2> QED BY <2>1, <2>2, <2>3, <2>4, <2>5, <2>6 DEF Next
<1> QED BY <1>1, <1>2, TypeInvariance, PTL DEF Spec

\* A bridge lock or a mint nonce backs at most one stored block, for every
\* number of concurrent calls, crash and pruning: the claim is in memory before
\* the block is in flight and in RocksDB, in the same write, with the block.
THEOREM KeyConsumedOnce == Spec => []AntiReplay
<1>1. KeyInv => AntiReplay
  BY DEF KeyInv, AntiReplay, Keys
<1> QED BY <1>1, KeyInvariance, PTL

\* The spent set and the claims agree, for every number of concurrent calls: a
\* double-spend reject gives back what its call claimed and nothing else.
THEOREM ClaimsAccounted == Spec => []ClaimsExact
BY SpendOnce, PTL

-----------------------------------------------------------------------------
(* What callers were told is on its way to the disk.                       *)

\* A step that takes nothing off its way to the disk.
LEMMA BackedFrame ==
    ASSUME BackedInv, alive' => alive, acked' \subseteq acked, dag' \subseteq dag,
           dbBlock \subseteq dbBlock', Queued \subseteq dbBlock' \cup Queued',
           forgotten \subseteq forgotten', Unsent \subseteq Unsent' \cup forgotten'
    PROVE  BackedInv'
BY DEF BackedInv

\* The blocks past apply_diff after a step of another kind of call.
LEMMA UnsentKept ==
    ASSUME TypeInv, NEW t \in Task, UNCHANGED blk,
           \A u \in Task : u # t => pc'[u] = pc[u],
           pc[t] \in Applied => pc'[t] \in Applied
    PROVE  Unsent \subseteq Unsent'
BY DEF Unsent

\* The channel and its consumer: a job leaves the batch when it is stored.
LEMMA BackedConsumer ==
    ASSUME TypeInv, BackedInv, Consumer
    PROVE  BackedInv'
<1> USE DEF TypeInv
<1>0. UNCHANGED <<acked, dag, pc, blk, forgotten>> /\ Unsent' = Unsent
  BY DEF Consumer, Recv, WriteOk, WriteErr, ram, call, boot, proc, Unsent
<1>a. ASSUME AppendBlocksBatch
      PROVE  dbBlock \subseteq dbBlock' /\ {batch[i].block : i \in DOMAIN batch} \subseteq dbBlock'
  <2>1. dbBlock' = dbBlock \cup {batch[i].block : i \in Fresh}
    BY <1>a DEF AppendBlocksBatch
  <2>2. DOMAIN batch = 1 .. Len(batch)
    BY DEF TypeOK
  <2> QED BY <2>1, <2>2 DEF Fresh
<1>1. CASE Recv
  <2> DEFINE n == Least(Len(queue), MaxBatch)
  <2>1. Len(queue) \in Nat /\ MaxBatch \in Nat /\ queue \in Seq(Job)
    BY BoundAssumption DEF TypeOK
  <2>2. n \in Nat /\ n <= Len(queue)
    BY <2>1 DEF Least
  <2>3. batch' = SubSeq(queue, 1, n) /\ queue' = SubSeq(queue, n + 1, Len(queue)) /\ batch = <<>>
    BY <1>1 DEF Recv, Rest
  <2> HIDE DEF n
  <2>4. \A i \in DOMAIN queue : i <= n => i \in DOMAIN batch' /\ batch'[i] = queue[i]
    BY <2>1, <2>2, <2>3
  <2>5. \A i \in DOMAIN queue : i > n => i - n \in DOMAIN queue' /\ queue'[i - n] = queue[i]
    BY <2>1, <2>2, <2>3
  <2>6. \A i \in DOMAIN queue : i <= n \/ i > n
    BY <2>1, <2>2
  <2>7. Queued \subseteq Queued'
    <3>1. {batch[i].block : i \in DOMAIN batch} = {}
      BY <2>3
    <3> QED BY <2>4, <2>5, <2>6, <3>1 DEF Queued
  <2> QED BY <1>0, <1>1, <2>7, BackedFrame DEF Recv, db
<1>2. CASE WriteOk
  <2>1. AppendBlocksBatch /\ queue' = queue /\ alive' = alive
    BY <1>2 DEF WriteOk
  <2>2. Queued \subseteq dbBlock' \cup Queued'
    BY <1>a, <2>1 DEF Queued
  <2> QED BY <1>0, <1>a, <2>1, <2>2, BackedFrame
<1>3. CASE WriteErr
  <2>1. alive' = FALSE \/ (alive' = alive /\ queue' = queue /\ batch' = batch)
    BY <1>3, Zenon DEF WriteErr
  <2>2. AppendBlocksBatch \/ dbBlock' = dbBlock
    BY <1>3 DEF WriteErr, db
  <2>3. CASE alive' = FALSE
    BY <2>3 DEF BackedInv
  <2>4. CASE alive' = alive /\ queue' = queue /\ batch' = batch
    <3>1. Queued' = Queued
      BY <2>4 DEF Queued
    <3> QED BY <1>0, <1>a, <2>2, <2>4, <3>1, BackedFrame
  <2> QED BY <2>1, <2>3, <2>4
<1> QED BY <1>1, <1>2, <1>3 DEF Consumer

\* A call's block is in the DAG before it is in the channel, never after.
LEMMA BackedCall ==
    ASSUME TypeInv, BackedInv, NEW t \in Task, CallStep(t)
    PROVE  BackedInv'
<1> USE DEF TypeInv
<1>1. blk' = blk /\ \A u \in Task : u # t => pc'[u] = pc[u]
  BY CallKeepsBlock
<1>2. ASSUME UNCHANGED <<alive, acked, dag, dbBlock, queue, batch, forgotten>>,
             pc[t] \in Applied => pc'[t] \in Applied
      PROVE  BackedInv'
  <2>1. Unsent \subseteq Unsent' /\ Queued' = Queued
    BY <1>1, <1>2, UnsentKept DEF Queued
  <2> QED BY <1>2, <2>1, BackedFrame
<1>3. ASSUME NEW o \in Outpoint, CheckInput(t, o) \/ ClaimInput(t, o)
      PROVE  BackedInv'
  BY <1>2, <1>3 DEF CheckInput, ClaimInput, Applied, ram, pipe, db, boot, proc
<1>4. CASE InputsChecked(t) \/ CheckKey(t) \/ Dedup(t) \/ ClaimKey(t)
  BY <1>2, <1>4 DEF InputsChecked, CheckKey, Dedup, ClaimKey, Applied, ram, pipe, db, boot, proc
<1>5. CASE Rollback(t) \/ Claimed(t)
  BY <1>2, <1>5 DEF Rollback, Claimed, Applied, ram, pipe, db, boot, proc
<1>6. CASE ApplyDiff(t) \/ InsertEdges(t) \/ SnapshotCounts(t)
  <2>1. pc'[t] \in Applied
    BY <1>6 DEF ApplyDiff, InsertEdges, SnapshotCounts, Goto, Applied, TypeOK
  <2> QED BY <1>2, <1>6, <2>1 DEF ApplyDiff, InsertEdges, SnapshotCounts, ram, pipe, db, boot, proc
<1>7. CASE InsertBlock(t)
  <2>1. /\ pc'[t] \in Applied
        /\ UNCHANGED <<alive, acked, dbBlock, queue, batch, forgotten>>
    BY <1>7 DEF InsertBlock, Goto, Applied, TypeOK, pipe, db, boot, proc
  <2>2. dag' \subseteq dag \cup {blk[t]}
    BY <1>7 DEF InsertBlock, Windows
  <2>3. Unsent \subseteq Unsent' /\ blk[t] \in Unsent' /\ Queued' = Queued
    BY <1>1, <2>1, UnsentKept DEF Unsent, Queued
  <2> QED BY <2>1, <2>2, <2>3 DEF BackedInv
<1>8. CASE Send(t)
  <2> DEFINE job == [block |-> blk[t], count |-> snap[t]]
  <2>1. /\ UNCHANGED <<alive, dag, dbBlock, batch, forgotten>>
        /\ acked' = acked \cup {blk[t]} /\ queue' = Append(queue, job)
    BY <1>8 DEF Send, ram, db, proc
  <2>2. /\ Len(queue) + 1 \in DOMAIN queue' /\ queue'[Len(queue) + 1] = job
        /\ \A i \in DOMAIN queue : i \in DOMAIN queue' /\ queue'[i] = queue[i]
    BY <2>1 DEF TypeOK
  <2>3. job.block = blk[t]
    OBVIOUS
  <2> HIDE DEF job
  <2>4. blk[t] \in Queued' /\ Queued \subseteq Queued'
    BY <2>1, <2>2, <2>3 DEF Queued
  <2>5. Unsent \subseteq Unsent' \cup {blk[t]}
    BY <1>1 DEF Unsent
  <2> QED BY <2>1, <2>4, <2>5 DEF BackedInv
<1>9. CASE SendClosed(t)
  <2>1. ~alive /\ alive' = alive
    BY <1>9 DEF SendClosed, Closed, pipe
  <2> QED BY <2>1 DEF BackedInv
<1> QED BY <1>3, <1>4, <1>5, <1>6, <1>7, <1>8, <1>9 DEF CallStep

\* BackedInv is an invariant.
LEMMA BackedInvariance == Spec => []BackedInv
<1>1. Init => BackedInv
  BY DEF Init, BackedInv
<1>2. TypeInv /\ BackedInv /\ [Next]_vars => BackedInv'
  <2> SUFFICES ASSUME TypeInv, BackedInv, [Next]_vars PROVE BackedInv'
    OBVIOUS
  <2>1. ASSUME NEW t \in Task, NEW b \in Block, Gate(t, b)
        PROVE  BackedInv'
    <3>1. /\ UNCHANGED <<alive, acked, dag, dbBlock, queue, batch, forgotten>>
          /\ pc[t] = "idle" /\ \A u \in Task : u # t => pc'[u] = pc[u] /\ blk'[u] = blk[u]
      BY <2>1 DEF Gate, Goto, ram, pipe, db, boot, proc, TypeInv, TypeOK
    <3>2. Unsent \subseteq Unsent' /\ Queued' = Queued
      BY <3>1 DEF Unsent, Applied, Queued
    <3> QED BY <3>1, <3>2, BackedFrame
  <2>2. CASE \E t \in Task : CallStep(t)
    BY <2>2, BackedCall
  <2>3. ASSUME NEW t \in Task, Drop(t)
        PROVE  BackedInv'
    <3>1. /\ UNCHANGED <<alive, acked, dag, dbBlock, queue, batch, blk>>
          /\ \A u \in Task : u # t => pc'[u] = pc[u]
          /\ forgotten \subseteq forgotten' /\ (pc[t] = "send" => blk[t] \in forgotten')
          /\ pc[t] \in {"validate", "key", "apply", "send"}
      BY <2>3 DEF Drop, MayPend, Return, Goto, pipe, db, boot, TypeInv, TypeOK
    <3>2. Unsent \subseteq Unsent' \cup forgotten' /\ Queued' = Queued
      BY <3>1 DEF Unsent, Applied, Queued
    <3> QED BY <3>1, <3>2, BackedFrame
  <2>4. CASE Consumer
    BY <2>4, BackedConsumer
  <2>5. CASE Crash \/ DrainExit
    <3>1. acked' = {} /\ dag' \subseteq dbBlock /\ dbBlock' = dbBlock
      BY <2>5 DEF Crash, DrainExit, Restart, Windows, db
    <3> QED BY <3>1 DEF BackedInv
  <2>6. CASE UNCHANGED vars
    <3>1. UNCHANGED <<alive, acked, dag, dbBlock, Queued, Unsent, forgotten>>
      BY <2>6 DEF vars, ram, call, pipe, db, boot, proc, Queued, Unsent
    <3> QED BY <3>1, BackedFrame
  <2> QED BY <2>1, <2>2, <2>3, <2>4, <2>5, <2>6 DEF Next
<1> QED BY <1>1, <1>2, TypeInvariance, PTL DEF Spec

\* While the consumer lives, an Inserted or AlreadyExists answer is backed by a
\* block that is stored or on its way to the disk, unless the request that
\* carried it was dropped at a full channel; for every capacity of the channel,
\* every batch size and every number of calls.
THEOREM BackedAnswers == Spec => []AnswersBacked
<1>1. BackedInv => AnswersBacked
  BY DEF BackedInv, AnswersBacked, InFlight, Unsent, Applied, Owning
<1> QED BY <1>1, BackedInvariance, PTL

-----------------------------------------------------------------------------
(* One call at a time: the stored blocks are a Ledger.                     *)

LEMMA OneTask ==
    ASSUME Serial, NEW t \in Task
    PROVE  /\ \A u \in Task : u = t
           /\ Unsent = IF pc[t] \in Applied THEN {blk[t]} ELSE {}
           /\ Unsent' = IF pc'[t] \in Applied THEN {blk'[t]} ELSE {}
<1>1. \A u \in Task : u = t
  BY DEF Serial
<1> QED BY <1>1 DEF Unsent

\* Membership in the stored UTXO set.
LEMMA StoredCoins ==
    ASSUME DurableUtxoExact, NEW o
    PROVE  o \in dbUtxo <=> /\ \E b \in dbBlock : o \in Creates[b]
                            /\ \A b \in dbBlock : o \notin Spends[b]
BY DEF DurableUtxoExact, Created, Spent

LEMMA QueuedParts ==
    Queued = QueueBlocks \cup BatchBlocks /\ Queued' = QueueBlocks' \cup BatchBlocks'
BY DEF Queued, QueueBlocks, BatchBlocks

LEMMA KnownBlocks ==
    ASSUME TypeInv
    PROVE  Queued \subseteq Block /\ Known \subseteq Block
<1>1. \A i \in DOMAIN queue : queue[i] \in Job
  BY DEF TypeInv, TypeOK
<1>2. \A i \in DOMAIN batch : batch[i] \in Job
  BY DEF TypeInv, TypeOK
<1>3. Queued \subseteq Block
  BY <1>1, <1>2 DEF Queued, Job
<1> QED BY <1>3 DEF Known, Unsent, TypeInv, TypeOK

\* Every stored or waiting block spends what a stored or waiting block created.
LEMMA WaitingReady ==
    ASSUME TypeInv, SerialInv, alive, NEW b \in dbBlock \cup Queued
    PROVE  Spends[b] \subseteq Created(dbBlock \cup Queued)
<1>1. CASE b \in dbBlock
  <2>1. CASE b = Genesis
    BY <2>1, DeltaAssumption
  <2>2. CASE b # Genesis
    BY <1>1, <2>2 DEF SerialInv, StoredValid, Ready, Created
  <2> QED BY <2>1, <2>2
<1>2. CASE b \in BatchBlocks
  <2>1. PICK i \in DOMAIN batch : b = batch[i].block
    BY <1>2 DEF BatchBlocks
  <2>2. {batch[j].block : j \in 1 .. i - 1} \subseteq BatchBlocks
    BY DEF BatchBlocks, TypeInv, TypeOK
  <2>3. Spends[b] \subseteq Created(dbBlock \cup {batch[j].block : j \in 1 .. i - 1})
    BY <2>1 DEF SerialInv, OrderlyBatch, Ready
  <2> QED BY <2>2, <2>3, QueuedParts DEF Created
<1>3. CASE b \in QueueBlocks
  <2>1. PICK i \in DOMAIN queue : b = queue[i].block
    BY <1>3 DEF QueueBlocks
  <2>2. {queue[j].block : j \in 1 .. i - 1} \subseteq QueueBlocks
    BY DEF QueueBlocks, TypeInv, TypeOK
  <2>3. Spends[b] \subseteq Created(dbBlock \cup BatchBlocks \cup {queue[j].block : j \in 1 .. i - 1})
    BY <2>1 DEF SerialInv, OrderlyQueue, Ready
  <2> QED BY <2>2, <2>3, QueuedParts DEF Created
<1> QED BY <1>1, <1>2, <1>3, QueuedParts

\* A step of the call that touches none of the stores.
LEMMA SerialFrame ==
    ASSUME SerialInv, Unsent' = Unsent, alive => CallReady',
           UNCHANGED <<dag, dbBlock, dbUtxo, queue, batch, utxo, applied, alive, forgotten>>,
           \A t \in Task : pc'[t] \in {"snapshot", "send"} => blk'[t] \in dag
    PROVE  SerialInv'
<1>1. Queued' = Queued /\ BatchBlocks' = BatchBlocks /\ Known' = Known
  BY DEF Queued, BatchBlocks, Known
<1>2. StoredValid' /\ DurableUtxoExact'
  BY DEF SerialInv, StoredValid, DurableUtxoExact, Ready, Created, Spent
<1>3. alive => OrderlyBatch' /\ OrderlyQueue' /\ MemoryExact'
  <2>1. alive => OrderlyBatch'
    BY DEF SerialInv, OrderlyBatch, Ready, Created
  <2>2. alive => OrderlyQueue'
    BY <1>1 DEF SerialInv, OrderlyQueue, Ready, Created
  <2>3. alive => MemoryExact'
    BY <1>1 DEF SerialInv, MemoryExact, Created, Spent
  <2> QED BY <2>1, <2>2, <2>3
<1> QED BY <1>1, <1>2, <1>3 DEF SerialInv

\* apply_diff: none of the inputs is spent by a block the memory knows, and
\* none of the outputs was known before.
LEMMA SerialApply ==
    ASSUME Serial, TypeInv, SpendInv, SerialInv, NEW t \in Task, ApplyDiff(t)
    PROVE  SerialInv'
<1> DEFINE b == blk[t]
<1> USE DEF TypeInv
<1>1. /\ UNCHANGED <<dag, dbBlock, dbUtxo, queue, batch, alive, forgotten, blk>>
      /\ utxo' = (utxo \ Spends[b]) \cup Creates[b]
      /\ applied' = [applied EXCEPT ![b] = @ + 1]
      /\ pc[t] = "apply" /\ pc' = [pc EXCEPT ![t] = "edges"] /\ b \in Block
  BY DEF ApplyDiff, Goto, pipe, db, proc, TypeOK
<1>2. Queued' = Queued /\ BatchBlocks' = BatchBlocks /\ Unsent = {} /\ Unsent' = {b}
      /\ pc'[t] = "edges"
  BY <1>1, OneTask DEF Queued, BatchBlocks, Applied, TypeOK
<1>3. StoredValid' /\ DurableUtxoExact'
  <2>1. StoredValid'
    BY <1>1 DEF SerialInv, StoredValid, Ready, Created
  <2>2. DurableUtxoExact'
    BY <1>1 DEF SerialInv, DurableUtxoExact, Created, Spent
  <2> QED BY <2>1, <2>2
<1>4. alive => OrderlyBatch' /\ OrderlyQueue'
  BY <1>1, <1>2 DEF SerialInv, OrderlyBatch, OrderlyQueue, Ready, Created
<1>5. ASSUME alive PROVE MemoryExact' /\ CallReady'
  <2> USE <1>5
  <2>1. Known = dbBlock \cup Queued /\ Known' = Known \cup {b} /\ b \notin Known
    BY <1>1, <1>2 DEF Known, SerialInv, CallReady
  <2>2. \A c \in Known : Spends[b] \cap Spends[c] = {}
    <3> SUFFICES ASSUME NEW c \in Known PROVE Spends[b] \cap Spends[c] = {}
      OBVIOUS
    <3>0. c \in Block /\ applied[c] \in Nat
      BY KnownBlocks DEF TypeOK
    <3>1. CASE applied[c] > 0
      BY <1>1, <3>0, <3>1 DEF SpendInv, CallClaims, ClaimsDisjoint
    <3>2. CASE applied[c] = 0
      <4>1. c \in dbBlock
        BY <2>1, <3>2 DEF SerialInv, MemoryExact
      <4> QED BY <1>1, <3>2, <4>1 DEF SerialInv, CallReady, LookedUp
    <3> QED BY <3>0, <3>1, <3>2
  <2>3. Creates[b] \cap Spent(Known) = {}
    <3> SUFFICES ASSUME NEW c \in Known, NEW o \in Spends[c], o \in Creates[b] PROVE FALSE
      BY DEF Spent
    <3>1. PICK d \in Known : o \in Creates[d]
      BY <2>1, WaitingReady DEF Created
    <3>2. d \in Block /\ d # b
      BY <2>1, KnownBlocks
    <3> QED BY <1>1, <3>1, <3>2, OutpointAssumption
  <2>4. Created(Known') = Created(Known) \cup Creates[b] /\ Spent(Known') = Spent(Known) \cup Spends[b]
    BY <2>1 DEF Created, Spent
  <2>5. utxo = Created(Known) \ Spent(Known)
    BY DEF SerialInv, MemoryExact
  <2>6. utxo' = Created(Known') \ Spent(Known')
    BY <1>1, <2>3, <2>4, <2>5, OutpointAssumption
  <2>7. \A c, d \in Known' : c # d => Spends[c] \cap Spends[d] = {}
    BY <2>1, <2>2 DEF SerialInv, MemoryExact
  <2>8. \A c \in Block : applied'[c] = (IF c = b THEN applied[b] + 1 ELSE applied[c]) /\ applied[c] \in Nat
    BY <1>1 DEF TypeOK
  <2>9. \A c \in Queued' \cup Unsent' : applied'[c] > 0
    <3>1. \A c \in Queued : c \in Block /\ applied[c] > 0
      BY KnownBlocks DEF SerialInv, MemoryExact
    <3> QED BY <1>1, <1>2, <2>8, <3>1
  <2>10. MemoryExact'
    BY <2>6, <2>7, <2>9 DEF MemoryExact, Created, Spent
  <2>11. CallReady'
    <3>1. LookedUp(t) = Spends[b] /\ LookedUp(t)' = Spends[b]
      BY <1>1, <1>2 DEF LookedUp
    <3>2. \A c \in dbBlock : applied'[c] = 0 => applied[c] = 0
      BY <2>8 DEF TypeOK
    <3>3. /\ b \notin dbBlock \cup Queued /\ ParentOf[b] \in dbBlock \cup Queued
          /\ Spends[b] \subseteq Created(dbBlock \cup Queued)
          /\ \A c \in dbBlock : applied[c] = 0 => Spends[b] \cap Spends[c] = {}
      BY <1>1, <3>1 DEF SerialInv, CallReady
    <3> QED BY <1>1, <1>2, <3>1, <3>2, <3>3, OneTask DEF CallReady, Created
  <2> QED BY <2>10, <2>11
<1>6. \A u \in Task : pc'[u] \notin {"snapshot", "send"}
  BY <1>2, OneTask
<1> QED BY <1>1, <1>2, <1>3, <1>4, <1>5, <1>6 DEF SerialInv

\* A submission that passes the gates: its block is not known, its parent is.
LEMMA SerialGate ==
    ASSUME Serial, TypeInv, BackedInv, SerialInv, NEW t \in Task, NEW b \in Block \ {Genesis}, Gate(t, b)
    PROVE  SerialInv'
<1> USE DEF TypeInv
<1>1. /\ UNCHANGED <<dag, dbBlock, dbUtxo, queue, batch, utxo, applied, alive, forgotten>>
      /\ pc[t] = "idle" /\ blk'[t] = b /\ todo'[t] = Spends[b]
      /\ pc'[t] \in {"idle", "validate"}
      /\ pc'[t] = "validate" => ~Contains(b) /\ ParentKnown(b)
  BY DEF Gate, Goto, ram, pipe, db, boot, proc, TypeOK
<1>2. Unsent = {} /\ Unsent' = {} /\ Queued' = Queued
  BY <1>1, OneTask DEF Applied, Queued
<1>3. ASSUME alive PROVE CallReady'
  <2>1. CASE pc'[t] = "idle"
    BY <2>1, OneTask DEF CallReady
  <2>2. CASE pc'[t] = "validate"
    <3>1. LookedUp(t)' = {}
      BY <1>1, <2>2 DEF LookedUp
    <3>2. b \notin dbBlock \cup Queued
      BY <1>1, <2>2 DEF Contains, SerialInv
    <3>3. ParentOf[b] \in dbBlock \cup Queued
      BY <1>1, <1>2, <1>3, <2>2 DEF ParentKnown, BackedInv, SerialInv
    <3> QED BY <1>1, <1>2, <2>2, <3>1, <3>2, <3>3, OneTask DEF CallReady
  <2> QED BY <1>1, <2>1, <2>2
<1>4. \A u \in Task : pc'[u] \in {"snapshot", "send"} => blk'[u] \in dag
  BY <1>1, OneTask
<1> QED BY <1>1, <1>2, <1>3, <1>4, SerialFrame

\* fetch_input_outputs: an output that is in the cache or in RocksDB.
LEMMA SerialCheck ==
    ASSUME Serial, TypeInv, SerialInv, NEW t \in Task, NEW o \in Outpoint, CheckInput(t, o)
    PROVE  SerialInv'
<1> USE DEF TypeInv
<1>1. /\ UNCHANGED <<dag, dbBlock, dbUtxo, queue, batch, utxo, applied, alive, forgotten, blk>>
      /\ pc[t] = "validate"
      /\ pc'[t] = "idle" \/ (pc'[t] = "validate" /\ o \in Spendable /\ todo'[t] = todo[t] \ {o})
  BY DEF CheckInput, Return, Goto, ram, pipe, db, boot, proc, TypeOK
<1>2. Unsent = {} /\ Unsent' = {} /\ Queued' = Queued
  BY <1>1, OneTask DEF Applied, Queued
<1>3. ASSUME alive PROVE CallReady'
  <2>1. CASE pc'[t] = "idle"
    BY <2>1, OneTask DEF CallReady
  <2>2. CASE pc'[t] # "idle"
    <3>1. LookedUp(t)' \subseteq LookedUp(t) \cup {o}
      BY <1>1, <2>2 DEF LookedUp
    <3>2. Known = dbBlock \cup Queued
      BY <1>2 DEF Known
    <3>3. o \in Created(dbBlock \cup Queued) /\ \A c \in dbBlock : o \notin Spends[c]
      <4>1. CASE o \in utxo
        BY <1>3, <3>2, <4>1 DEF SerialInv, MemoryExact, Created, Spent
      <4>2. CASE o \in dbUtxo
        <5>1. DurableUtxoExact
          BY DEF SerialInv
        <5>2. (\E c \in dbBlock : o \in Creates[c]) /\ \A c \in dbBlock : o \notin Spends[c]
          BY <4>2, <5>1, StoredCoins
        <5> QED BY <5>2 DEF Created
      <4> QED BY <1>1, <2>2, <4>1, <4>2 DEF Spendable
    <3>4. /\ blk[t] \notin dbBlock \cup Queued /\ ParentOf[blk[t]] \in dbBlock \cup Queued
          /\ LookedUp(t) \subseteq Created(dbBlock \cup Queued)
          /\ \A c \in dbBlock : applied[c] = 0 => LookedUp(t) \cap Spends[c] = {}
      BY <1>1, <1>3 DEF SerialInv, CallReady
    <3>5. /\ LookedUp(t)' \subseteq Created(dbBlock \cup Queued)
          /\ \A c \in dbBlock : applied[c] = 0 => LookedUp(t)' \cap Spends[c] = {}
      BY <3>1, <3>3, <3>4
    <3> QED BY <1>1, <1>2, <3>4, <3>5, OneTask DEF CallReady, Created
  <2> QED BY <2>1, <2>2
<1>4. \A u \in Task : pc'[u] \in {"snapshot", "send"} => blk'[u] \in dag
  BY <1>1, OneTask
<1> QED BY <1>1, <1>2, <1>3, <1>4, SerialFrame

\* The steps of the call that read or change nothing but its claims.
LEMMA SerialQuiet ==
    ASSUME Serial, TypeInv, SerialInv, NEW t \in Task,
           UNCHANGED <<dag, dbBlock, dbUtxo, queue, batch, utxo, applied, alive, forgotten, blk>>,
           pc[t] # "idle", pc'[t] \in Applied <=> pc[t] \in Applied,
           pc'[t] # "idle" => LookedUp(t)' \subseteq LookedUp(t),
           pc'[t] \in {"snapshot", "send"} => blk[t] \in dag
    PROVE  SerialInv'
<1>1. Unsent' = Unsent /\ Queued' = Queued
  BY OneTask DEF Queued
<1>2. alive => CallReady'
  <2> SUFFICES ASSUME alive, pc'[t] # "idle" PROVE CallReady'
    BY OneTask DEF CallReady
  <2>1. /\ blk[t] \notin dbBlock \cup Queued /\ ParentOf[blk[t]] \in dbBlock \cup Queued
        /\ LookedUp(t) \subseteq Created(dbBlock \cup Queued)
        /\ \A c \in dbBlock : applied[c] = 0 => LookedUp(t) \cap Spends[c] = {}
    BY DEF SerialInv, CallReady
  <2>2. /\ LookedUp(t)' \subseteq Created(dbBlock \cup Queued)
        /\ \A c \in dbBlock : applied[c] = 0 => LookedUp(t)' \cap Spends[c] = {}
    BY <2>1
  <2> QED BY <1>1, <2>1, <2>2, OneTask DEF CallReady, Created
<1>3. \A u \in Task : pc'[u] \in {"snapshot", "send"} => blk'[u] \in dag
  BY OneTask
<1> QED BY <1>1, <1>2, <1>3, SerialFrame

\* blocks.insert: without a limit nothing is pruned.
LEMMA SerialInsert ==
    ASSUME Serial, TypeInv, SerialInv, NEW t \in Task, InsertBlock(t)
    PROVE  SerialInv'
<1> USE DEF TypeInv
<1>1. /\ UNCHANGED <<dbBlock, dbUtxo, queue, batch, utxo, applied, alive, forgotten, blk>>
      /\ pc[t] = "insert" /\ pc'[t] = "snapshot"
  BY DEF InsertBlock, Goto, pipe, db, boot, proc, TypeOK
<1>2. dag' = dag \cup {blk[t]}
  BY DEF InsertBlock, Windows, Serial
<1>3. Queued' = Queued /\ BatchBlocks' = BatchBlocks /\ Unsent' = Unsent /\ Known' = Known
  BY <1>1, OneTask DEF Queued, BatchBlocks, Known, Applied
<1>4. StoredValid' /\ DurableUtxoExact'
  BY <1>1 DEF SerialInv, StoredValid, DurableUtxoExact, Ready, Created, Spent
<1>5. alive => OrderlyBatch' /\ OrderlyQueue'
  <2>1. alive => OrderlyBatch'
    BY <1>1 DEF SerialInv, OrderlyBatch, Ready, Created
  <2>2. alive => OrderlyQueue'
    BY <1>1, <1>3 DEF SerialInv, OrderlyQueue, Ready, Created
  <2> QED BY <2>1, <2>2
<1>6. alive => MemoryExact'
  BY <1>1, <1>3 DEF SerialInv, MemoryExact, Created, Spent
<1>7. alive => CallReady'
  <2>1. LookedUp(t)' = LookedUp(t)
    BY <1>1 DEF LookedUp
  <2> QED BY <1>1, <1>3, <2>1, OneTask DEF SerialInv, CallReady, Created
<1> QED BY <1>1, <1>2, <1>3, <1>4, <1>5, <1>6, <1>7, OneTask DEF SerialInv

\* The block joins the end of the channel behind everything it depends on.
LEMMA SerialSend ==
    ASSUME Serial, TypeInv, SerialInv, NEW t \in Task, Send(t)
    PROVE  SerialInv'
<1> USE DEF TypeInv
<1> DEFINE job == [block |-> blk[t], count |-> snap[t]]
           b == blk[t]
           n == Len(queue) + 1
<1>1. /\ UNCHANGED <<dag, dbBlock, dbUtxo, batch, utxo, applied, alive, forgotten, blk>>
      /\ alive /\ pc[t] = "send" /\ pc'[t] = "idle" /\ queue' = Append(queue, job)
  BY DEF Send, Return, Goto, ram, db, proc, TypeOK
<1>2. /\ DOMAIN queue' = 1 .. n /\ DOMAIN queue = 1 .. n - 1 /\ n \in Nat \ {0}
      /\ queue'[n] = job /\ job.block = b
      /\ \A i \in 1 .. n - 1 : queue'[i] = queue[i]
  BY <1>1 DEF TypeOK
<1> HIDE DEF job, n
<1>3. QueueBlocks' = QueueBlocks \cup {b} /\ BatchBlocks' = BatchBlocks
  <2>1. 1 .. n = (1 .. n - 1) \cup {n}
    BY <1>2
  <2>2. BatchBlocks' = BatchBlocks
    BY <1>1 DEF BatchBlocks
  <2>3. QueueBlocks' = {queue'[i].block : i \in 1 .. n}
    BY <1>2 DEF QueueBlocks
  <2>4. QueueBlocks = {queue[i].block : i \in 1 .. n - 1}
    BY <1>2 DEF QueueBlocks
  <2> QED BY <1>2, <2>1, <2>2, <2>3, <2>4
<1>4. Unsent = {b} /\ Unsent' = {} /\ Queued' = Queued \cup {b} /\ Known' = Known
  BY <1>1, <1>3, OneTask, QueuedParts DEF Applied, Known
<1>5. /\ b \notin dbBlock \cup Queued /\ ParentOf[b] \in dbBlock \cup Queued
      /\ Spends[b] \subseteq Created(dbBlock \cup Queued) /\ b # Genesis /\ b \in dag
  BY <1>1 DEF SerialInv, CallReady, LookedUp, CallsNotGenesis
<1>6. StoredValid' /\ DurableUtxoExact'
  BY <1>1 DEF SerialInv, StoredValid, DurableUtxoExact, Ready, Created, Spent
<1>7. OrderlyBatch'
  BY <1>1 DEF SerialInv, OrderlyBatch, Ready, Created
<1>8. OrderlyQueue'
  <2> SUFFICES ASSUME NEW i \in 1 .. n
               PROVE  /\ queue'[i].block # Genesis
                      /\ Ready(queue'[i].block, dbBlock \cup BatchBlocks \cup {queue'[j].block : j \in 1 .. i - 1})
                      /\ \A j \in 1 .. n : queue'[j].block = queue'[i].block => j = i
                      /\ queue'[i].block \notin BatchBlocks
    BY <1>1, <1>2, <1>3 DEF OrderlyQueue, Ready, Created
  <2>1. CASE i = n
    <3>1. {queue'[j].block : j \in 1 .. i - 1} = QueueBlocks
      BY <1>2, <2>1 DEF QueueBlocks
    <3>2. dbBlock \cup BatchBlocks \cup {queue'[j].block : j \in 1 .. i - 1} = dbBlock \cup Queued
      BY <3>1, QueuedParts
    <3>3. Ready(b, dbBlock \cup BatchBlocks \cup {queue'[j].block : j \in 1 .. i - 1})
      BY <1>5, <3>2 DEF Ready
    <3>4. \A j \in 1 .. n : queue'[j].block = b => j = n
      <4> SUFFICES ASSUME NEW j \in 1 .. n, j # n PROVE queue'[j].block # b
        OBVIOUS
      <4>1. j \in DOMAIN queue /\ queue'[j].block = queue[j].block
        BY <1>2
      <4>2. queue[j].block \in QueueBlocks
        BY <4>1 DEF QueueBlocks
      <4> QED BY <1>5, <4>1, <4>2, QueuedParts
    <3> QED BY <1>2, <1>5, <2>1, <3>3, <3>4, QueuedParts
  <2>2. CASE i # n
    <3>1. i \in DOMAIN queue /\ i \in 1 .. n - 1 /\ queue'[i] = queue[i]
      BY <1>2, <2>2
    <3>2. {queue'[j].block : j \in 1 .. i - 1} = {queue[j].block : j \in 1 .. i - 1}
      BY <1>2, <3>1
    <3>3. /\ queue[i].block # Genesis /\ queue[i].block \notin BatchBlocks
          /\ Ready(queue[i].block, dbBlock \cup BatchBlocks \cup {queue[j].block : j \in 1 .. i - 1})
          /\ \A j \in DOMAIN queue : queue[j].block = queue[i].block => j = i
      BY <1>1, <3>1 DEF SerialInv, OrderlyQueue
    <3>4. queue[i].block # b
      BY <1>5, <3>1, QueuedParts DEF QueueBlocks
    <3>5. \A j \in 1 .. n : queue'[j].block = queue[i].block => j = i
      BY <1>2, <3>3, <3>4
    <3> QED BY <3>1, <3>2, <3>3, <3>5
  <2> QED BY <2>1, <2>2
<1>9. MemoryExact'
  <2>1. \A c \in Queued \cup {b} : applied[c] > 0
    BY <1>1, <1>4 DEF SerialInv, MemoryExact
  <2> QED BY <1>1, <1>4, <2>1 DEF SerialInv, MemoryExact, Created, Spent
<1>10. CallReady'
  BY <1>1, OneTask DEF CallReady
<1> QED BY <1>1, <1>4, <1>5, <1>6, <1>7, <1>8, <1>9, <1>10, OneTask DEF SerialInv

\* The steps of the call together.
LEMMA SerialCall ==
    ASSUME Serial, TypeInv, SpendInv, SerialInv, NEW t \in Task, CallStep(t)
    PROVE  SerialInv'
<1> USE DEF TypeInv
<1>1. blk' = blk /\ pc[t] # "idle"
  BY CallKeepsBlock
<1>2. ASSUME UNCHANGED <<dag, dbBlock, dbUtxo, queue, batch, utxo, applied, alive, forgotten>>,
             pc[t] \notin Applied, pc'[t] \notin Applied,
             pc'[t] # "idle" => LookedUp(t)' \subseteq LookedUp(t)
      PROVE  SerialInv'
  BY <1>1, <1>2, SerialQuiet DEF Applied
<1>3. ASSUME NEW o \in Outpoint, ClaimInput(t, o) PROVE SerialInv'
  <2>1. pc[t] = "claim" /\ pc'[t] \in {"claim", "rollback"}
    BY <1>3 DEF ClaimInput, Goto, TypeOK
  <2>2. LookedUp(t)' = LookedUp(t)
    BY <1>1, <2>1 DEF LookedUp
  <2> QED BY <1>2, <1>3, <2>1, <2>2 DEF ClaimInput, Applied, pipe, db, boot, proc
<1>4. CASE InputsChecked(t)
  <2>1. pc[t] = "validate" /\ pc'[t] = "key" /\ todo[t] = {}
    BY <1>4 DEF InputsChecked, Goto, TypeOK
  <2>2. LookedUp(t)' \subseteq LookedUp(t)
    BY <1>1, <2>1 DEF LookedUp
  <2> QED BY <1>2, <1>4, <2>1, <2>2 DEF InputsChecked, Applied, ram, pipe, db, boot, proc
<1>5. CASE CheckKey(t) \/ Dedup(t) \/ ClaimKey(t) \/ Rollback(t) \/ Claimed(t)
  <2>1. /\ pc[t] \in {"key", "dedup", "claimKey", "rollback", "claim"}
        /\ pc'[t] \in {"idle", "dedup", "claimKey", "claim", "rollback", "apply"}
    BY <1>5 DEF CheckKey, Dedup, ClaimKey, Rollback, Claimed, Return, Goto, TypeOK
  <2>2. LookedUp(t)' = LookedUp(t)
    BY <1>1, <2>1 DEF LookedUp
  <2>3. UNCHANGED <<dag, dbBlock, dbUtxo, queue, batch, utxo, applied, alive, forgotten>>
    BY <1>5 DEF CheckKey, Dedup, ClaimKey, Rollback, Claimed, ram, pipe, db, boot, proc
  <2> QED BY <1>2, <2>1, <2>2, <2>3 DEF Applied
<1>6. CASE InsertEdges(t) \/ SnapshotCounts(t)
  <2>1. /\ pc[t] \in {"edges", "snapshot"} /\ pc'[t] \in {"insert", "snapshot", "send"}
        /\ pc'[t] \in {"snapshot", "send"} => blk[t] \in dag
    <3>1. CASE InsertEdges(t)
      BY <3>1 DEF InsertEdges, Contains, Goto, TypeOK
    <3>2. CASE SnapshotCounts(t)
      BY <3>2 DEF SnapshotCounts, SerialInv, Goto, TypeOK
    <3> QED BY <1>6, <3>1, <3>2
  <2>2. LookedUp(t)' = LookedUp(t)
    BY <1>1, <2>1 DEF LookedUp
  <2>3. UNCHANGED <<dag, dbBlock, dbUtxo, queue, batch, utxo, applied, alive, forgotten>>
    BY <1>6 DEF InsertEdges, SnapshotCounts, ram, pipe, db, boot, proc
  <2> QED BY <1>1, <2>1, <2>2, <2>3, SerialQuiet DEF Applied
<1>7. CASE SendClosed(t)
  <2>1. /\ ~alive /\ pc'[t] = "idle"
        /\ UNCHANGED <<dag, dbBlock, dbUtxo, queue, batch, utxo, applied, alive, forgotten>>
    BY <1>7 DEF SendClosed, Closed, Return, Goto, ram, pipe, db, boot, proc, TypeOK
  <2>2. StoredValid' /\ DurableUtxoExact' /\ Queued' = Queued
    BY <2>1 DEF SerialInv, StoredValid, DurableUtxoExact, Ready, Created, Spent, Queued
  <2> QED BY <2>1, <2>2, OneTask DEF SerialInv
<1> QED BY <1>3, <1>4, <1>5, <1>6, <1>7, SerialCheck, SerialApply, SerialInsert, SerialSend
        DEF CallStep

-----------------------------------------------------------------------------
\* What append_blocks_batch leaves in RocksDB: a later job of the batch deletes
\* what an earlier one creates, and no earlier job what a later one creates.
LEMMA SerialAppend ==
    ASSUME TypeInv, SerialInv, alive, AppendBlocksBatch
    PROVE  /\ dbBlock' = dbBlock \cup BatchBlocks
           /\ StoredValid'
           /\ DurableUtxoExact'
<1> USE DEF TypeInv
<1> DEFINE W == {batch[i].block : i \in Fresh}
<1>1. dbBlock' = dbBlock \cup W /\ dbBlock' = dbBlock \cup BatchBlocks
  <2>1. DOMAIN batch = 1 .. Len(batch)
    BY DEF TypeOK
  <2> QED BY <2>1 DEF AppendBlocksBatch, Fresh, BatchBlocks
<1>2. W \subseteq Block /\ W \subseteq BatchBlocks /\ W \cap dbBlock = {} /\ dbBlock \subseteq Block
  <2>1. \A i \in Fresh : i \in DOMAIN batch /\ batch[i] \in Job /\ batch[i].block \notin dbBlock
    BY DEF Fresh, TypeOK
  <2> QED BY <2>1 DEF BatchBlocks, Job, TypeOK
<1>3. \A i \in Fresh : /\ i \in DOMAIN batch /\ i \in Nat /\ batch[i].block # Genesis
                       /\ Ready(batch[i].block, dbBlock \cup {batch[j].block : j \in 1 .. i - 1})
                       /\ \A j \in DOMAIN batch : batch[j].block = batch[i].block => j = i
  <2>1. \A i \in Fresh : i \in DOMAIN batch /\ i \in Nat
    BY DEF Fresh, TypeOK
  <2> QED BY <2>1 DEF SerialInv, OrderlyBatch
<1>4. \A i \in Fresh : {batch[j].block : j \in 1 .. i - 1} \subseteq BatchBlocks
  BY DEF Fresh, BatchBlocks, TypeOK
<1>5. \A b \in W : b # Genesis /\ Ready(b, dbBlock')
  <2> SUFFICES ASSUME NEW i \in Fresh
               PROVE  batch[i].block # Genesis /\ Ready(batch[i].block, dbBlock')
    OBVIOUS
  <2>1. dbBlock \cup {batch[j].block : j \in 1 .. i - 1} \subseteq dbBlock'
    BY <1>1, <1>4
  <2> QED BY <1>3, <2>1 DEF Ready, Created
<1>6. StoredValid'
  <2>1. \A b \in dbBlock' \ {Genesis} : Ready(b, dbBlock')
    <3> SUFFICES ASSUME NEW b \in dbBlock \ {Genesis} PROVE Ready(b, dbBlock')
      BY <1>1, <1>5
    <3>1. Ready(b, dbBlock)
      BY DEF SerialInv, StoredValid
    <3> QED BY <1>1, <3>1 DEF Ready, Created
  <2>2. dbBlock' \subseteq Known
    BY <1>1, QueuedParts DEF Known
  <2>3. \A b, c \in dbBlock' : b # c => Spends[b] \cap Spends[c] = {}
    BY <2>2 DEF SerialInv, MemoryExact
  <2> QED BY <2>1, <2>3 DEF StoredValid, Ready, Created
<1>7. \A o : \A b \in Block : \A c \in Block : o \in Creates[b] /\ o \in Creates[c] => b = c
  BY OutpointAssumption
<1>8. DurableUtxoExact'
  <2> DEFINE later(i, o) == \A j \in Fresh : j > i => o \notin Deleted(j)
             C == UNION {Creates[b] : b \in dbBlock'}
             S == UNION {Spends[b] : b \in dbBlock'}
  <2>0. \A i \in Fresh : Deleted(i) = Spends[batch[i].block] /\ batch[i].block \in W
    BY DEF Deleted
  <2>1. dbUtxo' = {o \in Outpoint :
          \/ o \in dbUtxo /\ \A i \in Fresh : o \notin Deleted(i)
          \/ \E i \in Fresh : o \in Creates[batch[i].block] /\ later(i, o)}
    BY DEF AppendBlocksBatch
  <2>2. \A o : o \in dbUtxo <=> (\E b \in dbBlock : o \in Creates[b]) /\ \A b \in dbBlock : o \notin Spends[b]
    BY StoredCoins DEF SerialInv
  <2>3. \A b \in Block : Creates[b] \subseteq Outpoint
    BY DeltaAssumption
  <2>4. ASSUME NEW o \in dbUtxo' PROVE o \in C \ S
    <3>1. CASE o \in dbUtxo /\ \A i \in Fresh : o \notin Deleted(i)
      BY <1>1, <2>0, <2>2, <3>1
    <3>2. ASSUME NEW i \in Fresh, o \in Creates[batch[i].block], later(i, o) PROVE o \in C \ S
      <4> DEFINE b == batch[i].block
      <4>1. b \in W /\ b \in Block /\ b \notin dbBlock /\ o \in C
        BY <1>1, <1>2, <3>2
      <4>2. ASSUME NEW c \in dbBlock, o \in Spends[c] PROVE FALSE
        <5>1. c # Genesis
          BY <4>2, DeltaAssumption
        <5>2. PICK d \in dbBlock : o \in Creates[d]
          BY <4>2, <5>1 DEF SerialInv, StoredValid, Ready, Created
        <5> QED BY <1>2, <1>7, <3>2, <4>1, <5>2
      <4>3. ASSUME NEW j \in Fresh, o \in Spends[batch[j].block] PROVE FALSE
        <5>1. PICK d \in dbBlock \cup {batch[k].block : k \in 1 .. j - 1} : o \in Creates[d]
          BY <1>3, <4>3 DEF Ready, Created
        <5>2. d \in Block
          BY <1>2, <1>4, <5>1, KnownBlocks, QueuedParts
        <5>3. d = b
          BY <1>7, <3>2, <4>1, <5>1, <5>2
        <5>4. PICK k \in 1 .. j - 1 : batch[k].block = b
          BY <4>1, <5>3
        <5>5. k \in DOMAIN batch
          BY <1>3, <5>4 DEF Fresh, TypeOK
        <5>6. k = i
          BY <1>3, <5>4, <5>5
        <5>7. j > i
          BY <1>3, <5>6
        <5> QED BY <2>0, <3>2, <4>3, <5>7
      <4> QED BY <1>1, <4>1, <4>2, <4>3
    <3> QED BY <2>1, <2>4, <3>1, <3>2
  <2>5. ASSUME NEW o, o \in C \ S PROVE o \in dbUtxo'
    <3>1. PICK b \in dbBlock' : o \in Creates[b]
      BY <2>5
    <3>2. o \in Outpoint /\ \A i \in Fresh : o \notin Deleted(i)
      BY <1>1, <1>2, <2>0, <2>3, <2>5, <3>1
    <3>3. CASE b \in dbBlock
      BY <1>1, <2>1, <2>2, <2>5, <3>1, <3>2, <3>3
    <3>4. CASE b \in W
      BY <2>1, <3>1, <3>2, <3>4
    <3> QED BY <1>1, <3>1, <3>3, <3>4
  <2>6. dbUtxo' = C \ S
    <3> HIDE DEF C, S
    <3> QED BY <2>4, <2>5
  <2> QED BY <2>6 DEF DurableUtxoExact, Created, Spent
<1> QED BY <1>1, <1>6, <1>8

\* What a write of the batch, kept for a retry or not, leaves of the rest: the
\* blocks known to the memory and their order do not depend on how many of the
\* waiting ones are stored.
LEMMA SerialConsumer ==
    ASSUME Serial, TypeInv, SerialInv, Consumer
    PROVE  SerialInv'
<1> USE DEF TypeInv
<1>0. /\ UNCHANGED <<dag, utxo, applied, pc, blk, todo, forgotten>>
      /\ alive /\ Unsent' = Unsent /\ \A t \in Task : LookedUp(t)' = LookedUp(t)
  BY DEF Consumer, Recv, WriteOk, WriteErr, ram, call, boot, proc, Unsent, LookedUp
<1>s. OrderlyBatch /\ OrderlyQueue /\ MemoryExact /\ CallReady
  BY <1>0 DEF SerialInv
<1>t. \A b \in Queued : applied[b] > 0
  BY <1>s DEF MemoryExact
<1>m. ASSUME dbBlock' \cup Queued' = dbBlock \cup Queued, dbBlock \subseteq dbBlock',
             dbBlock' \subseteq dbBlock \cup Queued, Queued' \subseteq Queued
      PROVE  MemoryExact' /\ CallReady'
  <2>1. Known' = Known
    BY <1>0, <1>m DEF Known
  <2>2. MemoryExact'
    BY <1>0, <1>m, <1>s, <2>1 DEF MemoryExact, Created, Spent
  <2>3. CallReady'
    <3> SUFFICES ASSUME NEW t \in Task, pc[t] # "idle"
                 PROVE  /\ blk[t] \notin dbBlock' \cup Queued'
                        /\ ParentOf[blk[t]] \in dbBlock' \cup Queued'
                        /\ LookedUp(t) \subseteq Created(dbBlock' \cup Queued')
                        /\ \A b \in dbBlock' : applied[b] = 0 => LookedUp(t) \cap Spends[b] = {}
      BY <1>0 DEF CallReady, Created
    <3>1. /\ blk[t] \notin dbBlock \cup Queued /\ ParentOf[blk[t]] \in dbBlock \cup Queued
          /\ LookedUp(t) \subseteq Created(dbBlock \cup Queued)
          /\ \A b \in dbBlock : applied[b] = 0 => LookedUp(t) \cap Spends[b] = {}
      BY <1>s DEF CallReady
    <3>2. \A b \in dbBlock' : applied[b] = 0 => b \in dbBlock
      BY <1>m, <1>t
    <3> QED BY <1>m, <3>1, <3>2
  <2> QED BY <2>2, <2>3
<1>1. CASE Recv
  <2> DEFINE n == Least(Len(queue), MaxBatch)
  <2>1. Len(queue) \in Nat /\ MaxBatch \in Nat /\ queue \in Seq(Job)
    BY BoundAssumption DEF TypeOK
  <2>2. n \in Nat /\ n <= Len(queue)
    BY <2>1 DEF Least
  <2>3. batch' = SubSeq(queue, 1, n) /\ queue' = SubSeq(queue, n + 1, Len(queue)) /\ batch = <<>>
    BY <1>1 DEF Recv, Rest
  <2> HIDE DEF n
  <2>4. DOMAIN batch' = 1 .. n /\ \A i \in 1 .. n : i \in DOMAIN queue /\ batch'[i] = queue[i]
    BY <2>1, <2>2, <2>3
  <2>5. DOMAIN queue' = 1 .. Len(queue) - n
        /\ \A i \in DOMAIN queue' : i \in Nat /\ n + i \in DOMAIN queue /\ queue'[i] = queue[n + i]
    BY <2>1, <2>2, <2>3
  <2>6. \A i \in DOMAIN queue : i \in Nat /\ (i \in 1 .. n \/ (i - n \in DOMAIN queue' /\ n + (i - n) = i))
    BY <2>1, <2>2, <2>3, <2>5
  <2>7. BatchBlocks = {} /\ UNCHANGED <<dbBlock, dbUtxo, alive>>
    BY <1>1, <2>3 DEF Recv, db, BatchBlocks
  <2>8. BatchBlocks' = {queue[i].block : i \in 1 .. n}
    BY <2>4 DEF BatchBlocks
  <2>9. Queued' = Queued
    <3>1. QueueBlocks' \cup BatchBlocks' \subseteq QueueBlocks
      BY <2>4, <2>5 DEF QueueBlocks, BatchBlocks
    <3>2. QueueBlocks \subseteq QueueBlocks' \cup BatchBlocks'
      BY <2>4, <2>5, <2>6 DEF QueueBlocks, BatchBlocks
    <3> QED BY <2>7, <3>1, <3>2, QueuedParts
  <2>10. \A i \in DOMAIN queue :
           /\ queue[i].block # Genesis
           /\ Ready(queue[i].block, dbBlock \cup {queue[j].block : j \in 1 .. i - 1})
           /\ \A j \in DOMAIN queue : queue[j].block = queue[i].block => j = i
    BY <1>s, <2>7 DEF OrderlyQueue
  <2>11. OrderlyBatch'
    <3> SUFFICES ASSUME NEW i \in 1 .. n
                 PROVE  /\ batch'[i].block # Genesis
                        /\ Ready(batch'[i].block, dbBlock \cup {batch'[j].block : j \in 1 .. i - 1})
                        /\ \A j \in 1 .. n : batch'[j].block = batch'[i].block => j = i
      BY <2>4, <2>7 DEF OrderlyBatch, Ready, Created
    <3>1. {batch'[j].block : j \in 1 .. i - 1} = {queue[j].block : j \in 1 .. i - 1}
      BY <2>2, <2>4
    <3> QED BY <2>4, <2>10, <3>1
  <2>12. OrderlyQueue'
    <3> SUFFICES ASSUME NEW i \in DOMAIN queue'
                 PROVE  /\ queue'[i].block # Genesis
                        /\ Ready(queue'[i].block, dbBlock \cup BatchBlocks' \cup {queue'[j].block : j \in 1 .. i - 1})
                        /\ \A j \in DOMAIN queue' : queue'[j].block = queue'[i].block => j = i
                        /\ queue'[i].block \notin BatchBlocks'
      BY <2>7 DEF OrderlyQueue, Ready, Created
    <3>1. i \in Nat /\ i > 0 /\ n + i \in DOMAIN queue /\ queue'[i] = queue[n + i]
      BY <2>5
    <3>2. {queue[j].block : j \in 1 .. (n + i) - 1} \subseteq BatchBlocks' \cup {queue'[j].block : j \in 1 .. i - 1}
      <4> SUFFICES ASSUME NEW j \in 1 .. (n + i) - 1, j \notin 1 .. n
                   PROVE  \E k \in 1 .. i - 1 : queue[j].block = queue'[k].block
        BY <2>8
      <4>1. j - n \in 1 .. i - 1 /\ j - n \in DOMAIN queue' /\ n + (j - n) = j
        BY <2>2, <2>5, <3>1
      <4>2. queue'[j - n] = queue[j]
        BY <2>5, <4>1
      <4> QED BY <4>1, <4>2
    <3>3. Ready(queue[n + i].block, dbBlock \cup {queue[j].block : j \in 1 .. (n + i) - 1})
      <4> DEFINE k == n + i
      <4>1. k \in DOMAIN queue
        BY <3>1
      <4> HIDE DEF k
      <4>2. Ready(queue[k].block, dbBlock \cup {queue[j].block : j \in 1 .. k - 1})
        BY <2>10, <4>1
      <4> QED BY <4>2 DEF k
    <3>4. Ready(queue[n + i].block, dbBlock \cup BatchBlocks' \cup {queue'[j].block : j \in 1 .. i - 1})
      BY <3>2, <3>3 DEF Ready, Created
    <3>5. \A j \in DOMAIN queue' : queue'[j].block = queue'[i].block => j = i
      <4> SUFFICES ASSUME NEW j \in DOMAIN queue', queue'[j].block = queue'[i].block PROVE j = i
        OBVIOUS
      <4>1. n + j \in DOMAIN queue /\ queue'[j] = queue[n + j] /\ j \in Nat
        BY <2>5
      <4>2. n + j = n + i
        BY <2>10, <3>1, <4>1
      <4> QED BY <2>2, <3>1, <4>1, <4>2
    <3>6. queue'[i].block \notin BatchBlocks'
      <4> SUFFICES ASSUME NEW j \in 1 .. n, queue[j].block = queue[n + i].block PROVE FALSE
        BY <2>8, <3>1
      <4>1. j = n + i
        BY <2>4, <2>10, <3>1
      <4> QED BY <2>2, <3>1, <4>1
    <3> QED BY <2>10, <3>1, <3>4, <3>5, <3>6
  <2>13. MemoryExact' /\ CallReady'
    BY <1>m, <2>7, <2>9
  <2>14. StoredValid'
    BY <2>7 DEF SerialInv, StoredValid, Ready, Created
  <2>15. DurableUtxoExact'
    BY <2>7 DEF SerialInv, DurableUtxoExact, Created, Spent
  <2> QED BY <1>0, <2>7, <2>9, <2>11, <2>12, <2>13, <2>14, <2>15 DEF SerialInv
<1>2. CASE WriteOk
  <2>1. AppendBlocksBatch /\ batch' = <<>> /\ queue' = queue /\ alive' = alive
    BY <1>2 DEF WriteOk
  <2>2. dbBlock' = dbBlock \cup BatchBlocks /\ StoredValid' /\ DurableUtxoExact'
    BY <1>0, <2>1, SerialAppend
  <2>3. BatchBlocks' = {} /\ QueueBlocks' = QueueBlocks
    BY <2>1 DEF BatchBlocks, QueueBlocks
  <2>4. MemoryExact' /\ CallReady'
    BY <1>m, <2>2, <2>3, QueuedParts
  <2>5. OrderlyBatch'
    BY <2>1 DEF OrderlyBatch
  <2>6. OrderlyQueue'
    <3>1. dbBlock' \cup BatchBlocks' = dbBlock \cup BatchBlocks
      BY <2>2, <2>3
    <3> QED BY <1>s, <2>1, <2>3, <3>1 DEF OrderlyQueue, Ready, Created
  <2>7. dbBlock' \cup Queued' \subseteq dag'
    BY <1>0, <2>2, <2>3, QueuedParts DEF SerialInv
  <2> QED BY <1>0, <2>2, <2>4, <2>5, <2>6, <2>7 DEF SerialInv
<1>3. CASE WriteErr
  <2>1. \/ alive' = FALSE /\ queue' = <<>> /\ batch' = <<>>
        \/ alive' = alive /\ queue' = queue /\ batch' = batch
    BY <1>3, Zenon DEF WriteErr
  <2>2. AppendBlocksBatch \/ UNCHANGED <<dbBlock, dbUtxo>>
    BY <1>3 DEF WriteErr, db
  <2>3. dbBlock \subseteq dbBlock' /\ dbBlock' \subseteq dbBlock \cup BatchBlocks
        /\ StoredValid' /\ DurableUtxoExact'
    <3>1. CASE AppendBlocksBatch
      <4>1. dbBlock' = dbBlock \cup BatchBlocks /\ StoredValid' /\ DurableUtxoExact'
        BY <1>0, <3>1, SerialAppend
      <4> QED BY <4>1
    <3>2. CASE UNCHANGED <<dbBlock, dbUtxo>>
      <4>1. StoredValid'
        BY <3>2 DEF SerialInv, StoredValid, Ready, Created
      <4>2. DurableUtxoExact'
        BY <3>2 DEF SerialInv, DurableUtxoExact, Created, Spent
      <4> QED BY <3>2, <4>1, <4>2
    <3> QED BY <2>2, <3>1, <3>2
  <2>4. CASE alive' = FALSE /\ queue' = <<>> /\ batch' = <<>>
    <3>1. Queued' = {}
      BY <2>4 DEF Queued
    <3>2. dbBlock' \cup Queued' \subseteq dag'
      BY <1>0, <2>3, <3>1, QueuedParts DEF SerialInv
    <3> QED BY <1>0, <2>3, <2>4, <3>2 DEF SerialInv
  <2>5. CASE alive' = alive /\ queue' = queue /\ batch' = batch
    <3>1. BatchBlocks' = BatchBlocks /\ QueueBlocks' = QueueBlocks /\ Queued' = Queued
      BY <2>5 DEF BatchBlocks, QueueBlocks, Queued
    <3>2. MemoryExact' /\ CallReady'
      BY <1>m, <2>3, <3>1, QueuedParts
    <3>3. OrderlyBatch'
      <4>1. ASSUME NEW i \in DOMAIN batch
            PROVE  Ready(batch[i].block, dbBlock' \cup {batch[j].block : j \in 1 .. i - 1})
        <5> DEFINE before == {batch[j].block : j \in 1 .. i - 1}
        <5>1. Ready(batch[i].block, dbBlock \cup before)
          BY <1>s DEF OrderlyBatch
        <5> HIDE DEF before
        <5>2. dbBlock \cup before \subseteq dbBlock' \cup before
          BY <2>3
        <5>3. Created(dbBlock \cup before) \subseteq Created(dbBlock' \cup before)
          BY <5>2 DEF Created
        <5>4. Ready(batch[i].block, dbBlock' \cup before)
          BY <5>1, <5>2, <5>3 DEF Ready
        <5> QED BY <5>4 DEF before
      <4> QED BY <1>s, <2>5, <4>1 DEF OrderlyBatch, Ready, Created
    <3>4. OrderlyQueue'
      <4>1. dbBlock' \cup BatchBlocks = dbBlock \cup BatchBlocks
        BY <2>3
      <4> QED BY <1>s, <2>5, <3>1, <4>1 DEF OrderlyQueue, Ready, Created
    <3>5. dbBlock' \cup Queued' \subseteq dag'
      BY <1>0, <2>3, <3>1, QueuedParts DEF SerialInv
    <3> QED BY <1>0, <2>3, <3>2, <3>3, <3>4, <3>5 DEF SerialInv
  <2> QED BY <2>1, <2>4, <2>5
<1> QED BY <1>1, <1>2, <1>3 DEF Consumer

\* The bootstrap reads the DAG and the UTXO cache back from the same store.
LEMMA SerialRestart ==
    ASSUME Serial, TypeInv, SerialInv, Crash \/ DrainExit
    PROVE  SerialInv'
<1>1. /\ UNCHANGED <<dbBlock, dbUtxo>> /\ utxo' = dbUtxo /\ forgotten' = {} /\ dag' = dbBlock
      /\ pc' = [t \in Task |-> "idle"] /\ queue' = <<>> /\ batch' = <<>>
  BY DEF Crash, DrainExit, Restart, Windows, db, Serial
<1>2. Queued' = {} /\ BatchBlocks' = {} /\ Unsent' = {} /\ Known' = dbBlock
  BY <1>1 DEF Queued, BatchBlocks, Unsent, Applied, Known
<1>3. StoredValid'
  BY <1>1 DEF SerialInv, StoredValid, Ready, Created
<1>4. DurableUtxoExact'
  BY <1>1 DEF SerialInv, DurableUtxoExact, Created, Spent
<1>5. OrderlyBatch' /\ OrderlyQueue' /\ CallReady'
  BY <1>1 DEF OrderlyBatch, OrderlyQueue, CallReady
<1>6. MemoryExact'
  BY <1>1, <1>2 DEF SerialInv, StoredValid, DurableUtxoExact, MemoryExact, Created, Spent
<1> QED BY <1>1, <1>2, <1>3, <1>4, <1>5, <1>6 DEF SerialInv

\* SerialInv is an invariant when calls do not overlap.
LEMMA SerialInvariance == ASSUME Serial PROVE Spec => []SerialInv
<1>1. Init => SerialInv
  <2> SUFFICES ASSUME Init PROVE SerialInv
    OBVIOUS
  <2>1. Queued = {} /\ Unsent = {} /\ Known = {Genesis}
    BY DEF Init, Queued, Unsent, Applied, Known
  <2>2. StoredValid
    BY DEF Init, StoredValid
  <2>3. DurableUtxoExact /\ MemoryExact
    <3>1. Created({Genesis}) = Creates[Genesis] /\ Spent({Genesis}) = {}
      BY DeltaAssumption DEF Created, Spent
    <3> QED BY <2>1, <3>1 DEF Init, DurableUtxoExact, MemoryExact
  <2>4. OrderlyBatch /\ OrderlyQueue /\ CallReady
    BY DEF Init, OrderlyBatch, OrderlyQueue, CallReady
  <2> QED BY <2>1, <2>2, <2>3, <2>4 DEF Init, SerialInv
<1>2. TypeInv /\ SpendInv /\ BackedInv /\ SerialInv /\ [Next]_vars => SerialInv'
  <2> SUFFICES ASSUME TypeInv, SpendInv, BackedInv, SerialInv, [Next]_vars PROVE SerialInv'
    OBVIOUS
  <2>1. CASE \E t \in Task : \E b \in Block \ {Genesis} : Gate(t, b)
    BY <2>1, SerialGate
  <2>2. CASE \E t \in Task : CallStep(t)
    BY <2>2, SerialCall
  <2>3. ASSUME NEW t \in Task, Drop(t) PROVE SerialInv'
    BY <2>3 DEF Drop, Serial, TypeInv, TypeOK
  <2>4. CASE Consumer
    BY <2>4, SerialConsumer
  <2>5. CASE Crash \/ DrainExit
    BY <2>5, SerialRestart
  <2>6. CASE UNCHANGED vars
    <3>1. /\ UNCHANGED <<dag, dbBlock, dbUtxo, queue, batch, utxo, applied, alive, forgotten, pc, blk, todo>>
      BY <2>6 DEF vars, ram, call, pipe, db, boot, proc
    <3>2. Unsent' = Unsent /\ Queued' = Queued /\ \A t \in Task : LookedUp(t)' = LookedUp(t)
      BY <3>1 DEF Unsent, Queued, LookedUp
    <3>3. alive => CallReady'
      BY <3>1, <3>2 DEF SerialInv, CallReady, Created
    <3>4. \A t \in Task : pc'[t] \in {"snapshot", "send"} => blk'[t] \in dag
      BY <3>1 DEF SerialInv
    <3> QED BY <3>1, <3>2, <3>3, <3>4, SerialFrame
  <2> QED BY <2>1, <2>2, <2>3, <2>4, <2>5, <2>6 DEF Next
<1> QED BY <1>1, <1>2, TypeInvariance, SpendInvariance, BackedInvariance, PTL DEF Spec

\* With one call at a time the stored UTXO set is what the stored blocks
\* created minus what they spent, through crashes, failed writes that went
\* through and resubmissions of blocks the memory forgot.
THEOREM DurableUtxoKept == ASSUME Serial PROVE Spec => []DurableUtxoExact
<1>1. SerialInv => DurableUtxoExact
  BY DEF SerialInv
<1> QED BY <1>1, SerialInvariance, PTL

\* No step removes a stored block.
LEMMA StoredGrows ==
    ASSUME [Next]_vars
    PROVE  dbBlock \subseteq dbBlock'
<1>1. ASSUME NEW t \in Task, NEW b \in Block \ {Genesis}, Gate(t, b) PROVE dbBlock' = dbBlock
  BY <1>1 DEF Gate, db
<1>2. ASSUME NEW t \in Task, CallStep(t) PROVE dbBlock' = dbBlock
  <2>1. ASSUME NEW o \in Outpoint, CheckInput(t, o) \/ ClaimInput(t, o) PROVE dbBlock' = dbBlock
    BY <2>1 DEF CheckInput, ClaimInput, db
  <2>2. CASE InputsChecked(t) \/ CheckKey(t) \/ Dedup(t) \/ ClaimKey(t) \/ Rollback(t) \/ Claimed(t)
    BY <2>2 DEF InputsChecked, CheckKey, Dedup, ClaimKey, Rollback, Claimed, db
  <2>3. CASE ApplyDiff(t) \/ InsertEdges(t) \/ InsertBlock(t) \/ SnapshotCounts(t) \/ Send(t) \/ SendClosed(t)
    BY <2>3 DEF ApplyDiff, InsertEdges, InsertBlock, SnapshotCounts, Send, SendClosed, db
  <2> QED BY <1>2, <2>1, <2>2, <2>3 DEF CallStep
<1>3. ASSUME NEW t \in Task, Drop(t) PROVE dbBlock' = dbBlock
  BY <1>3 DEF Drop, db
<1>4. CASE Consumer
  BY <1>4 DEF Consumer, Recv, WriteOk, WriteErr, AppendBlocksBatch, db
<1>5. CASE Crash \/ DrainExit
  BY <1>5 DEF Crash, DrainExit, Restart, db
<1>6. CASE UNCHANGED vars
  BY <1>6 DEF vars, db
<1> QED BY <1>1, <1>2, <1>3, <1>4, <1>5, <1>6 DEF Next

\* With one call at a time the pipeline implements the durable ledger: every
\* step appends to a valid set of stored blocks or leaves it alone.
THEOREM PipelineImplementsLedger == ASSUME Serial PROVE Spec => ImplementsLedger
<1>1. Init => DurableLedger!Init
  BY DEF Init, DurableLedger!Init
<1>2. TypeInv /\ TypeInv' /\ KeyInv' /\ SerialInv' /\ [Next]_vars
        => [DurableLedger!Append]_dbBlock
  <2> SUFFICES ASSUME TypeInv, TypeInv', KeyInv', SerialInv', [Next]_vars
               PROVE  DurableLedger!Append \/ dbBlock' = dbBlock
    OBVIOUS
  <2>1. dbBlock \subseteq dbBlock'
    BY StoredGrows
  <2>2. dbBlock' \in SUBSET Block
    BY DEF TypeInv, TypeOK
  <2>3. DurableLedger!Valid(dbBlock')
    <3>1. \A b \in dbBlock' \ {Genesis} : ParentOf[b] \in dbBlock'
      BY DEF SerialInv, StoredValid, Ready
    <3>2. \A b \in dbBlock' : Spends[b] \subseteq UNION {Creates[c] : c \in dbBlock'}
      BY DeltaAssumption DEF SerialInv, StoredValid, Ready, Created
    <3>3. \A b, c \in dbBlock' : b # c => Spends[b] \cap Spends[c] = {}
      BY DEF SerialInv, StoredValid
    <3>4. \A b, c \in dbBlock' : b # c /\ KeyOf[b] = KeyOf[c] => KeyOf[b] = NoKey
      BY DEF KeyInv, Keys
    <3> QED BY <3>1, <3>2, <3>3, <3>4 DEF DurableLedger!Valid
  <2> QED BY <2>1, <2>2, <2>3 DEF DurableLedger!Append
<1> QED BY <1>1, <1>2, TypeInvariance, KeyInvariance, SerialInvariance, PTL
        DEF Spec, ImplementsLedger, DurableLedger!Spec

-----------------------------------------------------------------------------
(* One call at a time: the counts of children.                             *)

LEMMA KidsFacts ==
    ASSUME NEW S \in SUBSET Block, NEW p
    PROVE  /\ IsFiniteSet({b \in S \ {Genesis} : ParentOf[b] = p}) /\ Kids(S, p) \in Nat
           /\ \A T \in SUBSET S : Kids(T, p) <= Kids(S, p)
           /\ \A c \in Block \ S : c # Genesis =>
                Kids(S \cup {c}, p) = IF ParentOf[c] = p THEN Kids(S, p) + 1 ELSE Kids(S, p)
<1> DEFINE K(T) == {b \in T \ {Genesis} : ParentOf[b] = p}
<1>1. \A T \in SUBSET Block : IsFiniteSet(K(T))
  <2> SUFFICES ASSUME NEW T \in SUBSET Block PROVE IsFiniteSet(K(T))
    OBVIOUS
  <2>1. K(T) \subseteq Block
    OBVIOUS
  <2> HIDE DEF K
  <2> QED BY <2>1, GraphAssumption, FS_Subset
<1>2. Kids(S, p) \in Nat
  <2> HIDE DEF K
  <2>1. Cardinality(K(S)) \in Nat
    BY <1>1, FS_CardinalityType
  <2> QED BY <2>1 DEF Kids, K
<1>3. ASSUME NEW T \in SUBSET S PROVE Kids(T, p) <= Kids(S, p)
  <2>1. K(T) \subseteq K(S)
    OBVIOUS
  <2> HIDE DEF K
  <2>2. Cardinality(K(T)) <= Cardinality(K(S))
    BY <1>1, <2>1, FS_Subset
  <2> QED BY <2>2 DEF Kids, K
<1>4. ASSUME NEW c \in Block \ S, c # Genesis
      PROVE  Kids(S \cup {c}, p) = IF ParentOf[c] = p THEN Kids(S, p) + 1 ELSE Kids(S, p)
  <2>1. CASE ParentOf[c] = p
    <3>1. K(S \cup {c}) = K(S) \cup {c} /\ c \notin K(S)
      BY <1>4, <2>1
    <3> HIDE DEF K
    <3>2. Cardinality(K(S) \cup {c}) = Cardinality(K(S)) + 1
      BY <1>1, <3>1, FS_AddElement
    <3> QED BY <2>1, <3>1, <3>2 DEF Kids, K
  <2>2. CASE ParentOf[c] # p
    <3>1. K(S \cup {c}) = K(S)
      BY <2>2
    <3> QED BY <2>2, <3>1 DEF Kids
  <2> QED BY <2>1, <2>2
<1> QED BY <1>1, <1>2, <1>3, <1>4

LEMMA CountedFrame ==
    ASSUME CountInv, alive, UNCHANGED <<dbBlock, queue, batch>>
    PROVE  BatchCounted' /\ QueueCounted'
<1>1. BatchBlocks' = BatchBlocks
  BY DEF BatchBlocks
<1>2. BatchCounted'
  BY <1>1 DEF CountInv, BatchCounted, Kids
<1>3. QueueCounted'
  BY <1>1 DEF CountInv, QueueCounted, Kids
<1> QED BY <1>2, <1>3

\* A step that leaves the window, the channel and the store alone.
LEMMA CountFrame ==
    ASSUME CountInv, Inserting' = Inserting,
           UNCHANGED <<dag, childCount, dbBlock, dbCount, queue, batch, alive>>,
           \A t \in Task : pc'[t] = "send" => pc[t] = "send" /\ blk'[t] = blk[t] /\ snap'[t] = snap[t]
    PROVE  CountInv'
<1>1. Queued' = Queued /\ BatchBlocks' = BatchBlocks
  BY DEF Queued, BatchBlocks
<1>2. \A p \in Block : childCount'[p] = Kids(dag' \cup Inserting', p) /\ dbCount'[p] = Kids(dbBlock', p)
  BY DEF CountInv
<1>3. alive => BatchCounted'
  BY CountedFrame
<1>4. alive => QueueCounted'
  BY CountedFrame
<1>5. alive => \A t \in Task : pc'[t] = "send" =>
        snap'[t] = Kids(dbBlock \cup Queued \cup {blk'[t]}, ParentOf[blk'[t]])
  BY DEF CountInv
<1> QED BY <1>1, <1>2, <1>3, <1>4, <1>5 DEF CountInv, Kids

LEMMA InsertingOne ==
    ASSUME Serial, NEW t \in Task
    PROVE  /\ Inserting = IF pc[t] = "insert" THEN {blk[t]} ELSE {}
           /\ Inserting' = IF pc'[t] = "insert" THEN {blk'[t]} ELSE {}
BY OneTask DEF Inserting

LEMMA CountQuiet ==
    ASSUME Serial, CountInv, NEW t \in Task, pc[t] # "insert", pc'[t] \notin {"insert", "send"},
           UNCHANGED <<dag, childCount, dbBlock, dbCount, queue, batch, alive>>
    PROVE  CountInv'
<1>1. Inserting' = Inserting
  BY InsertingOne
<1>2. \A u \in Task : pc'[u] # "send"
  BY OneTask
<1> QED BY <1>1, <1>2, CountFrame

\* children_count.fetch_add, before the block is in the map.
LEMMA CountEdges ==
    ASSUME Serial, TypeInv, CountInv, NEW t \in Task, InsertEdges(t)
    PROVE  CountInv'
<1> USE DEF TypeInv
<1> DEFINE b == blk[t]
<1>1. pc[t] = "edges" /\ UNCHANGED <<dag, dbBlock, dbCount, queue, batch, alive, blk>>
  BY DEF InsertEdges, pipe, db
<1>2. CASE Contains(b) /\ Goto(t, "snapshot") /\ UNCHANGED childCount
  <2>1. pc'[t] = "snapshot"
    BY <1>2 DEF Goto, TypeOK
  <2> QED BY <1>1, <1>2, <2>1, CountQuiet
<1>3. CASE ~Contains(b) /\ childCount' = [childCount EXCEPT ![ParentOf[b]] = @ + 1] /\ Goto(t, "insert")
  <2>1. pc'[t] = "insert" /\ b \in Block /\ b # Genesis /\ b \notin dag /\ dag \subseteq Block
    BY <1>1, <1>3 DEF Goto, TypeOK, CallsNotGenesis, Contains
  <2>2. Inserting = {} /\ Inserting' = {b} /\ Queued' = Queued /\ BatchBlocks' = BatchBlocks
    BY <1>1, <2>1, InsertingOne DEF Queued, BatchBlocks
  <2>3. ASSUME NEW p \in Block PROVE childCount'[p] = Kids(dag' \cup Inserting', p)
    <3>1. childCount[p] = Kids(dag, p) /\ childCount[p] \in Nat
      BY <2>2 DEF CountInv, TypeOK
    <3>2. Kids(dag \cup {b}, p) = IF ParentOf[b] = p THEN Kids(dag, p) + 1 ELSE Kids(dag, p)
      BY <2>1, KidsFacts
    <3>3. childCount'[p] = IF ParentOf[b] = p THEN childCount[p] + 1 ELSE childCount[p]
      BY <1>3 DEF TypeOK
    <3> QED BY <1>1, <2>2, <3>1, <3>2, <3>3
  <2>4. \A u \in Task : pc'[u] # "send"
    BY <2>1, OneTask
  <2>5. \A p \in Block : dbCount'[p] = Kids(dbBlock', p)
    BY <1>1 DEF CountInv
  <2>6. alive => BatchCounted' /\ QueueCounted'
    BY <1>1, CountedFrame
  <2> QED BY <1>1, <2>3, <2>4, <2>5, <2>6 DEF CountInv
<1> QED BY <1>2, <1>3 DEF InsertEdges

\* blocks.insert: the block was counted before.
LEMMA CountInsert ==
    ASSUME Serial, TypeInv, CountInv, NEW t \in Task, InsertBlock(t)
    PROVE  CountInv'
<1> USE DEF TypeInv
<1>1. /\ pc[t] = "insert" /\ pc'[t] = "snapshot"
      /\ UNCHANGED <<dbBlock, dbCount, queue, batch, alive, blk>>
  BY DEF InsertBlock, Goto, pipe, db, TypeOK
<1>2. dag' = dag \cup {blk[t]} /\ childCount' = childCount
  <2>1. PICK keep \in {dag \cup {blk[t]}} \cup Windows(dag \cup {blk[t]}) :
          /\ dag' = keep
          /\ childCount' = [b \in Block |-> IF b \in (dag \cup {blk[t]}) \ keep THEN 0 ELSE childCount[b]]
    BY DEF InsertBlock
  <2>2. keep = dag \cup {blk[t]}
    BY DEF Windows, Serial
  <2> QED BY <2>1, <2>2 DEF TypeOK
<1>3. Inserting = {blk[t]} /\ Inserting' = {} /\ Queued' = Queued /\ BatchBlocks' = BatchBlocks
  BY <1>1, InsertingOne DEF Queued, BatchBlocks
<1>4. dag' \cup Inserting' = dag \cup Inserting
  BY <1>2, <1>3
<1>5. \A p \in Block : childCount'[p] = Kids(dag' \cup Inserting', p) /\ dbCount'[p] = Kids(dbBlock', p)
  BY <1>1, <1>2, <1>4 DEF CountInv
<1>6. alive => BatchCounted' /\ QueueCounted'
  BY <1>1, CountedFrame
<1>7. \A u \in Task : pc'[u] # "send"
  BY <1>1, OneTask
<1> QED BY <1>1, <1>5, <1>6, <1>7 DEF CountInv

\* While the consumer lives the window is what is stored, what waits and the
\* block of the call.
LEMMA WindowKnown ==
    ASSUME Serial, BackedInv, SerialInv, alive, NEW t \in Task
    PROVE  /\ pc[t] \in {"snapshot", "send"} => dag = dbBlock \cup Queued \cup {blk[t]}
           /\ pc[t] = "idle" => dag = dbBlock \cup Queued
<1>1. dag \subseteq dbBlock \cup Queued \cup Unsent /\ dbBlock \cup Queued \subseteq dag
  BY DEF BackedInv, SerialInv
<1>2. pc[t] \in {"snapshot", "send"} => blk[t] \in dag
  BY DEF SerialInv
<1> QED BY <1>1, <1>2, OneTask DEF Applied

LEMMA CountSnapshot ==
    ASSUME Serial, TypeInv, BackedInv, SerialInv, CountInv, NEW t \in Task, SnapshotCounts(t)
    PROVE  CountInv'
<1> USE DEF TypeInv
<1>1. /\ pc[t] = "snapshot" /\ pc'[t] = "send" /\ snap'[t] = childCount[ParentOf[blk[t]]]
      /\ UNCHANGED <<dag, childCount, dbBlock, dbCount, queue, batch, alive, blk>>
  BY DEF SnapshotCounts, Goto, ram, pipe, db, TypeOK
<1>2. Inserting = {} /\ Inserting' = {} /\ Queued' = Queued /\ BatchBlocks' = BatchBlocks
  BY <1>1, InsertingOne DEF Queued, BatchBlocks
<1>3. ParentOf[blk[t]] \in Block
  BY <1>1, GraphAssumption DEF TypeOK, CallsNotGenesis
<1>4. snap'[t] = Kids(dag, ParentOf[blk[t]])
  BY <1>1, <1>2, <1>3 DEF CountInv
<1>5. alive => snap'[t] = Kids(dbBlock \cup Queued \cup {blk[t]}, ParentOf[blk[t]])
  BY <1>1, <1>4, WindowKnown
<1>6. alive => BatchCounted' /\ QueueCounted'
  BY <1>1, CountedFrame
<1>7. \A p \in Block : childCount'[p] = Kids(dag' \cup Inserting', p) /\ dbCount'[p] = Kids(dbBlock', p)
  BY <1>1, <1>2 DEF CountInv
<1>8. alive' => \A u \in Task : pc'[u] = "send" =>
        snap'[u] = Kids(dbBlock' \cup Queued' \cup {blk'[u]}, ParentOf[blk'[u]])
  BY <1>1, <1>2, <1>5, OneTask
<1> QED BY <1>1, <1>6, <1>7, <1>8 DEF CountInv

\* The job takes the last place, and its count is that of all before it.
LEMMA CountSend ==
    ASSUME Serial, TypeInv, SerialInv, CountInv, NEW t \in Task, Send(t)
    PROVE  CountInv'
<1> USE DEF TypeInv
<1> DEFINE n == Len(queue)
           job == [block |-> blk[t], count |-> snap[t]]
<1>1. /\ pc[t] = "send" /\ pc'[t] = "idle" /\ alive /\ queue' = Append(queue, job)
      /\ UNCHANGED <<dag, childCount, dbBlock, dbCount, batch, alive>>
  BY DEF Send, Return, Goto, ram, db, TypeOK
<1>2. n \in Nat /\ DOMAIN queue = 1 .. n /\ DOMAIN queue' = 1 .. n + 1
      /\ queue'[n + 1] = job /\ \A i \in 1 .. n : queue'[i] = queue[i]
  BY <1>1 DEF TypeOK
<1>3. Inserting = {} /\ Inserting' = {} /\ BatchBlocks' = BatchBlocks
  BY <1>1, InsertingOne DEF BatchBlocks
<1>4. blk[t] \notin dbBlock
  BY <1>1 DEF SerialInv, CallReady
<1>5. snap[t] = Kids(dbBlock \cup Queued \cup {blk[t]}, ParentOf[blk[t]])
  BY <1>1 DEF CountInv
<1>6. job.block = blk[t] /\ job.count = snap[t]
  OBVIOUS
<1> HIDE DEF n, job
<1>7. \A i \in 1 .. n : {queue'[j].block : j \in 1 .. i} = {queue[j].block : j \in 1 .. i}
  BY <1>2
<1>8. dbBlock \cup BatchBlocks \cup {queue'[j].block : j \in 1 .. n + 1} = dbBlock \cup Queued \cup {blk[t]}
  <2>1. QueueBlocks = {queue[j].block : j \in 1 .. n}
    BY <1>2 DEF QueueBlocks
  <2>2. {queue'[j].block : j \in 1 .. n + 1} = {queue[j].block : j \in 1 .. n} \cup {blk[t]}
    <3>1. ASSUME NEW j \in 1 .. n + 1 PROVE queue'[j].block \in {queue[k].block : k \in 1 .. n} \cup {blk[t]}
      <4>1. j = n + 1 \/ j \in 1 .. n
        BY <1>2
      <4> QED BY <1>2, <1>6, <4>1
    <3>2. ASSUME NEW j \in 1 .. n PROVE queue[j].block \in {queue'[k].block : k \in 1 .. n + 1}
      BY <1>2
    <3>3. blk[t] \in {queue'[k].block : k \in 1 .. n + 1}
      BY <1>2, <1>6
    <3> QED BY <3>1, <3>2, <3>3
  <2> QED BY <2>1, <2>2, QueuedParts
<1>9. QueueCounted'
  <2> SUFFICES ASSUME NEW i \in 1 .. n + 1
               PROVE  /\ queue'[i].block \notin dbBlock
                      /\ queue'[i].count = Kids(dbBlock \cup BatchBlocks \cup {queue'[j].block : j \in 1 .. i},
                                                ParentOf[queue'[i].block])
    BY <1>1, <1>2, <1>3 DEF QueueCounted, Kids
  <2>1. CASE i \in 1 .. n
    <3>1. /\ queue[i].block \notin dbBlock
          /\ queue[i].count = Kids(dbBlock \cup BatchBlocks \cup {queue[j].block : j \in 1 .. i}, ParentOf[queue[i].block])
      BY <1>1, <1>2, <2>1 DEF CountInv, QueueCounted
    <3> QED BY <1>2, <1>7, <2>1, <3>1
  <2>2. CASE i = n + 1
    BY <1>2, <1>4, <1>5, <1>6, <1>8, <2>2
  <2> QED BY <1>2, <2>1, <2>2
<1>10. BatchCounted'
  BY <1>1, <1>3 DEF CountInv, BatchCounted, Kids
<1>11. \A p \in Block : childCount'[p] = Kids(dag' \cup Inserting', p) /\ dbCount'[p] = Kids(dbBlock', p)
  BY <1>1, <1>3 DEF CountInv
<1>12. \A u \in Task : pc'[u] # "send"
  BY <1>1, OneTask
<1> QED BY <1>9, <1>10, <1>11, <1>12 DEF CountInv

LEMMA CountCall ==
    ASSUME Serial, TypeInv, BackedInv, SerialInv, CountInv, NEW t \in Task, CallStep(t)
    PROVE  CountInv'
<1> USE DEF TypeInv
<1>1. ASSUME NEW o \in Outpoint, CheckInput(t, o) \/ ClaimInput(t, o) PROVE CountInv'
  <2>1. /\ pc[t] \in {"validate", "claim"} /\ pc'[t] \in {"validate", "idle", "claim", "rollback"}
        /\ UNCHANGED <<dag, childCount, dbBlock, dbCount, queue, batch, alive>>
    BY <1>1 DEF CheckInput, ClaimInput, Return, Goto, ram, pipe, db, TypeOK
  <2> QED BY <2>1, CountQuiet
<1>2. CASE InputsChecked(t) \/ CheckKey(t) \/ Dedup(t) \/ ClaimKey(t) \/ Rollback(t) \/ Claimed(t)
  <2>1. /\ pc[t] \in {"validate", "key", "dedup", "claimKey", "rollback", "claim"}
        /\ pc'[t] \in {"key", "idle", "dedup", "claimKey", "claim", "rollback", "apply"}
    BY <1>2 DEF InputsChecked, CheckKey, Dedup, ClaimKey, Rollback, Claimed, Return, Goto, TypeOK
  <2>2. UNCHANGED <<dag, childCount, dbBlock, dbCount, queue, batch, alive>>
    BY <1>2 DEF InputsChecked, CheckKey, Dedup, ClaimKey, Rollback, Claimed, ram, pipe, db
  <2> QED BY <2>1, <2>2, CountQuiet
<1>3. CASE ApplyDiff(t)
  <2>1. /\ pc[t] = "apply" /\ pc'[t] = "edges"
        /\ UNCHANGED <<dag, childCount, dbBlock, dbCount, queue, batch, alive>>
    BY <1>3 DEF ApplyDiff, Goto, pipe, db, TypeOK
  <2> QED BY <2>1, CountQuiet
<1>4. CASE SendClosed(t)
  <2>1. /\ pc[t] = "send" /\ pc'[t] = "idle"
        /\ UNCHANGED <<dag, childCount, dbBlock, dbCount, queue, batch, alive>>
    BY <1>4 DEF SendClosed, Return, Goto, ram, pipe, db, TypeOK
  <2> QED BY <2>1, CountQuiet
<1> QED BY <1>1, <1>2, <1>3, <1>4, CountEdges, CountInsert, CountSnapshot, CountSend DEF CallStep

LEMMA MaxOfIs ==
    ASSUME NEW S \in SUBSET Nat, NEW v \in S, \A n \in S : n <= v
    PROVE  MaxOf(S) = v
<1>1. MaxOf(S) \in S /\ \A n \in S : n <= MaxOf(S)
  BY DEF MaxOf
<1>2. MaxOf(S) \in Nat /\ v \in Nat /\ MaxOf(S) <= v /\ v <= MaxOf(S)
  BY <1>1
<1> QED BY <1>2

\* append_blocks_batch: the largest count of a parent is that of the last job
\* for it, which has seen all the others.
LEMMA CountAppend ==
    ASSUME TypeInv, SerialInv, CountInv, alive, AppendBlocksBatch, NEW p \in Block
    PROVE  dbCount'[p] = Kids(dbBlock', p)
<1> USE DEF TypeInv
<1> DEFINE I == {j \in Fresh : ParentOf[batch[j].block] = p}
           counts == {batch[i].count : i \in I}
           v == Kids(dbBlock \cup BatchBlocks, p)
<1>1. dbCount'[p] = IF counts = {} THEN dbCount[p] ELSE MaxOf(counts)
  BY DEF AppendBlocksBatch
<1>2. dbBlock' = dbBlock \cup BatchBlocks
  BY SerialAppend
<1>3. dbCount[p] = Kids(dbBlock, p)
  BY DEF CountInv
<1>4. DOMAIN batch = 1 .. Len(batch) /\ Len(batch) \in Nat /\ dbBlock \cup BatchBlocks \subseteq Block
  <2>1. \A i \in DOMAIN batch : batch[i] \in Job
    BY DEF TypeOK
  <2> QED BY <2>1 DEF TypeOK, BatchBlocks, Job
<1>5. CASE BatchBlocks \subseteq dbBlock
  <2>1. Fresh = {}
    BY <1>4, <1>5 DEF Fresh, BatchBlocks
  <2>2. dbBlock \cup BatchBlocks = dbBlock
    BY <1>5
  <2> QED BY <1>1, <1>2, <1>3, <2>1, <2>2
<1>6. CASE \A i \in DOMAIN batch :
             /\ batch[i].block \notin dbBlock
             /\ batch[i].count = Kids(dbBlock \cup {batch[j].block : j \in 1 .. i}, ParentOf[batch[i].block])
  <2>1. Fresh = DOMAIN batch
    BY <1>4, <1>6 DEF Fresh
  <2>2. CASE I = {}
    <3>1. \A b \in BatchBlocks : ParentOf[b] # p
      BY <2>1, <2>2 DEF BatchBlocks
    <3>2. {b \in (dbBlock \cup BatchBlocks) \ {Genesis} : ParentOf[b] = p} = {b \in dbBlock \ {Genesis} : ParentOf[b] = p}
      BY <3>1
    <3>3. v = Kids(dbBlock, p)
      BY <3>2 DEF Kids
    <3>4. counts = {}
      BY <2>2
    <3> QED BY <1>1, <1>2, <1>3, <3>3, <3>4
  <2>3. CASE I # {}
    <3>1. I \subseteq 1 .. Len(batch) /\ I \in SUBSET Int
      BY <1>4, <2>1
    <3>2. IsFiniteSet(I)
      <4> HIDE DEF I
      <4>1. IsFiniteSet(1 .. Len(batch))
        BY <1>4, FS_Interval
      <4> QED BY <3>1, <4>1, FS_Subset
    <3>3. PICK i \in I : \A j \in I : j <= i
      <4> HIDE DEF I
      <4> QED BY <2>3, <3>1, <3>2, FiniteMax DEF HasMax
    <3>4. \A k \in I : /\ k \in DOMAIN batch /\ k \in Nat /\ ParentOf[batch[k].block] = p
                       /\ batch[k].count = Kids(dbBlock \cup {batch[j].block : j \in 1 .. k}, p)
                       /\ {batch[j].block : j \in 1 .. k} \subseteq BatchBlocks
      <4> SUFFICES ASSUME NEW k \in I
                   PROVE  /\ k \in DOMAIN batch /\ k \in Nat /\ ParentOf[batch[k].block] = p
                          /\ batch[k].count = Kids(dbBlock \cup {batch[j].block : j \in 1 .. k}, p)
                          /\ {batch[j].block : j \in 1 .. k} \subseteq BatchBlocks
        OBVIOUS
      <4>1. k \in DOMAIN batch /\ k \in Nat /\ ParentOf[batch[k].block] = p
        BY <1>4, <2>1
      <4>2. {batch[j].block : j \in 1 .. k} \subseteq BatchBlocks
        BY <1>4, <4>1 DEF BatchBlocks
      <4> HIDE DEF I
      <4> QED BY <1>6, <4>1, <4>2
    <3>5. v \in Nat /\ \A T \in SUBSET (dbBlock \cup BatchBlocks) : Kids(T, p) <= v /\ Kids(T, p) \in Nat
      <4>1. \A T \in SUBSET (dbBlock \cup BatchBlocks) : T \in SUBSET Block
        BY <1>4
      <4> QED BY <1>4, <4>1, KidsFacts
    <3>6. batch[i].count = v
      <4> DEFINE T == dbBlock \cup {batch[j].block : j \in 1 .. i}
      <4>1. ASSUME NEW b \in BatchBlocks, ParentOf[b] = p PROVE b \in {batch[j].block : j \in 1 .. i}
        <5>1. PICK j \in DOMAIN batch : b = batch[j].block
          BY DEF BatchBlocks
        <5>2. j \in I
          BY <2>1, <4>1, <5>1
        <5>3. j \in 1 .. i
          BY <1>4, <3>1, <3>3, <5>2
        <5> QED BY <5>1, <5>3
      <4>2. T \subseteq dbBlock \cup BatchBlocks
        BY <3>4
      <4>3. \A b \in BatchBlocks : ParentOf[b] = p => b \in T
        BY <4>1
      <4>4. batch[i].count = Kids(T, p)
        BY <3>4
      <4> HIDE DEF T, I
      <4>5. {b \in (dbBlock \cup BatchBlocks) \ {Genesis} : ParentOf[b] = p} = {b \in T \ {Genesis} : ParentOf[b] = p}
        <5>1. dbBlock \subseteq T
          BY DEF T
        <5> QED BY <4>2, <4>3, <5>1
      <4> QED BY <4>4, <4>5 DEF Kids
    <3>7. \A k \in I : batch[k].count <= v /\ batch[k].count \in Nat
      <4> SUFFICES ASSUME NEW k \in I PROVE batch[k].count <= v /\ batch[k].count \in Nat
        OBVIOUS
      <4> DEFINE T == dbBlock \cup {batch[j].block : j \in 1 .. k}
      <4>1. T \in SUBSET (dbBlock \cup BatchBlocks) /\ batch[k].count = Kids(T, p)
        BY <3>4
      <4> HIDE DEF T, I, v
      <4> QED BY <3>5, <4>1
    <3>8. v \in counts /\ counts \in SUBSET Nat /\ \A n \in counts : n <= v
      <4> HIDE DEF I, v
      <4> QED BY <3>3, <3>6, <3>7
    <3> HIDE DEF I, counts, v
    <3>9. MaxOf(counts) = v
      BY <3>8, MaxOfIs
    <3>10. dbCount'[p] = v
      BY <1>1, <3>8, <3>9
    <3> QED BY <1>2, <3>10 DEF v
  <2> QED BY <2>2, <2>3
<1> QED BY <1>5, <1>6 DEF CountInv, BatchCounted

\* The consumer moves jobs towards the store and changes no count on the way.
LEMMA CountConsumer ==
    ASSUME Serial, TypeInv, SerialInv, CountInv, Consumer
    PROVE  CountInv'
<1> USE DEF TypeInv
<1>0. UNCHANGED <<dag, childCount, pc, blk, snap>> /\ alive /\ Inserting' = Inserting
  BY DEF Consumer, Recv, WriteOk, WriteErr, ram, call, Inserting
<1>c. BatchCounted /\ QueueCounted /\ OrderlyQueue
  BY <1>0 DEF CountInv, SerialInv
<1>s. ASSUME dbBlock' \cup Queued' = dbBlock \cup Queued, alive' => BatchCounted' /\ QueueCounted',
             \A p \in Block : dbCount'[p] = Kids(dbBlock', p)
      PROVE  CountInv'
  <2>1. \A p \in Block : childCount'[p] = Kids(dag' \cup Inserting', p)
    BY <1>0 DEF CountInv
  <2>2. \A t \in Task : pc'[t] = "send" =>
          snap'[t] = Kids(dbBlock' \cup Queued' \cup {blk'[t]}, ParentOf[blk'[t]])
    BY <1>0, <1>s DEF CountInv
  <2> QED BY <1>s, <2>1, <2>2 DEF CountInv
<1>1. CASE Recv
  <2> DEFINE n == Least(Len(queue), MaxBatch)
  <2>1. Len(queue) \in Nat /\ MaxBatch \in Nat /\ queue \in Seq(Job)
    BY BoundAssumption DEF TypeOK
  <2>2. n \in Nat /\ n <= Len(queue)
    BY <2>1 DEF Least
  <2>3. batch' = SubSeq(queue, 1, n) /\ queue' = SubSeq(queue, n + 1, Len(queue)) /\ batch = <<>>
    BY <1>1 DEF Recv, Rest
  <2> HIDE DEF n
  <2>4. DOMAIN batch' = 1 .. n /\ \A i \in 1 .. n : i \in DOMAIN queue /\ batch'[i] = queue[i]
    BY <2>1, <2>2, <2>3
  <2>5. DOMAIN queue' = 1 .. Len(queue) - n
        /\ \A i \in DOMAIN queue' : i \in Nat /\ n + i \in DOMAIN queue /\ queue'[i] = queue[n + i]
    BY <2>1, <2>2, <2>3
  <2>6. \A i \in DOMAIN queue : i \in Nat /\ (i \in 1 .. n \/ (i - n \in DOMAIN queue' /\ n + (i - n) = i))
    BY <2>1, <2>2, <2>3, <2>5
  <2>7. BatchBlocks = {} /\ UNCHANGED <<dbBlock, dbCount>>
    BY <1>1, <2>3 DEF Recv, db, BatchBlocks
  <2>8. BatchBlocks' = {queue[i].block : i \in 1 .. n}
    BY <2>4 DEF BatchBlocks
  <2>9. Queued' = Queued
    <3>1. QueueBlocks' \cup BatchBlocks' \subseteq QueueBlocks
      BY <2>4, <2>5 DEF QueueBlocks, BatchBlocks
    <3>2. QueueBlocks \subseteq QueueBlocks' \cup BatchBlocks'
      BY <2>4, <2>5, <2>6 DEF QueueBlocks, BatchBlocks
    <3> QED BY <2>7, <3>1, <3>2, QueuedParts
  <2>10. \A i \in DOMAIN queue :
           /\ queue[i].block \notin dbBlock
           /\ queue[i].count = Kids(dbBlock \cup {queue[j].block : j \in 1 .. i}, ParentOf[queue[i].block])
    BY <1>c, <2>7 DEF QueueCounted
  <2>11. BatchCounted'
    <3> SUFFICES ASSUME NEW i \in 1 .. n
                 PROVE  /\ batch'[i].block \notin dbBlock
                        /\ batch'[i].count = Kids(dbBlock \cup {batch'[j].block : j \in 1 .. i},
                                                  ParentOf[batch'[i].block])
      BY <2>4, <2>7 DEF BatchCounted, Kids
    <3>1. {batch'[j].block : j \in 1 .. i} = {queue[j].block : j \in 1 .. i}
      BY <2>2, <2>4
    <3> QED BY <2>4, <2>10, <3>1
  <2>12. QueueCounted'
    <3> SUFFICES ASSUME NEW i \in DOMAIN queue'
                 PROVE  /\ queue'[i].block \notin dbBlock
                        /\ queue'[i].count = Kids(dbBlock \cup BatchBlocks' \cup {queue'[j].block : j \in 1 .. i},
                                                  ParentOf[queue'[i].block])
      BY <2>7 DEF QueueCounted, Kids
    <3> DEFINE k == n + i
    <3>1. i \in Nat /\ i > 0 /\ k \in DOMAIN queue /\ queue'[i] = queue[k] /\ k \in Nat
      BY <2>2, <2>5
    <3>2. {queue[j].block : j \in 1 .. k} = BatchBlocks' \cup {queue'[j].block : j \in 1 .. i}
      <4>1. ASSUME NEW j \in 1 .. k PROVE queue[j].block \in BatchBlocks' \cup {queue'[m].block : m \in 1 .. i}
        <5>1. CASE j \in 1 .. n
          BY <2>8, <5>1
        <5>2. CASE j \notin 1 .. n
          <6>1. j - n \in 1 .. i /\ j - n \in DOMAIN queue' /\ n + (j - n) = j
            BY <2>2, <2>5, <3>1, <5>2
          <6>2. queue'[j - n] = queue[j]
            BY <2>5, <6>1
          <6> QED BY <6>1, <6>2
        <5> QED BY <5>1, <5>2
      <4>2. ASSUME NEW j \in 1 .. n PROVE j \in 1 .. k
        BY <2>2, <3>1
      <4>3. ASSUME NEW m \in 1 .. i PROVE queue'[m].block \in {queue[j].block : j \in 1 .. k}
        <5>1. m \in DOMAIN queue' /\ n + m \in 1 .. k
          BY <2>2, <2>5, <3>1
        <5>2. queue'[m] = queue[n + m]
          BY <2>5, <5>1
        <5> QED BY <5>1, <5>2
      <4> HIDE DEF k
      <4> QED BY <2>8, <4>1, <4>2, <4>3
    <3> HIDE DEF k
    <3>3. /\ queue[k].block \notin dbBlock
          /\ queue[k].count = Kids(dbBlock \cup {queue[j].block : j \in 1 .. k}, ParentOf[queue[k].block])
      BY <2>10, <3>1
    <3>4. dbBlock \cup {queue[j].block : j \in 1 .. k} = dbBlock \cup BatchBlocks' \cup {queue'[j].block : j \in 1 .. i}
      BY <3>2
    <3> QED BY <3>1, <3>3, <3>4
  <2>13. \A p \in Block : dbCount'[p] = Kids(dbBlock', p)
    BY <2>7 DEF CountInv
  <2> QED BY <1>s, <2>7, <2>9, <2>11, <2>12, <2>13
<1>2. ASSUME dbBlock \subseteq dbBlock', dbBlock' \subseteq dbBlock \cup BatchBlocks, queue' = queue,
             dbBlock' \cup BatchBlocks' = dbBlock \cup BatchBlocks
      PROVE  QueueCounted'
  <2>1. \A i \in DOMAIN queue : queue[i].block \notin dbBlock'
    BY <1>2, <1>c DEF QueueCounted, OrderlyQueue
  <2> QED BY <1>2, <1>c, <2>1 DEF QueueCounted, Kids
<1>3. CASE WriteOk
  <2>1. AppendBlocksBatch /\ batch' = <<>> /\ queue' = queue /\ alive' = alive
    BY <1>3 DEF WriteOk
  <2>2. dbBlock' = dbBlock \cup BatchBlocks
    BY <1>0, <2>1, SerialAppend
  <2>3. BatchBlocks' = {} /\ QueueBlocks' = QueueBlocks
    BY <2>1 DEF BatchBlocks, QueueBlocks
  <2>4. BatchCounted' /\ QueueCounted'
    BY <1>2, <2>1, <2>2, <2>3 DEF BatchCounted
  <2>5. \A p \in Block : dbCount'[p] = Kids(dbBlock', p)
    BY <1>0, <2>1, CountAppend
  <2> QED BY <1>s, <2>2, <2>3, <2>4, <2>5, QueuedParts
<1>4. CASE WriteErr
  <2>1. \/ alive' = FALSE /\ queue' = <<>> /\ batch' = <<>>
        \/ alive' = alive /\ queue' = queue /\ batch' = batch
    BY <1>4, Zenon DEF WriteErr
  <2>2. AppendBlocksBatch \/ UNCHANGED <<dbBlock, dbCount>>
    BY <1>4 DEF WriteErr, db
  <2>3. \A p \in Block : dbCount'[p] = Kids(dbBlock', p)
    <3>1. CASE AppendBlocksBatch
      BY <1>0, <3>1, CountAppend
    <3>2. CASE UNCHANGED <<dbBlock, dbCount>>
      BY <3>2 DEF CountInv
    <3> QED BY <2>2, <3>1, <3>2
  <2>4. dbBlock' = dbBlock \/ dbBlock' = dbBlock \cup BatchBlocks
    BY <1>0, <2>2, SerialAppend
  <2>5. CASE alive' = FALSE
    <3>1. \A p \in Block : childCount'[p] = Kids(dag' \cup Inserting', p)
      BY <1>0 DEF CountInv
    <3> QED BY <2>3, <2>5, <3>1 DEF CountInv
  <2>6. CASE alive' = alive /\ queue' = queue /\ batch' = batch
    <3>1. BatchBlocks' = BatchBlocks /\ QueueBlocks' = QueueBlocks
      BY <2>6 DEF BatchBlocks, QueueBlocks
    <3>2. BatchCounted'
      <4>1. CASE dbBlock' = dbBlock
        BY <1>c, <2>6, <3>1, <4>1 DEF BatchCounted, Kids
      <4>2. CASE dbBlock' = dbBlock \cup BatchBlocks
        BY <3>1, <4>2 DEF BatchCounted
      <4> QED BY <2>4, <4>1, <4>2
    <3>3. QueueCounted'
      BY <1>2, <2>4, <2>6, <3>1
    <3> QED BY <1>s, <2>3, <2>4, <3>1, <3>2, <3>3, QueuedParts
  <2> QED BY <2>1, <2>5, <2>6
<1> QED BY <1>1, <1>3, <1>4 DEF Consumer

\* The bootstrap counts the children it loads; a block that is not stored has
\* none.
LEMMA CountRestart ==
    ASSUME Serial, TypeInv, SerialInv, CountInv, Crash \/ DrainExit
    PROVE  CountInv'
<1> USE DEF TypeInv
<1>1. /\ UNCHANGED <<dbBlock, dbCount>> /\ dag' = dbBlock /\ pc' = [t \in Task |-> "idle"]
      /\ queue' = <<>> /\ batch' = <<>>
      /\ childCount' = [p \in Block |-> IF p \in dbBlock THEN Kids(dbBlock, p) ELSE 0]
  <2>1. PICK kind \in {"crash", "drained"} : Restart(kind)
    BY DEF Crash, DrainExit
  <2>2. Windows(dbBlock) = {dbBlock}
    BY DEF Windows, Serial
  <2>3. /\ dag' = dbBlock
        /\ childCount' = [p \in Block |-> IF p \in dbBlock
             THEN Cardinality({b \in dbBlock \ {Genesis} : ParentOf[b] = p}) ELSE 0]
    BY <2>1, <2>2, Zenon DEF Restart
  <2>4. /\ UNCHANGED <<dbBlock, dbCount>> /\ pc' = [t \in Task |-> "idle"]
        /\ queue' = <<>> /\ batch' = <<>>
    BY <2>1 DEF Restart, db
  <2> QED BY <2>3, <2>4 DEF Kids
<1>2. Inserting' = {} /\ BatchBlocks' = {}
  BY <1>1 DEF Inserting, BatchBlocks
<1>3. ASSUME NEW p \in Block \ dbBlock PROVE Kids(dbBlock, p) = 0
  <2>1. {b \in dbBlock \ {Genesis} : ParentOf[b] = p} = {}
    BY DEF SerialInv, StoredValid, Ready
  <2> QED BY <2>1, FS_EmptySet DEF Kids
<1>4. \A p \in Block : childCount'[p] = Kids(dag' \cup Inserting', p) /\ dbCount'[p] = Kids(dbBlock', p)
  <2>1. \A p \in Block : childCount'[p] = Kids(dbBlock, p)
    BY <1>1, <1>3
  <2>2. dag' \cup Inserting' = dbBlock
    BY <1>1, <1>2
  <2> QED BY <1>1, <2>1, <2>2 DEF CountInv
<1>5. BatchCounted' /\ QueueCounted'
  BY <1>1, <1>2 DEF BatchCounted, QueueCounted
<1> QED BY <1>1, <1>4, <1>5 DEF CountInv

LEMMA CountInvariance == ASSUME Serial PROVE Spec => []CountInv
<1>1. Init => CountInv
  <2> SUFFICES ASSUME Init PROVE CountInv
    OBVIOUS
  <2>1. Inserting = {} /\ BatchBlocks = {}
    BY DEF Init, Inserting, BatchBlocks
  <2>2. ASSUME NEW p \in Block PROVE Kids({Genesis}, p) = 0
    <3>1. {b \in {Genesis} \ {Genesis} : ParentOf[b] = p} = {}
      OBVIOUS
    <3> QED BY <3>1, FS_EmptySet DEF Kids
  <2>3. dag \cup Inserting = {Genesis} /\ dbBlock = {Genesis}
    BY <2>1 DEF Init
  <2>4. \A p \in Block : childCount[p] = Kids(dag \cup Inserting, p) /\ dbCount[p] = Kids(dbBlock, p)
    BY <2>2, <2>3 DEF Init
  <2>5. BatchCounted /\ QueueCounted
    BY <2>1 DEF Init, BatchCounted, QueueCounted
  <2> QED BY <2>4, <2>5 DEF Init, CountInv
<1>2. TypeInv /\ BackedInv /\ SerialInv /\ CountInv /\ [Next]_vars => CountInv'
  <2> SUFFICES ASSUME TypeInv, BackedInv, SerialInv, CountInv, [Next]_vars PROVE CountInv'
    OBVIOUS
  <2>1. ASSUME NEW t \in Task, NEW b \in Block \ {Genesis}, Gate(t, b) PROVE CountInv'
    <3>1. /\ pc[t] = "idle" /\ pc'[t] \in {"idle", "validate"}
          /\ UNCHANGED <<dag, childCount, dbBlock, dbCount, queue, batch, alive>>
      BY <2>1 DEF Gate, Goto, ram, pipe, db, TypeInv, TypeOK
    <3> QED BY <3>1, CountQuiet
  <2>2. CASE \E t \in Task : CallStep(t)
    BY <2>2, CountCall
  <2>3. ASSUME NEW t \in Task, Drop(t) PROVE CountInv'
    BY <2>3 DEF Drop, Serial, TypeInv, TypeOK
  <2>4. CASE Consumer
    BY <2>4, CountConsumer
  <2>5. CASE Crash \/ DrainExit
    BY <2>5, CountRestart
  <2>6. CASE UNCHANGED vars
    BY <2>6, CountFrame DEF vars, ram, call, pipe, db, Inserting
  <2> QED BY <2>1, <2>2, <2>3, <2>4, <2>5, <2>6 DEF Next
<1> QED BY <1>1, <1>2, TypeInvariance, BackedInvariance, SerialInvariance, PTL DEF Spec

\* With one call at a time, once the channel is drained, the counts of children
\* in RocksDB are those in memory, through every batch, retry and restart
\* (parent_count_updates, append_blocks_batch, the bootstrap).
THEOREM CountsAgree == ASSUME Serial PROVE Spec => []CountsConverge
<1>1. TypeInv /\ BackedInv /\ SerialInv /\ CountInv => CountsConverge
  <2> SUFFICES ASSUME TypeInv, BackedInv, SerialInv, CountInv, alive, Queued = {},
                      \A t \in Task : pc[t] = "idle", NEW p \in dag
               PROVE  dbCount[p] = childCount[p]
    BY DEF CountsConverge
  <2>1. PICK t \in Task : Task = {t}
    BY DEF Serial
  <2>2. dag = dbBlock /\ Inserting = {} /\ p \in Block
    BY WindowKnown, InsertingOne DEF TypeInv, TypeOK
  <2>3. dag \cup Inserting = dbBlock
    BY <2>2
  <2> QED BY <2>2, <2>3 DEF CountInv
<1> QED BY <1>1, TypeInvariance, BackedInvariance, SerialInvariance, CountInvariance, PTL
=============================================================================
