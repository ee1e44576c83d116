---------------------------- MODULE ReadOnlyGuard ----------------------------
(***************************************************************************)
(* The read-only guard (read_only.rs, api/tasks.rs): a task samples memory, *)
(* disk, RocksDB and the persist queue every five seconds and arms or      *)
(* clears the mode in which writes are answered 503; an operator arms and  *)
(* clears it by hand (admin.rs).  The mode is one atomic cell that both    *)
(* swap without looking at it: what the guard does rests on loads it made  *)
(* earlier in its tick.                                                    *)
(*                                                                         *)
(* Writers pass require_writable once, then wait for room in the persist   *)
(* channel, whose depth and whose waits (back_pressure.rs) are two of the  *)
(* guard's signals.  Time is counted in ticks of the guard.                *)
(***************************************************************************)
EXTENDS Integers, FiniteSets

CONSTANTS
    Writer,          \* write requests; each is made again after its answer
    QueueCap,        \* capacity of the persist channel
    QueueCritical,   \* depth at which it is critical
    ArmTicks, ArmTicksPersist, DisarmTicks, \* ARM_TICKS_DEFAULT, ...
    MinArmTicks,     \* read_only_min_arm_duration_secs
    Failing,         \* what may be under pressure: of "disk", "rocksdb"
    Operator,        \* arm and disarm requests that may run at the same time
    MaxOperatorCalls \* bound

ASSUME GuardAssumption ==
    /\ {QueueCap, QueueCritical, MinArmTicks, MaxOperatorCalls} \subseteq Nat
    /\ {ArmTicks, ArmTicksPersist, DisarmTicks} \subseteq Nat \ {0}
    /\ ArmTicksPersist <= ArmTicks
    /\ Failing \subseteq {"disk", "rocksdb"}

VARIABLES
    roMode,       \* ReadOnlyMode.state
    roGauge,      \* pms_engine_read_only
    roOver, roUnder, roStalls, \* over_count, under_count, producer_signal_consecutive
    roArmedAge,   \* ticks since armed_at; NotArmed: None
    roPc,         \* of the guard's tick
    roNew, roSeenArmed, roSeen, \* new_reason, was_armed, cur_reason
    roQueue, roStalled, \* depth of the channel; MAX_ELAPSED_MS >= 1000
    roWriter,     \* writers: idle, waiting (admitted), blocked (channel full)
    roOperator,   \* operator's call -> idle, or the gauge value to set
    roCalls,
    roHeld,       \* the last swap of an operator armed the mode
    roCrossed,    \* that swap fell inside a tick of the guard
    roOvertaken,  \* calls after whose swap the mode was swapped again
    roLate,       \* the gauge was last set by such a call
    roSince, roClear, \* ticks since the guard armed; clear samples in a row
    roCalm        \* the environment's pressure is over for good

roGuardVars == <<roOver, roUnder, roStalls, roArmedAge, roPc, roNew, roSeenArmed, roSeen>>
roWriteVars == <<roQueue, roStalled, roWriter>>
roSwapVars == <<roHeld, roCrossed, roOvertaken, roLate>>
roHistVars == <<roSwapVars, roSince, roClear, roCalm>>
roVars == <<roMode, roGauge, roGuardVars, roWriteVars, roOperator, roCalls, roHistVars>>

Reasons == {"none", "memory", "disk", "rocksdb", "manual", "persist_queue"}
NotArmed == -1
MemoryLevels == {"unknown", "low", "band", "high"}

Armed == roMode # "none"

\* The operators' calls that have swapped the mode and not yet set the gauge.
Open == {o \in Operator : roOperator[o] # "idle"}

Capped(n, bound) == IF n < bound THEN n + 1 ELSE bound

GuardInit ==
    /\ roMode = "none" /\ roGauge = 0
    /\ roOver = 0 /\ roUnder = 0 /\ roStalls = 0 /\ roArmedAge = NotArmed
    /\ roPc = "sleep" /\ roNew = "none" /\ roSeenArmed = FALSE /\ roSeen = "none"
    /\ roQueue = 0 /\ roStalled = FALSE
    /\ roWriter = [w \in Writer |-> "idle"]
    /\ roOperator = [o \in Operator |-> "idle"] /\ roCalls = 0
    /\ roHeld = FALSE /\ roCrossed = FALSE /\ roOvertaken = {} /\ roLate = FALSE
    /\ roSince = 0 /\ roClear = 0
    /\ roCalm = FALSE

(***************************************************************************)
(* The guard's tick.                                                       *)
(***************************************************************************)

\* read_cgroup_memory_pct against the watermarks: the low one while armed,
\* so that the band between the two keeps an armed mode armed.
MemPressure(level) == level = "high" \/ (level = "band" /\ Armed)

\* new_reason: memory before disk before RocksDB before the queue.
Reason(mem, disk, rocks, persist) ==
    CASE mem     -> "memory"
      [] disk    -> "disk"
      [] rocks   -> "rocksdb"
      [] persist -> "persist_queue"
      [] OTHER   -> "none"

\* check_persist_saturated: of any ledger; one channel stands for them all.
PersistSaturated == QueueCap > 0 /\ roQueue >= QueueCritical

\* disk_free_percent and RocksDB's own signals, each there or not; then
\* check_persist_saturated, then drain() of the back-pressure accumulator:
\* a wait of a second or more in two ticks running is pressure as well.
Sample ==
    /\ roPc = "sleep"
    /\ \E level \in MemoryLevels, failed \in SUBSET Failing :
        /\ roCalm => level \in {"unknown", "low"} /\ failed = {}
        /\ LET stalls == IF roStalled THEN Capped(roStalls, 2) ELSE 0
               persist == PersistSaturated \/ stalls >= 2
               reason == Reason(MemPressure(level), "disk" \in failed, "rocksdb" \in failed, persist)
           IN /\ roStalls' = stalls
              /\ roNew' = reason
              /\ roClear' = IF reason = "none" THEN Capped(roClear, DisarmTicks) ELSE 0
    /\ roStalled' = FALSE
    /\ roArmedAge' = IF roArmedAge = NotArmed THEN NotArmed ELSE Capped(roArmedAge, MinArmTicks)
    /\ roSince' = Capped(roSince, MinArmTicks)
    /\ roPc' = "was_armed"
    /\ UNCHANGED <<roMode, roGauge, roOver, roUnder, roSeenArmed, roSeen, roQueue, roWriter, roOperator,
                   roCalls, roSwapVars, roCalm>>

LoadArmed ==
    /\ roPc = "was_armed"
    /\ roSeenArmed' = Armed
    /\ roPc' = "cur_reason"
    /\ UNCHANGED <<roMode, roGauge, roOver, roUnder, roStalls, roArmedAge, roNew, roSeen, roWriteVars,
                   roOperator, roCalls, roHistVars>>

LoadReason ==
    /\ roPc = "cur_reason"
    /\ roSeen' = roMode
    /\ roPc' = "decide"
    /\ UNCHANGED <<roMode, roGauge, roOver, roUnder, roStalls, roArmedAge, roNew, roSeenArmed, roWriteVars,
                   roOperator, roCalls, roHistVars>>

ArmThreshold == IF roNew = "persist_queue" THEN ArmTicksPersist ELSE ArmTicks

MinDurationElapsed == roArmedAge = NotArmed \/ roArmedAge >= MinArmTicks

\* Mutated form of MayRename, for the check of OperatorObeyed only.
MayRenameManual == roSeenArmed /\ roSeen # roNew

MayRename == roSeenArmed /\ roSeen # "manual" /\ roSeen # roNew

\* Mutated form of MayDisarm, for the check of GuardReleases only.
MayDisarmOnce == roSeenArmed /\ roSeen # "manual" /\ roUnder + 1 = DisarmTicks /\ MinDurationElapsed

MayDisarm == roSeenArmed /\ roSeen # "manual" /\ roUnder + 1 >= DisarmTicks /\ MinDurationElapsed

\* What a tick loaded is local to it.
TickEnds(pc) == roPc' = pc /\ roNew' = "none" /\ roSeenArmed' = FALSE /\ roSeen' = "none"

Rest == TickEnds("sleep") /\ UNCHANGED <<roMode, roArmedAge, roSince, roOvertaken>>

\* Mutated form of ArmNow, for the check of FloorHeld only.
ArmUntimed ==
    /\ roMode' = roNew /\ roOvertaken' = Open
    /\ roSince' = 0 /\ UNCHANGED roArmedAge
    /\ TickEnds("gauge_up")

ArmNow ==
    /\ roMode' = roNew /\ roOvertaken' = Open
    /\ roArmedAge' = 0 /\ roSince' = 0
    /\ TickEnds("gauge_up")

DecidePressed ==
    /\ roPc = "decide" /\ roNew # "none"
    /\ roUnder' = 0
    /\ roOver' = Capped(roOver, ArmTicks)
    /\ \/ ~roSeenArmed /\ roOver' >= ArmThreshold /\ ArmNow
       \/ MayRename /\ roMode' = roNew /\ TickEnds("sleep") /\ UNCHANGED <<roArmedAge, roSince, roOvertaken>>
       \/ ~(~roSeenArmed /\ roOver' >= ArmThreshold) /\ ~MayRename /\ Rest
    /\ UNCHANGED <<roGauge, roStalls, roWriteVars, roOperator, roCalls, roHeld,
                   roCrossed, roLate, roClear, roCalm>>

DecideClear ==
    /\ roPc = "decide" /\ roNew = "none"
    /\ roOver' = 0
    /\ \/ MayDisarm /\ roMode' = "none" /\ roUnder' = 0 /\ roArmedAge' = NotArmed
          /\ roOvertaken' = Open /\ TickEnds("gauge_down") /\ UNCHANGED roSince
       \/ ~MayDisarm /\ Rest
          /\ roUnder' = (IF ~roSeenArmed THEN roUnder
                         ELSE IF roSeen = "manual" THEN 0 ELSE Capped(roUnder, DisarmTicks))
    /\ UNCHANGED <<roGauge, roStalls, roWriteVars, roOperator, roCalls, roHeld,
                   roCrossed, roLate, roClear, roCalm>>

SetGauge ==
    /\ roPc \in {"gauge_up", "gauge_down"}
    /\ roGauge' = IF roPc = "gauge_up" THEN 1 ELSE 0
    /\ roPc' = "sleep"
    /\ roLate' = FALSE
    /\ UNCHANGED <<roMode, roOver, roUnder, roStalls, roArmedAge, roNew, roSeenArmed, roSeen, roWriteVars,
                   roOperator, roCalls, roHeld, roCrossed, roOvertaken, roSince, roClear, roCalm>>

Tick == Sample \/ LoadArmed \/ LoadReason \/ DecidePressed \/ DecideClear \/ SetGauge

(***************************************************************************)
(* The operators: a swap, then the gauge.                                  *)
(***************************************************************************)

OperatorSwap(o, mode, gauge) ==
    /\ roOperator[o] = "idle" /\ roCalls < MaxOperatorCalls
    /\ roMode' = mode
    /\ roOperator' = [roOperator EXCEPT ![o] = gauge]
    /\ roCalls' = roCalls + 1
    /\ roHeld' = (mode = "manual")
    /\ roCrossed' = (roPc # "sleep")
    /\ roOvertaken' = Open
    /\ UNCHANGED <<roGauge, roGuardVars, roWriteVars, roLate, roSince, roClear, roCalm>>

AdminArm(o) == OperatorSwap(o, "manual", "up")
AdminDisarm(o) == OperatorSwap(o, "none", "down")

\* Nothing orders the gauges of two calls, nor those of a call and the guard.
OperatorGauge(o) ==
    /\ roOperator[o] # "idle"
    /\ roGauge' = IF roOperator[o] = "up" THEN 1 ELSE 0
    /\ roOperator' = [roOperator EXCEPT ![o] = "idle"]
    /\ roLate' = (o \in roOvertaken) /\ roOvertaken' = roOvertaken \ {o}
    /\ UNCHANGED <<roMode, roGuardVars, roWriteVars, roCalls, roHeld, roCrossed, roSince, roClear, roCalm>>

(***************************************************************************)
(* Writers and the persist channel.                                        *)
(***************************************************************************)

\* require_writable: a refused request is answered 503 and stays idle.
Admit(w) ==
    /\ roWriter[w] = "idle"
    /\ ~Armed
    /\ roWriter' = [roWriter EXCEPT ![w] = "waiting"]
    /\ UNCHANGED <<roMode, roGauge, roGuardVars, roQueue, roStalled, roOperator, roCalls, roHistVars>>

\* try_send: the channel has room.
Send(w) ==
    /\ roWriter[w] = "waiting" /\ roQueue < QueueCap
    /\ roQueue' = roQueue + 1
    /\ roWriter' = [roWriter EXCEPT ![w] = "idle"]
    /\ UNCHANGED <<roMode, roGauge, roGuardVars, roStalled, roOperator, roCalls, roHistVars>>

Block(w) ==
    /\ roWriter[w] = "waiting" /\ roQueue = QueueCap
    /\ roWriter' = [roWriter EXCEPT ![w] = "blocked"]
    /\ UNCHANGED <<roMode, roGauge, roGuardVars, roQueue, roStalled, roOperator, roCalls, roHistVars>>

\* record_event after send().await, whatever it waited.
SendBlocked(w) ==
    /\ roWriter[w] = "blocked" /\ roQueue < QueueCap
    /\ roQueue' = roQueue + 1
    /\ roWriter' = [roWriter EXCEPT ![w] = "idle"]
    /\ roStalled' \in {roStalled, TRUE}
    /\ UNCHANGED <<roMode, roGauge, roGuardVars, roOperator, roCalls, roHistVars>>

Consume ==
    /\ roQueue > 0
    /\ roQueue' = roQueue - 1
    /\ UNCHANGED <<roMode, roGauge, roGuardVars, roStalled, roWriter, roOperator, roCalls, roHistVars>>

\* The environment: from here on memory, disk and RocksDB are well, and no
\* more writes come.
CalmDown ==
    /\ ~roCalm /\ roCalm' = TRUE
    /\ UNCHANGED <<roMode, roGauge, roGuardVars, roWriteVars, roOperator, roCalls, roSwapVars,
                   roSince, roClear>>

GuardNext ==
    \/ Tick
    \/ \E o \in Operator : AdminArm(o) \/ AdminDisarm(o) \/ OperatorGauge(o)
    \/ \E w \in Writer : (~roCalm /\ Admit(w)) \/ Send(w) \/ Block(w) \/ SendBlocked(w)
    \/ Consume
    \/ CalmDown

GuardBehaviour == GuardInit /\ [][GuardNext]_roVars

(***************************************************************************)
(* Properties.                                                             *)
(***************************************************************************)

\* What the operator asked for stands: a mode armed by hand stays armed as manual
\* until it is cleared by hand, and once nobody is between a swap and its gauge, the
\* gauge tells whether the mode is armed.  Two departures: the last call of an
\* operator fell inside a tick of the guard, which then acts on the mode it had loaded
\* before (spawn_resource_guard_task); and, for the gauge alone, of two that swapped
\* the mode, two operators or an operator and the guard, the first set the gauge last
\* (admin_read_only_arm, admin_read_only_disarm).
OperatorObeyed ==
    ~roCrossed =>
        /\ roHeld => roMode = "manual"
        /\ roPc = "sleep" /\ Open = {} /\ ~roLate
             => (roGauge = 1 <=> Armed)

\* The guard does not flap: it clears the mode only after DISARM_TICKS clear
\* samples in a row and no earlier than min_arm_duration after it armed it,
\* whatever the operator does between two of its ticks.
FloorHeld ==
    [][roPc = "decide" /\ roPc' = "gauge_down" /\ ~roCrossed
        => roClear >= DisarmTicks /\ roSince >= MinArmTicks]_roVars

\* A mode the guard armed does not outlive the pressure: once memory, disk
\* and RocksDB are well and no write comes any more, the mode is in the end
\* clear, or armed by hand, and stays so.
GuardReleases == [](roCalm => <>[](roMode \in {"none", "manual"}))

\* The guard neither flaps nor sticks.
GuardSteady == FloorHeld /\ GuardReleases
=============================================================================
