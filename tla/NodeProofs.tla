----------------------------- MODULE NodeProofs -----------------------------
(***************************************************************************)
(* Theorems about ReadOnlyGuard: it obeys the operator and does not flap,  *)
(* for every number of writers and calls, every channel and every          *)
(* threshold.  While no call of the operator crosses a tick, what the tick *)
(* loaded is still the mode when it decides (LoadsCurrent), and the gauge  *)
(* follows the mode (GaugeFollows).  The guard's own clocks never run      *)
(* ahead of the clear samples and of the time since it armed               *)
(* (ClocksBehind).                                                         *)
(*                                                                         *)
(* And about Peer: no orphan is forgotten, for every graph of blocks, any  *)
(* connections and tables of any size (HandInv, WaitInv).                  *)
(***************************************************************************)
EXTENDS ReadOnlyGuard, Peer, FiniteSetFacts, TLAPS

Steps == {"sleep", "was_armed", "cur_reason", "decide", "gauge_up", "gauge_down"}

GuardTypes ==
    /\ roPc \in Steps
    /\ roOperator \in [Operator -> {"idle", "up", "down"}]
    /\ roCrossed \in BOOLEAN /\ roHeld \in BOOLEAN /\ roSeenArmed \in BOOLEAN
    /\ roUnder \in Nat /\ roClear \in Nat /\ roSince \in Nat
    /\ roArmedAge \in Nat \cup {NotArmed}

\* What a tick has loaded is the mode.
LoadsCurrent ==
    /\ roPc \in {"cur_reason", "decide"} => (roSeenArmed <=> Armed)
    /\ roPc = "decide" => roSeen = roMode

\* The gauge tells the mode, or a call that nobody has overtaken is about to set it.
GaugeFollows ==
    /\ roPc = "gauge_up" => Armed
    /\ roPc = "gauge_down" => ~Armed
    /\ \A o \in Open \ roOvertaken : roOperator[o] = "up" <=> Armed
    /\ Open \subseteq roOvertaken /\ ~roLate /\ roPc \in {"sleep", "was_armed", "cur_reason", "decide"}
         => (roGauge = 1 <=> Armed)

ObeyInv ==
    ~roCrossed =>
        /\ roHeld => roMode = "manual"
        /\ LoadsCurrent
        /\ GaugeFollows

\* under_count and armed_at against the samples and the last arm.
ClocksBehind ==
    /\ roPc \in {"sleep", "gauge_up", "gauge_down"} => roUnder <= roClear \/ roClear >= DisarmTicks
    /\ roPc \in {"was_armed", "cur_reason", "decide"} /\ roNew = "none"
         => roUnder + 1 <= roClear \/ roClear >= DisarmTicks
    /\ roArmedAge # NotArmed => roArmedAge <= roSince \/ roSince >= MinArmTicks
    /\ ~roCrossed /\ roMode \notin {"none", "manual"} => roArmedAge # NotArmed

GuardInv == GuardTypes /\ ObeyInv /\ ClocksBehind

-----------------------------------------------------------------------------
LEMMA CappedNat == ASSUME NEW n \in Nat, NEW b \in Nat PROVE Capped(n, b) \in Nat
BY SMT DEF Capped

\* The guard, the operator and the node start at rest.
LEMMA GuardStarts == GuardInit => GuardInv
<1> SUFFICES ASSUME GuardInit PROVE GuardInv
    OBVIOUS
<1> USE DEF GuardInit
<1>1. GuardTypes
    BY DEF GuardTypes, Steps
<1>2. ObeyInv
    BY DEF ObeyInv, LoadsCurrent, GaugeFollows, Open, Armed
<1>3. ClocksBehind
    BY DEF ClocksBehind
<1> QED
    BY <1>1, <1>2, <1>3 DEF GuardInv

\* A sample may raise the clear count and both clocks by one.
LEMMA SampleKeeps == GuardInv /\ Sample => GuardInv'
<1> SUFFICES ASSUME GuardInv, Sample PROVE GuardInv'
    OBVIOUS
<1>1. /\ roPc = "sleep" /\ roPc' = "was_armed"
      /\ roClear' = IF roNew' = "none" THEN Capped(roClear, DisarmTicks) ELSE 0
      /\ roArmedAge' = IF roArmedAge = NotArmed THEN NotArmed ELSE Capped(roArmedAge, MinArmTicks)
      /\ roSince' = Capped(roSince, MinArmTicks)
      /\ UNCHANGED <<roMode, roGauge, roUnder, roSeenArmed, roOperator, roSwapVars>>
    BY DEF Sample
<1>2. GuardTypes /\ DisarmTicks \in Nat /\ MinArmTicks \in Nat
    BY GuardAssumption DEF GuardInv
<1>3. Capped(roClear, DisarmTicks) \in Nat /\ Capped(roSince, MinArmTicks) \in Nat
    BY <1>2, CappedNat DEF GuardTypes
<1>4. roArmedAge # NotArmed => roArmedAge \in Nat /\ Capped(roArmedAge, MinArmTicks) \in Nat
    BY <1>2, CappedNat DEF GuardTypes
<1>5. GuardTypes'
    BY <1>1, <1>2, <1>3, <1>4 DEF GuardTypes, Steps, roSwapVars
<1>6. ObeyInv'
    BY <1>1 DEF roSwapVars, GuardInv, ObeyInv, LoadsCurrent, GaugeFollows, Open, Armed
<1>7. ClocksBehind'
  <2>1. roUnder <= roClear \/ roClear >= DisarmTicks
      BY <1>1 DEF GuardInv, ClocksBehind
  <2>2. roUnder + 1 <= Capped(roClear, DisarmTicks) \/ Capped(roClear, DisarmTicks) >= DisarmTicks
      BY <2>1, <1>2 DEF GuardTypes, Capped
  <2>3. roArmedAge # NotArmed => roArmedAge <= roSince \/ roSince >= MinArmTicks
      BY DEF GuardInv, ClocksBehind
  <2>4. roArmedAge # NotArmed => \/ Capped(roArmedAge, MinArmTicks) <= Capped(roSince, MinArmTicks)
                                 \/ Capped(roSince, MinArmTicks) >= MinArmTicks
      BY <2>3, <1>2, <1>4 DEF GuardTypes, Capped
  <2>5. ~roCrossed /\ roMode \notin {"none", "manual"} => roArmedAge' # NotArmed
      BY <1>1, <1>4 DEF GuardInv, ClocksBehind, NotArmed, roSwapVars
  <2> QED
      BY <1>1, <2>2, <2>4, <2>5 DEF ClocksBehind, roSwapVars
<1> QED
    BY <1>5, <1>6, <1>7 DEF GuardInv

LEMMA LoadArmedKeeps == GuardInv /\ LoadArmed => GuardInv'
<1> SUFFICES ASSUME GuardInv, LoadArmed PROVE GuardInv'
    OBVIOUS
<1> USE GuardAssumption DEF GuardInv, LoadArmed, roWriteVars, roSwapVars, roHistVars
<1>1. GuardTypes'
    BY DEF GuardTypes, Steps, Armed
<1>2. ObeyInv'
    BY DEF GuardTypes, Steps, ObeyInv, LoadsCurrent, GaugeFollows, Open, Armed
<1>3. ClocksBehind'
    BY DEF GuardTypes, Steps, ClocksBehind
<1> QED
    BY <1>1, <1>2, <1>3

LEMMA LoadReasonKeeps == GuardInv /\ LoadReason => GuardInv'
<1> SUFFICES ASSUME GuardInv, LoadReason PROVE GuardInv'
    OBVIOUS
<1> USE GuardAssumption DEF GuardInv, LoadReason, roWriteVars, roSwapVars, roHistVars
<1>1. GuardTypes'
    BY DEF GuardTypes, Steps
<1>2. ObeyInv'
    BY DEF GuardTypes, Steps, ObeyInv, LoadsCurrent, GaugeFollows, Open, Armed
<1>3. ClocksBehind'
    BY DEF GuardTypes, Steps, ClocksBehind
<1> QED
    BY <1>1, <1>2, <1>3

\* Under pressure the guard arms a mode it saw clear, or renames one it armed.
LEMMA PressedKeeps == GuardInv /\ DecidePressed => GuardInv'
<1> SUFFICES ASSUME GuardInv, DecidePressed PROVE GuardInv'
    OBVIOUS
<1> USE DEF GuardInv, DecidePressed, TickEnds
<1>1. CASE ~roSeenArmed /\ ArmNow
  <2>1. GuardTypes'
      BY <1>1 DEF GuardTypes, Steps, ArmNow
  <2>2. ObeyInv'
      BY <1>1 DEF GuardTypes, Steps, ObeyInv, LoadsCurrent, GaugeFollows, Open, Armed, ArmNow
  <2>3. ClocksBehind'
      BY <1>1 DEF GuardTypes, ClocksBehind, ArmNow, NotArmed
  <2> QED
      BY <2>1, <2>2, <2>3
<1>2. CASE MayRename /\ roMode' = roNew /\ TickEnds("sleep") /\ UNCHANGED <<roArmedAge, roSince>>
  <2>1. GuardTypes'
      BY <1>2 DEF GuardTypes, Steps
  <2>2. ObeyInv'
      BY <1>2 DEF GuardTypes, Steps, ObeyInv, LoadsCurrent, GaugeFollows, Open, Armed, MayRename
  <2>3. ~roCrossed => roMode \notin {"none", "manual"}
      BY <1>2 DEF ObeyInv, LoadsCurrent, Armed, MayRename
  <2>4. ClocksBehind'
      BY <1>2, <2>3 DEF GuardTypes, ClocksBehind
  <2> QED
      BY <2>1, <2>2, <2>4
<1>3. CASE Rest
  <2>1. GuardTypes'
      BY <1>3 DEF GuardTypes, Steps, Rest
  <2>2. ObeyInv'
      BY <1>3 DEF GuardTypes, Steps, ObeyInv, LoadsCurrent, GaugeFollows, Open, Armed, Rest
  <2>3. ClocksBehind'
      BY <1>3 DEF GuardTypes, ClocksBehind, Rest
  <2> QED
      BY <2>1, <2>2, <2>3
<1> QED
    BY <1>1, <1>2, <1>3

\* Without pressure it clears a mode it saw armed, and not by hand.
LEMMA ClearKeeps == GuardInv /\ DecideClear => GuardInv'
<1> SUFFICES ASSUME GuardInv, DecideClear PROVE GuardInv'
    OBVIOUS
<1> USE DEF GuardInv, DecideClear, TickEnds
<1>1. CASE MayDisarm /\ roMode' = "none" /\ roUnder' = 0 /\ roArmedAge' = NotArmed
           /\ TickEnds("gauge_down") /\ UNCHANGED roSince
  <2>1. GuardTypes'
      BY <1>1 DEF GuardTypes, Steps
  <2>2. ObeyInv'
      BY <1>1 DEF GuardTypes, Steps, ObeyInv, LoadsCurrent, GaugeFollows, Open, Armed, MayDisarm
  <2>3. ClocksBehind'
      BY <1>1 DEF GuardTypes, ClocksBehind
  <2> QED
      BY <2>1, <2>2, <2>3
<1>2. CASE Rest /\ roUnder' = (IF ~roSeenArmed THEN roUnder
                               ELSE IF roSeen = "manual" THEN 0 ELSE Capped(roUnder, DisarmTicks))
  <2>1. roUnder \in Nat /\ DisarmTicks \in Nat
      BY GuardAssumption DEF GuardTypes
  <2>2. Capped(roUnder, DisarmTicks) \in Nat /\ Capped(roUnder, DisarmTicks) <= roUnder + 1
      BY <2>1 DEF Capped
  <2>3. roUnder' \in Nat /\ roUnder' <= roUnder + 1
      BY <1>2, <2>1, <2>2
  <2>4. GuardTypes'
      BY <1>2, <2>3 DEF GuardTypes, Steps, Rest
  <2>5. ObeyInv'
      BY <1>2 DEF GuardTypes, Steps, ObeyInv, LoadsCurrent, GaugeFollows, Open, Armed, Rest
  <2>6. ClocksBehind'
      BY <1>2, <2>1, <2>3 DEF GuardTypes, ClocksBehind, Rest
  <2> QED
      BY <2>4, <2>5, <2>6
<1> QED
    BY <1>1, <1>2

LEMMA SetGaugeKeeps == GuardInv /\ SetGauge => GuardInv'
<1> SUFFICES ASSUME GuardInv, SetGauge PROVE GuardInv'
    OBVIOUS
<1> USE GuardAssumption DEF GuardInv, SetGauge, roWriteVars, roSwapVars, roHistVars
<1>1. GuardTypes'
    BY DEF GuardTypes, Steps
<1>2. ObeyInv'
    BY DEF GuardTypes, Steps, ObeyInv, LoadsCurrent, GaugeFollows, Open, Armed
<1>3. ClocksBehind'
    BY DEF GuardTypes, Steps, ClocksBehind
<1> QED
    BY <1>1, <1>2, <1>3

\* A swap outside a tick starts afresh; inside one it is a crossing.
LEMMA SwapKeeps ==
    ASSUME GuardInv, NEW o \in Operator, NEW mode \in {"none", "manual"},
           NEW gauge \in {"up", "down"}, mode = "none" <=> gauge = "down", OperatorSwap(o, mode, gauge)
    PROVE  GuardInv'
<1> USE DEF GuardInv, OperatorSwap, roWriteVars, roGuardVars
<1>1. GuardTypes'
    BY DEF GuardTypes, Steps
<1>2. ObeyInv'
    BY DEF GuardTypes, Steps, ObeyInv, LoadsCurrent, GaugeFollows, Open, Armed
<1>3. ClocksBehind'
    BY DEF GuardTypes, ClocksBehind
<1> QED
    BY <1>1, <1>2, <1>3

LEMMA OperatorGaugeKeeps == ASSUME NEW o \in Operator, GuardInv, OperatorGauge(o) PROVE GuardInv'
<1> USE GuardAssumption DEF GuardInv, OperatorGauge, roWriteVars, roGuardVars
<1>1. GuardTypes'
    BY DEF GuardTypes, Steps
<1>2. ObeyInv'
  <2> SUFFICES ASSUME ~roCrossed' PROVE /\ (roHeld => roMode = "manual")'
                                        /\ LoadsCurrent' /\ GaugeFollows'
      BY DEF ObeyInv
  <2>1. GaugeFollows
      BY DEF ObeyInv
  <2>2. Open' = Open \ {o} /\ roOvertaken' = roOvertaken \ {o} /\ o \in Open
      BY DEF GuardTypes, Open
  <2>3. \A p \in Open' \ roOvertaken' : roOperator'[p] = roOperator[p] /\ p \in Open \ roOvertaken
      BY <2>2 DEF GuardTypes, Open
  <2>4. ~roLate' => o \in Open \ roOvertaken /\ roGauge' = (IF roOperator[o] = "up" THEN 1 ELSE 0)
      BY <2>2
  <2>5. GaugeFollows'
      BY <2>1, <2>3, <2>4 DEF GaugeFollows, Armed
  <2> QED
      BY <2>5 DEF ObeyInv, LoadsCurrent, Armed
<1>3. ClocksBehind'
    BY DEF GuardTypes, Steps, ClocksBehind
<1> QED
    BY <1>1, <1>2, <1>3

\* Writers, the consumer and the environment touch nothing of it.
LEMMA OthersKeep ==
    ASSUME GuardInv,
           UNCHANGED <<roMode, roGauge, roGuardVars, roOperator, roSwapVars, roSince, roClear>>
    PROVE  GuardInv'
BY DEF GuardInv, GuardTypes, ObeyInv, LoadsCurrent, GaugeFollows, ClocksBehind, Open, Armed,
       roGuardVars, roSwapVars

LEMMA GuardStep == GuardInv /\ [GuardNext]_roVars => GuardInv'
<1> SUFFICES ASSUME GuardInv, [GuardNext]_roVars PROVE GuardInv'
    OBVIOUS
<1>1. CASE Tick
    BY <1>1, SampleKeeps, LoadArmedKeeps, LoadReasonKeeps, PressedKeeps, ClearKeeps, SetGaugeKeeps
       DEF Tick
<1>2. ASSUME NEW o \in Operator, AdminArm(o) \/ AdminDisarm(o) \/ OperatorGauge(o)
      PROVE  GuardInv'
    BY <1>2, SwapKeeps, OperatorGaugeKeeps DEF AdminArm, AdminDisarm
<1>3. ASSUME NEW w \in Writer, Admit(w) \/ Send(w) \/ Block(w) \/ SendBlocked(w)
      PROVE  GuardInv'
    BY <1>3, OthersKeep DEF Admit, Send, Block, SendBlocked, roHistVars
<1>4. CASE Consume \/ CalmDown
    BY <1>4, OthersKeep DEF Consume, CalmDown, roHistVars
<1>5. CASE UNCHANGED roVars
    BY <1>5, OthersKeep DEF roVars, roHistVars
<1> QED
    BY <1>1, <1>2, <1>3, <1>4, <1>5 DEF GuardNext

-----------------------------------------------------------------------------
\* A mode armed by hand stays armed by hand and the gauge tells the truth, in
\* every behaviour of the guard's loop, the admin routes and the writers,
\* unless a call fell inside a tick.
THEOREM OperatorIsObeyed == GuardBehaviour => []OperatorObeyed
<1>1. GuardInv => OperatorObeyed
    BY DEF GuardInv, ObeyInv, GaugeFollows, Open, OperatorObeyed
<1> QED
    BY GuardStarts, GuardStep, <1>1, PTL DEF GuardBehaviour

\* The guard never clears the mode before DISARM_TICKS clear samples in a row
\* and min_arm_duration, unless a call fell inside the tick.
THEOREM GuardNeverFlaps == GuardBehaviour => FloorHeld
<1> DEFINE Clears == roPc = "decide" /\ roPc' = "gauge_down" /\ ~roCrossed
           Earned == roClear >= DisarmTicks /\ roSince >= MinArmTicks
<1>1. GuardInv /\ [GuardNext]_roVars => [Clears => Earned]_roVars
  <2> SUFFICES ASSUME GuardInv, GuardNext, Clears PROVE Earned
      OBVIOUS
  <2>1. DecideClear /\ MayDisarm
      BY DEF GuardNext, Tick, Sample, LoadArmed, LoadReason, DecidePressed, DecideClear, SetGauge,
          ArmNow, Rest, TickEnds, AdminArm, AdminDisarm, OperatorSwap, OperatorGauge, Admit, Send,
          Block, SendBlocked, Consume, CalmDown, roGuardVars
  <2>2. roNew = "none" /\ roUnder + 1 >= DisarmTicks /\ roMode \notin {"none", "manual"}
      BY <2>1 DEF DecideClear, MayDisarm, GuardInv, GuardTypes, ObeyInv, LoadsCurrent, Armed
  <2>3. roClear >= DisarmTicks
      BY <2>2, GuardAssumption DEF GuardInv, GuardTypes, ClocksBehind
  <2>4. roSince >= MinArmTicks
      BY <2>1, <2>2, GuardAssumption DEF GuardInv, GuardTypes, ClocksBehind, MayDisarm,
          MinDurationElapsed, NotArmed
  <2> QED
      BY <2>3, <2>4
<1> QED
    BY GuardStarts, GuardStep, <1>1, PTL DEF GuardBehaviour, FloorHeld

-----------------------------------------------------------------------------
(* The tables: what a fold over ids does to them.                          *)

DepTables == [PBlock -> SUBSET PBlock]
Flights == [PBlock -> {"none", "fresh", "old"}]

\* g is a table of what awaiting the subsets of P adds to deps.
AwaitTable(deps, P, child, g) ==
    g = [s \in SUBSET P |-> IF s = {} THEN deps ELSE AwaitOne(g[s \ {Pick(s)}], Pick(s), child)]

LEMMA AwaitUnfold ==
    ASSUME NEW deps, NEW P, NEW child
    PROVE  Await(deps, P, child) = (CHOOSE g : AwaitTable(deps, P, child, g))[P]
BY DEF Await, FoldSet, MapThenFoldSet, AwaitTable, Pick

\* To wait for parents only adds to the table, whatever its room.
LEMMA AwaitGrows ==
    ASSUME NEW deps \in DepTables, NEW P \in SUBSET PBlock, NEW child \in PBlock
    PROVE  /\ Await(deps, P, child) \in DepTables
           /\ \A p \in PBlock : deps[p] \subseteq Await(deps, P, child)[p]
<1> DEFINE F == [x \in P \X DepTables |-> AwaitOne(x[2], x[1], child)]
<1>0. IsFiniteSet(P)
  BY PeerAssumption, FS_Subset
<1>1. ASSUME NEW d \in DepTables, NEW p \in PBlock
      PROVE  /\ AwaitOne(d, p, child) \in DepTables
             /\ \A q \in PBlock : d[q] \subseteq AwaitOne(d, p, child)[q]
  BY DEF AwaitOne, DepTables
<1>2. F \in [P \X DepTables -> DepTables]
  BY <1>1
<1>3. \A p \in P, d \in DepTables : F[<<p, d>>] = AwaitOne(d, p, child)
  OBVIOUS
<1>4. \A s \in SUBSET P : s # {} => Pick(s) \in P /\ Pick(s) \in s /\ s \ {Pick(s)} \in SUBSET P
  BY DEF Pick
<1> HIDE DEF F
<1>5. PICK h \in [SUBSET P -> DepTables] : FoldTable(F, deps, P, h)
  BY <1>0, <1>2, FoldExists
<1>6. AwaitTable(deps, P, child, h)
  <2>1. \A s \in SUBSET P : h[s] = IF s = {} THEN deps ELSE F[<<Pick(s), h[s \ {Pick(s)}]>>]
    BY <1>5 DEF FoldTable
  <2>2. \A s \in SUBSET P : h[s] = IF s = {} THEN deps ELSE AwaitOne(h[s \ {Pick(s)}], Pick(s), child)
    BY <1>3, <1>4, <2>1
  <2>3. h = [s \in SUBSET P |-> h[s]]
    OBVIOUS
  <2>4. h = [s \in SUBSET P |-> IF s = {} THEN deps ELSE AwaitOne(h[s \ {Pick(s)}], Pick(s), child)]
    BY <2>2, <2>3
  <2> QED BY <2>4 DEF AwaitTable
<1> DEFINE g == CHOOSE k : AwaitTable(deps, P, child, k)
<1>7. AwaitTable(deps, P, child, g)
  BY <1>6
<1>8. Await(deps, P, child) = g[P]
  BY AwaitUnfold
<1> HIDE DEF g
<1>9. \A s \in SUBSET P : g[s] = IF s = {} THEN deps ELSE AwaitOne(g[s \ {Pick(s)}], Pick(s), child)
  BY <1>7 DEF AwaitTable
<1> DEFINE Same == {s \in SUBSET P : g[s] \in DepTables /\ \A p \in PBlock : deps[p] \subseteq g[s][p]}
<1>10. {} \in Same
  BY <1>9
<1>11. ASSUME NEW s \in SUBSET P, s # {}, \A x \in s : s \ {x} \in Same PROVE s \in Same
  <2> DEFINE d == g[s \ {Pick(s)}]
  <2>1. d \in DepTables /\ \A p \in PBlock : deps[p] \subseteq d[p]
    BY <1>4, <1>11
  <2>2. g[s] = AwaitOne(d, Pick(s), child) /\ Pick(s) \in PBlock
    BY <1>4, <1>9, <1>11
  <2> HIDE DEF d
  <2>3. g[s] \in DepTables /\ \A p \in PBlock : d[p] \subseteq g[s][p]
    BY <1>1, <2>1, <2>2
  <2> QED BY <2>1, <2>3
<1> HIDE DEF Same
<1>12. \A s \in SUBSET P : s \in Same
  BY <1>0, <1>10, <1>11, SubsetInduction
<1> QED BY <1>8, <1>12 DEF Same

\* g is a table of what requesting the subsets of P adds to the flights.
RequestTable(flight, P, again, g) ==
    g = [s \in SUBSET P |-> IF s = {} THEN flight ELSE RequestOne(g[s \ {Pick(s)}], Pick(s), again)]

LEMMA RequestUnfold ==
    ASSUME NEW flight, NEW P, NEW again
    PROVE  RequestAll(flight, P, again) = (CHOOSE g : RequestTable(flight, P, again, g))[P]
BY DEF RequestAll, FoldSet, MapThenFoldSet, RequestTable, Pick

\* Requests keep the table of requests in flight well formed.
LEMMA RequestType ==
    ASSUME NEW flight \in Flights, NEW P \in SUBSET PBlock, NEW again \in BOOLEAN
    PROVE  RequestAll(flight, P, again) \in Flights
<1> DEFINE F == [x \in P \X Flights |-> RequestOne(x[2], x[1], again)]
<1>0. IsFiniteSet(P)
  BY PeerAssumption, FS_Subset
<1>1. ASSUME NEW f \in Flights, NEW p \in PBlock
      PROVE  RequestOne(f, p, again) \in Flights
  BY DEF RequestOne, Flights
<1>2. F \in [P \X Flights -> Flights]
  BY <1>1
<1>3. \A p \in P, f \in Flights : F[<<p, f>>] = RequestOne(f, p, again)
  OBVIOUS
<1>4. \A s \in SUBSET P : s # {} => Pick(s) \in P /\ Pick(s) \in s /\ s \ {Pick(s)} \in SUBSET P
  BY DEF Pick
<1> HIDE DEF F
<1>5. PICK h \in [SUBSET P -> Flights] : FoldTable(F, flight, P, h)
  BY <1>0, <1>2, FoldExists
<1>6. RequestTable(flight, P, again, h)
  <2>1. \A s \in SUBSET P : h[s] = IF s = {} THEN flight ELSE F[<<Pick(s), h[s \ {Pick(s)}]>>]
    BY <1>5 DEF FoldTable
  <2>2. \A s \in SUBSET P : h[s] = IF s = {} THEN flight ELSE RequestOne(h[s \ {Pick(s)}], Pick(s), again)
    BY <1>3, <1>4, <2>1
  <2>3. h = [s \in SUBSET P |-> h[s]]
    OBVIOUS
  <2>4. h = [s \in SUBSET P |-> IF s = {} THEN flight ELSE RequestOne(h[s \ {Pick(s)}], Pick(s), again)]
    BY <2>2, <2>3
  <2> QED BY <2>4 DEF RequestTable
<1> DEFINE g == CHOOSE k : RequestTable(flight, P, again, k)
<1>7. RequestTable(flight, P, again, g)
  BY <1>6
<1>8. RequestAll(flight, P, again) = g[P]
  BY RequestUnfold
<1> HIDE DEF g
<1>9. \A s \in SUBSET P : g[s] = IF s = {} THEN flight ELSE RequestOne(g[s \ {Pick(s)}], Pick(s), again)
  BY <1>7 DEF RequestTable
<1> DEFINE Same == {s \in SUBSET P : g[s] \in Flights}
<1>10. {} \in Same
  BY <1>9
<1>11. ASSUME NEW s \in SUBSET P, s # {}, \A x \in s : s \ {x} \in Same PROVE s \in Same
  <2>1. g[s \ {Pick(s)}] \in Flights /\ Pick(s) \in PBlock
    BY <1>4, <1>11
  <2>2. g[s] = RequestOne(g[s \ {Pick(s)}], Pick(s), again)
    BY <1>9, <1>11
  <2> QED BY <1>1, <2>1, <2>2
<1> HIDE DEF Same
<1>12. \A s \in SUBSET P : s \in Same
  BY <1>0, <1>10, <1>11, SubsetInduction
<1> QED BY <1>8, <1>12 DEF Same
-----------------------------------------------------------------------------
(* Types.                                                                  *)

TaskTypes ==
    pnTask \in [Link -> [step : {"idle", "next", "place", "release"}, todo : SUBSET PBlock,
                         block : SUBSET PBlock, missing : SUBSET PBlock]]

PnTypes == PeerTypeOK /\ TaskTypes

Queues == [Link -> Seq(Message)]

LEMMA MessageTypes ==
    /\ \A S \in SUBSET PBlock, t \in {"GetBlocks", "Inv", "Tips", "Blocks"} : Msg(t, S) \in Message
    /\ \A S \in SUBSET PBlock : Get(S) \in Message
    /\ {Hello, BadHello, GetTips} \subseteq Message
BY DEF Message, Msg, Get, Hello, BadHello, GetTips

Sendable(m) == m \in Message /\ m.type \in {"GetTips", "GetBlocks", "Inv", "Tips"}

LEMMA ReplyType ==
    ASSUME pnRemote \subseteq PBlock, NEW m, Sendable(m)
    PROVE  Reply(m) \in Message
<1>1. m.ids \subseteq PBlock /\ Tips(pnRemote) \subseteq PBlock
  BY DEF Sendable, Message, Tips
<1>2. CASE m.type = "GetTips"
  BY <1>1, <1>2, MessageTypes DEF Reply
<1>3. CASE m.type = "GetBlocks"
  BY <1>1, <1>3, MessageTypes DEF Reply
<1>4. CASE m.type \in {"Inv", "Tips"}
  <2>1. Reply(m) = Get(m.ids \ pnRemote)
    BY <1>4 DEF Reply
  <2> QED BY <1>1, <2>1, MessageTypes
<1> QED BY <1>2, <1>3, <1>4 DEF Sendable

LEMMA PostType ==
    ASSUME NEW q \in Seq(Message), NEW m \in Message
    PROVE  Post(q, m) \in Seq(Message)
BY DEF Post

LEMMA UnicastType ==
    ASSUME pnRemote \subseteq PBlock, NEW in \in Queues, NEW c \in Link, NEW m, Sendable(m)
    PROVE  Unicast(in, c, m) \in Queues
<1>1. Post(in[c], Reply(m)) \in Seq(Message)
  BY ReplyType, PostType DEF Queues
<1> QED BY <1>1 DEF Unicast, Queues

LEMMA BroadcastType ==
    ASSUME pnRemote \subseteq PBlock, NEW in \in Queues, NEW cs, NEW m, Sendable(m)
    PROVE  Broadcast(in, cs, m) \in Queues
<1>1. \A c \in Link : Post(in[c], Reply(m)) \in Seq(Message)
  BY ReplyType, PostType DEF Queues
<1> QED BY <1>1 DEF Broadcast, Queues

LEMMA SendableTypes ==
    /\ \A S \in SUBSET PBlock : Sendable(Get(S)) /\ Sendable(Msg("Inv", S)) /\ Sendable(Msg("Tips", S))
    /\ Sendable(GetTips)
BY MessageTypes DEF Sendable, Get, GetTips, Msg

\* What is read is a message, and what stays is a queue.
LEMMA ReadTypes ==
    ASSUME PeerTypeOK, NEW c \in Link, NEW T, Reading(c, T)
    PROVE  /\ Head(pnIn[c]) \in Message /\ Head(pnIn[c]).ids \subseteq PBlock
           /\ Unread(c) \in Queues
<1>1. pnIn[c] \in Seq(Message) /\ pnIn[c] # <<>> /\ pnIn \in Queues
  BY DEF PeerTypeOK, Reading, Queues
<1>2. Head(pnIn[c]) \in Message /\ Tail(pnIn[c]) \in Seq(Message)
  BY <1>1
<1> QED BY <1>1, <1>2 DEF Message, Unread, Queues

LEMMA ResumeType ==
    ASSUME NEW T \in SUBSET PBlock
    PROVE  Resume(T) \in [step : {"idle", "next", "place", "release"}, todo : SUBSET PBlock,
                          block : SUBSET PBlock, missing : SUBSET PBlock]
           /\ Resume(T).step \in {"idle", "next"}
BY DEF Resume, NoTask

LEMMA PnTypesInit == PeerInit => PnTypes
<1> SUFFICES ASSUME PeerInit PROVE PnTypes
  OBVIOUS
<1>1. \A c \in Link : pnIn[c] = <<>>
  BY DEF PeerInit
<1>2. pnIn \in [Link -> Seq(Message)]
  BY <1>1 DEF PeerInit
<1>3. PeerTypeOK
  BY <1>2 DEF PeerInit, PeerTypeOK
<1>4. TaskTypes
  BY DEF PeerInit, TaskTypes, NoTask
<1> QED BY <1>3, <1>4 DEF PnTypes

LEMMA PnTypesStep == PnTypes /\ [PeerNext]_<<pnVars, pnOdds>> => PnTypes'
<1> SUFFICES ASSUME PnTypes, [PeerNext]_<<pnVars, pnOdds>> PROVE PnTypes'
  OBVIOUS
<1> USE DEF pnVars, tables, wires
<1>0. /\ pnHave \subseteq PBlock /\ pnOrphans \subseteq PBlock /\ pnStray \subseteq PBlock
      /\ pnBuffer \subseteq PBlock /\ pnRemote \subseteq PBlock
      /\ pnDeps \in DepTables /\ pnFlight \in Flights /\ pnIn \in Queues
      /\ pnLink \in [Link -> {"closed", "greeting", "shaken"}]
      /\ TaskTypes
  BY DEF PnTypes, PeerTypeOK, DepTables, Flights, Queues
<1>A. ASSUME pnHave' \subseteq PBlock, pnOrphans' \subseteq PBlock, pnStray' \subseteq PBlock,
             pnBuffer' \subseteq PBlock, pnRemote' \subseteq PBlock, pnDeps' \in DepTables,
             pnFlight' \in Flights, pnIn' \in Queues,
             pnLink' \in [Link -> {"closed", "greeting", "shaken"}], TaskTypes'
      PROVE  PnTypes'
  BY <1>A DEF PnTypes, PeerTypeOK, DepTables, Flights, Queues
<1>B. pnTask' = pnTask => TaskTypes'
  BY <1>0 DEF TaskTypes
<1>C. PeerTypeOK
  BY DEF PnTypes
<1>1. ASSUME NEW c \in Link, OpenLink(c) PROVE PnTypes'
  <2>1. <<Hello, GetTips>> \in Seq(Message) /\ <<BadHello>> \in Seq(Message)
    BY MessageTypes
  <2>2. pnIn' \in Queues
    BY <1>0, <1>1, <2>1 DEF OpenLink, Queues
  <2> QED BY <1>0, <1>1, <1>A, <1>B, <2>2 DEF OpenLink
<1>2. ASSUME NEW c \in Link, CloseLink(c)
      PROVE  pnIn' \in Queues /\ pnLink' \in [Link -> {"closed", "greeting", "shaken"}]
  <2>1. <<>> \in Seq(Message)
    OBVIOUS
  <2> QED BY <1>0, <1>2, <2>1 DEF CloseLink, Queues
<1>3. ASSUME NEW c \in Link, BreakLink(c) PROVE PnTypes'
  BY <1>0, <1>2, <1>3, <1>A, <1>B DEF BreakLink
<1>4. ASSUME NEW c \in Link, Greet(c) PROVE PnTypes'
  <2>1. CASE Reading(c, {"Hello"}) /\ pnLink' = [pnLink EXCEPT ![c] = "shaken"]
             /\ pnIn' = Unicast(Unread(c), c, GetTips)
    <3>1. Unread(c) \in Queues
      BY <1>C, <2>1, ReadTypes
    <3>2. pnIn' \in Queues
      BY <1>0, <2>1, <3>1, UnicastType, SendableTypes
    <3> QED BY <1>0, <1>4, <1>A, <1>B, <2>1, <3>2 DEF Greet
  <2>2. CASE CloseLink(c)
    BY <1>0, <1>2, <1>4, <1>A, <1>B, <2>2 DEF Greet
  <2> QED BY <1>4, <2>1, <2>2 DEF Greet
<1>5. ASSUME NEW c \in Link, OnAnnounced(c) PROVE PnTypes'
  <2> DEFINE ids == Unknown(Head(pnIn[c]).ids)
             flight == RequestAll(pnFlight, ids, FALSE)
  <2>1. Head(pnIn[c]).ids \subseteq PBlock /\ Unread(c) \in Queues
    BY <1>5, <1>C, ReadTypes DEF OnAnnounced
  <2>2. ids \subseteq PBlock
    BY <2>1 DEF Unknown
  <2>3. flight \in Flights
    <3> HIDE DEF ids
    <3> QED BY <1>0, <2>2, RequestType
  <2>4. Requested(flight, ids) \in SUBSET PBlock
    BY <2>2 DEF Requested
  <2>5. pnFlight' = flight /\ pnIn' = Unicast(Unread(c), c, Get(Requested(flight, ids)))
    BY <1>5 DEF OnAnnounced
  <2> HIDE DEF ids, flight
  <2>6. Sendable(Get(Requested(flight, ids)))
    BY <2>4, SendableTypes
  <2>7. pnIn' \in Queues
    BY <1>0, <2>1, <2>5, <2>6, UnicastType
  <2> QED BY <1>0, <1>5, <1>A, <1>B, <2>3, <2>5, <2>7 DEF OnAnnounced
<1>6. ASSUME NEW c \in Link, OnAsked(c) PROVE PnTypes'
  <2>1. Unread(c) \in Queues
    BY <1>6, <1>C, ReadTypes DEF OnAsked
  <2>2. Sendable(Msg("Tips", Tips(pnHave)))
    BY <1>0, SendableTypes DEF Tips
  <2>3. Unicast(Unread(c), c, Msg("Tips", Tips(pnHave))) \in Queues
    BY <1>0, <2>1, <2>2, UnicastType
  <2>4. pnIn' \in Queues /\ pnRemote' \subseteq PBlock
    BY <1>0, <1>6, <2>1, <2>3 DEF OnAsked
  <2> QED BY <1>0, <1>6, <1>A, <1>B, <2>4 DEF OnAsked
<1>7. ASSUME NEW c \in Link, OnBlocks(c) PROVE PnTypes'
  <2>1. Head(pnIn[c]).ids \subseteq PBlock /\ Unread(c) \in Queues
    BY <1>7, <1>C, ReadTypes DEF OnBlocks
  <2>2. TaskTypes'
    BY <1>0, <1>7, <2>1 DEF OnBlocks, TaskTypes
  <2> QED BY <1>0, <1>7, <1>A, <2>1, <2>2 DEF OnBlocks
<1>8. ASSUME NEW c \in Link, NEW unread, LookUp(c, unread) PROVE PnTypes'
  <2>1. PICK b \in pnTask[c].todo :
          LET rest == pnTask[c].todo \ {b}
              missing == Parents[b] \ (pnHave \ unread)
          IN /\ pnFlight' = [pnFlight EXCEPT ![b] = "none"]
             /\ IF b \in pnHave \ unread
                THEN /\ pnTask' = [pnTask EXCEPT ![c] = Resume(rest)]
                     /\ UNCHANGED <<pnDeps, pnStray>>
                ELSE /\ pnTask' = [pnTask EXCEPT ![c] =
                                      [step |-> "place", todo |-> rest, block |-> {b},
                                       missing |-> missing]]
                     /\ pnDeps' = Await(pnDeps, missing, b)
                     /\ pnStray' = IF \A p \in missing : b \in pnDeps'[p]
                                   THEN pnStray ELSE pnStray \cup {b}
    BY <1>8 DEF LookUp
  <2> DEFINE rest == pnTask[c].todo \ {b}
             missing == Parents[b] \ (pnHave \ unread)
  <2>2. b \in PBlock /\ rest \in SUBSET PBlock /\ missing \in SUBSET PBlock
    BY <1>0, PeerAssumption DEF TaskTypes
  <2>3. pnFlight' \in Flights
    BY <1>0, <2>1, <2>2 DEF Flights
  <2>4. CASE b \in pnHave \ unread
    <3>1. pnTask' = [pnTask EXCEPT ![c] = Resume(rest)] /\ UNCHANGED <<pnDeps, pnStray>>
      BY <2>1, <2>4
    <3>2. TaskTypes'
      <4> HIDE DEF rest
      <4> QED BY <1>0, <2>2, <3>1, ResumeType DEF TaskTypes
    <3> QED BY <1>0, <1>8, <1>A, <2>3, <3>1, <3>2 DEF LookUp
  <2>5. CASE b \notin pnHave \ unread
    <3>1. /\ pnTask' = [pnTask EXCEPT ![c] = [step |-> "place", todo |-> rest, block |-> {b},
                                              missing |-> missing]]
          /\ pnDeps' = Await(pnDeps, missing, b) /\ pnStray' \subseteq pnStray \cup {b}
      BY <2>1, <2>5
    <3> HIDE DEF rest, missing
    <3>2. TaskTypes'
      BY <1>0, <2>2, <3>1 DEF TaskTypes
    <3>3. pnDeps' \in DepTables
      BY <1>0, <2>2, <3>1, AwaitGrows
    <3>4. pnStray' \subseteq PBlock
      BY <1>0, <2>2, <3>1
    <3> QED BY <1>0, <1>8, <1>A, <2>3, <3>2, <3>3, <3>4 DEF LookUp
  <2> QED BY <2>4, <2>5
<1>9. ASSUME NEW c \in Link, Orphan(c) PROVE PnTypes'
  <2>1. pnTask[c].missing \subseteq PBlock /\ pnTask[c].todo \in SUBSET PBlock
        /\ pnTask[c].block \subseteq PBlock
    BY <1>0 DEF TaskTypes
  <2>2. TaskTypes'
    BY <1>0, <1>9, <2>1, ResumeType DEF TaskTypes, Orphan
  <2>3. PICK b \in pnTask[c].block :
          IF Cardinality(pnOrphans) >= MaxOrphans
          THEN UNCHANGED <<pnOrphans, pnStray, pnFlight, pnIn>>
          ELSE LET ids == pnTask[c].missing \ pnOrphans
                   flight == RequestAll(pnFlight, ids, TRUE)
               IN /\ pnOrphans' = pnOrphans \cup {b}
                  /\ pnStray' = IF Parents[b] \subseteq pnHave THEN pnStray \cup {b} ELSE pnStray
                  /\ pnFlight' = flight
                  /\ pnIn' = Unicast(pnIn, c, Get(Requested(flight, ids)))
    BY <1>9 DEF Orphan
  <2>4. CASE UNCHANGED <<pnOrphans, pnStray, pnFlight, pnIn>>
    BY <1>0, <1>9, <1>A, <2>2, <2>4 DEF Orphan
  <2>5. CASE ~(Cardinality(pnOrphans) >= MaxOrphans)
    <3> DEFINE ids == pnTask[c].missing \ pnOrphans
               flight == RequestAll(pnFlight, ids, TRUE)
    <3>1. /\ pnOrphans' = pnOrphans \cup {b} /\ pnStray' \subseteq pnStray \cup {b}
          /\ pnFlight' = flight /\ pnIn' = Unicast(pnIn, c, Get(Requested(flight, ids)))
      BY <2>3, <2>5
    <3>2. ids \subseteq PBlock
      BY <2>1
    <3>3. flight \in Flights
      <4> HIDE DEF ids
      <4> QED BY <1>0, <3>2, RequestType
    <3>4. Requested(flight, ids) \in SUBSET PBlock
      BY <3>2 DEF Requested
    <3> HIDE DEF ids, flight
    <3>5. Sendable(Get(Requested(flight, ids)))
      BY <3>4, SendableTypes
    <3>6. pnIn' \in Queues
      BY <1>0, <3>1, <3>5, UnicastType
    <3>7. pnOrphans' \subseteq PBlock /\ pnStray' \subseteq PBlock
      BY <1>0, <2>1, <2>3, <3>1
    <3> QED BY <1>0, <1>9, <1>A, <2>2, <3>1, <3>3, <3>6, <3>7 DEF Orphan
  <2> QED BY <2>3, <2>4, <2>5
<1>10. ASSUME NEW c \in Link, PersistIncoming(c) PROVE PnTypes'
  <2>1. PICK b \in pnTask[c].block \ pnRefused :
          /\ pnHave' = pnHave \cup {b}
          /\ pnIn' = IF b \in pnHave THEN pnIn
                     ELSE Broadcast(pnIn, Link \ {c}, Msg("Inv", {b}))
    BY <1>10 DEF PersistIncoming
  <2>2. b \in PBlock
    BY <1>0 DEF TaskTypes
  <2>3. Sendable(Msg("Inv", {b}))
    BY <2>2, SendableTypes
  <2>4. Broadcast(pnIn, Link \ {c}, Msg("Inv", {b})) \in Queues
    BY <1>0, <2>3, BroadcastType
  <2>5. pnIn' \in Queues
    BY <1>0, <2>1, <2>4
  <2>6. TaskTypes'
    BY <1>0, <1>10 DEF TaskTypes, PersistIncoming
  <2> QED BY <1>0, <1>10, <1>A, <2>1, <2>2, <2>5, <2>6 DEF PersistIncoming
<1>11. ASSUME NEW c \in Link, RejectIncoming(c) PROVE PnTypes'
  <2>1. pnTask[c].todo \in SUBSET PBlock
    BY <1>0 DEF TaskTypes
  <2>2. TaskTypes'
    BY <1>0, <1>11, <2>1, ResumeType DEF TaskTypes, RejectIncoming
  <2> QED BY <1>0, <1>11, <1>A, <2>2 DEF RejectIncoming
<1>20. ASSUME NEW c \in Link, MissIncoming(c) PROVE PnTypes'
  <2>1. pnTask[c].todo \in SUBSET PBlock /\ pnTask[c].block \subseteq PBlock
    BY <1>0 DEF TaskTypes
  <2>2. TaskTypes'
    BY <1>0, <1>20, <2>1, ResumeType DEF TaskTypes, MissIncoming
  <2>3. PICK b \in pnTask[c].block : \E p \in Parents[b] :
          /\ \/ /\ pnOrphans' = pnOrphans \cup {b} /\ pnStray' = pnStray \cup {b}
                /\ pnDeps' = AwaitOne(pnDeps, p, b)
             \/ UNCHANGED <<pnOrphans, pnDeps, pnStray>>
          /\ pnFlight' = RequestOne(pnFlight, p, TRUE)
          /\ pnIn' = Unicast(pnIn, c, Get(Requested(RequestOne(pnFlight, p, TRUE), {p})))
    BY <1>20 DEF MissIncoming
  <2>0. PICK p \in Parents[b] :
          /\ \/ /\ pnOrphans' = pnOrphans \cup {b} /\ pnStray' = pnStray \cup {b}
                /\ pnDeps' = AwaitOne(pnDeps, p, b)
             \/ UNCHANGED <<pnOrphans, pnDeps, pnStray>>
          /\ pnFlight' = RequestOne(pnFlight, p, TRUE)
          /\ pnIn' = Unicast(pnIn, c, Get(Requested(RequestOne(pnFlight, p, TRUE), {p})))
    BY <2>3
  <2>4. b \in PBlock /\ p \in PBlock
    BY <2>1, PeerAssumption
  <2>5. pnOrphans' \subseteq PBlock /\ pnStray' \subseteq PBlock
    BY <1>0, <2>0, <2>4
  <2>6. pnDeps' \in DepTables
    BY <1>0, <2>0, <2>4 DEF AwaitOne, DepTables
  <2>7. pnFlight' \in Flights
    BY <1>0, <2>0, <2>4 DEF RequestOne, Flights
  <2>8. Requested(RequestOne(pnFlight, p, TRUE), {p}) \in SUBSET PBlock
    BY <2>4 DEF Requested
  <2>9. Sendable(Get(Requested(RequestOne(pnFlight, p, TRUE), {p})))
    BY <2>8, SendableTypes
  <2>10. pnIn' \in Queues
    BY <1>0, <2>0, <2>9, UnicastType
  <2> QED BY <1>0, <1>20, <1>A, <2>2, <2>5, <2>6, <2>7, <2>10 DEF MissIncoming
<1>21. ASSUME NEW c \in Link, FailIncoming(c) PROVE PnTypes'
  <2>1. pnTask[c].todo \in SUBSET PBlock
    BY <1>0 DEF TaskTypes
  <2>2. TaskTypes'
    BY <1>0, <1>21, <2>1, ResumeType DEF TaskTypes, FailIncoming
  <2> QED BY <1>0, <1>21, <1>A, <2>2 DEF FailIncoming
<1>12. ASSUME NEW c \in Link, Release(c) PROVE PnTypes'
  <2>1. PICK b \in pnTask[c].block :
          LET children == pnDeps[b] \cap pnOrphans
          IN /\ pnDeps' = [pnDeps EXCEPT ![b] = {}]
             /\ pnOrphans' = pnOrphans \ children
             /\ pnTask' = [pnTask EXCEPT ![c] = Resume(@.todo \cup children)]
             /\ pnStray' = pnStray \ (children \ Placing)
    BY <1>12 DEF Release
  <2>2. b \in PBlock /\ pnTask[c].todo \cup (pnDeps[b] \cap pnOrphans) \in SUBSET PBlock
    BY <1>0 DEF TaskTypes
  <2>3. TaskTypes'
    BY <1>0, <2>1, <2>2, ResumeType DEF TaskTypes
  <2>4. pnDeps' \in DepTables
    BY <1>0, <2>1 DEF DepTables
  <2> QED BY <1>0, <1>12, <1>A, <2>1, <2>3, <2>4 DEF Release
<1>13. ASSUME NEW b \in PBlock, Submit(b) PROVE PnTypes'
  BY <1>0, <1>13, <1>A, <1>B DEF Submit
<1>14. ASSUME NEW b \in PBlock, RemoteInsert(b) PROVE PnTypes'
  <2>1. Msg("Inv", {b}) \in Message
    BY MessageTypes
  <2>2. \A c \in Link : Post(pnIn[c], Msg("Inv", {b})) \in Seq(Message)
    BY <1>0, <2>1, PostType DEF Queues
  <2>3. pnIn' \in Queues
    BY <1>0, <1>14, <2>2 DEF RemoteInsert, Queues
  <2> QED BY <1>0, <1>14, <1>A, <1>B, <2>3 DEF RemoteInsert
<1>15. ASSUME NEW b \in PBlock, Age(b) PROVE PnTypes'
  <2>1. pnFlight' \in Flights
    BY <1>0, <1>15 DEF Age, Flights
  <2> QED BY <1>0, <1>15, <1>A, <1>B, <2>1 DEF Age
<1>16. CASE FlushBroadcastBuffer
  <2>1. Sendable(Msg("Inv", pnBuffer))
    BY <1>0, SendableTypes
  <2>2. Broadcast(pnIn, Link, Msg("Inv", pnBuffer)) \in Queues
    BY <1>0, <2>1, BroadcastType
  <2> QED BY <1>0, <1>16, <1>A, <1>B, <2>2 DEF FlushBroadcastBuffer
<1>17. CASE RefetchParents
  <2>1. PICK ids \in SUBSET PBlock :
          /\ pnFlight' = [b \in PBlock |-> IF b \in ids THEN "fresh" ELSE pnFlight[b]]
          /\ pnIn' = Broadcast(Broadcast(pnIn, Link, Get(ids)), Link, GetTips)
    <3>1. PICK recent : /\ pnFlight' = [b \in PBlock |-> IF b \in Keys(pnDeps) \ recent
                                                         THEN "fresh" ELSE pnFlight[b]]
                        /\ pnIn' = Broadcast(Broadcast(pnIn, Link, Get(Keys(pnDeps) \ recent)), Link, GetTips)
      BY <1>17 DEF RefetchParents
    <3>2. Keys(pnDeps) \ recent \in SUBSET PBlock
      BY DEF Keys
    <3> QED BY <3>1, <3>2
  <2>2. Broadcast(pnIn, Link, Get(ids)) \in Queues
    <3>1. Sendable(Get(ids))
      BY SendableTypes
    <3> QED BY <1>0, <3>1, BroadcastType
  <2>3. pnIn' \in Queues
    BY <1>0, <2>1, <2>2, BroadcastType, SendableTypes
  <2>4. pnFlight' \in Flights
    BY <1>0, <2>1 DEF Flights
  <2> QED BY <1>0, <1>17, <1>A, <1>B, <2>3, <2>4 DEF RefetchParents
<1>18. CASE TriggerSync
  <2>1. pnFlight' \in Flights
    BY <1>0, <1>18 DEF TriggerSync, Flights
  <2>2. pnIn' \in Queues
    BY <1>0, <1>18, BroadcastType, SendableTypes DEF TriggerSync
  <2> QED BY <1>0, <1>18, <1>A, <1>B, <2>1, <2>2 DEF TriggerSync
<1>19. CASE UNCHANGED <<pnVars, pnOdds>>
  BY <1>0, <1>19, <1>A, <1>B
<1> QED BY <1>1, <1>3, <1>4, <1>5, <1>6, <1>7, <1>8, <1>9, <1>10, <1>11, <1>12, <1>13, <1>14, <1>15,
           <1>16, <1>17, <1>18, <1>19, <1>20, <1>21
       DEF PeerNext, AcceptLink, DialLink, ReaderStep, Look, LookUnread, StorageFails

-----------------------------------------------------------------------------
(* The orphans.                                                            *)

\* A block that is being placed has all its missing parents in hand; one that is
\* being released is known.
HandInv ==
    \A c \in Link :
        /\ pnTask[c].step = "place" => /\ \E b \in PBlock : pnTask[c].block = {b}
                                       /\ \A b \in pnTask[c].block : Parents[b] \ pnHave \subseteq pnTask[c].missing
        /\ pnTask[c].step = "release" => /\ \E b \in PBlock : pnTask[c].block = {b}
                                         /\ pnTask[c].block \subseteq pnHave

\* What is not stray waits for each of its missing parents, as an orphan and
\* already before it is one.
WaitInv ==
    \A b \in (pnOrphans \cup Placing) \ pnStray : \A p \in Parents[b] \ pnHave : b \in pnDeps[p]

OrphanInv == PnTypes /\ HandInv /\ WaitInv /\ OrphansReleased

LEMMA OrphanInit == PeerInit => OrphanInv
<1> SUFFICES ASSUME PeerInit PROVE OrphanInv
  OBVIOUS
<1>1. \A c \in Link : pnTask[c] = NoTask
  BY DEF PeerInit
<1>2. \A c \in Link : pnTask[c].step = "idle"
  BY <1>1 DEF NoTask
<1>3. HandInv
  BY <1>2 DEF HandInv
<1>4. pnOrphans = {} /\ Placing = {}
  BY <1>2 DEF PeerInit, Placing
<1>5. WaitInv /\ OrphansReleased
  BY <1>4 DEF WaitInv, OrphansReleased
<1> QED BY <1>3, <1>5, PnTypesInit DEF OrphanInv

\* Fewer orphans, more known blocks and longer waits, with every reader where it was.
LEMMA OrphansKept ==
    ASSUME OrphanInv, pnOrphans' \subseteq pnOrphans, pnHave' = pnHave, pnStray \subseteq pnStray',
           pnDeps' = pnDeps,
           \A c \in Link : /\ pnTask'[c].step = "place" => pnTask'[c] = pnTask[c]
                           /\ pnTask[c].step = "release" <=> pnTask'[c].step = "release"
                           /\ pnTask[c].step = "release" => pnTask'[c] = pnTask[c]
    PROVE  HandInv' /\ WaitInv' /\ OrphansReleased'
<1>1. HandInv'
  BY DEF OrphanInv, HandInv
<1>2. Placing' \subseteq Placing
  BY DEF Placing
<1>3. WaitInv'
  BY <1>2 DEF OrphanInv, WaitInv
<1>4. OrphansReleased'
  BY DEF OrphanInv, OrphansReleased
<1> QED BY <1>1, <1>3, <1>4

\* The next block is looked up.
LEMMA LookOrphans ==
    ASSUME OrphanInv, NEW c \in Link, NEW unread, LookUp(c, unread)
    PROVE  HandInv' /\ WaitInv' /\ OrphansReleased'
<1>0. TaskTypes /\ pnDeps \in DepTables /\ pnHave \subseteq PBlock
  BY DEF OrphanInv, PnTypes, PeerTypeOK, DepTables
<1>1. PICK b \in pnTask[c].todo :
        LET rest == pnTask[c].todo \ {b}
            missing == Parents[b] \ (pnHave \ unread)
        IN /\ IF b \in pnHave \ unread
              THEN /\ pnTask' = [pnTask EXCEPT ![c] = Resume(rest)]
                   /\ UNCHANGED <<pnDeps, pnStray>>
              ELSE /\ pnTask' = [pnTask EXCEPT ![c] =
                                    [step |-> "place", todo |-> rest, block |-> {b},
                                     missing |-> missing]]
                   /\ pnDeps' = Await(pnDeps, missing, b)
                   /\ pnStray' = IF \A p \in missing : b \in pnDeps'[p]
                                 THEN pnStray ELSE pnStray \cup {b}
  BY DEF LookUp
<1>2. b \in PBlock /\ pnTask[c].step = "next" /\ pnHave' = pnHave /\ pnOrphans' = pnOrphans
      /\ pnTask[c].todo \ {b} \in SUBSET PBlock
  BY <1>0 DEF TaskTypes, LookUp
<1>3. CASE b \in pnHave \ unread
  <2> DEFINE t == Resume(pnTask[c].todo \ {b})
  <2>1. t.step \in {"idle", "next"} /\ pnTask' = [pnTask EXCEPT ![c] = t] /\ UNCHANGED <<pnDeps, pnStray>>
    BY <1>1, <1>2, <1>3, ResumeType
  <2> HIDE DEF t
  <2>2. \A d \in Link : /\ pnTask'[d].step = "place" => pnTask'[d] = pnTask[d]
                        /\ pnTask[d].step = "release" <=> pnTask'[d].step = "release"
                        /\ pnTask[d].step = "release" => pnTask'[d] = pnTask[d]
    BY <1>0, <1>2, <2>1 DEF TaskTypes
  <2> QED BY <1>2, <2>1, <2>2, OrphansKept
<1>4. CASE b \notin pnHave \ unread
  <2> DEFINE missing == Parents[b] \ (pnHave \ unread)
             t == [step |-> "place", todo |-> pnTask[c].todo \ {b}, block |-> {b}, missing |-> missing]
  <2>1. /\ pnTask' = [pnTask EXCEPT ![c] = t] /\ pnDeps' = Await(pnDeps, missing, b)
        /\ pnStray \subseteq pnStray'
        /\ b \notin pnStray' => \A p \in missing : b \in pnDeps'[p]
    BY <1>1, <1>4
  <2>2. missing \in SUBSET PBlock
    BY <1>2, PeerAssumption
  <2>3. t.step = "place" /\ t.block = {b} /\ t.missing = missing
    OBVIOUS
  <2>4. \A p \in PBlock : pnDeps[p] \subseteq pnDeps'[p]
    <3> HIDE DEF t, missing
    <3> QED BY <1>0, <1>2, <2>1, <2>2, AwaitGrows
  <2> HIDE DEF t
  <2>5. pnTask'[c] = t /\ \A d \in Link : d # c => pnTask'[d] = pnTask[d]
    BY <1>0, <2>1 DEF TaskTypes
  <2>6. HandInv'
    BY <1>2, <2>3, <2>5 DEF OrphanInv, HandInv
  <2>7. Placing' \subseteq Placing \cup {b}
    BY <2>3, <2>5 DEF Placing
  <2>8. pnOrphans \subseteq PBlock /\ Placing \subseteq PBlock
    BY <1>0 DEF OrphanInv, PnTypes, PeerTypeOK, Placing, TaskTypes
  <2>9. WaitInv'
    <3> SUFFICES ASSUME NEW x \in (pnOrphans' \cup Placing') \ pnStray', NEW p \in Parents[x] \ pnHave'
                 PROVE  x \in pnDeps'[p]
      BY DEF WaitInv
    <3>1. CASE x = b
      BY <1>2, <2>1, <3>1
    <3>2. CASE x # b
      <4>1. x \in (pnOrphans \cup Placing) \ pnStray /\ p \in Parents[x] \ pnHave
        BY <1>2, <2>1, <2>7, <3>2
      <4>2. p \in PBlock
        BY <2>8, <4>1, PeerAssumption
      <4> QED BY <2>4, <4>1, <4>2 DEF OrphanInv, WaitInv
    <3> QED BY <3>1, <3>2
  <2>10. OrphansReleased'
    <3> SUFFICES ASSUME NEW o \in pnOrphans', Parents[o] \subseteq pnHave', o \notin pnStray'
                 PROVE  \E d \in Link : /\ pnTask'[d].step = "release"
                                        /\ \E x \in pnTask'[d].block : o \in pnDeps'[x]
      BY DEF OrphansReleased
    <3>1. PICK d \in Link : pnTask[d].step = "release" /\ \E x \in pnTask[d].block : o \in pnDeps[x]
      BY <1>2, <2>1 DEF OrphanInv, OrphansReleased
    <3>2. PICK x \in pnTask[d].block : o \in pnDeps[x]
      BY <3>1
    <3>3. x \in PBlock /\ d # c /\ pnTask'[d] = pnTask[d]
      BY <1>0, <1>2, <2>5, <3>1 DEF TaskTypes
    <3> QED BY <2>4, <3>1, <3>2, <3>3
  <2> QED BY <2>6, <2>9, <2>10
<1> QED BY <1>3, <1>4

\* A block with missing parents is kept, or dropped.
LEMMA OrphanOrphans ==
    ASSUME OrphanInv, NEW c \in Link, Orphan(c)
    PROVE  HandInv' /\ WaitInv' /\ OrphansReleased'
<1>0. TaskTypes /\ pnTask[c].step = "place" /\ pnHave' = pnHave /\ pnDeps' = pnDeps
  BY DEF OrphanInv, PnTypes, Orphan
<1> DEFINE t == Resume(pnTask[c].todo)
<1>1. t.step \in {"idle", "next"} /\ pnTask' = [pnTask EXCEPT ![c] = t]
  BY <1>0, ResumeType DEF TaskTypes, Orphan
<1> HIDE DEF t
<1>2. pnTask'[c] = t /\ \A d \in Link : d # c => pnTask'[d] = pnTask[d]
  BY <1>0, <1>1 DEF TaskTypes
<1>3. \A d \in Link : /\ pnTask'[d].step = "place" => pnTask'[d] = pnTask[d]
                      /\ pnTask[d].step = "release" <=> pnTask'[d].step = "release"
                      /\ pnTask[d].step = "release" => pnTask'[d] = pnTask[d]
  BY <1>0, <1>1, <1>2
<1>4. PICK b \in pnTask[c].block :
        IF Cardinality(pnOrphans) >= MaxOrphans
        THEN UNCHANGED <<pnOrphans, pnStray>>
        ELSE /\ pnOrphans' = pnOrphans \cup {b}
             /\ pnStray' = IF Parents[b] \subseteq pnHave THEN pnStray \cup {b} ELSE pnStray
  BY DEF Orphan
<1>5. CASE UNCHANGED <<pnOrphans, pnStray>>
  BY <1>0, <1>3, <1>5, OrphansKept
<1>6. CASE /\ pnOrphans' = pnOrphans \cup {b}
           /\ pnStray' = IF Parents[b] \subseteq pnHave THEN pnStray \cup {b} ELSE pnStray
  <2>1. b \in Placing /\ Placing' \subseteq Placing
    BY <1>0, <1>3 DEF Placing
  <2>2. HandInv'
    BY <1>0, <1>3 DEF OrphanInv, HandInv
  <2>3. WaitInv'
    BY <1>0, <1>6, <2>1 DEF OrphanInv, WaitInv
  <2>4. OrphansReleased'
    BY <1>0, <1>3, <1>6 DEF OrphanInv, OrphansReleased
  <2> QED BY <2>2, <2>3, <2>4
<1> QED BY <1>4, <1>5, <1>6

\* A block whose parents were all there is not persisted: it is dropped, or an orphan
\* that nobody releases.
LEMMA MissOrphans ==
    ASSUME OrphanInv, NEW c \in Link, MissIncoming(c)
    PROVE  HandInv' /\ WaitInv' /\ OrphansReleased'
<1>0. TaskTypes /\ pnTask[c].step = "place" /\ pnHave' = pnHave /\ pnDeps \in DepTables
      /\ pnOrphans \subseteq PBlock
  BY DEF OrphanInv, PnTypes, PeerTypeOK, DepTables, MissIncoming
<1> DEFINE t == Resume(pnTask[c].todo)
<1>1. t.step \in {"idle", "next"} /\ pnTask' = [pnTask EXCEPT ![c] = t]
  BY <1>0, ResumeType DEF TaskTypes, MissIncoming
<1> HIDE DEF t
<1>2. \A d \in Link : /\ pnTask'[d].step = "place" => pnTask'[d] = pnTask[d]
                      /\ pnTask[d].step = "release" <=> pnTask'[d].step = "release"
                      /\ pnTask[d].step = "release" => pnTask'[d] = pnTask[d]
  BY <1>0, <1>1 DEF TaskTypes
<1>3. PICK b \in pnTask[c].block : \E p \in Parents[b] :
        \/ /\ pnOrphans' = pnOrphans \cup {b} /\ pnStray' = pnStray \cup {b}
           /\ pnDeps' = AwaitOne(pnDeps, p, b)
        \/ UNCHANGED <<pnOrphans, pnDeps, pnStray>>
  BY DEF MissIncoming
<1>4. CASE UNCHANGED <<pnOrphans, pnDeps, pnStray>>
  BY <1>0, <1>2, <1>4, OrphansKept
<1>5. ASSUME NEW p \in Parents[b], pnOrphans' = pnOrphans \cup {b}, pnStray' = pnStray \cup {b},
             pnDeps' = AwaitOne(pnDeps, p, b)
      PROVE  HandInv' /\ WaitInv' /\ OrphansReleased'
  <2>1. b \in PBlock /\ p \in PBlock
    BY <1>0, PeerAssumption DEF TaskTypes
  <2>2. \A q \in PBlock : pnDeps[q] \subseteq pnDeps'[q]
    BY <1>0, <1>5, <2>1 DEF AwaitOne, DepTables
  <2>3. Placing' \subseteq Placing /\ Placing \subseteq PBlock
    BY <1>0, <1>2 DEF Placing, TaskTypes
  <2>4. HandInv'
    BY <1>0, <1>2 DEF OrphanInv, HandInv
  <2>5. WaitInv'
    <3> SUFFICES ASSUME NEW x \in (pnOrphans' \cup Placing') \ pnStray', NEW q \in Parents[x] \ pnHave'
                 PROVE  x \in pnDeps'[q]
      BY DEF WaitInv
    <3>1. x \in (pnOrphans \cup Placing) \ pnStray /\ q \in Parents[x] \ pnHave
      BY <1>0, <1>5, <2>3
    <3>2. q \in PBlock
      BY <1>0, <2>3, <3>1, PeerAssumption
    <3> QED BY <2>2, <3>1, <3>2 DEF OrphanInv, WaitInv
  <2>6. OrphansReleased'
    <3> SUFFICES ASSUME NEW o \in pnOrphans', Parents[o] \subseteq pnHave', o \notin pnStray'
                 PROVE  \E d \in Link : /\ pnTask'[d].step = "release"
                                        /\ \E x \in pnTask'[d].block : o \in pnDeps'[x]
      BY DEF OrphansReleased
    <3>1. PICK d \in Link : pnTask[d].step = "release" /\ \E x \in pnTask[d].block : o \in pnDeps[x]
      BY <1>0, <1>5 DEF OrphanInv, OrphansReleased
    <3>2. PICK x \in pnTask[d].block : o \in pnDeps[x]
      BY <3>1
    <3>3. x \in PBlock /\ pnTask'[d] = pnTask[d]
      BY <1>0, <1>2, <3>1 DEF TaskTypes
    <3> QED BY <2>2, <3>1, <3>2, <3>3
  <2> QED BY <2>4, <2>5, <2>6
<1> QED BY <1>3, <1>4, <1>5

\* A block whose parents were all there is persisted: its reader will release what
\* waits for it.
LEMMA PersistOrphans ==
    ASSUME OrphanInv, NEW c \in Link, PersistIncoming(c)
    PROVE  HandInv' /\ WaitInv' /\ OrphansReleased'
<1>0. /\ TaskTypes /\ pnTask[c].step = "place"
      /\ pnDeps' = pnDeps /\ pnOrphans' = pnOrphans /\ pnStray' = pnStray
      /\ pnTask' = [pnTask EXCEPT ![c].step = "release"]
  BY DEF OrphanInv, PnTypes, PersistIncoming, tables
<1>1. PICK b \in PBlock : pnTask[c].block = {b}
  BY <1>0 DEF OrphanInv, HandInv
<1>2. pnHave' = pnHave \cup {b}
  BY <1>1 DEF PersistIncoming
<1>3. /\ pnTask'[c].step = "release" /\ pnTask'[c].block = {b}
      /\ \A d \in Link : d # c => pnTask'[d] = pnTask[d]
  BY <1>0, <1>1 DEF TaskTypes
<1>4. HandInv'
  BY <1>1, <1>2, <1>3 DEF OrphanInv, HandInv
<1>5. Placing' \subseteq Placing
  BY <1>3 DEF Placing
<1>6. WaitInv'
  BY <1>0, <1>2, <1>5 DEF OrphanInv, WaitInv
<1>7. OrphansReleased'
  <2> SUFFICES ASSUME NEW o \in pnOrphans, Parents[o] \subseteq pnHave \cup {b}, o \notin pnStray
               PROVE  \E d \in Link : /\ pnTask'[d].step = "release"
                                      /\ \E x \in pnTask'[d].block : o \in pnDeps[x]
    BY <1>0, <1>2 DEF OrphansReleased
  <2>1. CASE Parents[o] \subseteq pnHave
    <3>1. PICK d \in Link : pnTask[d].step = "release" /\ \E x \in pnTask[d].block : o \in pnDeps[x]
      BY <2>1 DEF OrphanInv, OrphansReleased
    <3> QED BY <1>0, <1>3, <3>1
  <2>2. CASE ~(Parents[o] \subseteq pnHave)
    <3>1. b \in Parents[o] \ pnHave
      BY <2>2
    <3>2. o \in pnDeps[b]
      BY <3>1 DEF OrphanInv, WaitInv
    <3> QED BY <1>3, <3>2
  <2> QED BY <2>1, <2>2
<1> QED BY <1>4, <1>6, <1>7

\* Its children are taken from the orphans.
LEMMA ReleaseOrphans ==
    ASSUME OrphanInv, NEW c \in Link, Release(c)
    PROVE  HandInv' /\ WaitInv' /\ OrphansReleased'
<1>0. /\ TaskTypes /\ pnTask[c].step = "release" /\ pnHave' = pnHave /\ pnDeps \in DepTables
  BY DEF OrphanInv, PnTypes, PeerTypeOK, Release, DepTables
<1>1. PICK b \in PBlock : pnTask[c].block = {b} /\ b \in pnHave
  BY <1>0 DEF OrphanInv, HandInv
<1> DEFINE children == pnDeps[b] \cap pnOrphans
           t == Resume(pnTask[c].todo \cup children)
<1>2. /\ pnDeps' = [pnDeps EXCEPT ![b] = {}] /\ pnOrphans' = pnOrphans \ children
      /\ pnTask' = [pnTask EXCEPT ![c] = t]
      /\ pnStray' = pnStray \ (children \ Placing)
  BY <1>1 DEF Release
<1>3. pnTask[c].todo \cup children \in SUBSET PBlock
  BY <1>0 DEF TaskTypes, OrphanInv, PnTypes, PeerTypeOK
<1>4. t.step \in {"idle", "next"}
  BY <1>3, ResumeType
<1> HIDE DEF t
<1>5. pnTask'[c] = t /\ \A d \in Link : d # c => pnTask'[d] = pnTask[d]
  BY <1>0, <1>2 DEF TaskTypes
<1>6. HandInv'
  BY <1>0, <1>4, <1>5 DEF OrphanInv, HandInv
<1>7. Placing' \subseteq Placing
  BY <1>4, <1>5 DEF Placing
<1>8. \A p \in PBlock : p # b => pnDeps'[p] = pnDeps[p]
  BY <1>0, <1>2 DEF DepTables
<1>9. pnOrphans \subseteq PBlock /\ Placing \subseteq PBlock
  BY <1>0 DEF OrphanInv, PnTypes, PeerTypeOK, Placing, TaskTypes
<1>10. WaitInv'
  <2> SUFFICES ASSUME NEW x \in (pnOrphans' \cup Placing') \ pnStray', NEW p \in Parents[x] \ pnHave'
               PROVE  x \in pnDeps'[p]
    BY DEF WaitInv
  <2>1. x \in (pnOrphans \cup Placing) \ pnStray
    BY <1>2, <1>7
  <2>2. p \in Parents[x] \ pnHave /\ p # b
    BY <1>0, <1>1
  <2>3. p \in PBlock
    BY <1>9, <2>1, <2>2, PeerAssumption
  <2> QED BY <1>8, <2>1, <2>2, <2>3 DEF OrphanInv, WaitInv
<1>11. OrphansReleased'
  <2> SUFFICES ASSUME NEW o \in pnOrphans', Parents[o] \subseteq pnHave', o \notin pnStray'
               PROVE  \E d \in Link : /\ pnTask'[d].step = "release"
                                      /\ \E x \in pnTask'[d].block : o \in pnDeps'[x]
    BY DEF OrphansReleased
  <2>1. o \in pnOrphans /\ o \notin pnDeps[b] /\ o \notin pnStray
    BY <1>2
  <2>2. PICK d \in Link : pnTask[d].step = "release" /\ \E x \in pnTask[d].block : o \in pnDeps[x]
    BY <1>0, <2>1 DEF OrphanInv, OrphansReleased
  <2>3. PICK x \in pnTask[d].block : o \in pnDeps[x]
    BY <2>2
  <2>4. x # b /\ d # c /\ x \in PBlock
    BY <1>0, <1>1, <2>1, <2>3 DEF TaskTypes
  <2> QED BY <1>5, <1>8, <2>2, <2>3, <2>4
<1> QED BY <1>6, <1>10, <1>11

\* A block comes over HTTP: what becomes complete by it is stray.
LEMMA SubmitOrphans ==
    ASSUME OrphanInv, NEW b \in PBlock, Submit(b)
    PROVE  HandInv' /\ WaitInv' /\ OrphansReleased'
<1>1. /\ pnHave' = pnHave \cup {b} /\ pnOrphans' = pnOrphans /\ pnDeps' = pnDeps /\ pnTask' = pnTask
      /\ pnStray' = pnStray \cup {o \in pnOrphans : b \in Parents[o] /\ Parents[o] \subseteq pnHave'}
  BY DEF Submit
<1>2. HandInv'
  BY <1>1 DEF OrphanInv, HandInv
<1>3. Placing' = Placing
  BY <1>1 DEF Placing
<1>4. WaitInv'
  BY <1>1, <1>3 DEF OrphanInv, WaitInv
<1>5. OrphansReleased'
  <2> SUFFICES ASSUME NEW o \in pnOrphans, Parents[o] \subseteq pnHave', o \notin pnStray'
               PROVE  \E d \in Link : /\ pnTask[d].step = "release"
                                      /\ \E x \in pnTask[d].block : o \in pnDeps[x]
    BY <1>1 DEF OrphansReleased
  <2>1. o \notin pnStray /\ Parents[o] \subseteq pnHave
    BY <1>1
  <2> QED BY <2>1 DEF OrphanInv, OrphansReleased
<1> QED BY <1>2, <1>4, <1>5

LEMMA OrphanStep == OrphanInv /\ [PeerNext]_<<pnVars, pnOdds>> => OrphanInv'
<1> SUFFICES ASSUME OrphanInv, [PeerNext]_<<pnVars, pnOdds>> PROVE HandInv' /\ WaitInv' /\ OrphansReleased'
  BY PnTypesStep DEF OrphanInv
<1>0. TaskTypes
  BY DEF OrphanInv, PnTypes
<1>1. ASSUME UNCHANGED <<pnOrphans, pnHave, pnStray, pnDeps, pnTask>> PROVE HandInv' /\ WaitInv' /\ OrphansReleased'
  BY <1>1, OrphansKept
<1>2. ASSUME NEW c \in Link, OpenLink(c) \/ BreakLink(c) \/ Greet(c) \/ OnAnnounced(c) \/ OnAsked(c)
      PROVE  HandInv' /\ WaitInv' /\ OrphansReleased'
  BY <1>1, <1>2 DEF OpenLink, BreakLink, Greet, OnAnnounced, OnAsked, tables
<1>3. ASSUME NEW c \in Link, OnBlocks(c) PROVE HandInv' /\ WaitInv' /\ OrphansReleased'
  <2>1. /\ pnTask[c] = NoTask /\ UNCHANGED <<pnOrphans, pnHave, pnStray, pnDeps>>
        /\ pnTask' = [pnTask EXCEPT ![c].step = "next", ![c].todo = Head(pnIn[c]).ids]
    BY <1>3 DEF OnBlocks, Reading, tables
  <2>2. pnTask'[c].step = "next" /\ \A d \in Link : d # c => pnTask'[d] = pnTask[d]
    BY <1>0, <2>1 DEF TaskTypes
  <2>3. pnTask[c].step = "idle"
    BY <2>1 DEF NoTask
  <2>4. \A d \in Link : /\ pnTask'[d].step = "place" => pnTask'[d] = pnTask[d]
                        /\ pnTask[d].step = "release" <=> pnTask'[d].step = "release"
                        /\ pnTask[d].step = "release" => pnTask'[d] = pnTask[d]
    BY <2>2, <2>3
  <2> QED BY <2>1, <2>4, OrphansKept
<1>4. ASSUME NEW c \in Link, RejectIncoming(c) \/ FailIncoming(c) PROVE HandInv' /\ WaitInv' /\ OrphansReleased'
  <2> DEFINE t == Resume(pnTask[c].todo)
  <2>1. /\ pnTask[c].step = "place" /\ UNCHANGED <<pnOrphans, pnHave, pnStray, pnDeps>>
        /\ pnTask' = [pnTask EXCEPT ![c] = t]
    BY <1>4 DEF RejectIncoming, FailIncoming, tables
  <2>2. t.step \in {"idle", "next"}
    BY <1>0, ResumeType DEF TaskTypes
  <2> HIDE DEF t
  <2>3. \A d \in Link : /\ pnTask'[d].step = "place" => pnTask'[d] = pnTask[d]
                        /\ pnTask[d].step = "release" <=> pnTask'[d].step = "release"
                        /\ pnTask[d].step = "release" => pnTask'[d] = pnTask[d]
    BY <1>0, <2>1, <2>2 DEF TaskTypes
  <2> QED BY <2>1, <2>3, OrphansKept
<1>5. ASSUME NEW b \in PBlock, RemoteInsert(b) \/ Age(b) PROVE HandInv' /\ WaitInv' /\ OrphansReleased'
  BY <1>1, <1>5 DEF RemoteInsert, Age, tables
<1>6. CASE FlushBroadcastBuffer \/ RefetchParents \/ TriggerSync \/ UNCHANGED <<pnVars, pnOdds>>
  BY <1>1, <1>6 DEF FlushBroadcastBuffer, RefetchParents, TriggerSync, tables, pnVars
<1> QED BY <1>2, <1>3, <1>4, <1>5, <1>6, LookOrphans, OrphanOrphans, MissOrphans, PersistOrphans,
           ReleaseOrphans, SubmitOrphans
       DEF PeerNext, AcceptLink, DialLink, ReaderStep, Look, LookUnread, StorageFails

\* The tables, queues and readers of the node keep their types, whatever is
\* received, dropped or asked again (p2p server).
THEOREM PeerTypeCorrect == PeerSpec => []PeerTypeOK
<1>1. PnTypes => PeerTypeOK
  BY DEF PnTypes
<1> QED BY <1>1, PnTypesInit, PnTypesStep, PTL DEF PeerSpec

\* An orphan whose parents have all come is about to be released, or its parent came
\* where no reader releases it: for any number of connections and readers, any
\* tables and any graph of blocks (process_incoming_blocks).
THEOREM OrphansAlwaysReleased == PeerSpec => []OrphansReleased
<1>1. OrphanInv => OrphansReleased
  BY DEF OrphanInv
<1> QED BY <1>1, OrphanInit, OrphanStep, PTL DEF PeerSpec
=============================================================================
