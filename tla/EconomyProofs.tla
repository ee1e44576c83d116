----------------------------- MODULE EconomyProofs ---------------------------
(***************************************************************************)
(* Theorems about Emission and FeeEconomy, for every set of calls, every   *)
(* corridor, every set of nodes, wallets and distributors, every rate and  *)
(* every value of the bounds; and about CoinCache: no output is spent      *)
(* twice, whatever the cache, the queue and the set of claims can hold     *)
(* (CoinInv), and an address sees the coins it has (ViewInv).              *)
(***************************************************************************)
EXTENDS Emission, FeeEconomy, CoinCache, FiniteSetFacts, SequenceTheorems, TLAPS

-----------------------------------------------------------------------------
(* The arithmetic of the budget.                                           *)

LEMMA BoundsNat ==
    ASSUME NEW m \in Int, NEW n \in Nat
    PROVE  Upper(m, n) \in Nat /\ Upper(n, m) \in Nat
BY DEF Upper

\* The clamp of effective_rate_pct: whatever target is configured, the rate is
\* within the corridor ("le clamp est l'invariant de sécurité du couloir").
LEMMA RateInCorridor ==
    ASSUME NEW p \in Params
    PROVE  /\ EffectiveRatePct(p) \in Nat
           /\ Lower(p.floor, p.ceiling) <= EffectiveRatePct(p)
           /\ EffectiveRatePct(p) <= Upper(p.floor, p.ceiling)
BY DEF Params, EffectiveRatePct, Lower, Upper

LEMMA BudgetNat ==
    ASSUME NEW ref \in Nat, NEW p \in Params
    PROVE  ComputeEpochBudget(ref, p) \in Nat
<1> DEFINE n == ref * EffectiveRatePct(p) * p.duration
<1>1. EffectiveRatePct(p) \in Nat /\ p.duration \in Nat
  BY RateInCorridor DEF Params
<1>2. ref * EffectiveRatePct(p) \in Nat
  BY <1>1
<1>3. n \in Nat
  BY <1>1, <1>2
<1> HIDE DEF n
<1>4. n \div PerYear \in Nat
  BY <1>3, ParamAssumption
<1> QED BY <1>4 DEF ComputeEpochBudget, RoundDp, n

-----------------------------------------------------------------------------
(* Type correctness.                                                       *)

\* The rollover test leaves a well typed gate, and never an older period.
LEMMA RolledType ==
    ASSUME TypeOK, NEW c \in Call
    PROVE  /\ Rolled(c) \in EpochState
           /\ gate.epoch_id <= Rolled(c).epoch_id
           /\ Rolled(c).epoch_id = gate.epoch_id => Rolled(c) = gate
<1> DEFINE p == params[c]
           e == EpochAt(at[c], p)
<1>1. p \in Params /\ sup[c] \in Nat /\ at[c] \in Nat /\ gate \in EpochState
  BY ParamAssumption DEF TypeOK
<1>2. e \in Nat
  <2>1. Upper(p.duration, 1) \in Nat \ {0}
    BY <1>1 DEF Upper, Params
  <2> QED BY <1>1, <2>1 DEF EpochAt
<1>3. ComputeEpochBudget(sup[c], p) \in Nat
  BY <1>1, BudgetNat
<1>4. gate.epoch_id \in Nat
  BY <1>1 DEF EpochState
<1>5. CASE Rolls(e)
  <2>1. Rolled(c) = [epoch_id |-> e, supply_ref |-> sup[c],
                     budget |-> ComputeEpochBudget(sup[c], p), emitted |-> 0]
    BY <1>5 DEF Rolled
  <2>2. e > gate.epoch_id
    BY <1>5 DEF Rolls
  <2> HIDE DEF e, p
  <2> QED BY <1>1, <1>2, <1>3, <1>4, <2>1, <2>2 DEF EpochState
<1>6. CASE ~Rolls(e)
  BY <1>1, <1>4, <1>6 DEF Rolled
<1> QED BY <1>5, <1>6

LEMMA WantedNat ==
    ASSUME TypeOK, NEW c \in Call
    PROVE  Wanted(c) \in Nat
<1>1. Rolled(c).budget - Rolled(c).emitted \in Int
  BY RolledType DEF EpochState
<1>2. Remaining(Rolled(c)) \in Nat
  BY <1>1, BoundsNat DEF Remaining
<1> QED BY <1>2, CallAssumption DEF Wanted

LEMMA EmissionTypeStep ==
    ASSUME TypeOK, [Next]_vars
    PROVE  TypeOK'
<1> USE DEF world, local, book
<1>1. ASSUME NEW c \in Call, Begin(c) PROVE TypeOK'
  BY <1>1 DEF Begin, Goto, TypeOK, Steps
<1>f. ASSUME NEW c \in Call, Forget(c)
      PROVE  /\ params' \in [Call -> Corridor] /\ sup' \in [Call -> Nat]
             /\ at' \in [Call -> 0 .. MaxTime]
  BY <1>f, ParamAssumption DEF Forget, TypeOK
<1>g. ASSUME NEW c \in Call, NEW step \in Steps, Goto(c, step)
      PROVE  pc' \in [Call -> Steps]
  BY <1>g DEF Goto, TypeOK
<1>2. ASSUME NEW c \in Call, Enter(c) PROVE TypeOK'
  <2>1. pc' \in [Call -> Steps]
    BY <1>2 DEF Enter, Goto, TypeOK, Steps
  <2>2. /\ params' \in [Call -> Corridor] /\ sup' \in [Call -> Nat]
        /\ at' \in [Call -> 0 .. MaxTime]
    BY <1>2, <1>f DEF Enter, TypeOK
  <2> QED BY <1>2, <2>1, <2>2 DEF Enter, TypeOK
<1>3. ASSUME NEW c \in Call, ReserveNothing(c) \/ ReserveFails(c) PROVE TypeOK'
  <2>1. gate' \in EpochState /\ Forget(c) /\ Goto(c, "done")
    BY <1>3, RolledType DEF ReserveNothing, ReserveFails
  <2>2. pc' \in [Call -> Steps]
    BY <2>1, <1>g DEF Steps
  <2> QED BY <1>3, <1>f, <2>1, <2>2 DEF ReserveNothing, ReserveFails, TypeOK
<1>4. ASSUME NEW c \in Call, Reserve(c) PROVE TypeOK'
  <2>1. gate' \in EpochState
    BY <1>4, RolledType, WantedNat DEF Reserve, EpochState
  <2>2. /\ amount' \in [Call -> Nat] /\ epoch' \in [Call -> Nat] /\ cap' \in [Call -> Nat]
    BY <1>4, <2>1, WantedNat DEF Reserve, TypeOK, EpochState
  <2>3. pc' \in [Call -> Steps]
    BY <1>4 DEF Reserve, Goto, TypeOK, Steps
  <2>4. Forget(c) /\ durable' = gate'
    BY <1>4 DEF Reserve, PersistLocked
  <2> QED BY <1>4, <1>f, <2>1, <2>2, <2>3, <2>4 DEF Reserve, TypeOK
<1>5. ASSUME NEW c \in Call, Burn(c) \/ Store(c) PROVE TypeOK'
  <2>1. pc' \in [Call -> Steps]
    BY <1>5 DEF Burn, Store, Goto, TypeOK, Steps
  <2> QED BY <1>5, <2>1 DEF Burn, Store, TypeOK
<1>6. ASSUME NEW c \in Call, Mint(c) \/ Fail(c) PROVE TypeOK'
  <2>1. pc' \in [Call -> Steps]
    BY <1>6 DEF Mint, Fail, Goto, TypeOK, Steps
  <2>2. supply' \in Nat
    BY <1>6 DEF Mint, Fail, TypeOK
  <2> QED BY <1>6, <2>1, <2>2 DEF Mint, Fail, TypeOK
<1>7. ASSUME NEW c \in Call, Release(c) PROVE TypeOK'
  <2>1. Released(c) \in Nat
    <3>1. gate.emitted - amount[c] \in Int
      BY DEF TypeOK, EpochState
    <3> QED BY <3>1, BoundsNat DEF Released
  <2>2. gate' \in EpochState
    BY <1>7, <2>1 DEF Release, TypeOK, EpochState
  <2>3. durable' \in EpochState
    BY <1>7, <2>2 DEF Release, PersistLocked, TypeOK
  <2>4. pc' \in [Call -> Steps] /\ freed' \in [Call -> Nat \cup {Never}]
    BY <1>7 DEF Release, Goto, TypeOK, Steps, EpochState
  <2> QED BY <1>7, <2>2, <2>3, <2>4 DEF Release, TypeOK
<1>8. ASSUME NEW c \in Call, Drop(c) PROVE TypeOK'
  <2>1. pc' \in [Call -> Steps] /\ Forget(c)
    BY <1>8 DEF Drop, Goto, TypeOK, Steps
  <2> QED BY <1>8, <1>f, <2>1 DEF Drop, TypeOK
<1>9. CASE Govern \/ SetClock
  BY <1>9 DEF Govern, SetClock, TypeOK
<1>10. CASE Crash
  <2>1. pc' \in [Call -> Steps]
    <3>1. \A c \in Call : pc[c] \in Steps
      BY DEF TypeOK
    <3> QED BY <1>10, <3>1 DEF Crash, Steps
  <2>2. /\ params' \in [Call -> Corridor] /\ sup' \in [Call -> Nat]
        /\ at' \in [Call -> 0 .. MaxTime]
    BY <1>10, ParamAssumption DEF Crash
  <2> QED BY <1>10, <2>1, <2>2 DEF Crash, TypeOK
<1>11. CASE UNCHANGED vars
  BY <1>11 DEF vars, TypeOK
<1> QED BY <1>1, <1>2, <1>3, <1>4, <1>5, <1>6, <1>7, <1>8, <1>9, <1>10, <1>11 DEF Next

\* The counters of the gate, in memory and stored, stay natural numbers: the
\* release of a reservation into a younger period does not underflow.
THEOREM EmissionTypes == Spec => []TypeOK
<1>1. Init => TypeOK
  BY ParamAssumption DEF Init, TypeOK, DefaultState, EpochState, Steps
<1> QED BY <1>1, EmissionTypeStep, PTL DEF Spec

-----------------------------------------------------------------------------
(* One budget per period.                                                  *)

\* A step that reserves nothing and does not touch the periods' budgets.
LEMMA FrozenFrame ==
    ASSUME FrozenInv, UNCHANGED <<amount, epoch, cap>>,
           durable'.epoch_id = durable.epoch_id, durable'.budget = durable.budget,
           durable'.epoch_id <= gate'.epoch_id,
           durable'.epoch_id = gate'.epoch_id => durable'.budget = gate'.budget
    PROVE  FrozenInv'
BY DEF FrozenInv, BudgetFrozen, Reserved

\* The counter is stored: RocksDB moves to the period of the gate.
LEMMA FrozenStore ==
    ASSUME TypeOK, FrozenInv, UNCHANGED <<amount, epoch, cap>>, durable' = gate',
           gate'.epoch_id = gate.epoch_id, gate'.budget = gate.budget
    PROVE  FrozenInv'
<1>1. /\ gate.epoch_id \in Nat /\ durable.epoch_id \in Nat
      /\ \A c \in Call : epoch[c] \in Nat
  BY DEF TypeOK, EpochState
<1>2. gate'.epoch_id \in Nat
  BY <1>1
<1>3. \A c \in Reserved' : epoch'[c] <= durable'.epoch_id
  BY <1>1 DEF FrozenInv, Reserved
<1>4. \A c \in Reserved' : epoch'[c] = durable'.epoch_id => cap'[c] = durable'.budget
  BY <1>1 DEF FrozenInv, Reserved
<1>5. BudgetFrozen'
  BY DEF FrozenInv, BudgetFrozen, Reserved
<1> QED BY <1>2, <1>3, <1>4, <1>5 DEF FrozenInv

LEMMA FrozenStep ==
    ASSUME TypeOK, FrozenInv, [Next]_vars
    PROVE  FrozenInv'
<1> USE DEF world, local, book
<1>0. gate.epoch_id \in Nat /\ durable.epoch_id \in Nat /\ \A c \in Call : epoch[c] \in Nat
  BY DEF TypeOK, EpochState
<1>1. ASSUME UNCHANGED <<amount, epoch, cap, gate, durable>> PROVE FrozenInv'
  BY <1>1, FrozenFrame DEF FrozenInv
<1>2. ASSUME NEW c \in Call, ReserveNothing(c) \/ ReserveFails(c) PROVE FrozenInv'
  <2>1. gate' = Rolled(c) /\ UNCHANGED <<amount, epoch, cap, durable>>
    BY <1>2 DEF ReserveNothing, ReserveFails
  <2>2. Rolled(c).epoch_id \in Nat
    BY RolledType DEF EpochState
  <2>3. durable.epoch_id <= gate'.epoch_id
    BY <1>0, <2>1, <2>2, RolledType DEF FrozenInv
  <2>4. durable.epoch_id = gate'.epoch_id => durable.budget = gate'.budget
    BY <1>0, <2>1, <2>2, RolledType DEF FrozenInv
  <2> QED BY <2>1, <2>3, <2>4, FrozenFrame
<1>3. ASSUME NEW c \in Call, Reserve(c) PROVE FrozenInv'
  <2> DEFINE st == Rolled(c)
  <2>1. /\ st \in EpochState /\ gate.epoch_id <= st.epoch_id
        /\ st.epoch_id = gate.epoch_id => st = gate
    BY RolledType
  <2>2. /\ gate' = [st EXCEPT !.emitted = @ + Wanted(c)] /\ durable' = gate'
        /\ amount' = [amount EXCEPT ![c] = Wanted(c)]
        /\ epoch' = [epoch EXCEPT ![c] = gate'.epoch_id]
        /\ cap' = [cap EXCEPT ![c] = gate'.budget]
    BY <1>3 DEF Reserve, PersistLocked
  <2> HIDE DEF st
  <2>3. gate'.epoch_id = st.epoch_id /\ gate'.budget = st.budget /\ st.epoch_id \in Nat
    BY <2>1, <2>2 DEF EpochState
  <2>4. \A d \in Reserved' : d = c \/ d \in Reserved
    BY <2>2 DEF Reserved, TypeOK
  <2>5. epoch'[c] = st.epoch_id /\ cap'[c] = st.budget
    BY <2>2, <2>3 DEF TypeOK
  <2>6. \A d \in Call : d # c => epoch'[d] = epoch[d] /\ cap'[d] = cap[d]
    BY <2>2 DEF TypeOK
  <2>7. \A d \in Reserved : epoch[d] <= st.epoch_id
    BY <1>0, <2>1, <2>3 DEF FrozenInv, Reserved
  <2>8. \A d \in Reserved : epoch[d] = st.epoch_id => cap[d] = st.budget
    <3> SUFFICES ASSUME NEW d \in Reserved, epoch[d] = st.epoch_id
                 PROVE  cap[d] = st.budget
      OBVIOUS
    <3>1. epoch[d] <= durable.epoch_id /\ durable.epoch_id <= gate.epoch_id
      BY DEF FrozenInv
    <3>2. gate.epoch_id = st.epoch_id /\ durable.epoch_id = st.epoch_id
      BY <1>0, <2>1, <2>3, <3>1
    <3> QED BY <2>1, <3>2 DEF FrozenInv
  <2>9. \A d \in Reserved' : /\ epoch'[d] <= durable'.epoch_id
                             /\ epoch'[d] = durable'.epoch_id => cap'[d] = durable'.budget
    BY <2>2, <2>3, <2>4, <2>5, <2>6, <2>7, <2>8 DEF Reserved
  <2>10. BudgetFrozen'
    <3> SUFFICES ASSUME NEW d \in Reserved', NEW f \in Reserved', epoch'[d] = epoch'[f]
                 PROVE  cap'[d] = cap'[f]
      BY DEF BudgetFrozen
    <3>1. CASE d = c \/ f = c
      BY <2>4, <2>5, <2>6, <2>8, <3>1 DEF Reserved
    <3>2. CASE d # c /\ f # c
      BY <2>4, <2>6, <3>2 DEF FrozenInv, BudgetFrozen, Reserved
    <3> QED BY <3>1, <3>2
  <2> QED BY <2>2, <2>3, <2>9, <2>10 DEF FrozenInv
<1>4. ASSUME NEW c \in Call, Release(c) PROVE FrozenInv'
  <2>1. gate'.epoch_id = gate.epoch_id /\ gate'.budget = gate.budget
    BY <1>4 DEF Release, TypeOK, EpochState
  <2>2. UNCHANGED <<amount, epoch, cap>>
    BY <1>4 DEF Release
  <2>3. CASE durable' = gate'
    BY <2>1, <2>2, <2>3, FrozenStore
  <2>4. CASE durable' = durable
    BY <2>1, <2>2, <2>4, FrozenFrame DEF FrozenInv
  <2> QED BY <1>4, <2>3, <2>4 DEF Release, PersistLocked
<1>5. CASE Crash
  <2>1. gate' = durable /\ UNCHANGED <<amount, epoch, cap, durable>>
    BY <1>5 DEF Crash
  <2> QED BY <1>0, <2>1, FrozenFrame
<1>6. ASSUME NEW c \in Call,
             Begin(c) \/ Enter(c) \/ Burn(c) \/ Mint(c) \/ Fail(c) \/ Store(c) \/ Drop(c)
      PROVE  FrozenInv'
  BY <1>1, <1>6 DEF Begin, Enter, Burn, Mint, Fail, Store, Drop
<1>7. CASE Govern \/ SetClock \/ UNCHANGED vars
  BY <1>1, <1>7 DEF Govern, SetClock, vars
<1> QED BY <1>2, <1>3, <1>4, <1>5, <1>6, <1>7 DEF Next

\* All the reservations of a period saw one budget, for every interleaving of
\* reserve and release, every clock, every corridor governance sets meanwhile
\* and every crash: the gate never goes back to a period it left, and a crash
\* takes it back at most to the last period in which something was reserved.
THEOREM OneBudgetPerPeriod == Spec => []BudgetFrozen
<1>1. Init => FrozenInv
  BY DEF Init, FrozenInv, BudgetFrozen, Reserved, DefaultState
<1> QED BY <1>1, FrozenStep, EmissionTypes, PTL DEF Spec, FrozenInv

-----------------------------------------------------------------------------
(* The ceiling of a period, in terms of the books of the calls: am what a  *)
(* call reserved, ep when, fr when it was given back.                      *)

Held(am, ep, fr, e) ==
    SumFunctionOnSet(am, {c \in {d \in Call : am[d] > 0} : ep[c] = e /\ fr[c] = Never})
Late(am, ep, fr, e) ==
    SumFunctionOnSet(am, {c \in {d \in Call : am[d] > 0} : fr[c] = e /\ ep[c] # e})

Covered(am, ep, fr, st) ==
    /\ st.emitted <= st.budget
    /\ Held(am, ep, fr, st.epoch_id) <= st.emitted + Late(am, ep, fr, st.epoch_id)
Capped(am, ep, fr, cp) ==
    \A c \in Call : am[c] > 0 => Held(am, ep, fr, ep[c]) <= cp[c] + Late(am, ep, fr, ep[c])

LEMMA CeilingBooks ==
    /\ CeilingInv <=> /\ CallBooks
                      /\ Covered(amount, epoch, freed, gate)
                      /\ Covered(amount, epoch, freed, durable)
                      /\ Capped(amount, epoch, freed, cap)
    /\ CeilingInv' <=> /\ CallBooks'
                       /\ Covered(amount', epoch', freed', gate')
                       /\ Covered(amount', epoch', freed', durable')
                       /\ Capped(amount', epoch', freed', cap')
<1>1. (Covers(gate) <=> Covered(amount, epoch, freed, gate))
      /\ (Covers(gate)' <=> Covered(amount', epoch', freed', gate'))
  BY Zenon DEF Covers, Covered, Held, Late, Total, Unreleased, FreedLate, GivenBackLate, Reserved
<1>2. (Covers(durable) <=> Covered(amount, epoch, freed, durable))
      /\ (Covers(durable)' <=> Covered(amount', epoch', freed', durable'))
  BY Zenon DEF Covers, Covered, Held, Late, Total, Unreleased, FreedLate, GivenBackLate, Reserved
<1> DEFINE Cap == \A c \in Reserved : Total(Unreleased(epoch[c])) <= cap[c] + FreedLate(epoch[c])
<1>3. Cap <=> Capped(amount, epoch, freed, cap)
  BY Zenon DEF Capped, Held, Late, Total, Unreleased, FreedLate, GivenBackLate, Reserved
<1>4. Cap' <=> Capped(amount', epoch', freed', cap')
  BY Zenon DEF Capped, Held, Late, Total, Unreleased, FreedLate, GivenBackLate, Reserved
<1> QED BY <1>1, <1>2, <1>3, <1>4 DEF CeilingInv

LEMMA BooksNat ==
    ASSUME NEW am \in [Call -> Nat], NEW ep, NEW fr, NEW e
    PROVE  Held(am, ep, fr, e) \in Nat /\ Late(am, ep, fr, e) \in Nat
<1>1. \A S \in SUBSET Call : SumFunctionOnSet(am, S) \in Nat
  BY CallAssumption, FS_Subset, SumNat
<1> QED BY <1>1 DEF Held, Late

\* A reservation of w in period E by a call that had none.
LEMMA BooksReserve ==
    ASSUME NEW c \in Call, amount[c] = 0, freed[c] = Never, UNCHANGED freed, amount'[c] > 0,
           \A d \in Call : /\ amount[d] \in Nat /\ amount'[d] \in Nat
                           /\ d # c => amount'[d] = amount[d] /\ epoch'[d] = epoch[d],
           NEW e \in Nat
    PROVE  /\ Held(amount', epoch', freed', e)
                = Held(amount, epoch, freed, e) + (IF e = epoch'[c] THEN amount'[c] ELSE 0)
           /\ Late(amount', epoch', freed', e) = Late(amount, epoch, freed, e)
<1> DEFINE S == {d \in {f \in Call : amount[f] > 0} : epoch[d] = e /\ freed[d] = Never}
           S2 == {d \in {f \in Call : amount'[f] > 0} : epoch'[d] = e /\ freed[d] = Never}
           L == {d \in {f \in Call : amount[f] > 0} : freed[d] = e /\ epoch[d] # e}
           L2 == {d \in {f \in Call : amount'[f] > 0} : freed[d] = e /\ epoch'[d] # e}
<1>1. c \notin S /\ S \subseteq Call /\ c \notin L /\ L \subseteq Call
  OBVIOUS
<1>2. S2 = IF e = epoch'[c] THEN S \cup {c} ELSE S
  OBVIOUS
<1>3. L2 = L
  BY DEF Never
<1>4. \A d \in Call : amount'[d] \in Nat /\ (d # c => amount'[d] = amount[d])
  OBVIOUS
<1> HIDE DEF S, S2, L, L2
<1>5. IsFiniteSet(S) /\ IsFiniteSet(L)
  BY <1>1, CallAssumption, FS_Subset
<1>6. SumFunctionOnSet(amount', L2) = SumFunctionOnSet(amount, L)
  BY <1>1, <1>3, <1>4, <1>5, SumSame
<1>7. SumFunctionOnSet(amount', S) = SumFunctionOnSet(amount, S) /\ SumFunctionOnSet(amount, S) \in Nat
  BY <1>1, <1>4, <1>5, SumSame, SumNat
<1>8. SumFunctionOnSet(amount', S \cup {c}) = amount'[c] + SumFunctionOnSet(amount', S)
  BY <1>1, <1>4, <1>5, SumAdd
<1>9. SumFunctionOnSet(amount', S2) = SumFunctionOnSet(amount, S) + (IF e = epoch'[c] THEN amount'[c] ELSE 0)
  BY <1>2, <1>7, <1>8
<1> QED BY <1>6, <1>9 DEF Held, Late, S, S2, L, L2

\* The reservation of c is given back while the gate is in period G.
LEMMA BooksRelease ==
    ASSUME NEW c \in Call, amount[c] > 0, freed[c] = Never, UNCHANGED <<amount, epoch>>,
           \A d \in Call : amount[d] \in Nat,
           freed'[c] # Never, \A d \in Call : d # c => freed'[d] = freed[d], NEW e \in Nat
    PROVE  /\ Held(amount', epoch', freed', e)
                = Held(amount, epoch, freed, e) - (IF e = epoch[c] THEN amount[c] ELSE 0)
           /\ Late(amount', epoch', freed', e)
                = Late(amount, epoch, freed, e)
                    + (IF e = freed'[c] /\ epoch[c] # e THEN amount[c] ELSE 0)
<1> DEFINE S == {d \in {f \in Call : amount[f] > 0} : epoch[d] = e /\ freed[d] = Never}
           S2 == {d \in {f \in Call : amount[f] > 0} : epoch[d] = e /\ freed'[d] = Never}
           L == {d \in {f \in Call : amount[f] > 0} : freed[d] = e /\ epoch[d] # e}
           L2 == {d \in {f \in Call : amount[f] > 0} : freed'[d] = e /\ epoch[d] # e}
<1>1. S \subseteq Call /\ c \notin L /\ L \subseteq Call /\ (c \in S <=> epoch[c] = e)
  BY DEF Never
<1>2. S2 = S \ {c}
  BY DEF Never
<1>3. L2 = IF e = freed'[c] /\ epoch[c] # e THEN L \cup {c} ELSE L
  BY DEF Never
<1> HIDE DEF S, S2, L, L2
<1>5. IsFiniteSet(S) /\ IsFiniteSet(L)
  BY <1>1, CallAssumption, FS_Subset
<1>6. SumFunctionOnSet(amount, S) \in Nat /\ SumFunctionOnSet(amount, L) \in Nat
  BY <1>1, <1>5, SumNat
<1>7. SumFunctionOnSet(amount, S2) = SumFunctionOnSet(amount, S) - (IF e = epoch[c] THEN amount[c] ELSE 0)
  <2>1. CASE e = epoch[c]
    <3>1. SumFunctionOnSet(amount, S) = amount[c] + SumFunctionOnSet(amount, S \ {c})
      BY <1>1, <1>5, <2>1, SumRemove
    <3>2. SumFunctionOnSet(amount, S \ {c}) \in Nat
      BY <1>1, <1>5, FS_Subset, SumNat
    <3> QED BY <1>2, <2>1, <3>1, <3>2
  <2>2. CASE e # epoch[c]
    <3>1. S2 = S
      BY <1>1, <1>2, <2>2
    <3> QED BY <1>6, <2>2, <3>1
  <2> QED BY <2>1, <2>2
<1>8. SumFunctionOnSet(amount, L2) = SumFunctionOnSet(amount, L) + (IF e = freed'[c] /\ epoch[c] # e THEN amount[c] ELSE 0)
  <2>1. SumFunctionOnSet(amount, L \cup {c}) = amount[c] + SumFunctionOnSet(amount, L)
    BY <1>1, <1>5, SumAdd
  <2> QED BY <1>3, <1>6, <2>1
<1> QED BY <1>7, <1>8 DEF Held, Late, S, S2, L, L2

LEMMA CallBooksStep ==
    ASSUME TypeOK, CallBooks, [Next]_vars
    PROVE  CallBooks'
<1> USE DEF world, local, book
<1>0. \A c \in Call : amount[c] \in Nat /\ pc[c] \in Steps
  BY DEF TypeOK
<1>1. ASSUME NEW c \in Call, Begin(c) \/ Enter(c) \/ ReserveNothing(c) \/ ReserveFails(c)
      PROVE  CallBooks'
  BY <1>1 DEF Begin, Enter, ReserveNothing, ReserveFails, Goto, CallBooks, TypeOK
<1>2. ASSUME NEW c \in Call, Reserve(c) PROVE CallBooks'
  <2>1. /\ amount' = [amount EXCEPT ![c] = Wanted(c)] /\ freed' = freed
        /\ pc' = [pc EXCEPT ![c] = IF VoieOf[c] = "TokenConversion" THEN "burn" ELSE "forge"]
        /\ pc[c] = "lock" /\ Wanted(c) > 0
    BY <1>2 DEF Reserve, Goto
  <2> QED BY <2>1 DEF CallBooks, TypeOK
<1>3. ASSUME NEW c \in Call, Burn(c) \/ Mint(c) \/ Fail(c) \/ Store(c) PROVE CallBooks'
  BY <1>3 DEF Burn, Mint, Fail, Store, Goto, CallBooks, TypeOK
<1>4. ASSUME NEW c \in Call, Release(c) \/ Drop(c) PROVE CallBooks'
  BY <1>4 DEF Release, Drop, Goto, CallBooks, TypeOK
<1>5. CASE Crash
  <2>1. /\ UNCHANGED <<amount, freed>>
        /\ pc' = [c \in Call |-> CASE pc[c] \in {"idle", "stored", "lost"} -> pc[c]
                                   [] pc[c] = "minted" -> "lost"
                                   [] OTHER -> "done"]
    BY <1>5 DEF Crash
  <2> QED BY <1>0, <2>1 DEF CallBooks, Steps
<1>6. CASE Govern \/ SetClock \/ UNCHANGED vars
  BY <1>6 DEF Govern, SetClock, vars, CallBooks
<1> QED BY <1>1, <1>2, <1>3, <1>4, <1>5, <1>6 DEF Next

\* A period that the gate has just entered has no reservation.
LEMMA RolledCovered ==
    ASSUME TypeOK, FrozenInv, CeilingInv, NEW c \in Call
    PROVE  Covered(amount, epoch, freed, Rolled(c))
<1> DEFINE st == Rolled(c)
<1>1. st = gate \/ (gate.epoch_id < st.epoch_id /\ st.emitted = 0)
  BY DEF Rolled, Rolls
<1>2. CASE st = gate
  BY <1>2, CeilingBooks
<1>3. CASE gate.epoch_id < st.epoch_id /\ st.emitted = 0
  <2>1. st \in EpochState
    BY RolledType
  <2>2. \A d \in Call : amount[d] > 0 => epoch[d] # st.epoch_id
    <3> SUFFICES ASSUME NEW d \in Call, amount[d] > 0 PROVE epoch[d] # st.epoch_id
      OBVIOUS
    <3>1. epoch[d] <= durable.epoch_id /\ durable.epoch_id <= gate.epoch_id
      BY DEF FrozenInv, Reserved
    <3>2. epoch[d] \in Nat /\ durable.epoch_id \in Nat /\ gate.epoch_id \in Nat /\ st.epoch_id \in Nat
      BY <2>1 DEF TypeOK, EpochState
    <3> HIDE DEF st
    <3> QED BY <1>3, <3>1, <3>2
  <2> HIDE DEF st
  <2>3. {d \in {f \in Call : amount[f] > 0} : epoch[d] = st.epoch_id /\ freed[d] = Never} = {}
    BY <2>2
  <2>4. Held(amount, epoch, freed, st.epoch_id) = 0
    BY <2>3, SumEmpty DEF Held
  <2>5. Late(amount, epoch, freed, st.epoch_id) \in Nat
    BY BooksNat DEF TypeOK
  <2> QED BY <1>3, <2>1, <2>4, <2>5 DEF Covered, EpochState, st
<1> QED BY <1>1, <1>2, <1>3

LEMMA CeilingReserve ==
    ASSUME TypeOK, FrozenInv, FrozenInv', CeilingInv, CallBooks', NEW c \in Call, Reserve(c)
    PROVE  CeilingInv'
<1> DEFINE st == Rolled(c)
           w == Wanted(c)
           E == st.epoch_id
<1>1. st \in EpochState /\ Covered(amount, epoch, freed, st)
  BY RolledType, RolledCovered
<1>2. /\ gate' = [st EXCEPT !.emitted = @ + w] /\ durable' = gate'
      /\ amount' = [amount EXCEPT ![c] = w]
      /\ epoch' = [epoch EXCEPT ![c] = gate'.epoch_id]
      /\ cap' = [cap EXCEPT ![c] = gate'.budget]
      /\ freed' = freed
      /\ pc[c] = "lock" /\ w \in 1 .. Remaining(st)
  BY DEF Reserve, PersistLocked
<1>3. amount[c] = 0 /\ freed[c] = Never
  BY <1>2 DEF CeilingInv, CallBooks
<1>4. Remaining(st) \in Nat /\ w \in Nat \ {0}
  <2>1. st.budget - st.emitted \in Int
    BY <1>1 DEF EpochState
  <2>2. Remaining(st) \in Nat
    BY <2>1, BoundsNat DEF Remaining
  <2> QED BY <1>2, <2>2
<1>5. /\ gate'.epoch_id = E /\ gate'.budget = st.budget /\ gate'.emitted = st.emitted + w
      /\ E \in Nat /\ st.budget \in Nat /\ st.emitted \in Nat
  BY <1>1, <1>2 DEF EpochState
<1> HIDE DEF st, w, E
<1>6. st.emitted + w <= st.budget
  <2>1. w <= Remaining(st)
    BY <1>2, <1>4
  <2> QED BY <1>4, <1>5, <2>1 DEF Remaining, Upper
<1>7. ASSUME NEW e \in Nat
      PROVE  /\ Held(amount', epoch', freed', e) = Held(amount, epoch, freed, e) + (IF e = E THEN w ELSE 0)
             /\ Late(amount', epoch', freed', e) = Late(amount, epoch, freed, e)
             /\ Held(amount, epoch, freed, e) \in Nat /\ Late(amount, epoch, freed, e) \in Nat
  <2>1. Held(amount, epoch, freed, e) \in Nat /\ Late(amount, epoch, freed, e) \in Nat
    BY BooksNat DEF TypeOK
  <2>2. /\ amount'[c] = w /\ epoch'[c] = E /\ freed' = freed
        /\ \A d \in Call : /\ amount[d] \in Nat /\ amount'[d] \in Nat
                           /\ d # c => amount'[d] = amount[d] /\ epoch'[d] = epoch[d]
    BY <1>2, <1>4, <1>5 DEF TypeOK
  <2>3. /\ Held(amount', epoch', freed', e)
             = Held(amount, epoch, freed, e) + (IF e = epoch'[c] THEN amount'[c] ELSE 0)
        /\ Late(amount', epoch', freed', e) = Late(amount, epoch, freed, e)
    <3>1. amount'[c] > 0
      BY <1>4, <2>2
    <3> QED BY <1>3, <2>2, <3>1, BooksReserve
  <2> QED BY <2>1, <2>2, <2>3
<1>8. Held(amount', epoch', freed', E) <= st.emitted + w + Late(amount', epoch', freed', E)
  BY <1>1, <1>4, <1>5, <1>7 DEF Covered, E
<1>9. Covered(amount', epoch', freed', gate') /\ durable' = gate'
  BY <1>2, <1>5, <1>6, <1>8 DEF Covered
<1>10. Capped(amount', epoch', freed', cap')
  <2> SUFFICES ASSUME NEW d \in Call, amount'[d] > 0
               PROVE  Held(amount', epoch', freed', epoch'[d]) <= cap'[d] + Late(amount', epoch', freed', epoch'[d])
    BY DEF Capped
  <2>0. epoch'[d] \in Nat /\ epoch[d] \in Nat
    BY <1>2, <1>5 DEF TypeOK
  <2>1. CASE epoch'[d] = E
    <3>1. cap'[d] = st.budget
      BY <1>2, <1>5, <2>1 DEF FrozenInv, Reserved
    <3> QED BY <1>4, <1>5, <1>6, <1>7, <1>8, <2>1, <3>1
  <2>2. CASE epoch'[d] # E
    <3>1. d # c /\ epoch'[d] = epoch[d] /\ cap'[d] = cap[d] /\ amount'[d] = amount[d]
      BY <1>2, <1>5, <2>2 DEF TypeOK
    <3>2. Held(amount, epoch, freed, epoch[d]) <= cap[d] + Late(amount, epoch, freed, epoch[d])
      BY <3>1, CeilingBooks DEF Capped
    <3> QED BY <1>7, <2>0, <2>2, <3>1, <3>2
  <2> QED BY <2>1, <2>2
<1> QED BY <1>9, <1>10, CeilingBooks

\* The release of a reservation of the gate's period lowers what the period
\* holds; that of an older one goes to the account of the late ones.
LEMMA CeilingRelease ==
    ASSUME TypeOK, CeilingInv, CallBooks', NEW c \in Call, Release(c)
    PROVE  CeilingInv'
<1> DEFINE G == gate.epoch_id
           a == amount[c]
<1>1. /\ gate' = [gate EXCEPT !.emitted = Released(c)]
      /\ durable' = gate' \/ durable' = durable
      /\ freed' = [freed EXCEPT ![c] = G]
      /\ UNCHANGED <<amount, epoch, cap>>
      /\ pc[c] = "release"
  BY DEF Release, PersistLocked, book
<1>2. a > 0 /\ freed[c] = Never /\ a \in Nat /\ epoch[c] \in Nat
  BY <1>1 DEF CeilingInv, CallBooks, TypeOK
<1>3. /\ G \in Nat /\ gate.emitted \in Nat /\ gate.budget \in Nat
      /\ durable.epoch_id \in Nat /\ durable.emitted \in Nat
      /\ gate'.epoch_id = G /\ gate'.budget = gate.budget /\ gate'.emitted = Released(c)
  BY <1>1 DEF TypeOK, EpochState
<1>4. /\ Released(c) \in Nat /\ Released(c) <= gate.emitted
      /\ Released(c) >= gate.emitted - a
  BY <1>2, <1>3 DEF Released, Upper
<1> HIDE DEF G, a
<1>5. ASSUME NEW e \in Nat
      PROVE  /\ Held(amount', epoch', freed', e)
                  = Held(amount, epoch, freed, e) - (IF e = epoch[c] THEN a ELSE 0)
             /\ Late(amount', epoch', freed', e)
                  = Late(amount, epoch, freed, e) + (IF e = G /\ epoch[c] # G THEN a ELSE 0)
             /\ Held(amount, epoch, freed, e) \in Nat /\ Late(amount, epoch, freed, e) \in Nat
  <2>1. Held(amount, epoch, freed, e) \in Nat /\ Late(amount, epoch, freed, e) \in Nat
    BY BooksNat DEF TypeOK
  <2>2. /\ freed'[c] = G /\ freed'[c] # Never /\ \A d \in Call : amount[d] \in Nat
        /\ \A d \in Call : d # c => freed'[d] = freed[d]
    BY <1>1, <1>3 DEF TypeOK, Never
  <2>3. /\ Held(amount', epoch', freed', e)
             = Held(amount, epoch, freed, e) - (IF e = epoch[c] THEN amount[c] ELSE 0)
        /\ Late(amount', epoch', freed', e)
             = Late(amount, epoch, freed, e)
                 + (IF e = freed'[c] /\ epoch[c] # e THEN amount[c] ELSE 0)
    BY <1>1, <1>2, <2>2, BooksRelease DEF a
  <2> QED BY <2>1, <2>2, <2>3 DEF a
<1>6. Covered(amount', epoch', freed', gate')
  <2>1. gate.emitted <= gate.budget /\ Held(amount, epoch, freed, G) <= gate.emitted + Late(amount, epoch, freed, G)
    BY CeilingBooks DEF Covered, G
  <2>2. Held(amount', epoch', freed', G) <= Released(c) + Late(amount', epoch', freed', G)
    <3>1. CASE epoch[c] = G
      BY <1>2, <1>3, <1>4, <1>5, <2>1, <3>1
    <3>2. CASE epoch[c] # G
      BY <1>2, <1>3, <1>4, <1>5, <2>1, <3>2
    <3> QED BY <3>1, <3>2
  <2> QED BY <1>3, <1>4, <2>1, <2>2 DEF Covered
<1>7. ASSUME NEW e \in Nat, NEW n \in Nat,
             Held(amount, epoch, freed, e) <= n + Late(amount, epoch, freed, e)
      PROVE  Held(amount', epoch', freed', e) <= n + Late(amount', epoch', freed', e)
  BY <1>2, <1>5, <1>7
<1>8. Covered(amount', epoch', freed', durable')
  <2>1. CASE durable' = gate'
    BY <1>6, <2>1
  <2>2. CASE durable' = durable
    BY <1>3, <1>7, <2>2, CeilingBooks DEF Covered
  <2> QED BY <1>1, <2>1, <2>2
<1>9. Capped(amount', epoch', freed', cap')
  <2> SUFFICES ASSUME NEW d \in Call, amount[d] > 0
               PROVE  Held(amount', epoch', freed', epoch[d]) <= cap[d] + Late(amount', epoch', freed', epoch[d])
    BY <1>1 DEF Capped
  <2>1. epoch[d] \in Nat /\ cap[d] \in Nat
    BY DEF TypeOK
  <2> QED BY <1>7, <2>1, CeilingBooks DEF Capped
<1> QED BY <1>6, <1>8, <1>9, CeilingBooks

LEMMA CeilingStep ==
    ASSUME TypeOK, FrozenInv, FrozenInv', CeilingInv, [Next]_vars
    PROVE  CeilingInv'
<1> USE DEF world, local, book
<1>0. CallBooks'
  BY CallBooksStep DEF CeilingInv
<1>1. ASSUME UNCHANGED <<amount, epoch, cap, freed, durable>>,
             Covered(amount, epoch, freed, gate')
      PROVE  CeilingInv'
  <2>1. Covered(amount', epoch', freed', gate')
    BY <1>1
  <2>2. Covered(amount', epoch', freed', durable') /\ Capped(amount', epoch', freed', cap')
    BY <1>1, CeilingBooks
  <2> QED BY <1>0, <2>1, <2>2, CeilingBooks
<1>2. ASSUME NEW c \in Call, ReserveNothing(c) \/ ReserveFails(c) PROVE CeilingInv'
  <2>1. gate' = Rolled(c) /\ UNCHANGED <<amount, epoch, cap, freed, durable>>
    BY <1>2 DEF ReserveNothing, ReserveFails
  <2> QED BY <1>1, <2>1, RolledCovered
<1>3. ASSUME NEW c \in Call, Reserve(c) PROVE CeilingInv'
  BY <1>0, <1>3, CeilingReserve
<1>4. ASSUME NEW c \in Call, Release(c) PROVE CeilingInv'
  BY <1>0, <1>4, CeilingRelease
<1>5. CASE Crash
  <2>1. gate' = durable /\ UNCHANGED <<amount, epoch, cap, freed, durable>>
    BY <1>5 DEF Crash
  <2> QED BY <1>1, <2>1, CeilingBooks
<1>6. ASSUME UNCHANGED <<amount, epoch, cap, freed, gate, durable>> PROVE CeilingInv'
  BY <1>1, <1>6, CeilingBooks
<1>7. ASSUME NEW c \in Call,
             Begin(c) \/ Enter(c) \/ Burn(c) \/ Mint(c) \/ Fail(c) \/ Store(c) \/ Drop(c)
      PROVE  CeilingInv'
  BY <1>6, <1>7 DEF Begin, Enter, Burn, Mint, Fail, Store, Drop
<1>8. CASE Govern \/ SetClock \/ UNCHANGED vars
  BY <1>6, <1>8 DEF Govern, SetClock, vars
<1> QED BY <1>2, <1>3, <1>4, <1>5, <1>7, <1>8 DEF Next

\* What was emitted in a period is part of what its reservations hold.
LEMMA CeilingOfBooks ==
    ASSUME TypeOK, CeilingInv
    PROVE  CeilingButLate
<1> SUFFICES ASSUME NEW c \in Reserved
             PROVE  EmittedIn(epoch[c]) <= cap[c] + FreedLate(epoch[c])
  BY DEF CeilingButLate
<1> DEFINE R == Unreleased(epoch[c])
           M == {d \in Reserved : epoch[d] = epoch[c] /\ pc[d] \in {"minted", "stored", "lost"}}
           L == GivenBackLate(epoch[c])
<1>1. M \subseteq R /\ R \subseteq Call /\ M \subseteq Call /\ L \subseteq Call
  BY DEF CeilingInv, CallBooks, Unreleased, GivenBackLate, Reserved
<1>2. Total(R) <= cap[c] + Total(L) /\ cap[c] \in Nat
  BY DEF CeilingInv, FreedLate, Reserved, TypeOK
<1>3. EmittedIn(epoch[c]) = Total(M) /\ FreedLate(epoch[c]) = Total(L)
  BY DEF EmittedIn, FreedLate
<1> HIDE DEF R, M, L
<1>4. IsFiniteSet(R) /\ IsFiniteSet(M) /\ IsFiniteSet(L) /\ \A d \in Call : amount[d] \in Nat
  BY <1>1, CallAssumption, FS_Subset DEF TypeOK
<1>5. Total(M) <= Total(R)
  BY <1>1, <1>4, SumSubset DEF Total
<1>6. Total(M) \in Nat /\ Total(R) \in Nat /\ Total(L) \in Nat
  BY <1>1, <1>4, SumNat DEF Total
<1> QED BY <1>2, <1>3, <1>5, <1>6

\* P1 for every number of calls: what a period emits exceeds its budget by no
\* more than the older reservations released into it, through clock jumps,
\* governance, dropped requests, failed writes of the counter and crashes.
THEOREM CeilingKept == Spec => []CeilingButLate
<1>1. Init => FrozenInv /\ CeilingInv
  <2> SUFFICES ASSUME Init PROVE FrozenInv /\ CeilingInv
    OBVIOUS
  <2>1. FrozenInv
    BY DEF Init, FrozenInv, BudgetFrozen, Reserved, DefaultState
  <2>2. \A e : Unreleased(e) = {} /\ GivenBackLate(e) = {}
    BY DEF Init, Unreleased, GivenBackLate, Reserved
  <2>3. \A e : Total(Unreleased(e)) = 0 /\ FreedLate(e) = 0
    BY <2>2, SumEmpty DEF Total, FreedLate
  <2>4. CallBooks /\ Reserved = {}
    BY DEF Init, CallBooks, Reserved
  <2>5. Covers(gate) /\ Covers(durable)
    BY <2>3 DEF Init, Covers, DefaultState
  <2> QED BY <2>1, <2>4, <2>5 DEF CeilingInv
<1>2. TypeOK /\ FrozenInv /\ CeilingInv /\ [Next]_vars => FrozenInv' /\ CeilingInv'
  BY FrozenStep, CeilingStep
<1>3. TypeOK /\ CeilingInv => CeilingButLate
  BY CeilingOfBooks
<1> QED BY <1>1, <1>2, <1>3, EmissionTypes, PTL DEF Spec

-----------------------------------------------------------------------------
(* The registry of nodes.                                                  *)

LEMMA FeeConstants ==
    /\ FreshnessMs \in Nat /\ NodeTtl \in Nat /\ NodeTtl > 2 * FreshnessMs
    /\ BpsScale \in Nat \ {0} /\ PctScale \in Nat \ {0} /\ TreasuryPct \in Nat /\ TreasuryPct <= PctScale
    /\ GlobalBurn \in Nat /\ GasPerTx \in Nat /\ GasMin \in Nat
    /\ NoWallet \notin PayWallet
BY FeeAssumption

\* The clean-up keeps what it does not remove, and removes only what was last
\* seen a whole NodeTtl ago.
LEMMA CleanedUp ==
    ASSUME NodeTypes, NEW n \in FeeNode
    PROVE  /\ CleanupStale(feRegistry) \in RegistryType
           /\ \/ /\ feRegistry[n].seen # NoTime /\ feClock - feRegistry[n].seen < NodeTtl
                 /\ CleanupStale(feRegistry)[n] = feRegistry[n]
              \/ /\ feRegistry[n].seen = NoTime \/ feClock - feRegistry[n].seen >= NodeTtl
                 /\ CleanupStale(feRegistry)[n] = NotRegistered
BY FeeConstants DEF NodeTypes, RegistryType, CleanupStale, NotRegistered, NoTime

\* A registration of n forgets no newer one of any node.
LEMMA RegisterKeeps ==
    ASSUME NodeTypes, RegistryInv, NEW n \in FeeNode, NEW w \in PayWallet \cup {NoWallet},
           NEW m \in FeeNode
    PROVE  LET r == Register(feRegistry, n, w)
           IN /\ r \in RegistryType
              /\ r[m].auth >= feNewest[m] \/ feNewest[m] + FreshnessMs < feClock
              /\ IF r[m].seen = NoTime THEN r[m].auth = NoTime
                 ELSE r[m].seen <= feClock /\ feNewest[m] <= r[m].seen + FreshnessMs
<1> DEFINE r == Register(feRegistry, n, w)
           k == CleanupStale(feRegistry)
<1>1. k \in RegistryType /\ r \in RegistryType
  BY CleanedUp DEF Register, RegistryType, NodeTypes
<1>2. /\ r[m].auth = k[m].auth
      /\ r[m].seen = IF m = n THEN feClock ELSE k[m].seen
  BY <1>1 DEF Register, RegistryType
<1>3. /\ feNewest[m] \in Int /\ feClock \in Nat /\ feRegistry[m].seen \in Int /\ feRegistry[m].auth \in Int
      /\ Remembered(m)
      /\ IF feRegistry[m].seen = NoTime THEN feRegistry[m].auth = NoTime
         ELSE feRegistry[m].seen <= feClock /\ feNewest[m] <= feRegistry[m].seen + FreshnessMs
  BY DEF NodeTypes, RegistryType, RegistryInv
<1>4. feNewest[m] <= feClock + FreshnessMs
  <2>1. CASE feRegistry[m].seen # NoTime
    BY <1>3, <2>1, FeeConstants
  <2>2. CASE feRegistry[m].seen = NoTime
    BY <1>3, <2>2, FeeConstants DEF Remembered, NoTime
  <2> QED BY <2>1, <2>2
<1>5. CASE k[m] = feRegistry[m] /\ feRegistry[m].seen # NoTime
  BY <1>1, <1>2, <1>3, <1>4, <1>5 DEF Remembered, NoTime
<1>6. CASE /\ k[m] = NotRegistered
           /\ feRegistry[m].seen = NoTime \/ feClock - feRegistry[m].seen >= NodeTtl
  <2>1. feNewest[m] <= NoTime \/ feNewest[m] + FreshnessMs < feClock
    BY <1>3, <1>6, FeeConstants DEF Remembered, NoTime
  <2> QED BY <1>1, <1>2, <1>3, <1>4, <1>6, <2>1 DEF NotRegistered, NoTime
<1> QED BY <1>5, <1>6, CleanedUp

LEMMA NodeFrame ==
    ASSUME NodeTypes, RegistryInv, UNCHANGED <<feRegistry, feSigned, feNewest>>,
           feClock' \in Nat, feClock <= feClock'
    PROVE  NodeTypes' /\ RegistryInv'
<1>1. NodeTypes'
  BY DEF NodeTypes
<1>2. \A n \in FeeNode : /\ feNewest[n] \in Int
                         /\ feRegistry[n].seen \in Int /\ feRegistry[n].auth \in Int
  BY DEF NodeTypes, RegistryType
<1> QED BY <1>1, <1>2, FeeConstants DEF NodeTypes, RegistryInv, Remembered, NoTime

\* What NewestRegistrationWins allows a step.
NoReplay == \A n \in FeeNode : feNewest'[n] >= feNewest[n] \/ feBoots' # feBoots

LEMMA SignedRegistration ==
    ASSUME NodeTypes, RegistryInv, NEW m \in feSigned, RegisterSigned(m)
    PROVE  NodeTypes' /\ RegistryInv' /\ NoReplay
<1> DEFINE r == Register(feRegistry, m.node, m.wallet)
           a == m.node
<1>1. m.node \in FeeNode /\ m.wallet \in PayWallet \cup {NoWallet} /\ m.ts \in Nat
  BY DEF NodeTypes
<1>2. /\ feRegistry' = [r EXCEPT ![a].auth = m.ts]
      /\ feNewest' = [feNewest EXCEPT ![a] = m.ts]
      /\ feClock - m.ts <= FreshnessMs /\ m.ts - feClock <= FreshnessMs /\ NotReplayed(m)
      /\ UNCHANGED <<feSigned, feClock>>
  BY DEF RegisterSigned, Fresh
<1>3. r \in RegistryType /\ r[a].seen = feClock
  <2>1. r \in RegistryType
    BY <1>1, RegisterKeeps
  <2> QED BY <1>1, <2>1, CleanedUp DEF Register, RegistryType
<1>4. m.ts >= feNewest[a]
  <2>1. /\ feNewest[a] \in Int /\ feClock \in Nat
        /\ feRegistry[a].seen \in Int /\ feRegistry[a].auth \in Int /\ Remembered(a)
        /\ IF feRegistry[a].seen = NoTime THEN feRegistry[a].auth = NoTime
           ELSE feRegistry[a].seen <= feClock /\ feNewest[a] <= feRegistry[a].seen + FreshnessMs
    BY <1>1 DEF NodeTypes, RegistryType, RegistryInv
  <2>2. CASE CleanupStale(feRegistry)[a] = feRegistry[a] /\ feRegistry[a].seen # NoTime
    <3>1. m.ts > feRegistry[a].auth
      BY <1>2, <2>2 DEF NotReplayed
    <3> QED BY <1>1, <1>2, <2>1, <3>1, FeeConstants DEF Remembered
  <2>3. CASE feRegistry[a].seen = NoTime \/ feClock - feRegistry[a].seen >= NodeTtl
    BY <1>1, <1>2, <2>1, <2>3, FeeConstants DEF Remembered, NoTime
  <2> QED BY <1>1, <2>2, <2>3, CleanedUp
<1>5. NodeTypes'
  BY <1>1, <1>2, <1>3 DEF NodeTypes, RegistryType
<1>6. NoReplay
  BY <1>1, <1>2, <1>4 DEF NoReplay, NodeTypes
<1>7. ASSUME NEW n \in FeeNode
      PROVE  /\ Remembered(n)'
             /\ IF feRegistry'[n].seen = NoTime THEN feRegistry'[n].auth = NoTime
                ELSE feRegistry'[n].seen <= feClock' /\ feNewest'[n] <= feRegistry'[n].seen + FreshnessMs
  <2>1. CASE n = a
    <3>1. feRegistry'[n].auth = m.ts /\ feRegistry'[n].seen = feClock /\ feNewest'[n] = m.ts
      BY <1>1, <1>2, <1>3, <2>1 DEF RegistryType, NodeTypes
    <3> QED BY <1>1, <1>2, <3>1, FeeConstants DEF Remembered, NodeTypes, NoTime
  <2>2. CASE n # a
    <3>1. feRegistry'[n] = r[n] /\ feNewest'[n] = feNewest[n]
      BY <1>1, <1>2, <1>3, <2>2 DEF RegistryType, NodeTypes
    <3>2. /\ r[n].auth >= feNewest[n] \/ feNewest[n] + FreshnessMs < feClock
          /\ IF r[n].seen = NoTime THEN r[n].auth = NoTime
             ELSE r[n].seen <= feClock /\ feNewest[n] <= r[n].seen + FreshnessMs
      BY <1>1, RegisterKeeps
    <3>3. r[n].auth \in Int /\ feNewest[n] \in Int
      BY <1>3 DEF RegistryType, NodeTypes
    <3> QED BY <1>2, <3>1, <3>2, <3>3 DEF Remembered
  <2> QED BY <2>1, <2>2
<1> QED BY <1>5, <1>6, <1>7 DEF RegistryInv

LEMMA RegistryStep ==
    ASSUME NodeTypes, RegistryInv, [(FeeNext \/ NodeNext \/ CellNext) /\ UNCHANGED feTreasury]_feVars
    PROVE  NodeTypes' /\ RegistryInv' /\ (NoReplay \/ UNCHANGED feVars)
<1>0. \A n \in FeeNode : feNewest[n] \in Int
  BY DEF NodeTypes
<1>1. ASSUME UNCHANGED feNodeVars PROVE NodeTypes' /\ RegistryInv' /\ NoReplay
  <2>1. UNCHANGED <<feRegistry, feSigned, feNewest, feClock>> /\ feClock \in Nat
    BY <1>1 DEF feNodeVars, NodeTypes
  <2> QED BY <1>0, <2>1, NodeFrame DEF NoReplay
<1>2. CASE UNCHANGED feVars
  BY <1>1, <1>2 DEF feVars
<1>3. CASE FeeRestart
  <2>1. /\ feRegistry' = [n \in FeeNode |-> NotRegistered] /\ feNewest' = [n \in FeeNode |-> NoTime]
        /\ feBoots' = feBoots + 1 /\ UNCHANGED <<feSigned, feClock>>
    BY <1>3 DEF FeeRestart
  <2>2. NodeTypes' /\ RegistryInv'
    BY <2>1 DEF NodeTypes, RegistryInv, RegistryType, Remembered, NotRegistered, NoTime
  <2>3. NoReplay
    <3> SUFFICES ASSUME NEW n \in FeeNode PROVE feNewest'[n] >= feNewest[n] \/ feBoots' # feBoots
      BY DEF NoReplay
    <3> QED BY <2>1
  <2> QED BY <2>2, <2>3
<1>4. CASE FeeNext /\ ~FeeRestart
  <2>1. UNCHANGED feNodeVars
    BY <1>4 DEF FeeNext, AccumulateTxFee, AccumulateRefund, DistributeStart, CountBurn, BuildOutputs,
                RewardInserted, RewardRefused, RequestDropped, ToggleReadOnly, SetBurnRate
  <2> QED BY <1>1, <2>1
<1>5. CASE CellNext /\ ~FeeRestart
  <2>1. UNCHANGED feNodeVars
    BY <1>5 DEF CellNext, GasBegin, RewardPoolBegin, CellCommit, CountBlock, MilestoneRewards
  <2> QED BY <1>1, <2>1
<1>6. ASSUME NEW n \in FeeNode, NEW w \in PayWallet \cup {NoWallet},
             NEW ts \in feClock .. feClock + FreshnessMs, SignRegistration(n, w, ts)
      PROVE  NodeTypes' /\ RegistryInv' /\ NoReplay
  <2>1. /\ feSigned' = feSigned \cup {[node |-> n, wallet |-> w, ts |-> ts]}
        /\ UNCHANGED <<feRegistry, feClock, feNewest>>
    BY <1>6 DEF SignRegistration
  <2>2. ts \in Nat
    BY FeeConstants DEF NodeTypes
  <2> QED BY <1>0, <2>1, <2>2 DEF NodeTypes, RegistryInv, Remembered, NoReplay
<1>7. ASSUME NEW n \in FeeNode, NEW w \in PayWallet, RegisterAdmin(n, w)
      PROVE  NodeTypes' /\ RegistryInv' /\ NoReplay
  <2>1. feRegistry' = Register(feRegistry, n, w) /\ UNCHANGED <<feSigned, feClock, feNewest>>
    BY <1>7 DEF RegisterAdmin
  <2>2. feRegistry' \in RegistryType
    BY <2>1, RegisterKeeps
  <2>3. ASSUME NEW k \in FeeNode
        PROVE  /\ Remembered(k)'
               /\ IF feRegistry'[k].seen = NoTime THEN feRegistry'[k].auth = NoTime
                  ELSE feRegistry'[k].seen <= feClock' /\ feNewest'[k] <= feRegistry'[k].seen + FreshnessMs
    <3>1. /\ feRegistry'[k].auth >= feNewest[k] \/ feNewest[k] + FreshnessMs < feClock
          /\ IF feRegistry'[k].seen = NoTime THEN feRegistry'[k].auth = NoTime
             ELSE feRegistry'[k].seen <= feClock /\ feNewest[k] <= feRegistry'[k].seen + FreshnessMs
      BY <2>1, RegisterKeeps
    <3>2. feRegistry'[k].auth \in Int /\ feNewest[k] \in Int
      BY <1>0, <2>2 DEF RegistryType
    <3> QED BY <2>1, <3>1, <3>2 DEF Remembered
  <2> QED BY <1>0, <2>1, <2>2, <2>3 DEF NodeTypes, RegistryInv, NoReplay
<1>8. CASE FeeTick
  <2>1. feClock' = feClock + 1 /\ UNCHANGED <<feRegistry, feSigned, feNewest>> /\ feClock \in Nat
    BY <1>8 DEF FeeTick, NodeTypes
  <2> QED BY <1>0, <2>1, NodeFrame DEF NoReplay
<1>9. ASSUME NEW m \in feSigned, RegisterSigned(m) PROVE NodeTypes' /\ RegistryInv' /\ NoReplay
  BY <1>9, SignedRegistration
<1> QED BY <1>2, <1>3, <1>4, <1>5, <1>6, <1>7, <1>8, <1>9 DEF NodeNext

\* While the process runs, a registration that a node signed is never followed
\* by one it signed earlier, whatever the network repeats and however the
\* admin path, the clean-up of stale nodes and the clock come in between
\* (try_register_authenticated).
THEOREM NoReplayedRegistration == FeeSpec => NewestRegistrationWins
<1>1. FeeInit => NodeTypes /\ RegistryInv
  BY DEF FeeInit, NodeTypes, RegistryInv, RegistryType, Remembered, NotRegistered, NoTime
<1>2. NodeTypes /\ RegistryInv /\ [(FeeNext \/ NodeNext \/ CellNext) /\ UNCHANGED feTreasury]_feVars
        => (NodeTypes /\ RegistryInv)' /\ (NoReplay \/ UNCHANGED feVars)
  BY RegistryStep
<1> QED BY <1>1, <1>2, PTL DEF FeeSpec, NewestRegistrationWins, NoReplay

-----------------------------------------------------------------------------
(* The arithmetic of a distribution.                                       *)

\* Rounding to the nearest moves a quotient by half a unit at most.
LEMMA RoundNear ==
    ASSUME NEW a \in Nat, NEW b \in Nat \ {0}
    PROVE  /\ RoundShare(a, b) \in Nat
           /\ 2 * (b * RoundShare(a, b) - a) <= b
           /\ 2 * (a - b * RoundShare(a, b)) <= b
           /\ a = 0 => RoundShare(a, b) = 0
<1> DEFINE q == a \div b
           m == a % b
<1>1. q \in Nat /\ m \in Nat /\ m < b /\ a = b * q + m
  OBVIOUS
<1>2. b * (q + 1) = b * q + b /\ b * q \in Nat
  BY <1>1
<1>3. a = 0 => m = 0 /\ q = 0
  BY <1>1
<1>4. RoundShare(a, b) = IF 2 * m > b \/ (2 * m = b /\ q % 2 = 1) THEN q + 1 ELSE q
  BY DEF RoundShare
<1> HIDE DEF q, m
<1>5. CASE 2 * m > b \/ (2 * m = b /\ q % 2 = 1)
  BY <1>1, <1>2, <1>3, <1>4, <1>5
<1>6. CASE ~(2 * m > b \/ (2 * m = b /\ q % 2 = 1))
  BY <1>1, <1>2, <1>3, <1>4, <1>6
<1> QED BY <1>5, <1>6

\* A rounded part of a whole is no more than the whole.
LEMMA RoundPart ==
    ASSUME NEW t \in Nat, NEW m \in Nat, NEW b \in Nat \ {0}, m <= b
    PROVE  RoundShare(t * m, b) \in Nat /\ RoundShare(t * m, b) <= t
<1> DEFINE R == RoundShare(t * m, b)
<1>1. t * m \in Nat /\ t * m <= b * t
  <2>1. PICK k \in Nat : b = m + k
    <3>1. b - m \in Nat /\ b = m + (b - m)
      OBVIOUS
    <3> QED BY <3>1
  <2>2. b * t = t * m + t * k /\ t * k \in Nat /\ t * m \in Nat
    BY <2>1
  <2> QED BY <2>2
<1>2. R \in Nat /\ 2 * (b * R - t * m) <= b
  BY <1>1, RoundNear
<1> HIDE DEF R
<1>3. ASSUME R >= t + 1 PROVE FALSE
  <2>1. PICK k \in Nat : R = t + 1 + k
    <3>1. R - t - 1 \in Nat /\ R = t + 1 + (R - t - 1)
      BY <1>2, <1>3
    <3> QED BY <3>1
  <2>2. b * R = b * t + b + b * k /\ b * k \in Nat /\ b * t \in Nat
    BY <2>1
  <2> QED BY <1>1, <1>2, <2>2
<1> QED BY <1>2, <1>3 DEF R

LEMMA BurnPart ==
    ASSUME NEW t \in Nat, feBurnRate \in Nat
    PROVE  CalculateFeeBurn(t) \in Nat /\ CalculateFeeBurn(t) <= t
<1> DEFINE m == Min({LoadBurnRateBps, BpsScale})
<1>1. LoadBurnRateBps \in Nat
  BY FeeAssumption DEF LoadBurnRateBps, EffectiveBurn, NotSet
<1>2. m \in Nat /\ m <= BpsScale
  <2>1. \E x \in {LoadBurnRateBps, BpsScale} : \A y \in {LoadBurnRateBps, BpsScale} : x =< y
    BY <1>1, FeeConstants
  <2>2. m \in {LoadBurnRateBps, BpsScale} /\ \A y \in {LoadBurnRateBps, BpsScale} : m =< y
    BY <2>1 DEF Min
  <2> QED BY <1>1, <2>2, FeeConstants
<1> HIDE DEF m
<1> QED BY <1>2, RoundPart, FeeConstants DEF CalculateFeeBurn, m

LEMMA CutPart ==
    ASSUME NEW t \in Nat
    PROVE  TreasuryCut(t) \in Nat /\ TreasuryCut(t) <= t
<1>1. CASE feTreasury = NoWallet
  BY <1>1 DEF TreasuryCut
<1>2. CASE feTreasury # NoWallet
  BY <1>2, RoundPart, FeeConstants DEF TreasuryCut
<1> QED BY <1>1, <1>2

\* Shares that each differ from their exact value by half a unit differ in sum by half
\* a unit per share that is not zero.
LEMMA SharesNear ==
    ASSUME NEW f, NEW by, NEW S, IsFiniteSet(S), NEW B \in Nat, NEW r \in Nat,
           \A x \in S : /\ f[x] \in Nat /\ by[x] \in Nat
                        /\ 2 * (B * f[x] - r * by[x]) <= IF by[x] > 0 THEN B ELSE 0
                        /\ 2 * (r * by[x] - B * f[x]) <= IF by[x] > 0 THEN B ELSE 0
    PROVE  LET F == SumFunctionOnSet(f, S)
               Y == SumFunctionOnSet(by, S)
               k == Cardinality({x \in S : by[x] > 0})
           IN 2 * (B * F - r * Y) <= B * k /\ 2 * (r * Y - B * F) <= B * k
<1> DEFINE F(T) == SumFunctionOnSet(f, T)
           Y(T) == SumFunctionOnSet(by, T)
           K(T) == Cardinality({x \in T : by[x] > 0})
           Near(T) == 2 * (B * F(T) - r * Y(T)) <= B * K(T) /\ 2 * (r * Y(T) - B * F(T)) <= B * K(T)
           Good == {T \in SUBSET S : Near(T)}
<1>1. {} \in Good
  <2>1. F({}) = 0 /\ Y({}) = 0
    BY SumEmpty
  <2>2. {x \in {} : by[x] > 0} = {}
    OBVIOUS
  <2>3. K({}) = 0
    BY <2>2, FS_EmptySet
  <2> HIDE DEF F, Y, K
  <2> QED BY <2>1, <2>3
<1>2. ASSUME NEW T \in SUBSET S, T # {}, \A x \in T : T \ {x} \in Good
      PROVE  T \in Good
  <2>1. PICK a \in T : TRUE
    BY <1>2
  <2> DEFINE R == T \ {a}
  <2>2. IsFiniteSet(T) /\ IsFiniteSet(R) /\ R \in SUBSET S /\ IsFiniteSet({x \in R : by[x] > 0})
    BY FS_Subset
  <2>3. F(T) = f[a] + F(R) /\ Y(T) = by[a] + Y(R)
    <3>1. \A x \in T : f[x] \in Int /\ by[x] \in Int
      OBVIOUS
    <3>2. SumFunctionOnSet(f, T) = f[a] + SumFunctionOnSet(f, T \ {a})
      BY <2>2, <3>1, SumRemove
    <3>3. SumFunctionOnSet(by, T) = by[a] + SumFunctionOnSet(by, T \ {a})
      BY <2>2, <3>1, SumRemove
    <3> QED BY <3>2, <3>3
  <2>4. F(R) \in Nat /\ Y(R) \in Nat /\ K(R) \in Nat
    BY <2>2, SumNat, FS_CardinalityType
  <2>5. K(T) = K(R) + IF by[a] > 0 THEN 1 ELSE 0
    <3>1. CASE by[a] > 0
      <4>1. {x \in T : by[x] > 0} = {x \in R : by[x] > 0} \cup {a} /\ a \notin {x \in R : by[x] > 0}
        BY <3>1
      <4> QED BY <2>2, <3>1, <4>1, FS_AddElement
    <3>2. CASE ~(by[a] > 0)
      <4>1. {x \in T : by[x] > 0} = {x \in R : by[x] > 0}
        BY <3>2
      <4>2. K(T) = K(R)
        BY <4>1
      <4> HIDE DEF K
      <4> QED BY <2>4, <3>2, <4>2
    <3> QED BY <3>1, <3>2
  <2>6. Near(R)
    BY <1>2
  <2>7. /\ f[a] \in Nat /\ by[a] \in Nat
        /\ 2 * (B * f[a] - r * by[a]) <= IF by[a] > 0 THEN B ELSE 0
        /\ 2 * (r * by[a] - B * f[a]) <= IF by[a] > 0 THEN B ELSE 0
    OBVIOUS
  <2> HIDE DEF F, Y, K, R
  <2>8. B * F(T) = B * f[a] + B * F(R) /\ r * Y(T) = r * by[a] + r * Y(R)
    BY <2>3, <2>4, <2>7
  <2>9. B * K(T) = B * K(R) + IF by[a] > 0 THEN B ELSE 0
    BY <2>4, <2>5
  <2>10. /\ B * f[a] \in Int /\ B * F(R) \in Int /\ r * by[a] \in Int /\ r * Y(R) \in Int /\ B * K(R) \in Int
    BY <2>4, <2>7
  <2>11. Near(T)
    BY <2>6, <2>7, <2>8, <2>9, <2>10
  <2> QED BY <2>11
<1> HIDE DEF Good
<1>3. \A T \in SUBSET S : T \in Good
  BY <1>1, <1>2, SubsetInduction
<1> QED BY <1>3 DEF Good

\* The outputs of a reward block are worth the snapshot less what is burnt and what
\* has no payee, but for half a unit per share.
LEMMA OutputsBalanced ==
    ASSUME NEW pool \in PoolType, NEW burnt \in Nat, burnt <= pool.fees, Credited(pool)
    PROVE  /\ OutputsFor(pool, burnt) \in OutsType
           /\ Balanced(pool.fees, OutputsFor(pool, burnt))
           /\ OutputsFor(pool, burnt).refunds = pool.refunds
           /\ OutputsFor(pool, burnt).burnt = burnt
<1> DEFINE cut == TreasuryCut(pool.fees - burnt)
           rest == pool.fees - burnt - cut
           f == [n \in FeeNode |-> ShareOf(pool, n, rest)]
           B == SumFunction(pool.by)
           some == {n \in FeeNode : pool.by[n] > 0}
           payable == {n \in FeeNode : ShareOf(pool, n, rest) > 0}
           paid == {n \in payable : PayeeOf(n) # NoWallet}
           W(S) == SumFunctionOnSet(f, S)
           out == OutputsFor(pool, burnt)
<1>1. /\ pool.fees \in Nat /\ pool.by \in [FeeNode -> Nat] /\ pool.refunds \in [Burner -> Nat]
      /\ IsFiniteSet(FeeNode)
  BY FeeAssumption DEF PoolType
<1>2. cut \in Nat /\ rest \in Nat
  <2>1. pool.fees - burnt \in Nat
    BY <1>1
  <2>2. cut \in Nat /\ cut <= pool.fees - burnt
    BY <2>1, CutPart
  <2> HIDE DEF cut
  <2> QED BY <1>1, <2>1, <2>2
<1>3. B \in Nat /\ B = SumFunctionOnSet(pool.by, FeeNode)
  BY <1>1, SumNat DEF SumFunction
<1>4. out = [refunds |-> pool.refunds, fees |-> cut + W(paid), burnt |-> burnt,
             skipped |-> W(payable \ paid), shares |-> Cardinality(some)]
  BY DEF OutputsFor
<1> HIDE DEF cut, rest, B
<1>5. \A n \in FeeNode : /\ ShareOf(pool, n, rest) \in Nat
                         /\ B > 0 => /\ 2 * (B * f[n] - rest * pool.by[n]) <= IF pool.by[n] > 0 THEN B ELSE 0
                                     /\ 2 * (rest * pool.by[n] - B * f[n]) <= IF pool.by[n] > 0 THEN B ELSE 0
                         /\ B = 0 => f[n] = 0
  <2> SUFFICES ASSUME NEW n \in FeeNode
               PROVE  /\ ShareOf(pool, n, rest) \in Nat
                      /\ B > 0 => /\ 2 * (B * f[n] - rest * pool.by[n]) <= IF pool.by[n] > 0 THEN B ELSE 0
                                  /\ 2 * (rest * pool.by[n] - B * f[n]) <= IF pool.by[n] > 0 THEN B ELSE 0
                      /\ B = 0 => f[n] = 0
    OBVIOUS
  <2>1. f[n] = ShareOf(pool, n, rest) /\ pool.by[n] \in Nat
    BY <1>1
  <2>2. CASE B = 0
    BY <2>1, <2>2 DEF ShareOf, B
  <2>3. CASE B # 0
    <3>1. f[n] = RoundShare(rest * pool.by[n], B) /\ rest * pool.by[n] \in Nat
      BY <1>2, <2>1, <2>3 DEF ShareOf, B
    <3>2. /\ f[n] \in Nat /\ 2 * (B * f[n] - rest * pool.by[n]) <= B
          /\ 2 * (rest * pool.by[n] - B * f[n]) <= B
          /\ rest * pool.by[n] = 0 => f[n] = 0
      BY <1>3, <2>3, <3>1, RoundNear
    <3>3. CASE pool.by[n] > 0
      BY <2>1, <2>3, <3>2, <3>3
    <3>4. CASE pool.by[n] = 0
      <4>1. rest * pool.by[n] = 0 /\ f[n] = 0
        BY <1>2, <3>2, <3>4
      <4>2. B * f[n] = 0
        BY <1>3, <4>1
      <4> QED BY <2>1, <2>3, <3>4, <4>1, <4>2
    <3> QED BY <2>1, <3>3, <3>4
  <2> QED BY <1>3, <2>2, <2>3
<1>6. /\ IsFiniteSet(paid) /\ IsFiniteSet(payable \ paid) /\ IsFiniteSet(payable)
      /\ IsFiniteSet(FeeNode \ payable) /\ IsFiniteSet(some)
  BY <1>1, FS_Subset
<1>7. Cardinality(some) \in Nat
  BY <1>6, FS_CardinalityType
<1>8. W(FeeNode) = W(paid) + W(payable \ paid) /\ W(paid) \in Nat /\ W(payable \ paid) \in Nat
  <2>1. \A n \in FeeNode : f[n] \in Nat /\ f[n] = ShareOf(pool, n, rest)
    BY <1>5
  <2> HIDE DEF f
  <2>2. W(paid) \in Nat /\ W(payable \ paid) \in Nat /\ W(payable) \in Nat
    BY <1>6, <2>1, SumNat
  <2>3. W(FeeNode \ payable) = 0
    BY <1>6, <2>1, SumZero
  <2>4. paid \cup (payable \ paid) = payable /\ payable \cup (FeeNode \ payable) = FeeNode
    OBVIOUS
  <2>5. W(payable) = W(paid) + W(payable \ paid)
    BY <1>6, <2>1, <2>4, SumUnion
  <2>6. W(FeeNode) = W(payable) + W(FeeNode \ payable)
    BY <1>6, <2>1, <2>4, SumUnion
  <2> QED BY <2>2, <2>3, <2>5, <2>6
<1>9. 2 * (W(FeeNode) - rest) <= Cardinality(some) /\ 2 * (rest - W(FeeNode)) <= Cardinality(some)
  <2>1. W(FeeNode) \in Nat
    BY <1>8
  <2>2. CASE B = 0
    <3>1. W(FeeNode) = 0
      BY <1>1, <1>5, <2>2, SumZero
    <3>2. \A n \in FeeNode : pool.by[n] <= 0
      BY <1>1, <1>3, <2>2, SumTerm
    <3>3. pool.fees = 0
      BY <1>1, <3>2 DEF Credited
    <3>4. rest = 0
      BY <1>1, <1>2, <3>3 DEF rest
    <3> QED BY <1>7, <3>1, <3>4
  <2>3. CASE B > 0
    <3>1. /\ 2 * (B * W(FeeNode) - rest * B) <= B * Cardinality(some)
          /\ 2 * (rest * B - B * W(FeeNode)) <= B * Cardinality(some)
      <4>1. \A n \in FeeNode : f[n] \in Nat /\ pool.by[n] \in Nat
        BY <1>1, <1>5
      <4> HIDE DEF f
      <4> QED BY <1>1, <1>2, <1>3, <1>5, <2>3, <4>1, SharesNear
    <3> DEFINE w == W(FeeNode)
               k == Cardinality(some)
    <3>2. w \in Nat /\ k \in Nat /\ 2 * (B * w - rest * B) <= B * k /\ 2 * (rest * B - B * w) <= B * k
      BY <1>7, <2>1, <3>1
    <3> HIDE DEF w, k
    <3>3. ASSUME NEW x \in Int, B * x <= B * k PROVE x <= k
      <4> SUFFICES ASSUME x >= k + 1 PROVE FALSE
        BY <3>2
      <4>1. PICK y \in Nat : x = k + 1 + y
        <5>1. x - k - 1 \in Nat /\ x = k + 1 + (x - k - 1)
          BY <3>2
        <5> QED BY <5>1
      <4>2. B * x = B * k + B + B * y /\ B * y \in Nat /\ B * k \in Nat
        BY <1>3, <3>2, <4>1
      <4> QED BY <1>3, <2>3, <3>3, <4>2
    <3>4. B * (2 * (w - rest)) <= B * k /\ B * (2 * (rest - w)) <= B * k
      BY <1>2, <1>3, <3>2
    <3>5. 2 * (w - rest) \in Int /\ 2 * (rest - w) \in Int
      BY <1>2, <3>2
    <3> QED BY <3>3, <3>4, <3>5 DEF w, k
  <2> QED BY <1>3, <2>2, <2>3
<1>10. out \in OutsType
  BY <1>1, <1>2, <1>4, <1>7, <1>8 DEF OutsType
<1>11. /\ out.fees = cut + W(paid) /\ out.burnt = burnt /\ out.skipped = W(payable \ paid)
       /\ out.shares = Cardinality(some) /\ out.refunds = pool.refunds
  BY <1>4
<1> HIDE DEF out, W, some, payable, paid
<1>12. pool.fees - (out.fees + out.burnt + out.skipped) = rest - W(FeeNode)
  BY <1>1, <1>2, <1>8, <1>11 DEF rest
<1>13. W(FeeNode) \in Int
  BY <1>8
<1>14. Balanced(pool.fees, out)
  BY <1>2, <1>7, <1>9, <1>11, <1>12, <1>13 DEF Balanced
<1> QED BY <1>10, <1>11, <1>14 DEF out

-----------------------------------------------------------------------------
(* The pool and the distributions that swap it out.                        *)

LEMMA EmptyTypes == EmptyPool \in PoolType /\ NoOuts \in OutsType /\ Credited(EmptyPool)
BY DEF EmptyPool, NoOuts, PoolType, OutsType, Credited

LEMMA SnapSums ==
    ASSUME PoolTypes
    PROVE  SumFunction(SnapFees) \in Nat /\ \A w \in Burner : SumFunction(SnapRefunds(w)) \in Nat
<1>1. /\ DOMAIN SnapFees = Distributor /\ \A d \in Distributor : SnapFees[d] \in Nat
      /\ \A w \in Burner : /\ DOMAIN SnapRefunds(w) = Distributor
                            /\ \A d \in Distributor : SnapRefunds(w)[d] \in Nat
  BY DEF SnapFees, SnapRefunds, PoolTypes, PoolType
<1> QED BY <1>1, FeeAssumption, SumNat DEF SumFunction

\* One distribution's snapshot changes the sums by its own change.
LEMMA SnapUpdate ==
    ASSUME PoolTypes, NEW d \in Distributor, NEW p \in PoolType, feSnap' = [feSnap EXCEPT ![d] = p]
    PROVE  /\ SumFunction(SnapFees)' = SumFunction(SnapFees) - feSnap[d].fees + p.fees
           /\ \A w \in Burner :
                SumFunction(SnapRefunds(w))' = SumFunction(SnapRefunds(w)) - feSnap[d].refunds[w] + p.refunds[w]
<1>0. IsFiniteSet(Distributor)
  BY FeeAssumption
<1>1. /\ feSnap \in [Distributor -> PoolType] /\ p.fees \in Nat /\ p.refunds \in [Burner -> Nat]
      /\ \A e \in Distributor : feSnap[e].fees \in Nat /\ feSnap[e].refunds \in [Burner -> Nat]
  BY DEF PoolTypes, PoolType
<1>2. SumFunction(SnapFees)' = SumFunction(SnapFees) - feSnap[d].fees + p.fees
  <2> DEFINE f == [e \in Distributor |-> feSnap[e].fees]
             g == [e \in Distributor |-> feSnap'[e].fees]
  <2>1. /\ \A x \in Distributor : f[x] \in Int
        /\ g[d] \in Int /\ g[d] = p.fees /\ f[d] = feSnap[d].fees
        /\ \A x \in Distributor : x # d => g[x] = f[x]
    BY <1>1
  <2>2. /\ SumFunction(SnapFees)' = SumFunctionOnSet(g, Distributor)
        /\ SumFunction(SnapFees) = SumFunctionOnSet(f, Distributor)
    BY DEF SumFunction, SnapFees
  <2> HIDE DEF f, g
  <2>3. SumFunctionOnSet(g, Distributor) = SumFunctionOnSet(f, Distributor) - f[d] + g[d]
    BY <1>0, <2>1, SumUpdate
  <2> QED BY <2>1, <2>2, <2>3
<1>3. ASSUME NEW w \in Burner
      PROVE  SumFunction(SnapRefunds(w))' = SumFunction(SnapRefunds(w)) - feSnap[d].refunds[w] + p.refunds[w]
  <2> DEFINE f == [e \in Distributor |-> feSnap[e].refunds[w]]
             g == [e \in Distributor |-> feSnap'[e].refunds[w]]
  <2>1. /\ \A x \in Distributor : f[x] \in Int
        /\ g[d] \in Int /\ g[d] = p.refunds[w] /\ f[d] = feSnap[d].refunds[w]
        /\ \A x \in Distributor : x # d => g[x] = f[x]
    BY <1>1
  <2>2. /\ SumFunction(SnapRefunds(w))' = SumFunctionOnSet(g, Distributor)
        /\ SumFunction(SnapRefunds(w)) = SumFunctionOnSet(f, Distributor)
    BY DEF SumFunction, SnapRefunds
  <2> HIDE DEF f, g
  <2>3. SumFunctionOnSet(g, Distributor) = SumFunctionOnSet(f, Distributor) - f[d] + g[d]
    BY <1>0, <2>1, SumUpdate
  <2> QED BY <2>1, <2>2, <2>3
<1> QED BY <1>2, <1>3

PoolState == PoolTypes /\ PoolInv /\ PoolAccounted

LEMMA PoolFrame ==
    ASSUME PoolState, UNCHANGED <<feDistVars, feHistory>>, feBurnRate' \in Nat
    PROVE  PoolState'
<1>1. UNCHANGED <<fePool, feSnap, fePc, feOuts, feCollected, feOwed, fePaid, feRefunded, feBurnt, feLost, feUnpaid, feShares>>
  BY DEF feDistVars, feHistory
<1>2. PoolTypes' /\ PoolInv'
  BY <1>1 DEF PoolState, PoolTypes, PoolInv, Distribution
<1>3. PoolAccounted'
  BY <1>1 DEF PoolState, PoolAccounted, FeesAccounted, RefundsPaidOnce, SnapFees, SnapRefunds
<1> QED BY <1>2, <1>3 DEF PoolState

LEMMA FeeArrives ==
    ASSUME PoolState, NEW n \in FeeNode, NEW amt \in FeeSizes, AccumulateTxFee(n, amt), UNCHANGED feTreasury
    PROVE  PoolState'
<1>0. amt \in Nat
  BY FeeAssumption
<1>1. /\ fePool' = [fePool EXCEPT !.fees = @ + amt, !.by[n] = @ + 1]
      /\ feCollected' = feCollected + amt
      /\ UNCHANGED <<feSnap, fePc, feOuts, feOwed, fePaid, feRefunded, feBurnt, feLost, feUnpaid, feShares, feBurnRate>>
  BY DEF AccumulateTxFee, AddFee
<1>2. fePool \in PoolType /\ PoolTypes /\ PoolInv /\ PoolAccounted
  BY DEF PoolState, PoolTypes
<1>3. /\ fePool' \in PoolType /\ fePool'.fees = fePool.fees + amt
      /\ fePool'.by[n] = fePool.by[n] + 1 /\ fePool'.refunds = fePool.refunds
  <2>1. fePool.fees \in Nat /\ fePool.by \in [FeeNode -> Nat] /\ fePool.refunds \in [Burner -> Nat]
    BY <1>2 DEF PoolType
  <2>2. fePool' = [fees |-> fePool.fees + amt, by |-> [fePool.by EXCEPT ![n] = @ + 1], refunds |-> fePool.refunds]
    BY <1>1, <1>2 DEF PoolType
  <2> QED BY <1>0, <2>1, <2>2 DEF PoolType
<1>4. Credited(fePool)'
  BY <1>2, <1>3 DEF Credited, PoolType
<1>5. PoolTypes'
  BY <1>0, <1>1, <1>2, <1>3 DEF PoolTypes
<1>6. PoolInv'
  BY <1>1, <1>2, <1>4 DEF PoolInv, Distribution
<1>7. SumFunction(SnapFees)' = SumFunction(SnapFees) /\ \A w \in Burner : SumFunction(SnapRefunds(w))' = SumFunction(SnapRefunds(w))
  BY <1>1 DEF SnapFees, SnapRefunds
<1>8. SumFunction(SnapFees) \in Nat
  BY <1>2, SnapSums
<1>9. fePool.fees \in Nat /\ {feCollected, fePaid, feBurnt, feLost, feShares} \subseteq Nat
  BY <1>2 DEF PoolTypes, PoolType
<1>10. FeesAccounted'
  BY <1>0, <1>1, <1>2, <1>3, <1>7, <1>8, <1>9 DEF FeesAccounted, PoolAccounted
<1>11. RefundsPaidOnce'
  BY <1>1, <1>2, <1>3, <1>7 DEF RefundsPaidOnce, PoolAccounted
<1> QED BY <1>5, <1>6, <1>10, <1>11 DEF PoolState, PoolAccounted

LEMMA RefundArrives ==
    ASSUME PoolState, NEW w \in Burner, NEW amt \in FeeSizes, AccumulateRefund(w, amt), UNCHANGED feTreasury
    PROVE  PoolState'
<1>0. amt \in Nat
  BY FeeAssumption
<1>1. /\ fePool' = [fePool EXCEPT !.refunds[w] = @ + amt]
      /\ feOwed' = [feOwed EXCEPT ![w] = @ + amt]
      /\ UNCHANGED <<feSnap, fePc, feOuts, feCollected, fePaid, feRefunded, feBurnt, feLost, feUnpaid, feShares, feBurnRate>>
  BY DEF AccumulateRefund, AddBurnRefund
<1>2. fePool \in PoolType /\ PoolTypes /\ PoolInv /\ PoolAccounted /\ feOwed \in [Burner -> Nat]
  BY DEF PoolState, PoolTypes
<1>3. /\ fePool' \in PoolType /\ fePool'.fees = fePool.fees
      /\ fePool'.by = fePool.by /\ fePool'.refunds = [fePool.refunds EXCEPT ![w] = @ + amt]
  BY <1>0, <1>1, <1>2 DEF PoolType
<1>4. Credited(fePool)'
  BY <1>2, <1>3 DEF Credited, PoolInv
<1>5. PoolTypes'
  BY <1>0, <1>1, <1>2, <1>3 DEF PoolTypes
<1>6. PoolInv'
  BY <1>1, <1>2, <1>4 DEF PoolInv, Distribution
<1>7. SumFunction(SnapFees)' = SumFunction(SnapFees) /\ \A v \in Burner : SumFunction(SnapRefunds(v))' = SumFunction(SnapRefunds(v))
  BY <1>1 DEF SnapFees, SnapRefunds
<1>8. \A v \in Burner : SumFunction(SnapRefunds(v)) \in Nat
  BY <1>2, SnapSums
<1>10. FeesAccounted'
  BY <1>1, <1>2, <1>3, <1>7 DEF FeesAccounted, PoolAccounted
<1>11. RefundsPaidOnce'
  <2> SUFFICES ASSUME NEW v \in Burner
               PROVE  feOwed'[v] = fePool'.refunds[v] + SumFunction(SnapRefunds(v))' + feRefunded'[v] + feUnpaid'[v]
    BY DEF RefundsPaidOnce
  <2>1. feOwed[v] = fePool.refunds[v] + SumFunction(SnapRefunds(v)) + feRefunded[v] + feUnpaid[v]
    BY <1>2 DEF PoolAccounted, RefundsPaidOnce
  <2>2. fePool.refunds[v] \in Nat /\ feRefunded[v] \in Nat /\ feUnpaid[v] \in Nat /\ feOwed[v] \in Nat
    BY <1>2 DEF PoolTypes, PoolType
  <2>3. /\ feOwed'[v] = feOwed[v] + IF v = w THEN amt ELSE 0
        /\ fePool'.refunds[v] = fePool.refunds[v] + IF v = w THEN amt ELSE 0
    BY <1>0, <1>1, <1>2, <1>3, <2>2 DEF PoolType
  <2> QED BY <1>0, <1>1, <1>7, <1>8, <2>1, <2>2, <2>3
<1> QED BY <1>5, <1>6, <1>10, <1>11 DEF PoolState, PoolAccounted

\* A step of one distribution keeps the books when what leaves the pool and its
\* snapshot is settled, but for half a unit per share it settles.
LEMMA DistributionStep ==
    ASSUME PoolState, NEW d \in Distributor, NEW p \in PoolType, NEW out \in OutsType,
           NEW step \in {"idle", "burn", "counted", "persist"},
           feSnap' = [feSnap EXCEPT ![d] = p], feOuts' = [feOuts EXCEPT ![d] = out],
           fePc' = [fePc EXCEPT ![d] = step],
           fePool' \in PoolType, Credited(fePool)', Distribution(d)',
           UNCHANGED <<feCollected, feOwed, feBurnRate>>,
           {fePaid', feBurnt', feLost', feShares'} \subseteq Nat, {feRefunded', feUnpaid'} \subseteq [Burner -> Nat],
           LET off == (fePool.fees + feSnap[d].fees + fePaid + feBurnt + feLost)
                      - (fePool'.fees + p.fees + fePaid' + feBurnt' + feLost')
           IN 2 * off <= feShares' - feShares /\ -2 * off <= feShares' - feShares,
           \A w \in Burner :
             fePool'.refunds[w] + p.refunds[w] + feRefunded'[w] + feUnpaid'[w]
               = fePool.refunds[w] + feSnap[d].refunds[w] + feRefunded[w] + feUnpaid[w]
    PROVE  PoolState'
<1>1. /\ PoolTypes /\ PoolInv /\ PoolAccounted /\ fePool \in PoolType /\ feSnap \in [Distributor -> PoolType]
      /\ fePc \in [Distributor -> {"idle", "burn", "counted", "persist"}]
      /\ feOuts \in [Distributor -> OutsType]
  BY DEF PoolState, PoolTypes
<1>2. PoolTypes'
  BY <1>1 DEF PoolTypes
<1>3. PoolInv'
  <2>1. ASSUME NEW e \in Distributor, e # d PROVE Distribution(e)'
    <3>1. feSnap'[e] = feSnap[e] /\ feOuts'[e] = feOuts[e] /\ fePc'[e] = fePc[e]
      BY <1>1, <2>1
    <3> QED BY <1>1, <3>1 DEF PoolInv, Distribution
  <2> QED BY <2>1 DEF PoolInv
<1>4. /\ SumFunction(SnapFees)' = SumFunction(SnapFees) - feSnap[d].fees + p.fees
      /\ \A w \in Burner :
           SumFunction(SnapRefunds(w))' = SumFunction(SnapRefunds(w)) - feSnap[d].refunds[w] + p.refunds[w]
  BY <1>1, SnapUpdate
<1>5. SumFunction(SnapFees) \in Nat /\ \A w \in Burner : SumFunction(SnapRefunds(w)) \in Nat
  BY <1>1, SnapSums
<1>6. /\ fePool.fees \in Nat /\ feSnap[d].fees \in Nat /\ p.fees \in Nat /\ fePool'.fees \in Nat
      /\ {feCollected, fePaid, feBurnt, feLost, feShares} \subseteq Nat
  BY <1>1 DEF PoolTypes, PoolType
<1>7. FeesAccounted'
  <2> DEFINE s == SumFunction(SnapFees)
             off == (fePool.fees + feSnap[d].fees + fePaid + feBurnt + feLost)
                      - (fePool'.fees + p.fees + fePaid' + feBurnt' + feLost')
             diff == feCollected - (fePool.fees + s + fePaid + feBurnt + feLost)
             diff2 == feCollected' - (fePool'.fees + s' + fePaid' + feBurnt' + feLost')
  <2>1. 2 * diff <= feShares /\ -2 * diff <= feShares
    BY <1>1 DEF PoolAccounted, FeesAccounted
  <2>2. s' = s - feSnap[d].fees + p.fees /\ s \in Nat
    BY <1>4, <1>5
  <2> HIDE DEF s
  <2>3. diff2 = diff + off /\ diff \in Int /\ off \in Int
    BY <1>6, <2>2
  <2>4. 2 * off <= feShares' - feShares /\ -2 * off <= feShares' - feShares
    OBVIOUS
  <2> HIDE DEF off, diff, diff2
  <2>5. 2 * diff2 <= feShares' /\ -2 * diff2 <= feShares'
    BY <1>6, <2>1, <2>3, <2>4
  <2> QED BY <2>5 DEF FeesAccounted, diff2, s
<1>8. RefundsPaidOnce'
  <2> SUFFICES ASSUME NEW w \in Burner
               PROVE  feOwed'[w] = fePool'.refunds[w] + SumFunction(SnapRefunds(w))' + feRefunded'[w] + feUnpaid'[w]
    BY DEF RefundsPaidOnce
  <2>1. feOwed[w] = fePool.refunds[w] + SumFunction(SnapRefunds(w)) + feRefunded[w] + feUnpaid[w]
    BY <1>1 DEF PoolAccounted, RefundsPaidOnce
  <2>2. /\ fePool.refunds[w] \in Nat /\ feRefunded[w] \in Nat /\ feUnpaid[w] \in Nat /\ feOwed[w] \in Nat
        /\ fePool'.refunds[w] \in Nat /\ feRefunded'[w] \in Nat /\ feUnpaid'[w] \in Nat
        /\ p.refunds[w] \in Nat /\ feSnap[d].refunds[w] \in Nat
    BY <1>1 DEF PoolTypes, PoolType
  <2> QED BY <1>4, <1>5, <2>1, <2>2
<1> QED BY <1>2, <1>3, <1>7, <1>8 DEF PoolState, PoolAccounted

LEMMA SwapStep ==
    ASSUME PoolState, NEW d \in Distributor, DistributeStart(d)
    PROVE  PoolState'
<1>1. /\ fePc[d] = "idle" /\ feSnap' = [feSnap EXCEPT ![d] = fePool] /\ fePool' = EmptyPool
      /\ fePc' = [fePc EXCEPT ![d] = "burn"]
      /\ UNCHANGED <<feOuts, feCollected, feOwed, fePaid, feRefunded, feBurnt, feLost, feUnpaid, feShares, feBurnRate>>
  BY DEF DistributeStart, feHistory
<1>2. /\ PoolTypes /\ PoolInv /\ fePool \in PoolType /\ feOuts \in [Distributor -> OutsType]
      /\ feSnap \in [Distributor -> PoolType] /\ fePc \in [Distributor -> {"idle", "burn", "counted", "persist"}]
      /\ {fePaid, feBurnt, feLost, feShares} \subseteq Nat /\ {feRefunded, feUnpaid} \subseteq [Burner -> Nat]
  BY DEF PoolState, PoolTypes
<1>3. feSnap[d] = EmptyPool
  BY <1>1, <1>2 DEF PoolInv, Distribution
<1>4. feOuts' = [feOuts EXCEPT ![d] = feOuts[d]] /\ feOuts[d] \in OutsType
  BY <1>1, <1>2
<1>5. Distribution(d)' /\ Credited(fePool)' /\ fePool' \in PoolType
  BY <1>1, <1>2, EmptyTypes DEF Distribution, PoolInv
<1>6. \A w \in Burner : EmptyPool.refunds[w] = 0 /\ EmptyPool.fees = 0
  BY DEF EmptyPool
<1>7. EmptyPool.fees = 0
  BY DEF EmptyPool
<1>8. fePool.fees \in Nat /\ \A w \in Burner : fePool.refunds[w] \in Nat
  BY <1>2 DEF PoolType
<1>9. LET off == (fePool.fees + feSnap[d].fees + fePaid + feBurnt + feLost)
                  - (fePool'.fees + fePool.fees + fePaid' + feBurnt' + feLost')
      IN 2 * off <= feShares' - feShares /\ -2 * off <= feShares' - feShares
  BY <1>1, <1>2, <1>3, <1>7, <1>8
<1>10. \A w \in Burner :
         fePool'.refunds[w] + fePool.refunds[w] + feRefunded'[w] + feUnpaid'[w]
           = fePool.refunds[w] + feSnap[d].refunds[w] + feRefunded[w] + feUnpaid[w]
  <2> SUFFICES ASSUME NEW w \in Burner
               PROVE  fePool'.refunds[w] + fePool.refunds[w] + feRefunded'[w] + feUnpaid'[w]
                        = fePool.refunds[w] + feSnap[d].refunds[w] + feRefunded[w] + feUnpaid[w]
    OBVIOUS
  <2>1. feRefunded[w] \in Nat /\ feUnpaid[w] \in Nat
    BY <1>2
  <2> QED BY <1>1, <1>3, <1>6, <1>8, <2>1
<1>11. {fePaid', feBurnt', feLost', feShares'} \subseteq Nat /\ {feRefunded', feUnpaid'} \subseteq [Burner -> Nat]
  BY <1>1, <1>2
<1> QED BY <1>1, <1>2, <1>4, <1>5, <1>9, <1>10, <1>11, DistributionStep

LEMMA BurnStep ==
    ASSUME PoolState, NEW d \in Distributor, CountBurn(d), UNCHANGED feTreasury
    PROVE  PoolState'
<1> DEFINE burnt == CalculateFeeBurn(feSnap[d].fees)
           out == [feOuts[d] EXCEPT !.burnt = burnt]
<1>1. /\ fePc[d] = "burn" /\ fePc' = [fePc EXCEPT ![d] = "counted"] /\ feOuts' = [feOuts EXCEPT ![d] = out]
      /\ UNCHANGED <<fePool, feSnap, feCollected, feOwed, fePaid, feRefunded, feBurnt, feLost, feUnpaid, feShares, feBurnRate>>
  BY DEF CountBurn, feHistory, PoolState, PoolTypes
<1>2. /\ PoolTypes /\ PoolInv /\ fePool \in PoolType /\ feOuts \in [Distributor -> OutsType]
      /\ feSnap \in [Distributor -> PoolType] /\ fePc \in [Distributor -> {"idle", "burn", "counted", "persist"}]
      /\ {fePaid, feBurnt, feLost, feShares} \subseteq Nat /\ {feRefunded, feUnpaid} \subseteq [Burner -> Nat]
      /\ feBurnRate \in Nat
  BY DEF PoolState, PoolTypes
<1>3. feSnap[d] \in PoolType /\ feSnap[d].fees \in Nat /\ feSnap' = [feSnap EXCEPT ![d] = feSnap[d]]
  BY <1>1, <1>2 DEF PoolType
<1>4. burnt \in Nat /\ burnt <= feSnap[d].fees
  BY <1>2, <1>3, BurnPart
<1> HIDE DEF burnt
<1>5. out \in OutsType /\ out.burnt = burnt
  BY <1>2, <1>4 DEF OutsType
<1>6. Distribution(d)' /\ Credited(fePool)' /\ fePool' \in PoolType
  <2>1. feOuts'[d] = out /\ fePc'[d] = "counted" /\ feSnap'[d] = feSnap[d] /\ Credited(feSnap[d]) /\ Credited(fePool)
    BY <1>1, <1>2 DEF PoolInv, Distribution
  <2> HIDE DEF out
  <2> QED BY <1>1, <1>2, <1>4, <1>5, <2>1 DEF Distribution
<1>7. fePool.fees \in Nat
  BY <1>2 DEF PoolType
<1>8. LET off == (fePool.fees + feSnap[d].fees + fePaid + feBurnt + feLost)
                  - (fePool'.fees + feSnap[d].fees + fePaid' + feBurnt' + feLost')
      IN 2 * off <= feShares' - feShares /\ -2 * off <= feShares' - feShares
  BY <1>1, <1>2, <1>3, <1>7
<1>9. {fePaid', feBurnt', feLost', feShares'} \subseteq Nat /\ {feRefunded', feUnpaid'} \subseteq [Burner -> Nat]
  BY <1>1, <1>2
<1>10. \A w \in Burner :
         fePool'.refunds[w] + feSnap[d].refunds[w] + feRefunded'[w] + feUnpaid'[w]
           = fePool.refunds[w] + feSnap[d].refunds[w] + feRefunded[w] + feUnpaid[w]
  BY <1>1
<1> HIDE DEF out
<1> QED BY <1>1, <1>3, <1>5, <1>6, <1>8, <1>9, <1>10, DistributionStep

\* A distribution that ends has settled what its snapshot held or given it back.
LEMMA FinishStep ==
    ASSUME PoolState, NEW d \in Distributor, Finish(d),
           fePool' \in PoolType, Credited(fePool)',
           UNCHANGED <<feCollected, feOwed, feBurnRate>>,
           {fePaid', feBurnt', feLost', feShares'} \subseteq Nat, {feRefunded', feUnpaid'} \subseteq [Burner -> Nat],
           LET off == (fePool.fees + feSnap[d].fees + fePaid + feBurnt + feLost)
                      - (fePool'.fees + fePaid' + feBurnt' + feLost')
           IN 2 * off <= feShares' - feShares /\ -2 * off <= feShares' - feShares,
           \A w \in Burner :
             fePool'.refunds[w] + feRefunded'[w] + feUnpaid'[w]
               = fePool.refunds[w] + feSnap[d].refunds[w] + feRefunded[w] + feUnpaid[w]
    PROVE  PoolState'
<1>1. /\ feSnap' = [feSnap EXCEPT ![d] = EmptyPool] /\ feOuts' = [feOuts EXCEPT ![d] = NoOuts]
      /\ fePc' = [fePc EXCEPT ![d] = "idle"]
  BY DEF Finish
<1>2. /\ fePool \in PoolType /\ feSnap \in [Distributor -> PoolType] /\ feOuts \in [Distributor -> OutsType]
      /\ fePc \in [Distributor -> {"idle", "burn", "counted", "persist"}]
      /\ {fePaid, feBurnt, feLost, feShares} \subseteq Nat
  BY DEF PoolState, PoolTypes
<1>3. EmptyPool.fees = 0 /\ \A w \in Burner : EmptyPool.refunds[w] = 0
  BY DEF EmptyPool
<1>4. Distribution(d)'
  BY <1>1, <1>2, EmptyTypes DEF Distribution
<1>5. /\ fePool.fees \in Nat /\ feSnap[d].fees \in Nat /\ fePool'.fees \in Nat
      /\ \A w \in Burner : fePool'.refunds[w] \in Nat
  BY <1>2 DEF PoolType
<1>6. LET off == (fePool.fees + feSnap[d].fees + fePaid + feBurnt + feLost)
                  - (fePool'.fees + EmptyPool.fees + fePaid' + feBurnt' + feLost')
      IN 2 * off <= feShares' - feShares /\ -2 * off <= feShares' - feShares
  BY <1>3, <1>5
<1>7. \A w \in Burner :
         fePool'.refunds[w] + EmptyPool.refunds[w] + feRefunded'[w] + feUnpaid'[w]
           = fePool.refunds[w] + feSnap[d].refunds[w] + feRefunded[w] + feUnpaid[w]
  BY <1>3, <1>5
<1> QED BY <1>1, <1>4, <1>6, <1>7, EmptyTypes, DistributionStep

\* What an accepted reward block settles.
LEMMA SettleStep ==
    ASSUME PoolState, NEW d \in Distributor, fePc[d] = "persist", Settle(d), Finish(d),
           UNCHANGED <<fePool, feCollected, feOwed, feUnpaid, feBurnRate>>
    PROVE  PoolState'
<1>1. /\ PoolTypes /\ PoolInv /\ fePool \in PoolType /\ feSnap[d] \in PoolType /\ feOuts[d] \in OutsType
      /\ feSnap[d].fees \in Nat /\ feSnap[d].refunds \in [Burner -> Nat]
      /\ fePool.fees \in Nat /\ fePool.refunds \in [Burner -> Nat]
      /\ {fePaid, feBurnt, feLost, feShares} \subseteq Nat /\ {feRefunded, feUnpaid} \subseteq [Burner -> Nat]
  BY DEF PoolState, PoolTypes, PoolType
<1>2. /\ feOuts[d].fees \in Nat /\ feOuts[d].burnt \in Nat /\ feOuts[d].skipped \in Nat /\ feOuts[d].shares \in Nat
      /\ feOuts[d].refunds \in [Burner -> Nat]
  BY <1>1 DEF OutsType
<1>3. Balanced(feSnap[d].fees, feOuts[d]) /\ feOuts[d].refunds = feSnap[d].refunds
  BY <1>1 DEF PoolInv, Distribution
<1>4. /\ fePaid' = fePaid + feOuts[d].fees /\ feBurnt' = feBurnt + feOuts[d].burnt
      /\ feLost' = feLost + feOuts[d].skipped /\ feShares' = feShares + feOuts[d].shares
      /\ feRefunded' = [w \in Burner |-> feRefunded[w] + feOuts[d].refunds[w]]
  BY <1>1 DEF Settle, Add
<1>5. fePool' = fePool /\ Credited(fePool)'
  BY <1>1 DEF PoolInv
<1>6. {fePaid', feBurnt', feLost', feShares'} \subseteq Nat /\ {feRefunded', feUnpaid'} \subseteq [Burner -> Nat]
  BY <1>1, <1>2, <1>4
<1>7. LET off == (fePool.fees + feSnap[d].fees + fePaid + feBurnt + feLost)
                  - (fePool'.fees + fePaid' + feBurnt' + feLost')
      IN 2 * off <= feShares' - feShares /\ -2 * off <= feShares' - feShares
  BY <1>1, <1>2, <1>3, <1>4, <1>5 DEF Balanced
<1>8. \A w \in Burner :
         fePool'.refunds[w] + feRefunded'[w] + feUnpaid'[w]
           = fePool.refunds[w] + feSnap[d].refunds[w] + feRefunded[w] + feUnpaid[w]
  <2> SUFFICES ASSUME NEW w \in Burner
               PROVE  fePool'.refunds[w] + feRefunded'[w] + feUnpaid'[w]
                        = fePool.refunds[w] + feSnap[d].refunds[w] + feRefunded[w] + feUnpaid[w]
    OBVIOUS
  <2>1. /\ feRefunded[w] \in Nat /\ feUnpaid[w] \in Nat /\ feSnap[d].refunds[w] \in Nat /\ fePool.refunds[w] \in Nat
        /\ feRefunded'[w] = feRefunded[w] + feSnap[d].refunds[w] /\ feUnpaid'[w] = feUnpaid[w]
    BY <1>1, <1>3, <1>4
  <2> QED BY <1>5, <2>1
<1> QED BY <1>1, <1>5, <1>6, <1>7, <1>8, FinishStep

\* A request that is dropped loses the snapshot.
LEMMA LoseStep ==
    ASSUME PoolState, NEW d \in Distributor, Finish(d),
           feLost' = feLost + feSnap[d].fees, feUnpaid' = Add(feUnpaid, feSnap[d].refunds),
           UNCHANGED <<fePool, feCollected, feOwed, fePaid, feRefunded, feBurnt, feShares, feBurnRate>>
    PROVE  PoolState'
<1>1. /\ PoolTypes /\ PoolInv /\ fePool \in PoolType
      /\ feSnap[d].fees \in Nat /\ feSnap[d].refunds \in [Burner -> Nat]
      /\ fePool.fees \in Nat /\ fePool.refunds \in [Burner -> Nat]
      /\ {fePaid, feBurnt, feLost, feShares} \subseteq Nat /\ {feRefunded, feUnpaid} \subseteq [Burner -> Nat]
  BY DEF PoolState, PoolTypes, PoolType
<1>2. feUnpaid' = [w \in Burner |-> feUnpaid[w] + feSnap[d].refunds[w]]
  BY <1>1 DEF Add
<1>3. Credited(fePool)'
  BY <1>1 DEF PoolInv
<1>4. {fePaid', feBurnt', feLost', feShares'} \subseteq Nat /\ {feRefunded', feUnpaid'} \subseteq [Burner -> Nat]
  BY <1>1, <1>2
<1>5. LET off == (fePool.fees + feSnap[d].fees + fePaid + feBurnt + feLost)
                  - (fePool'.fees + fePaid' + feBurnt' + feLost')
      IN 2 * off <= feShares' - feShares /\ -2 * off <= feShares' - feShares
  BY <1>1
<1>6. \A w \in Burner :
         fePool'.refunds[w] + feRefunded'[w] + feUnpaid'[w]
           = fePool.refunds[w] + feSnap[d].refunds[w] + feRefunded[w] + feUnpaid[w]
  <2> SUFFICES ASSUME NEW w \in Burner
               PROVE  fePool'.refunds[w] + feRefunded'[w] + feUnpaid'[w]
                        = fePool.refunds[w] + feSnap[d].refunds[w] + feRefunded[w] + feUnpaid[w]
    OBVIOUS
  <2>1. /\ feRefunded[w] \in Nat /\ feUnpaid[w] \in Nat /\ feSnap[d].refunds[w] \in Nat /\ fePool.refunds[w] \in Nat
        /\ feUnpaid'[w] = feUnpaid[w] + feSnap[d].refunds[w]
    BY <1>1, <1>2
  <2> QED BY <2>1
<1> QED BY <1>1, <1>3, <1>4, <1>5, <1>6, FinishStep

LEMMA BuildStep ==
    ASSUME PoolState, NEW d \in Distributor, BuildOutputs(d), UNCHANGED feTreasury
    PROVE  PoolState'
<1> DEFINE out == OutputsFor(feSnap[d], feOuts[d].burnt)
<1>1. /\ fePc[d] = "counted"
      /\ IF out.fees = 0 /\ SumFunction(out.refunds) = 0
         THEN feLost' = feLost + feSnap[d].fees /\ Finish(d)
         ELSE /\ feOuts' = [feOuts EXCEPT ![d] = out] /\ fePc' = [fePc EXCEPT ![d] = "persist"]
              /\ UNCHANGED <<feSnap, feLost>>
      /\ UNCHANGED <<fePool, feCollected, feOwed, fePaid, feRefunded, feBurnt, feUnpaid, feShares, feBurnRate>>
  BY DEF BuildOutputs
<1>2. /\ PoolTypes /\ PoolInv /\ fePool \in PoolType /\ feSnap[d] \in PoolType /\ feOuts[d] \in OutsType
      /\ feSnap \in [Distributor -> PoolType] /\ feOuts \in [Distributor -> OutsType]
      /\ fePc \in [Distributor -> {"idle", "burn", "counted", "persist"}]
      /\ feSnap[d].fees \in Nat /\ feSnap[d].refunds \in [Burner -> Nat]
      /\ fePool.fees \in Nat /\ fePool.refunds \in [Burner -> Nat]
      /\ {fePaid, feBurnt, feLost, feShares} \subseteq Nat /\ {feRefunded, feUnpaid} \subseteq [Burner -> Nat]
  BY DEF PoolState, PoolTypes, PoolType
<1>3. feOuts[d].burnt \in Nat /\ feOuts[d].burnt <= feSnap[d].fees /\ Credited(feSnap[d]) /\ Credited(fePool)
  BY <1>1, <1>2 DEF PoolInv, Distribution, OutsType
<1>4. out \in OutsType /\ Balanced(feSnap[d].fees, out) /\ out.refunds = feSnap[d].refunds
  BY <1>2, <1>3, OutputsBalanced
<1> HIDE DEF out
<1>5. CASE out.fees = 0 /\ SumFunction(out.refunds) = 0
  <2>1. feLost' = feLost + feSnap[d].fees /\ Finish(d)
    BY <1>1, <1>5
  <2>2. \A w \in Burner : feSnap[d].refunds[w] = 0
    <3>1. IsFiniteSet(Burner) /\ DOMAIN feSnap[d].refunds = Burner
      BY <1>2, FeeAssumption
    <3>2. SumFunctionOnSet(feSnap[d].refunds, Burner) = 0
      BY <1>4, <1>5, <3>1 DEF SumFunction
    <3> DEFINE f == feSnap[d].refunds
    <3>3. \A w \in Burner : f[w] \in Nat
      BY <1>2
    <3>4. SumFunctionOnSet(f, Burner) = 0
      BY <3>2
    <3> HIDE DEF f
    <3>5. \A w \in Burner : f[w] <= SumFunctionOnSet(f, Burner)
      BY <3>1, <3>3, SumTerm
    <3>6. \A w \in Burner : f[w] = 0
      BY <3>3, <3>4, <3>5
    <3> QED BY <3>6 DEF f
  <2>3. {fePaid', feBurnt', feLost', feShares'} \subseteq Nat /\ {feRefunded', feUnpaid'} \subseteq [Burner -> Nat]
    BY <1>1, <1>2, <2>1
  <2>4. LET off == (fePool.fees + feSnap[d].fees + fePaid + feBurnt + feLost)
                    - (fePool'.fees + fePaid' + feBurnt' + feLost')
        IN 2 * off <= feShares' - feShares /\ -2 * off <= feShares' - feShares
    BY <1>1, <1>2, <2>1
  <2>5. \A w \in Burner :
           fePool'.refunds[w] + feRefunded'[w] + feUnpaid'[w]
             = fePool.refunds[w] + feSnap[d].refunds[w] + feRefunded[w] + feUnpaid[w]
    BY <1>1, <1>2, <2>2
  <2>6. fePool' \in PoolType /\ Credited(fePool)'
    BY <1>1, <1>2, <1>3
  <2> QED BY <1>1, <2>1, <2>3, <2>4, <2>5, <2>6, FinishStep
<1>6. CASE ~(out.fees = 0 /\ SumFunction(out.refunds) = 0)
  <2>1. /\ feOuts' = [feOuts EXCEPT ![d] = out] /\ fePc' = [fePc EXCEPT ![d] = "persist"]
        /\ feSnap' = [feSnap EXCEPT ![d] = feSnap[d]] /\ UNCHANGED <<feSnap, feLost>>
    BY <1>1, <1>2, <1>6
  <2>2. Distribution(d)'
    <3>1. feOuts'[d] = out /\ fePc'[d] = "persist" /\ feSnap'[d] = feSnap[d]
      BY <1>2, <2>1
    <3> QED BY <1>3, <1>4, <3>1 DEF Distribution
  <2>3. {fePaid', feBurnt', feLost', feShares'} \subseteq Nat /\ {feRefunded', feUnpaid'} \subseteq [Burner -> Nat]
    BY <1>1, <1>2, <2>1
  <2>4. LET off == (fePool.fees + feSnap[d].fees + fePaid + feBurnt + feLost)
                    - (fePool'.fees + feSnap[d].fees + fePaid' + feBurnt' + feLost')
        IN 2 * off <= feShares' - feShares /\ -2 * off <= feShares' - feShares
    BY <1>1, <1>2, <2>1
  <2>5. \A w \in Burner :
           fePool'.refunds[w] + feSnap[d].refunds[w] + feRefunded'[w] + feUnpaid'[w]
             = fePool.refunds[w] + feSnap[d].refunds[w] + feRefunded[w] + feUnpaid[w]
    BY <1>1, <1>2
  <2>6. fePool' \in PoolType /\ Credited(fePool)'
    BY <1>1, <1>2, <1>3
  <2> QED BY <1>1, <1>2, <1>4, <2>1, <2>2, <2>3, <2>4, <2>5, <2>6, DistributionStep
<1> QED BY <1>5, <1>6

\* A refusal merges the snapshot into what arrived meanwhile.
LEMMA RefusedStep ==
    ASSUME PoolState, NEW d \in Distributor, RewardRefused(d)
    PROVE  PoolState'
<1>1. /\ fePool' = MergeFrom(fePool, feSnap[d]) /\ Finish(d)
      /\ UNCHANGED <<feCollected, feOwed, fePaid, feRefunded, feBurnt, feLost, feUnpaid, feShares, feBurnRate>>
  BY DEF RewardRefused
<1>2. /\ PoolTypes /\ PoolInv /\ fePool \in PoolType /\ feSnap[d] \in PoolType
      /\ feSnap[d].fees \in Nat /\ feSnap[d].refunds \in [Burner -> Nat] /\ feSnap[d].by \in [FeeNode -> Nat]
      /\ fePool.fees \in Nat /\ fePool.refunds \in [Burner -> Nat] /\ fePool.by \in [FeeNode -> Nat]
      /\ {fePaid, feBurnt, feLost, feShares} \subseteq Nat /\ {feRefunded, feUnpaid} \subseteq [Burner -> Nat]
      /\ Credited(fePool) /\ Credited(feSnap[d])
  BY DEF PoolState, PoolTypes, PoolType, PoolInv, Distribution
<1>3. fePool' = [fees |-> fePool.fees + feSnap[d].fees, by |-> [n \in FeeNode |-> fePool.by[n] + feSnap[d].by[n]],
                 refunds |-> [w \in Burner |-> fePool.refunds[w] + feSnap[d].refunds[w]]]
  BY <1>1, <1>2 DEF MergeFrom, Add
<1>4. /\ fePool'.fees = fePool.fees + feSnap[d].fees
      /\ fePool'.by = [n \in FeeNode |-> fePool.by[n] + feSnap[d].by[n]]
      /\ fePool'.refunds = [w \in Burner |-> fePool.refunds[w] + feSnap[d].refunds[w]]
  BY <1>3
<1>5. fePool' \in PoolType
  BY <1>2, <1>3 DEF PoolType
<1>6. Credited(fePool)'
  BY <1>2, <1>4 DEF Credited
<1>7. {fePaid', feBurnt', feLost', feShares'} \subseteq Nat /\ {feRefunded', feUnpaid'} \subseteq [Burner -> Nat]
  BY <1>1, <1>2
<1>8. LET off == (fePool.fees + feSnap[d].fees + fePaid + feBurnt + feLost)
                  - (fePool'.fees + fePaid' + feBurnt' + feLost')
      IN 2 * off <= feShares' - feShares /\ -2 * off <= feShares' - feShares
  BY <1>1, <1>2, <1>4
<1>9. \A w \in Burner :
         fePool'.refunds[w] + feRefunded'[w] + feUnpaid'[w]
           = fePool.refunds[w] + feSnap[d].refunds[w] + feRefunded[w] + feUnpaid[w]
  BY <1>1, <1>4
<1> QED BY <1>1, <1>5, <1>6, <1>7, <1>8, <1>9, FinishStep

LEMMA DroppedStep ==
    ASSUME PoolState, NEW d \in Distributor, RequestDropped(d)
    PROVE  PoolState'
<1>1. Finish(d) /\ UNCHANGED <<fePool, feCollected, feOwed, feBurnRate>>
  BY DEF RequestDropped
<1>2. CASE fePc[d] = "persist" /\ Settle(d) /\ UNCHANGED feUnpaid
  BY <1>1, <1>2, SettleStep
<1>3. CASE /\ feLost' = feLost + feSnap[d].fees /\ feUnpaid' = Add(feUnpaid, feSnap[d].refunds)
           /\ UNCHANGED <<fePaid, feRefunded, feBurnt, feShares>>
  BY <1>1, <1>3, LoseStep
<1> QED BY <1>2, <1>3 DEF RequestDropped

\* A restart loses the pool and every snapshot, and nothing else.
LEMMA PoolRestart ==
    ASSUME PoolState, FeeRestart
    PROVE  PoolState'
<1>1. /\ feLost' = feLost + fePool.fees + SumFunction(SnapFees)
      /\ feUnpaid' = [w \in Burner |-> feUnpaid[w] + fePool.refunds[w] + SumFunction(SnapRefunds(w))]
      /\ fePool' = EmptyPool /\ feSnap' = [d \in Distributor |-> EmptyPool]
      /\ fePc' = [d \in Distributor |-> "idle"] /\ feOuts' = [d \in Distributor |-> NoOuts]
      /\ UNCHANGED <<feBurnRate, feCollected, feOwed, fePaid, feRefunded, feBurnt, feShares>>
  BY DEF FeeRestart
<1>2. /\ PoolTypes /\ PoolInv /\ PoolAccounted /\ fePool \in PoolType
      /\ fePool.fees \in Nat /\ fePool.refunds \in [Burner -> Nat] /\ feBurnRate \in Nat
      /\ {feCollected, fePaid, feBurnt, feLost, feShares} \subseteq Nat /\ {feOwed, feRefunded, feUnpaid} \subseteq [Burner -> Nat]
  BY DEF PoolState, PoolTypes, PoolType
<1>3. SumFunction(SnapFees) \in Nat /\ \A w \in Burner : SumFunction(SnapRefunds(w)) \in Nat
  BY <1>2, SnapSums
<1>4. SumFunction(SnapFees)' = 0 /\ \A w \in Burner : SumFunction(SnapRefunds(w))' = 0
  <2>1. /\ SnapFees' = [d \in Distributor |-> EmptyPool.fees]
        /\ \A w \in Burner : SnapRefunds(w)' = [d \in Distributor |-> EmptyPool.refunds[w]]
    BY <1>1 DEF SnapFees, SnapRefunds
  <2>2. /\ \A d \in Distributor : SnapFees'[d] = 0
        /\ \A w \in Burner : \A d \in Distributor : SnapRefunds(w)'[d] = 0
        /\ DOMAIN SnapFees' = Distributor /\ \A w \in Burner : DOMAIN SnapRefunds(w)' = Distributor
    BY <2>1 DEF EmptyPool
  <2> QED BY <2>2, FeeAssumption, SumZero DEF SumFunction
<1>5. PoolTypes'
  BY <1>1, <1>2, <1>3, EmptyTypes DEF PoolTypes
<1>6. PoolInv'
  BY <1>1, EmptyTypes DEF PoolInv, Distribution
<1>7. EmptyPool.fees = 0 /\ \A w \in Burner : EmptyPool.refunds[w] = 0
  BY DEF EmptyPool
<1>8. FeesAccounted'
  <2> DEFINE s == SumFunction(SnapFees)
  <2>1. LET diff == feCollected - (fePool.fees + s + fePaid + feBurnt + feLost)
        IN 2 * diff <= feShares /\ -2 * diff <= feShares
    BY <1>2 DEF PoolAccounted, FeesAccounted
  <2>2. s \in Nat /\ s' = 0 /\ feLost' = feLost + fePool.fees + s
    BY <1>1, <1>3, <1>4
  <2> HIDE DEF s
  <2>3. LET diff == feCollected' - (fePool'.fees + s' + fePaid' + feBurnt' + feLost')
        IN 2 * diff <= feShares' /\ -2 * diff <= feShares'
    BY <1>1, <1>2, <1>7, <2>1, <2>2
  <2> QED BY <2>3 DEF FeesAccounted, s
<1>9. RefundsPaidOnce'
  <2> SUFFICES ASSUME NEW w \in Burner
               PROVE  feOwed'[w] = fePool'.refunds[w] + SumFunction(SnapRefunds(w))' + feRefunded'[w] + feUnpaid'[w]
    BY DEF RefundsPaidOnce
  <2>1. feOwed[w] = fePool.refunds[w] + SumFunction(SnapRefunds(w)) + feRefunded[w] + feUnpaid[w]
    BY <1>2 DEF PoolAccounted, RefundsPaidOnce
  <2>2. /\ fePool.refunds[w] \in Nat /\ feRefunded[w] \in Nat /\ feUnpaid[w] \in Nat /\ feOwed[w] \in Nat
        /\ SumFunction(SnapRefunds(w)) \in Nat /\ SumFunction(SnapRefunds(w))' = 0 /\ fePool'.refunds[w] = 0
        /\ feUnpaid'[w] = feUnpaid[w] + fePool.refunds[w] + SumFunction(SnapRefunds(w))
        /\ feOwed'[w] = feOwed[w] /\ feRefunded'[w] = feRefunded[w]
    BY <1>1, <1>2, <1>3, <1>4, <1>7
  <2> DEFINE s == SumFunction(SnapRefunds(w))
             t == SumFunction(SnapRefunds(w))'
  <2> HIDE DEF s, t
  <2> QED BY <2>1, <2>2 DEF s, t
<1> QED BY <1>5, <1>6, <1>8, <1>9 DEF PoolState, PoolAccounted

LEMMA PoolStep ==
    ASSUME PoolState, [(FeeNext \/ NodeNext \/ CellNext) /\ UNCHANGED feTreasury]_feVars
    PROVE  PoolState'
<1>0. feBurnRate \in Nat
  BY DEF PoolState, PoolTypes
<1>1. CASE UNCHANGED feVars
  <2>1. UNCHANGED <<feDistVars, feHistory, feBurnRate>>
    BY <1>1 DEF feVars
  <2> QED BY <1>0, <2>1, PoolFrame
<1>2. CASE FeeRestart
  BY <1>2, PoolRestart
<1>3. CASE NodeNext /\ ~FeeRestart
  <2>1. UNCHANGED <<feDistVars, feHistory, feBurnRate>>
    BY <1>3 DEF NodeNext, SignRegistration, RegisterSigned, RegisterAdmin, FeeTick
  <2> QED BY <1>0, <2>1, PoolFrame
<1>4. CASE CellNext /\ ~FeeRestart
  <2>1. UNCHANGED <<feDistVars, feHistory, feBurnRate>>
    BY <1>4 DEF CellNext, GasBegin, RewardPoolBegin, CellCommit, CountBlock, MilestoneRewards
  <2> QED BY <1>0, <2>1, PoolFrame
<1>5. ASSUME UNCHANGED feTreasury, FeeNext, ~FeeRestart PROVE PoolState'
  <2>1. ASSUME NEW n \in FeeNode, NEW amt \in FeeSizes, AccumulateTxFee(n, amt) PROVE PoolState'
    BY <1>5, <2>1, FeeArrives
  <2>2. ASSUME NEW w \in Burner, NEW amt \in FeeSizes, AccumulateRefund(w, amt) PROVE PoolState'
    BY <1>5, <2>2, RefundArrives
  <2>3. ASSUME NEW d \in Distributor, DistributeStart(d) PROVE PoolState'
    BY <2>3, SwapStep
  <2>4. ASSUME NEW d \in Distributor, CountBurn(d) PROVE PoolState'
    BY <1>5, <2>4, BurnStep
  <2>5. ASSUME NEW d \in Distributor, BuildOutputs(d) PROVE PoolState'
    BY <1>5, <2>5, BuildStep
  <2>6. ASSUME NEW d \in Distributor, RewardInserted(d) PROVE PoolState'
    BY <2>6, SettleStep DEF RewardInserted
  <2>7. ASSUME NEW d \in Distributor, RewardRefused(d) PROVE PoolState'
    BY <2>7, RefusedStep
  <2>8. ASSUME NEW d \in Distributor, RequestDropped(d) PROVE PoolState'
    BY <2>8, DroppedStep
  <2>9. CASE ToggleReadOnly
    BY <1>0, <2>9, PoolFrame DEF ToggleReadOnly
  <2>10. ASSUME NEW bps \in RuntimeBurn, SetBurnRate(bps) PROVE PoolState'
    <3>1. feBurnRate' \in Nat /\ UNCHANGED <<feDistVars, feHistory>>
      BY <2>10, FeeAssumption DEF SetBurnRate
    <3> QED BY <3>1, PoolFrame
  <2> QED BY <1>5, <2>1, <2>2, <2>3, <2>4, <2>5, <2>6, <2>7, <2>8, <2>9, <2>10 DEF FeeNext
<1> QED BY <1>1, <1>2, <1>3, <1>4, <1>5

LEMMA PoolStart ==
    ASSUME FeeInit
    PROVE  PoolState
<1>1. /\ fePool = EmptyPool /\ feSnap = [d \in Distributor |-> EmptyPool]
      /\ fePc = [d \in Distributor |-> "idle"] /\ feOuts = [d \in Distributor |-> NoOuts]
      /\ feBurnRate = 0 /\ feCollected = 0 /\ fePaid = 0 /\ feBurnt = 0 /\ feLost = 0 /\ feShares = 0
      /\ feOwed = [w \in Burner |-> 0] /\ feRefunded = [w \in Burner |-> 0] /\ feUnpaid = [w \in Burner |-> 0]
  BY DEF FeeInit
<1>2. PoolTypes /\ PoolInv
  BY <1>1, EmptyTypes DEF PoolTypes, PoolInv, Distribution
<1>3. EmptyPool.fees = 0 /\ \A w \in Burner : EmptyPool.refunds[w] = 0
  BY DEF EmptyPool
<1>4. SumFunction(SnapFees) = 0 /\ \A w \in Burner : SumFunction(SnapRefunds(w)) = 0
  <2>1. /\ \A d \in Distributor : SnapFees[d] = 0
        /\ \A w \in Burner : \A d \in Distributor : SnapRefunds(w)[d] = 0
        /\ DOMAIN SnapFees = Distributor /\ \A w \in Burner : DOMAIN SnapRefunds(w) = Distributor
    BY <1>1, <1>3 DEF SnapFees, SnapRefunds
  <2> QED BY <2>1, FeeAssumption, SumZero DEF SumFunction
<1>5. FeesAccounted
  BY <1>1, <1>3, <1>4 DEF FeesAccounted
<1>6. RefundsPaidOnce
  BY <1>1, <1>3, <1>4 DEF RefundsPaidOnce
<1> QED BY <1>2, <1>5, <1>6 DEF PoolState, PoolAccounted

\* Every fee and every refund that was credited is in the pool, in a snapshot, paid,
\* burnt, or lost for a reason the code has, whatever the two distributors,
\* refusals, dropped requests and restarts do in between (distribute.rs).
THEOREM PoolAlwaysAccounted == FeeSpec => []PoolAccounted
<1>1. FeeInit => PoolState
  BY PoolStart
<1>2. PoolState /\ [(FeeNext \/ NodeNext \/ CellNext) /\ UNCHANGED feTreasury]_feVars => PoolState'
  BY PoolStep
<1>3. PoolState => PoolAccounted
  BY DEF PoolState
<1> QED BY <1>1, <1>2, <1>3, PTL DEF FeeSpec

-----------------------------------------------------------------------------
(* The counters.                                                           *)

CounterState == CounterTypes /\ CounterInv

Holders == CellThread \cup Distributor

LEMMA ReadTypes ==
    ASSUME CounterTypes, NEW t \in Holders
    PROVE  /\ DOMAIN feRead = Holders
           /\ feRead[t] # NoUpdate => /\ feRead[t].cell \in Cell /\ feRead[t].cell # "none"
                                      /\ feRead[t].saw \in Int /\ feRead[t].delta \in Int
           /\ feRead[t] = NoUpdate => feRead[t].cell = "none"
<1>1. feRead \in [Holders -> UpdateType]
  BY DEF CounterTypes, Holders
<1>2. feRead[t] = NoUpdate \/ feRead[t] \in [cell : Cell, saw : Int, delta : Int]
  BY <1>1 DEF UpdateType
<1> QED BY <1>1, <1>2 DEF NoUpdate, Cell

\* A request that reads a counter: whoever holds it already makes it raced.
LEMMA BeginCells ==
    ASSUME CounterTypes, CellsHeld, NEW t \in Holders, NEW c \in Cell, NEW delta \in Int,
           feRead[t] = NoUpdate, BeginUpdate(t, c, delta), UNCHANGED <<feCell, feNet>>,
           c = "gas" => feCell[c] + delta >= 0, c = "total_burned" => t \notin CellThread
    PROVE  CounterTypes' /\ CellsHeld' /\ feRaced \subseteq feRaced'
<1> DEFINE r == [cell |-> c, saw |-> feCell[c], delta |-> delta]
<1>1. /\ feRead' = [feRead EXCEPT ![t] = r]
      /\ feRaced' = feRaced \cup {c2 \in {c} : \E u \in DOMAIN feRead : u # t /\ feRead[u].cell = c2}
  BY DEF BeginUpdate
<1>2. /\ feRead \in [Holders -> UpdateType] /\ DOMAIN feRead = Holders /\ feCell \in [Cell -> Int]
      /\ feNet \in [Cell -> Int]
  BY DEF CounterTypes, Holders
<1>3. r \in UpdateType /\ r.cell = c /\ r.saw = feCell[c] /\ r.delta = delta /\ r # NoUpdate
  <2>1. r \in [cell : Cell, saw : Int, delta : Int]
    BY <1>2
  <2>2. c # "none"
    BY DEF Cell
  <2>3. r # NoUpdate
    <3>1. r.cell # NoUpdate.cell
      BY <2>2 DEF NoUpdate
    <3> QED BY <3>1
  <2> QED BY <2>1, <2>3 DEF UpdateType
<1> HIDE DEF r
<1>4. CounterTypes'
  BY <1>1, <1>2, <1>3 DEF CounterTypes, Holders
<1>5. feRead'[t] = r /\ \A u \in Holders : u # t => feRead'[u] = feRead[u]
  BY <1>1, <1>2
<1>6. DOMAIN feRead' = Holders
  BY <1>1, <1>2
<1>7. ASSUME NEW u \in Holders, NEW v \in Holders, u # v, feRead'[u].cell = feRead'[v].cell
      PROVE  feRead'[u] = NoUpdate \/ feRead'[u].cell \in feRaced'
  <2>1. CASE u = t
    BY <1>1, <1>2, <1>3, <1>5, <1>7, <2>1
  <2>2. CASE v = t
    BY <1>1, <1>2, <1>3, <1>5, <1>7, <2>2
  <2>3. CASE u # t /\ v # t
    BY <1>1, <1>2, <1>5, <1>7, <2>3 DEF CellsHeld
  <2> QED BY <2>1, <2>2, <2>3
<1>8. ASSUME NEW u \in Holders, feRead'[u] # NoUpdate
      PROVE  /\ feRead'[u].cell \in feRaced' \/ feRead'[u].saw = feCell'[feRead'[u].cell]
             /\ feRead'[u].cell = "gas" => feRead'[u].saw + feRead'[u].delta >= 0
  <2>1. CASE u = t
    BY <1>3, <1>5, <2>1
  <2>2. CASE u # t
    BY <1>1, <1>2, <1>5, <1>8, <2>2 DEF CellsHeld
  <2> QED BY <2>1, <2>2
<1>9. ASSUME NEW u \in CellThread PROVE feRead'[u].cell # "total_burned"
  <2>1. u \in Holders
    BY DEF Holders
  <2> QED BY <1>3, <1>5, <2>1 DEF CellsHeld
<1>10. feCell'["gas"] >= 0 /\ ("gas" \in feRaced' \/ feCell'["gas"] = feNet'["gas"])
  BY <1>1 DEF CellsHeld
<1> QED BY <1>1, <1>4, <1>6, <1>7, <1>8, <1>9, <1>10 DEF CellsHeld

\* A request that writes back: nobody else holds the counter, or it is raced.
LEMMA CommitCells ==
    ASSUME CounterTypes, CellsHeld, NEW t \in Holders, feRead[t] # NoUpdate, Commit(t), UNCHANGED feRaced
    PROVE  CounterTypes' /\ CellsHeld'
<1> DEFINE r == feRead[t]
<1>1. /\ feCell' = [feCell EXCEPT ![r.cell] = r.saw + r.delta]
      /\ feNet' = [feNet EXCEPT ![r.cell] = @ + r.delta]
      /\ feRead' = [feRead EXCEPT ![t] = NoUpdate]
  BY DEF Commit
<1>2. /\ feRead \in [Holders -> UpdateType] /\ DOMAIN feRead = Holders /\ feCell \in [Cell -> Int]
      /\ feNet \in [Cell -> Int]
  BY DEF CounterTypes, Holders
<1>3. r.cell \in Cell /\ r.saw \in Int /\ r.delta \in Int
  BY ReadTypes
<1>4. /\ r.cell \in feRaced \/ r.saw = feCell[r.cell]
      /\ r.cell = "gas" => r.saw + r.delta >= 0
  BY <1>2 DEF CellsHeld
<1>5. \A u \in Holders : u # t /\ feRead[u].cell = r.cell => r.cell \in feRaced
  BY <1>2 DEF CellsHeld
<1> HIDE DEF r
<1>6. feRead'[t] = NoUpdate /\ (\A u \in Holders : u # t => feRead'[u] = feRead[u]) /\ DOMAIN feRead' = Holders
  BY <1>1, <1>2
<1>7. CounterTypes'
  BY <1>1, <1>2, <1>3 DEF CounterTypes, Holders, UpdateType
<1>8. ASSUME NEW u \in Holders, NEW v \in Holders, u # v, feRead'[u].cell = feRead'[v].cell
      PROVE  feRead'[u] = NoUpdate \/ feRead'[u].cell \in feRaced'
  <2>1. CASE u = t
    BY <1>6, <2>1
  <2>2. CASE v = t /\ u # t
    <3>1. feRead[u].cell = "none"
      BY <1>6, <1>8, <2>2 DEF NoUpdate
    <3> QED BY <1>6, <2>2, <3>1, ReadTypes
  <2>3. CASE u # t /\ v # t
    BY <1>2, <1>6, <1>8, <2>3 DEF CellsHeld
  <2> QED BY <2>1, <2>2, <2>3
<1>9. ASSUME NEW u \in Holders, feRead'[u] # NoUpdate
      PROVE  /\ feRead'[u].cell \in feRaced' \/ feRead'[u].saw = feCell'[feRead'[u].cell]
             /\ feRead'[u].cell = "gas" => feRead'[u].saw + feRead'[u].delta >= 0
  <2>1. u # t /\ feRead'[u] = feRead[u]
    BY <1>6, <1>9
  <2>2. /\ feRead[u].cell \in feRaced \/ feRead[u].saw = feCell[feRead[u].cell]
        /\ feRead[u].cell = "gas" => feRead[u].saw + feRead[u].delta >= 0
    BY <1>2, <1>9, <2>1 DEF CellsHeld
  <2>3. CASE feRead[u].cell = r.cell
    BY <1>5, <2>1, <2>2, <2>3
  <2>4. CASE feRead[u].cell # r.cell
    <3>1. feRead[u].cell \in Cell
      BY <1>9, <2>1, ReadTypes
    <3>2. feCell'[feRead[u].cell] = feCell[feRead[u].cell]
      BY <1>1, <1>2, <2>4, <3>1
    <3> QED BY <2>1, <2>2, <3>2
  <2> QED BY <2>3, <2>4
<1>10. ASSUME NEW u \in CellThread PROVE feRead'[u].cell # "total_burned"
  <2>1. u \in Holders
    BY DEF Holders
  <2>2. NoUpdate.cell # "total_burned"
    BY DEF NoUpdate
  <2> QED BY <1>6, <2>1, <2>2 DEF CellsHeld
<1>11. feCell'["gas"] >= 0 /\ ("gas" \in feRaced' \/ feCell'["gas"] = feNet'["gas"])
  <2>1. feCell["gas"] >= 0 /\ ("gas" \in feRaced \/ feCell["gas"] = feNet["gas"]) /\ "gas" \in Cell
    BY DEF CellsHeld, Cell
  <2>2. CASE r.cell = "gas"
    BY <1>1, <1>2, <1>3, <1>4, <2>1, <2>2
  <2>3. CASE r.cell # "gas"
    BY <1>1, <1>2, <1>3, <2>1, <2>3
  <2> QED BY <2>2, <2>3
<1> QED BY <1>6, <1>7, <1>8, <1>9, <1>10, <1>11 DEF CellsHeld

LEMMA CellsFrame ==
    ASSUME CounterTypes, CellsHeld, UNCHANGED <<feCell, feNet, feRead, feRaced>>
    PROVE  CounterTypes' /\ CellsHeld'
BY DEF CounterTypes, CellsHeld

\* One distribution's step keeps the count ahead of the burns.
LEMMA BurnsStep ==
    ASSUME PoolTypes, PoolTypes', CounterTypes, CounterTypes', BurnsBacked, NEW d \in Distributor,
           \A e \in Distributor : e # d =>
              fePc'[e] = fePc[e] /\ feOuts'[e] = feOuts[e] /\ feRead'[e] = feRead[e],
           CountsItsBurn(d)', feRaced \subseteq feRaced',
           "total_burned" \notin feRaced' =>
              feCell'["total_burned"] - feBurnt' - BurnCounted'[d] >= feCell["total_burned"] - feBurnt - BurnCounted[d]
    PROVE  BurnsBacked'
<1>1. ASSUME NEW e \in Distributor, e # d PROVE CountsItsBurn(e)'
  BY <1>1 DEF BurnsBacked, CountsItsBurn
<1>2. /\ \A e \in Distributor : BurnCounted[e] \in Int /\ BurnCounted'[e] \in Int
      /\ DOMAIN BurnCounted = Distributor /\ DOMAIN BurnCounted' = Distributor
      /\ \A e \in Distributor : e # d => BurnCounted'[e] = BurnCounted[e]
  BY DEF BurnCounted, PoolTypes, OutsType
<1>3. /\ SumFunction(BurnCounted) = SumFunctionOnSet(BurnCounted, Distributor)
      /\ SumFunction(BurnCounted)' = SumFunctionOnSet(BurnCounted', Distributor)
  BY <1>2 DEF SumFunction
<1> DEFINE f == BurnCounted
           g == BurnCounted'
<1>4. /\ \A e \in Distributor : f[e] \in Int /\ g[e] \in Int
      /\ \A e \in Distributor : e # d => g[e] = f[e]
  BY <1>2
<1> HIDE DEF f, g
<1>5. IsFiniteSet(Distributor)
  BY FeeAssumption
<1>6. SumFunctionOnSet(g, Distributor) = SumFunctionOnSet(f, Distributor) - f[d] + g[d]
  BY <1>4, <1>5, SumUpdate
<1>7. SumFunctionOnSet(f, Distributor) \in Int
  BY <1>4, <1>5, SumInt
<1>8. ASSUME "total_burned" \notin feRaced'
      PROVE  feCell'["total_burned"] >= feBurnt' + SumFunctionOnSet(g, Distributor)
  <2>1. feCell["total_burned"] >= feBurnt + SumFunctionOnSet(f, Distributor)
    BY <1>3, <1>8 DEF BurnsBacked, f
  <2>2. feCell'["total_burned"] - feBurnt' - g[d] >= feCell["total_burned"] - feBurnt - f[d]
    BY <1>8 DEF f, g
  <2>3. /\ feCell["total_burned"] \in Int /\ feCell'["total_burned"] \in Int /\ feBurnt \in Int /\ feBurnt' \in Int
        /\ f[d] \in Int /\ g[d] \in Int
    BY <1>4 DEF CounterTypes, PoolTypes, Cell
  <2> QED BY <1>6, <1>7, <2>1, <2>2, <2>3
<1> QED BY <1>1, <1>3, <1>8 DEF BurnsBacked, g

LEMMA BurnsFrame ==
    ASSUME BurnsBacked, UNCHANGED <<fePc, feOuts, feBurnt>>, feRaced \subseteq feRaced',
           \A d \in Distributor : feRead'[d] = feRead[d],
           feCell'["total_burned"] = feCell["total_burned"]
    PROVE  BurnsBacked'
<1>1. BurnCounted' = BurnCounted
  BY DEF BurnCounted
<1> QED BY <1>1 DEF BurnsBacked, CountsItsBurn

LEMMA CountBurnStep ==
    ASSUME PoolTypes, PoolTypes', CounterState, NEW d \in Distributor, CountBurn(d)
    PROVE  CounterState'
<1> DEFINE burnt == CalculateFeeBurn(feSnap[d].fees)
<1>1. /\ fePc[d] = "burn" /\ fePc' = [fePc EXCEPT ![d] = "counted"]
      /\ feOuts' = [feOuts EXCEPT ![d].burnt = burnt] /\ feBurnt' = feBurnt
      /\ IF burnt = 0 THEN UNCHANGED feCellVars
         ELSE BeginUpdate(d, "total_burned", burnt) /\ UNCHANGED <<feCell, feNet>>
  BY DEF CountBurn, feHistory
<1>2. CounterTypes /\ CellsHeld /\ BurnsBacked /\ CountsItsBurn(d) /\ d \in Holders
  BY DEF CounterState, CounterInv, BurnsBacked, Holders
<1>3. feRead[d] = NoUpdate /\ feOuts[d].burnt = 0 /\ BurnCounted[d] = 0
  BY <1>1, <1>2 DEF CountsItsBurn, BurnCounted
<1>4. burnt \in Nat
  BY BurnPart DEF PoolTypes, PoolType
<1> HIDE DEF burnt
<1>5. /\ feOuts'[d].burnt = burnt /\ fePc'[d] = "counted"
      /\ \A e \in Distributor : e # d => fePc'[e] = fePc[e] /\ feOuts'[e] = feOuts[e]
  BY <1>1 DEF PoolTypes, OutsType
<1>6. /\ CounterTypes' /\ CellsHeld' /\ feRaced \subseteq feRaced' /\ feCell' = feCell
      /\ \A e \in Distributor : e # d => feRead'[e] = feRead[e]
      /\ BurnCounted'[d] = 0 /\ CountsItsBurn(d)'
  <2>1. CASE burnt = 0
    <3>1. UNCHANGED <<feCell, feNet, feRead, feRaced>>
      BY <1>1, <2>1 DEF feCellVars
    <3> QED BY <1>2, <1>3, <1>5, <2>1, <3>1, CellsFrame DEF BurnCounted, CountsItsBurn
  <2>2. CASE burnt # 0
    <3>1. BeginUpdate(d, "total_burned", burnt) /\ UNCHANGED <<feCell, feNet>> /\ burnt \in Int
      BY <1>1, <1>4, <2>2
    <3>2. "total_burned" \in Cell /\ d \notin CellThread
      BY FeeAssumption DEF Cell
    <3>3. CounterTypes' /\ CellsHeld' /\ feRaced \subseteq feRaced'
      BY <1>2, <1>3, <3>1, <3>2, BeginCells
    <3>4. /\ feRead' = [feRead EXCEPT ![d] = [cell |-> "total_burned", saw |-> feCell["total_burned"], delta |-> burnt]]
          /\ feRead \in [Holders -> UpdateType]
      BY <1>2, <3>1 DEF BeginUpdate, CounterTypes, Holders
    <3>5. feRead'[d].cell = "total_burned" /\ feRead'[d].delta = burnt /\ \A e \in Distributor : e # d => feRead'[e] = feRead[e]
      BY <1>2, <3>4 DEF Holders
    <3>6. feRead'[d] # NoUpdate
      BY <3>5 DEF NoUpdate
    <3> QED BY <1>5, <3>1, <3>3, <3>5, <3>6 DEF BurnCounted, CountsItsBurn
  <2> QED BY <2>1, <2>2
<1>7. feCell'["total_burned"] - feBurnt' - BurnCounted'[d] >= feCell["total_burned"] - feBurnt - BurnCounted[d]
  BY <1>1, <1>2, <1>3, <1>6 DEF CounterTypes, PoolTypes, Cell
<1>8. BurnsBacked'
  BY <1>2, <1>5, <1>6, <1>7, BurnsStep
<1> QED BY <1>6, <1>8 DEF CounterState, CounterInv

\* The update of a distribution, if it holds one, is written: what it will burn is
\* counted from here on.
LEMMA BurnWritten ==
    ASSUME PoolTypes, CounterTypes, CellsHeld, BurnsBacked, NEW d \in Distributor,
           IF feRead[d] = NoUpdate THEN UNCHANGED feCellVars
           ELSE Commit(d) /\ UNCHANGED <<feMiners, feRamCoins, feRaced, feOps>>
    PROVE  /\ CounterTypes' /\ CellsHeld' /\ feRaced' = feRaced /\ feRead'[d] = NoUpdate
           /\ \A e \in Distributor : e # d => feRead'[e] = feRead[e]
           /\ "total_burned" \notin feRaced =>
                feCell'["total_burned"] - feOuts[d].burnt = feCell["total_burned"] - BurnCounted[d]
<1>1. d \in Holders /\ feOuts[d].burnt \in Nat /\ feCell["total_burned"] \in Int /\ feCell \in [Cell -> Int]
      /\ feRead \in [Holders -> UpdateType]
  BY DEF Holders, PoolTypes, OutsType, CounterTypes, Cell
<1>2. CASE feRead[d] = NoUpdate
  <2>1. UNCHANGED <<feCell, feNet, feRead, feRaced>> /\ BurnCounted[d] = feOuts[d].burnt
    BY <1>2 DEF feCellVars, BurnCounted
  <2> QED BY <1>1, <1>2, <2>1, CellsFrame
<1>3. CASE feRead[d] # NoUpdate
  <2>1. Commit(d) /\ UNCHANGED feRaced /\ BurnCounted[d] = 0
    BY <1>3 DEF BurnCounted
  <2>2. CounterTypes' /\ CellsHeld'
    BY <1>1, <1>3, <2>1, CommitCells
  <2>3. feRead[d].cell = "total_burned" /\ feRead[d].delta = feOuts[d].burnt
    BY <1>3 DEF BurnsBacked, CountsItsBurn
  <2>4. "total_burned" \notin feRaced => feRead[d].saw = feCell["total_burned"]
    <3>1. DOMAIN feRead = Holders
      BY <1>1
    <3> QED BY <1>1, <1>3, <2>3, <3>1 DEF CellsHeld
  <2>5. /\ feCell' = [feCell EXCEPT !["total_burned"] = feRead[d].saw + feOuts[d].burnt]
        /\ feRead' = [feRead EXCEPT ![d] = NoUpdate]
    BY <2>1, <2>3 DEF Commit
  <2>6. feCell'["total_burned"] = feRead[d].saw + feOuts[d].burnt
    BY <1>1, <2>5 DEF Cell
  <2>7. feRead'[d] = NoUpdate /\ \A e \in Distributor : e # d => feRead'[e] = feRead[e]
    BY <1>1, <2>5 DEF Holders
  <2> QED BY <1>1, <2>1, <2>2, <2>4, <2>6, <2>7
<1> QED BY <1>2, <1>3

\* A distribution that ends: its burn is in an accepted block or forgotten.
LEMMA FinishBurn ==
    ASSUME PoolTypes, PoolTypes', CounterState, NEW d \in Distributor, Finish(d),
           IF feRead[d] = NoUpdate THEN UNCHANGED feCellVars
           ELSE Commit(d) /\ UNCHANGED <<feMiners, feRamCoins, feRaced, feOps>>,
           feBurnt' \in {feBurnt, feBurnt + feOuts[d].burnt}
    PROVE  CounterState'
<1>1. CounterTypes /\ CellsHeld /\ BurnsBacked
  BY DEF CounterState, CounterInv
<1>2. /\ CounterTypes' /\ CellsHeld' /\ feRaced' = feRaced /\ feRead'[d] = NoUpdate
      /\ \A e \in Distributor : e # d => feRead'[e] = feRead[e]
      /\ "total_burned" \notin feRaced =>
           feCell'["total_burned"] - feOuts[d].burnt = feCell["total_burned"] - BurnCounted[d]
  BY <1>1, BurnWritten
<1>3. /\ feOuts'[d] = NoOuts /\ fePc'[d] = "idle"
      /\ \A e \in Distributor : e # d => fePc'[e] = fePc[e] /\ feOuts'[e] = feOuts[e]
  BY DEF Finish, PoolTypes
<1>4. feOuts'[d].burnt = 0 /\ CountsItsBurn(d)' /\ BurnCounted'[d] = 0
  BY <1>2, <1>3 DEF NoOuts, CountsItsBurn, BurnCounted
<1>5. /\ feCell["total_burned"] \in Int /\ feCell'["total_burned"] \in Int /\ feBurnt \in Nat /\ feOuts[d].burnt \in Nat
      /\ BurnCounted[d] \in Int
  BY <1>1, <1>2 DEF CounterTypes, Cell, PoolTypes, OutsType, BurnCounted
<1>6. "total_burned" \notin feRaced' =>
        feCell'["total_burned"] - feBurnt' - BurnCounted'[d] >= feCell["total_burned"] - feBurnt - BurnCounted[d]
  BY <1>2, <1>4, <1>5
<1>7. BurnsBacked'
  BY <1>1, <1>2, <1>3, <1>4, <1>6, BurnsStep
<1> QED BY <1>2, <1>7 DEF CounterState, CounterInv

LEMMA BuildBurn ==
    ASSUME PoolTypes, PoolTypes', CounterState, NEW d \in Distributor, BuildOutputs(d)
    PROVE  CounterState'
<1> DEFINE out == OutputsFor(feSnap[d], feOuts[d].burnt)
<1>1. /\ IF out.fees = 0 /\ SumFunction(out.refunds) = 0
         THEN feLost' = feLost + feSnap[d].fees /\ Finish(d)
         ELSE /\ feOuts' = [feOuts EXCEPT ![d] = out] /\ fePc' = [fePc EXCEPT ![d] = "persist"]
              /\ UNCHANGED <<feSnap, feLost>>
      /\ IF feRead[d] = NoUpdate THEN UNCHANGED feCellVars
         ELSE Commit(d) /\ UNCHANGED <<feMiners, feRamCoins, feRaced, feOps>>
      /\ feBurnt' = feBurnt
  BY DEF BuildOutputs
<1>2. out.burnt = feOuts[d].burnt
  BY DEF OutputsFor
<1> HIDE DEF out
<1>3. CASE out.fees = 0 /\ SumFunction(out.refunds) = 0
  BY <1>1, <1>3, FinishBurn
<1>4. CASE ~(out.fees = 0 /\ SumFunction(out.refunds) = 0)
  <2>1. CounterTypes /\ CellsHeld /\ BurnsBacked
    BY DEF CounterState, CounterInv
  <2>2. /\ CounterTypes' /\ CellsHeld' /\ feRaced' = feRaced /\ feRead'[d] = NoUpdate
        /\ \A e \in Distributor : e # d => feRead'[e] = feRead[e]
        /\ "total_burned" \notin feRaced =>
             feCell'["total_burned"] - feOuts[d].burnt = feCell["total_burned"] - BurnCounted[d]
    BY <1>1, <2>1, BurnWritten
  <2>3. /\ feOuts'[d] = out /\ fePc'[d] = "persist"
        /\ \A e \in Distributor : e # d => fePc'[e] = fePc[e] /\ feOuts'[e] = feOuts[e]
    BY <1>1, <1>4 DEF PoolTypes
  <2>4. CountsItsBurn(d)' /\ BurnCounted'[d] = feOuts[d].burnt
    BY <1>2, <2>2, <2>3 DEF CountsItsBurn, BurnCounted
  <2>5. /\ feCell["total_burned"] \in Int /\ feCell'["total_burned"] \in Int /\ feBurnt \in Nat /\ feOuts[d].burnt \in Nat
        /\ BurnCounted[d] \in Int
    BY <2>1, <2>2 DEF CounterTypes, Cell, PoolTypes, OutsType, BurnCounted
  <2>6. "total_burned" \notin feRaced' =>
          feCell'["total_burned"] - feBurnt' - BurnCounted'[d] >= feCell["total_burned"] - feBurnt - BurnCounted[d]
    BY <1>1, <2>2, <2>4, <2>5
  <2>7. BurnsBacked'
    BY <2>1, <2>2, <2>3, <2>4, <2>6, BurnsStep
  <2> QED BY <2>2, <2>7 DEF CounterState, CounterInv
<1> QED BY <1>3, <1>4

LEMMA SwapBurn ==
    ASSUME PoolTypes, PoolTypes', CounterState, NEW d \in Distributor, DistributeStart(d)
    PROVE  CounterState'
<1>1. CounterTypes /\ CellsHeld /\ BurnsBacked
  BY DEF CounterState, CounterInv
<1>2. /\ UNCHANGED <<feCell, feNet, feRead, feRaced, feOuts, feBurnt>> /\ fePc[d] = "idle"
      /\ fePc' = [fePc EXCEPT ![d] = "burn"]
  BY DEF DistributeStart, feCellVars, feHistory
<1>3. CounterTypes' /\ CellsHeld'
  BY <1>1, <1>2, CellsFrame
<1>4. CountsItsBurn(d) /\ fePc'[d] = "burn" /\ (\A e \in Distributor : e # d => fePc'[e] = fePc[e])
  BY <1>1, <1>2 DEF BurnsBacked, PoolTypes
<1>5. CountsItsBurn(d)'
  BY <1>2, <1>4 DEF CountsItsBurn
<1>6. BurnCounted' = BurnCounted /\ BurnCounted[d] \in Int
  BY <1>2 DEF BurnCounted, PoolTypes, OutsType
<1>7. feCell'["total_burned"] - feBurnt' - BurnCounted'[d] >= feCell["total_burned"] - feBurnt - BurnCounted[d]
  BY <1>1, <1>2, <1>6 DEF CounterTypes, PoolTypes, Cell
<1>8. BurnsBacked'
  BY <1>1, <1>2, <1>3, <1>4, <1>5, <1>7, BurnsStep
<1> QED BY <1>3, <1>8 DEF CounterState, CounterInv

\* A request of another thread takes a counter that is not total_burned.
LEMMA ThreadBegins ==
    ASSUME CounterState, NEW t \in CellThread, NEW c \in {"gas", "node_fee_pool"}, NEW delta \in Int,
           feRead[t] = NoUpdate, BeginUpdate(t, c, delta), c = "gas" => feCell[c] + delta >= 0,
           UNCHANGED <<feCell, feNet, feDistVars, feHistory>>
    PROVE  CounterState'
<1>1. CounterTypes /\ CellsHeld /\ BurnsBacked /\ t \in Holders /\ c \in Cell /\ c # "total_burned"
  BY DEF CounterState, CounterInv, Holders, Cell
<1>2. CounterTypes' /\ CellsHeld' /\ feRaced \subseteq feRaced'
  BY <1>1, BeginCells
<1>3. \A d \in Distributor : feRead'[d] = feRead[d]
  <2>1. \A d \in Distributor : d # t /\ d \in Holders
    BY FeeAssumption DEF Holders
  <2> QED BY <1>1, <2>1 DEF BeginUpdate, CounterTypes, Holders
<1>4. UNCHANGED <<fePc, feOuts, feBurnt>>
  BY DEF feDistVars, feHistory
<1>5. BurnsBacked'
  BY <1>1, <1>2, <1>3, <1>4, BurnsFrame
<1> QED BY <1>2, <1>5 DEF CounterState, CounterInv

LEMMA GasStep ==
    ASSUME CounterState, NEW t \in CellThread, GasBegin(t)
    PROVE  CounterState'
<1>1. feRead[t] = NoUpdate /\ UNCHANGED <<feCell, feNet, feDistVars, feHistory>>
  BY DEF GasBegin
<1>2. feCell["gas"] \in Int /\ feCell["gas"] >= 0 /\ "gas" \in {"gas", "node_fee_pool"}
  BY DEF CounterState, CounterInv, CellsHeld, CounterTypes, Cell
<1>3. CASE CanConsume(feCell["gas"]) /\ BeginUpdate(t, "gas", -GasPerTx)
  <2>1. feCell["gas"] + (-GasPerTx) >= 0 /\ -GasPerTx \in Int
    BY <1>2, <1>3, FeeConstants DEF CanConsume
  <2> QED BY <1>1, <1>2, <1>3, <2>1, ThreadBegins
<1>4. ASSUME NEW amt \in GasSizes, BeginUpdate(t, "gas", amt) PROVE CounterState'
  <2>1. amt \in Nat
    BY FeeAssumption
  <2>2. feCell["gas"] + amt >= 0 /\ amt \in Int
    BY <1>2, <2>1
  <2> QED BY <1>1, <1>2, <1>4, <2>2, ThreadBegins
<1>5. ASSUME NEW amt \in GasSizes, feCell["gas"] >= amt, BeginUpdate(t, "gas", -amt) PROVE CounterState'
  <2>1. amt \in Nat
    BY FeeAssumption
  <2>2. feCell["gas"] + (-amt) >= 0 /\ -amt \in Int
    BY <1>2, <1>5, <2>1
  <2> QED BY <1>1, <1>2, <1>5, <2>2, ThreadBegins
<1> QED BY <1>3, <1>4, <1>5 DEF GasBegin

LEMMA ThreadCommits ==
    ASSUME CounterState, NEW t \in CellThread, CellCommit(t)
    PROVE  CounterState'
<1>1. CounterTypes /\ CellsHeld /\ BurnsBacked /\ t \in Holders
  BY DEF CounterState, CounterInv, Holders
<1>2. feRead[t] # NoUpdate /\ Commit(t) /\ feRaced' = feRaced /\ UNCHANGED <<fePc, feOuts, feBurnt>>
  BY DEF CellCommit, feDistVars, feHistory
<1>3. CounterTypes' /\ CellsHeld'
  BY <1>1, <1>2, CommitCells
<1>4. feRead[t].cell # "total_burned" /\ feRead[t].cell \in Cell
  BY <1>1, <1>2, ReadTypes DEF CellsHeld
<1>5. feCell'["total_burned"] = feCell["total_burned"]
  BY <1>1, <1>2, <1>4 DEF Commit, CounterTypes, Cell
<1>6. \A d \in Distributor : feRead'[d] = feRead[d]
  <2>1. \A d \in Distributor : d # t /\ d \in Holders
    BY FeeAssumption DEF Holders
  <2> QED BY <1>1, <1>2, <2>1 DEF Commit, CounterTypes, Holders
<1>7. BurnsBacked'
  BY <1>1, <1>2, <1>5, <1>6, BurnsFrame
<1> QED BY <1>3, <1>7 DEF CounterState, CounterInv

LEMMA CounterRestart ==
    ASSUME PoolTypes, CounterState, FeeRestart
    PROVE  CounterState'
<1>1. CounterTypes /\ CellsHeld /\ BurnsBacked
  BY DEF CounterState, CounterInv
<1>2. /\ fePc' = [d \in Distributor |-> "idle"] /\ feOuts' = [d \in Distributor |-> NoOuts]
      /\ feRead' = [t \in DOMAIN feRead |-> NoUpdate] /\ UNCHANGED <<feCell, feNet, feRaced, feBurnt>>
  BY DEF FeeRestart
<1>3. DOMAIN feRead = Holders
  BY <1>1 DEF CounterTypes, Holders
<1>4. feRead' = [t \in Holders |-> NoUpdate]
  BY <1>2, <1>3
<1>5. CounterTypes'
  BY <1>1, <1>2, <1>4 DEF CounterTypes, Holders, UpdateType
<1>6. CellsHeld'
  <2>1. NoUpdate.cell # "total_burned"
    BY DEF NoUpdate
  <2> QED BY <1>1, <1>2, <1>4, <2>1 DEF CellsHeld, Holders
<1>7. BurnsBacked'
  <2>1. \A d \in Distributor : feRead'[d] = NoUpdate /\ feOuts'[d].burnt = 0
    BY <1>2, <1>4 DEF NoOuts, Holders
  <2>2. \A d \in Distributor : CountsItsBurn(d)'
    BY <2>1 DEF CountsItsBurn
  <2>3. IsFiniteSet(Distributor)
    BY FeeAssumption
  <2>4. SumFunction(BurnCounted)' = 0
    <3>1. DOMAIN BurnCounted' = Distributor /\ \A d \in Distributor : BurnCounted'[d] = 0
      BY <2>1 DEF BurnCounted
    <3> QED BY <2>3, <3>1, SumZero DEF SumFunction
  <2>5. SumFunction(BurnCounted) \in Nat
    <3>1. DOMAIN BurnCounted = Distributor /\ \A d \in Distributor : BurnCounted[d] \in Nat
      BY DEF BurnCounted, PoolTypes, OutsType
    <3> QED BY <2>3, <3>1, SumNat DEF SumFunction
  <2>6. feCell["total_burned"] \in Int /\ feBurnt \in Nat
    BY <1>1 DEF CounterTypes, Cell, PoolTypes
  <2>7. "total_burned" \in feRaced \/ feCell["total_burned"] >= feBurnt + SumFunction(BurnCounted)
    BY <1>1 DEF BurnsBacked
  <2> DEFINE s == SumFunction(BurnCounted)
  <2> HIDE DEF s
  <2>8. "total_burned" \in feRaced \/ feCell["total_burned"] >= feBurnt
    <3>1. s \in Nat
      BY <2>5 DEF s
    <3>2. "total_burned" \in feRaced \/ feCell["total_burned"] >= feBurnt + s
      BY <2>7 DEF s
    <3> QED BY <2>6, <3>1, <3>2
  <2> QED BY <1>2, <2>2, <2>4, <2>6, <2>8 DEF BurnsBacked
<1> QED BY <1>5, <1>6, <1>7 DEF CounterState, CounterInv

LEMMA CounterFrame ==
    ASSUME CounterState, UNCHANGED <<feCell, feNet, feRead, feRaced, feDistVars, feHistory>>
    PROVE  CounterState'
<1>1. CounterTypes /\ CellsHeld /\ BurnsBacked
  BY DEF CounterState, CounterInv
<1>2. UNCHANGED <<fePc, feOuts, feBurnt>>
  BY DEF feDistVars, feHistory
<1> QED BY <1>1, <1>2, CellsFrame, BurnsFrame DEF CounterState, CounterInv

LEMMA CounterStep ==
    ASSUME PoolTypes, PoolTypes', CounterState, [(FeeNext \/ NodeNext \/ CellNext) /\ UNCHANGED feTreasury]_feVars
    PROVE  CounterState'
<1>0. ASSUME UNCHANGED <<fePc, feOuts, feBurnt, feCellVars>> PROVE CounterState'
  <2>1. CounterTypes /\ CellsHeld /\ BurnsBacked /\ UNCHANGED <<fePc, feOuts, feBurnt, feCell, feNet, feRead, feRaced>>
    BY <1>0 DEF CounterState, CounterInv, feCellVars
  <2> QED BY <2>1, CellsFrame, BurnsFrame DEF CounterState, CounterInv
<1>1. CASE UNCHANGED feVars
  BY <1>0, <1>1 DEF feVars, feDistVars, feHistory
<1>2. CASE FeeRestart
  BY <1>2, CounterRestart
<1>3. CASE NodeNext /\ ~FeeRestart
  <2>1. UNCHANGED <<fePc, feOuts, feBurnt, feCellVars>>
    BY <1>3 DEF NodeNext, SignRegistration, RegisterSigned, RegisterAdmin, FeeTick, feDistVars, feHistory
  <2> QED BY <1>0, <2>1
<1>4. ASSUME CellNext, ~FeeRestart PROVE CounterState'
  <2>1. ASSUME NEW t \in CellThread, GasBegin(t) PROVE CounterState'
    BY <2>1, GasStep
  <2>2. ASSUME NEW t \in CellThread, NEW amt \in GasSizes, RewardPoolBegin(t, amt) PROVE CounterState'
    <3>1. /\ feRead[t] = NoUpdate /\ UNCHANGED <<feCell, feNet, feDistVars, feHistory>>
          /\ BeginUpdate(t, "node_fee_pool", amt)
      BY <2>2 DEF RewardPoolBegin
    <3>2. amt \in Int /\ "node_fee_pool" \in {"gas", "node_fee_pool"} /\ "node_fee_pool" # "gas"
      BY FeeAssumption
    <3> QED BY <3>1, <3>2, ThreadBegins
  <2>3. ASSUME NEW t \in CellThread, CellCommit(t) PROVE CounterState'
    BY <2>3, ThreadCommits
  <2>4. ASSUME NEW n \in FeeNode, CountBlock(n) PROVE CounterState'
    BY <2>4, CounterFrame DEF CountBlock
  <2>5. ASSUME NEW t \in CellThread, MilestoneRewards(t) PROVE CounterState'
    <3> DEFINE pool == feCell["node_fee_pool"]
    <3>1. /\ feRead[t] = NoUpdate /\ UNCHANGED <<feCell, feNet, feDistVars, feHistory>>
          /\ BeginUpdate(t, "node_fee_pool", -pool)
      BY <2>5 DEF MilestoneRewards
    <3>2. pool \in Int
      BY DEF CounterState, CounterTypes, Cell
    <3> HIDE DEF pool
    <3>3. -pool \in Int /\ "node_fee_pool" \in {"gas", "node_fee_pool"} /\ "node_fee_pool" # "gas"
      BY <3>2
    <3> QED BY <3>1, <3>3, ThreadBegins
  <2> QED BY <1>4, <2>1, <2>2, <2>3, <2>4, <2>5 DEF CellNext
<1>5. ASSUME FeeNext, ~FeeRestart PROVE CounterState'
  <2>1. ASSUME NEW n \in FeeNode, NEW amt \in FeeSizes, AccumulateTxFee(n, amt) PROVE CounterState'
    BY <1>0, <2>1 DEF AccumulateTxFee
  <2>2. ASSUME NEW w \in Burner, NEW amt \in FeeSizes, AccumulateRefund(w, amt) PROVE CounterState'
    BY <1>0, <2>2 DEF AccumulateRefund
  <2>3. ASSUME NEW d \in Distributor, DistributeStart(d) PROVE CounterState'
    BY <2>3, SwapBurn
  <2>4. ASSUME NEW d \in Distributor, CountBurn(d) PROVE CounterState'
    BY <2>4, CountBurnStep
  <2>5. ASSUME NEW d \in Distributor, BuildOutputs(d) PROVE CounterState'
    BY <2>5, BuildBurn
  <2>6. ASSUME NEW d \in Distributor, feRead[d] # NoUpdate PROVE fePc[d] = "counted"
    BY <2>6 DEF CounterState, CounterInv, BurnsBacked, CountsItsBurn
  <2>7. ASSUME NEW d \in Distributor, RewardInserted(d) PROVE CounterState'
    <3>1. feRead[d] = NoUpdate /\ Finish(d) /\ UNCHANGED feCellVars /\ feBurnt' = feBurnt + feOuts[d].burnt
      BY <2>6, <2>7 DEF RewardInserted, Settle
    <3> QED BY <3>1, FinishBurn
  <2>8. ASSUME NEW d \in Distributor, RewardRefused(d) PROVE CounterState'
    <3>1. feRead[d] = NoUpdate /\ Finish(d) /\ UNCHANGED feCellVars /\ feBurnt' = feBurnt
      BY <2>6, <2>8 DEF RewardRefused
    <3> QED BY <3>1, FinishBurn
  <2>9. ASSUME NEW d \in Distributor, RequestDropped(d) PROVE CounterState'
    <3>1. /\ IF feRead[d] = NoUpdate THEN UNCHANGED feCellVars
             ELSE Commit(d) /\ UNCHANGED <<feMiners, feRamCoins, feRaced, feOps>>
          /\ Finish(d) /\ feBurnt' \in {feBurnt, feBurnt + feOuts[d].burnt}
      BY <2>9 DEF RequestDropped, Settle
    <3> QED BY <3>1, FinishBurn
  <2>10. CASE ToggleReadOnly
    BY <1>0, <2>10 DEF ToggleReadOnly, feDistVars, feHistory
  <2>11. ASSUME NEW bps \in RuntimeBurn, SetBurnRate(bps) PROVE CounterState'
    BY <1>0, <2>11 DEF SetBurnRate, feDistVars, feHistory
  <2> QED BY <1>5, <2>1, <2>2, <2>3, <2>4, <2>5, <2>7, <2>8, <2>9, <2>10, <2>11 DEF FeeNext
<1> QED BY <1>1, <1>2, <1>3, <1>4, <1>5

LEMMA CounterStart ==
    ASSUME FeeInit
    PROVE  CounterState
<1>1. /\ fePc = [d \in Distributor |-> "idle"] /\ feOuts = [d \in Distributor |-> NoOuts]
      /\ feRead = [t \in Holders |-> NoUpdate] /\ feCell = [c \in Cell |-> 0] /\ feNet = [c \in Cell |-> 0]
      /\ feBurnt = 0 /\ feRaced = {}
  BY DEF FeeInit, Holders
<1>2. CounterTypes
  BY <1>1 DEF CounterTypes, Holders, UpdateType
<1>3. CellsHeld
  <2>1. NoUpdate.cell # "total_burned"
    BY DEF NoUpdate
  <2> QED BY <1>1, <2>1 DEF CellsHeld, Holders, Cell
<1>4. BurnsBacked
  <2>1. \A d \in Distributor : feRead[d] = NoUpdate /\ feOuts[d].burnt = 0
    BY <1>1 DEF NoOuts, Holders
  <2>2. DOMAIN BurnCounted = Distributor /\ \A d \in Distributor : BurnCounted[d] = 0
    BY <2>1 DEF BurnCounted
  <2>3. SumFunction(BurnCounted) = 0
    BY <2>2, FeeAssumption, SumZero DEF SumFunction
  <2> QED BY <1>1, <2>1, <2>3 DEF BurnsBacked, CountsItsBurn, Cell
<1> QED BY <1>2, <1>3, <1>4 DEF CounterState, CounterInv

LEMMA CounterBacks ==
    ASSUME PoolTypes, CounterState
    PROVE  CountersBacked
<1>1. CounterTypes /\ CellsHeld /\ BurnsBacked
  BY DEF CounterState, CounterInv
<1> DEFINE s == SumFunction(BurnCounted)
<1>2. s \in Nat
  <2>1. DOMAIN BurnCounted = Distributor /\ \A d \in Distributor : BurnCounted[d] \in Nat
    BY DEF BurnCounted, PoolTypes, OutsType
  <2> QED BY <2>1, FeeAssumption, SumNat DEF SumFunction
<1>3. "total_burned" \in feRaced \/ feCell["total_burned"] >= feBurnt + s
  BY <1>1 DEF BurnsBacked
<1> HIDE DEF s
<1>4. feCell["total_burned"] \in Int /\ feCell["gas"] \in Int /\ feBurnt \in Nat
  BY <1>1 DEF CounterTypes, Cell, PoolTypes
<1> QED BY <1>1, <1>2, <1>3, <1>4 DEF CountersBacked, CellsHeld

\* Unless two requests held the counter together, total_burned is never behind the
\* burns of accepted blocks and no more gas leaves the gas pool than was deposited,
\* although every update is a read and a later write without a lock
\* (increment_total_burned, consume_gas, withdraw_gas).
THEOREM CountersAlwaysBacked == FeeSpec => []CountersBacked
<1>1. FeeInit => PoolState /\ CounterState
  BY PoolStart, CounterStart
<1>2. PoolState /\ CounterState /\ [(FeeNext \/ NodeNext \/ CellNext) /\ UNCHANGED feTreasury]_feVars
        => (PoolState /\ CounterState)'
  <2> SUFFICES ASSUME PoolState, CounterState, [(FeeNext \/ NodeNext \/ CellNext) /\ UNCHANGED feTreasury]_feVars
               PROVE  PoolState' /\ CounterState'
    OBVIOUS
  <2>1. PoolState' /\ PoolTypes /\ PoolTypes'
    BY PoolStep DEF PoolState
  <2> QED BY <2>1, CounterStep
<1>3. PoolState /\ CounterState => CountersBacked
  BY CounterBacks DEF PoolState
<1> QED BY <1>1, <1>2, <1>3, PTL DEF FeeSpec

-----------------------------------------------------------------------------
(* The coins of a ledger in memory.                                        *)

Inputs(x) == ToSet(Spends[x])
Queued == ToSet(coinQueue)
\* A transaction that ran to its end, and one that did not run into a lapse.
Made(x) == x \in settled \/ x \in Queued
Clean == lapses \cap {"overrun", "reordered", "released"} = {}
SettledBorn == FirstCoin \cup UNION {Creates[x] : x \in settled}

Phases == {"idle", "run", "index"}
CoinTypes ==
    /\ shard \in [1..NumShards -> Seq(Coin)]
    /\ \A s \in 1..NumShards : \A c \in ToSet(shard[s]) : ShardOf[c] = s
    /\ coinDb \subseteq Coin /\ spentSet \subseteq Coin /\ spentOrder \in Seq(Coin)
    /\ coinRun \in [CoinThread -> [op : Phases, claimed : Nat, shards : SUBSET (1..NumShards)]]
    /\ coinTx \in [CoinThread -> Tx] /\ coinQueue \in Seq(Tx)
    /\ coinSpent \in [Coin -> SUBSET Tx] /\ coinBorn \subseteq Coin /\ settled \subseteq Tx
    /\ lapses \subseteq Lapse /\ coinBoots \in Nat

RunShape ==
    \A t \in CoinThread :
        /\ coinRun[t].claimed <= Len(Spends[coinTx[t]])
        /\ coinRun[t].op = "idle" => coinRun[t].claimed = 0
        /\ coinRun[t].op = "index" =>
             coinRun[t].claimed = Len(Spends[coinTx[t]]) /\ coinRun[t].shards = {}

CoinBase == CoinTypes /\ RunShape

LEMMA TailSet ==
    ASSUME NEW S, NEW s \in Seq(S), s # <<>>
    PROVE  Head(s) \in S /\ Tail(s) \in Seq(S) /\ ToSet(s) = {Head(s)} \cup ToSet(Tail(s))
<1>1. /\ Head(s) \in S /\ Tail(s) \in Seq(S) /\ Len(Tail(s)) = Len(s) - 1 /\ Head(s) = s[1]
      /\ Len(s) \in Nat /\ Len(s) > 0 /\ \A i \in 1..Len(Tail(s)) : Tail(s)[i] = s[i + 1]
  BY HeadTailProperties
<1>2. DOMAIN s = 1..Len(s) /\ DOMAIN Tail(s) = 1..(Len(s) - 1)
  BY <1>1
<1>3. \A i \in DOMAIN s : i = 1 \/ (i - 1 \in DOMAIN Tail(s) /\ Tail(s)[i - 1] = s[i])
  BY <1>1, <1>2
<1>4. \A i \in DOMAIN Tail(s) : i + 1 \in DOMAIN s /\ Tail(s)[i] = s[i + 1]
  BY <1>1, <1>2
<1>5. 1 \in DOMAIN s
  BY <1>1, <1>2
<1>6. \A e \in ToSet(s) : e = Head(s) \/ e \in ToSet(Tail(s))
  BY <1>1, <1>3 DEF ToSet
<1>7. Head(s) \in ToSet(s) /\ ToSet(Tail(s)) \subseteq ToSet(s)
  BY <1>1, <1>4, <1>5 DEF ToSet
<1> QED BY <1>1, <1>6, <1>7

LEMMA SubSeqSet ==
    ASSUME NEW S, NEW s \in Seq(S), NEW m \in Nat \ {0}, NEW n \in Nat, n <= Len(s)
    PROVE  /\ SubSeq(s, m, n) \in Seq(S)
           /\ ToSet(SubSeq(s, m, n)) = {s[i] : i \in m..n}
           /\ Len(SubSeq(s, m, n)) = IF m <= n THEN n - m + 1 ELSE 0
           /\ \A i \in DOMAIN SubSeq(s, m, n) : SubSeq(s, m, n)[i] = s[m + i - 1] /\ m + i - 1 \in m..n
<1>1. \A i \in m..n : s[i] \in S
  OBVIOUS
<1>2. /\ SubSeq(s, m, n) \in Seq(S)
      /\ Len(SubSeq(s, m, n)) = IF m <= n THEN n - m + 1 ELSE 0
      /\ \A i \in 1..n - m + 1 : SubSeq(s, m, n)[i] = s[m + i - 1]
  BY <1>1, SubSeqProperties
<1> DEFINE r == SubSeq(s, m, n)
<1> HIDE DEF r
<1>3. r \in Seq(S) /\ Len(r) = (IF m <= n THEN n - m + 1 ELSE 0) /\ \A i \in 1..n - m + 1 : r[i] = s[m + i - 1]
  BY <1>2 DEF r
<1>4. DOMAIN r = 1..Len(r)
  BY <1>3
<1>5. \A i \in DOMAIN r : r[i] = s[m + i - 1] /\ m + i - 1 \in m..n
  BY <1>3, <1>4
<1>6. \A j \in m..n : j - m + 1 \in DOMAIN r /\ r[j - m + 1] = s[j]
  BY <1>3, <1>4
<1>7. ToSet(r) = {s[i] : i \in m..n}
  <2>1. ASSUME NEW i \in DOMAIN r PROVE r[i] \in {s[j] : j \in m..n}
    BY ONLY <1>5
  <2>2. ASSUME NEW j \in m..n PROVE s[j] \in ToSet(r)
    BY ONLY <1>6 DEF ToSet
  <2>3. ToSet(r) \subseteq {s[j] : j \in m..n}
    BY ONLY <2>1 DEF ToSet
  <2>4. {s[j] : j \in m..n} \subseteq ToSet(r)
    BY ONLY <2>2
  <2> QED BY ONLY <2>3, <2>4
<1> QED BY <1>3, <1>5, <1>7 DEF r

LEMMA AppendSet ==
    ASSUME NEW S, NEW s \in Seq(S), NEW e \in S
    PROVE  /\ Append(s, e) \in Seq(S) /\ ToSet(Append(s, e)) = ToSet(s) \cup {e}
           /\ Len(Append(s, e)) = Len(s) + 1
<1>1. /\ Append(s, e) \in Seq(S) /\ Len(Append(s, e)) = Len(s) + 1 /\ Len(s) \in Nat
      /\ DOMAIN s = 1..Len(s) /\ DOMAIN Append(s, e) = 1..Len(s) + 1
      /\ \A i \in 1..Len(s) : Append(s, e)[i] = s[i]
      /\ Append(s, e)[Len(s) + 1] = e
  OBVIOUS
<1>2. ToSet(Append(s, e)) = ToSet(s) \cup {e}
  BY <1>1 DEF ToSet
<1> QED BY <1>1, <1>2

LEMMA ConcatSet ==
    ASSUME NEW S, NEW s \in Seq(S), NEW r \in Seq(S)
    PROVE  s \o r \in Seq(S) /\ ToSet(s \o r) \subseteq ToSet(s) \cup ToSet(r)
<1>1. /\ s \o r \in Seq(S) /\ Len(s \o r) = Len(s) + Len(r) /\ Len(s) \in Nat /\ Len(r) \in Nat
      /\ \A i \in 1..Len(s) + Len(r) : (s \o r)[i] = IF i <= Len(s) THEN s[i] ELSE r[i - Len(s)]
  BY ConcatProperties
<1>2. DOMAIN s = 1..Len(s) /\ DOMAIN r = 1..Len(r) /\ DOMAIN (s \o r) = 1..Len(s) + Len(r)
  BY <1>1
<1>3. \A i \in DOMAIN (s \o r) : \/ i \in DOMAIN s /\ (s \o r)[i] = s[i]
                                 \/ i - Len(s) \in DOMAIN r /\ (s \o r)[i] = r[i - Len(s)]
  BY <1>1, <1>2
<1> QED BY <1>1, <1>3 DEF ToSet

LEMMA InputsFact ==
    \A x \in Tx : /\ Inputs(x) \subseteq Coin /\ Len(Spends[x]) \in Nat
                  /\ Inputs(x) = {Spends[x][i] : i \in 1..Len(Spends[x])}
                  /\ \A i \in 1..Len(Spends[x]) : Spends[x][i] \in Coin
BY CoinAssumption DEF Inputs, ToSet

LEMMA SetToSeqFact ==
    ASSUME NEW S, IsFiniteSet(S)
    PROVE  /\ SetToSeq(S) \in Seq(S)
           /\ {SetToSeq(S)[i] : i \in DOMAIN SetToSeq(S)} = S
           /\ \A i, j \in DOMAIN SetToSeq(S) : SetToSeq(S)[i] = SetToSeq(S)[j] => i = j
           /\ Len(SetToSeq(S)) = Cardinality(S)
<1> DEFINE n == Cardinality(S)
           f == SetToSeq(S)
<1>1. n \in Nat /\ ExistsBijection(1..n, S)
  BY FS_CardinalityType
<1>2. \E g \in [1..n -> S] : IsInjective(g)
  BY <1>1 DEF ExistsBijection, Bijection, Injection
<1>3. f \in [1..n -> S] /\ IsInjective(f)
  BY <1>2 DEF SetToSeq
<1> HIDE DEF f, n
<1>4. f \in Injection(1..n, S)
  BY <1>3 DEF Injection
<1>5. IsFiniteSet(1..n) /\ Cardinality(1..n) = n
  <2>1. IsFiniteSet(1..n) /\ Cardinality(1..n) = IF 1 > n THEN 0 ELSE n - 1 + 1
    BY <1>1, FS_Interval
  <2> QED BY <1>1, <2>1
<1>6. f \in Surjection(1..n, S)
  <2>1. Cardinality(1..n) = Cardinality(S)
    BY <1>5 DEF n
  <2> QED BY <1>4, <2>1, FS_Injection
<1>7. f \in Seq(S) /\ Len(f) = n /\ DOMAIN f = 1..n
  BY <1>1, <1>3
<1>8. {f[i] : i \in DOMAIN f} = S
  BY <1>3, <1>6, <1>7 DEF Surjection
<1>9. \A i, j \in DOMAIN f : f[i] = f[j] => i = j
  BY <1>3 DEF IsInjective
<1> QED BY <1>7, <1>8, <1>9 DEF f, n

LEMMA MaxFact ==
    ASSUME NEW n \in Int
    PROVE  Max({n, 0}) = IF n > 0 THEN n ELSE 0
<1>1. \E m \in {n, 0} : \A k \in {n, 0} : m >= k
  OBVIOUS
<1>2. Max({n, 0}) \in {n, 0} /\ \A k \in {n, 0} : Max({n, 0}) >= k
  BY <1>1 DEF Max
<1> QED BY <1>2

\* A shard keeps some of its outputs and takes some of the new ones.
LEMMA PushAllFact ==
    ASSUME NEW lru \in Seq(Coin), NEW coins \in SUBSET Coin
    PROVE  PushAll(lru, coins).lru \in Seq(Coin) /\ ToSet(PushAll(lru, coins).lru) \subseteq ToSet(lru) \cup coins
<1> DEFINE new == SetToSeq(coins)
           all == lru \o new
           over == Max({Len(all) - ShardCap, 0})
<1>1. IsFiniteSet(coins)
  BY CoinAssumption, FS_Subset
<1>2. new \in Seq(coins) /\ ToSet(new) = coins
  BY <1>1, SetToSeqFact DEF ToSet
<1>3. new \in Seq(Coin)
  BY <1>2
<1> HIDE DEF new
<1>4. all \in Seq(Coin) /\ ToSet(all) \subseteq ToSet(lru) \cup coins
  BY <1>2, <1>3, ConcatSet
<1> HIDE DEF all
<1>5. Len(all) \in Nat /\ ShardCap \in Nat
  BY <1>4, CoinAssumption
<1>6. over \in Nat
  BY <1>5, MaxFact
<1> HIDE DEF over
<1>7. /\ SubSeq(all, over + 1, Len(all)) \in Seq(Coin)
      /\ ToSet(SubSeq(all, over + 1, Len(all))) = {all[i] : i \in over + 1..Len(all)}
  BY <1>4, <1>5, <1>6, SubSeqSet
<1>8. {all[i] : i \in over + 1..Len(all)} \subseteq ToSet(all)
  BY <1>4, <1>5, <1>6 DEF ToSet
<1>9. PushAll(lru, coins).lru = SubSeq(all, over + 1, Len(all))
  BY DEF PushAll, new, all, over
<1> QED BY <1>4, <1>7, <1>8, <1>9

LEMMA PoppedFact ==
    ASSUME NEW lru \in Seq(Coin), NEW coins, NEW kept \in Popped(lru, coins)
    PROVE  kept \in Seq(Coin) /\ ToSet(kept) \subseteq ToSet(lru) \ coins
<1> DEFINE left == ToSet(lru) \ coins
           n == Cardinality(left)
<1>1. ToSet(lru) \subseteq Coin /\ IsFiniteSet(left)
  <2>1. ToSet(lru) \subseteq Coin
    BY DEF ToSet
  <2>2. left \subseteq Coin
    BY <2>1
  <2> QED BY <2>1, <2>2, CoinAssumption, FS_Subset
<1>2. n \in Nat
  BY <1>1, FS_CardinalityType
<1>3. kept \in [1..n -> left]
  BY DEF Popped, SetToSeqs
<1> HIDE DEF n
<1>4. kept \in Seq(left)
  BY <1>2, <1>3
<1>5. left \subseteq Coin
  BY <1>1
<1> HIDE DEF left
<1>6. kept \in Seq(Coin) /\ ToSet(kept) \subseteq left
  BY <1>4, <1>5 DEF ToSet
<1> QED BY <1>6 DEF left

LEMMA LoadedFact ==
    ASSUME NEW coins \in SUBSET Coin
    PROVE  /\ Loaded(coins) \in [1..NumShards -> Seq(Coin)]
           /\ \A s \in 1..NumShards : ToSet(Loaded(coins)[s]) \subseteq {c \in coins : ShardOf[c] = s}
<1>1. ASSUME NEW s \in 1..NumShards
      PROVE  /\ Loaded(coins)[s] = PushAll(<<>>, {c \in coins : ShardOf[c] = s}).lru
             /\ PushAll(<<>>, {c \in coins : ShardOf[c] = s}).lru \in Seq(Coin)
             /\ ToSet(Loaded(coins)[s]) \subseteq {c \in coins : ShardOf[c] = s}
  <2> DEFINE here == {c \in coins : ShardOf[c] = s}
  <2>1. Loaded(coins)[s] = PushAll(<<>>, here).lru
    BY DEF Loaded
  <2>2. here \in SUBSET Coin /\ <<>> \in Seq(Coin) /\ ToSet(<<>>) = {}
    BY DEF ToSet
  <2> HIDE DEF here
  <2>3. PushAll(<<>>, here).lru \in Seq(Coin) /\ ToSet(PushAll(<<>>, here).lru) \subseteq ToSet(<<>>) \cup here
    BY <2>2, PushAllFact
  <2> QED BY <2>1, <2>2, <2>3 DEF here
<1>2. Loaded(coins) = [s \in 1..NumShards |-> Loaded(coins)[s]]
  BY DEF Loaded
<1> QED BY <1>1, <1>2

\* The record of one thread changes.
RunTypes == [op : Phases, claimed : Nat, shards : SUBSET (1..NumShards)]

LEMMA RunFact ==
    ASSUME CoinBase, NEW t \in CoinThread
    PROVE  /\ coinRun[t] \in RunTypes /\ coinRun[t].op \in Phases /\ coinRun[t].claimed \in Nat
           /\ coinRun[t].shards \subseteq 1..NumShards
           /\ coinTx[t] \in Tx /\ Inputs(coinTx[t]) \subseteq Coin /\ Claimed(t) \subseteq Inputs(coinTx[t])
           /\ coinRun[t].claimed = Len(Spends[coinTx[t]]) => Claimed(t) = Inputs(coinTx[t])
           /\ ~Busy(t) => Claimed(t) = {}
           /\ Claiming(t) => NextInput(t) \in Inputs(coinTx[t])
<1>1. /\ coinRun[t] \in RunTypes /\ coinTx[t] \in Tx
      /\ coinRun[t].claimed <= Len(Spends[coinTx[t]])
      /\ coinRun[t].op = "idle" => coinRun[t].claimed = 0
  BY DEF CoinBase, CoinTypes, RunShape, RunTypes
<1>2. /\ coinRun[t].op \in Phases /\ coinRun[t].claimed \in Nat
      /\ coinRun[t].shards \subseteq 1..NumShards
  BY <1>1 DEF RunTypes
<1> DEFINE x == coinTx[t]
           k == coinRun[t].claimed
           n == Len(Spends[x])
<1>3. /\ Inputs(x) \subseteq Coin /\ n \in Nat /\ Inputs(x) = {Spends[x][i] : i \in 1..n}
  BY <1>1, InputsFact
<1>4. Claimed(t) = {Spends[x][i] : i \in 1..k}
  BY DEF Claimed
<1>5. Claiming(t) => k < n /\ NextInput(t) = Spends[x][k + 1]
  BY DEF Claiming, NextInput
<1>6. ~Busy(t) => k = 0
  BY <1>1 DEF Busy
<1>7. k \in Nat /\ k <= n
  BY <1>1, <1>2
<1> HIDE DEF x, k, n
<1>8. Claimed(t) \subseteq Inputs(x)
  BY <1>3, <1>4, <1>7
<1>9. k = n => Claimed(t) = Inputs(x)
  BY <1>3, <1>4
<1>10. ~Busy(t) => Claimed(t) = {}
  BY <1>4, <1>6
<1>11. Claiming(t) => NextInput(t) \in Inputs(x)
  <2>1. ASSUME Claiming(t) PROVE k + 1 \in 1..n
    BY <1>3, <1>5, <1>7, <2>1
  <2> QED BY <1>3, <1>5, <2>1
<1> QED BY <1>1, <1>2, <1>3, <1>8, <1>9, <1>10, <1>11 DEF x, k, n

LEMMA RunUpdate ==
    ASSUME CoinBase, NEW t \in CoinThread, NEW r \in RunTypes,
           coinRun' = [coinRun EXCEPT ![t] = r], coinTx' = coinTx,
           /\ r.claimed <= Len(Spends[coinTx[t]])
           /\ r.op = "idle" => r.claimed = 0
           /\ r.op = "index" => r.claimed = Len(Spends[coinTx[t]]) /\ r.shards = {}
    PROVE  /\ coinRun' \in [CoinThread -> RunTypes] /\ RunShape' /\ coinRun'[t] = r
           /\ \A u \in CoinThread : u # t => coinRun'[u] = coinRun[u]
<1>1. coinRun \in [CoinThread -> RunTypes] /\ RunShape
  BY DEF CoinBase, CoinTypes, RunTypes
<1>2. /\ coinRun' \in [CoinThread -> RunTypes] /\ coinRun'[t] = r
      /\ \A u \in CoinThread : u # t => coinRun'[u] = coinRun[u]
  BY <1>1
<1>3. RunShape'
  BY <1>1, <1>2 DEF RunShape
<1> QED BY <1>2, <1>3

LEMMA ValidateFact ==
    ASSUME CoinBase, NEW t \in CoinThread, NEW x \in Tx, Validate(t, x)
    PROVE  /\ CoinBase'
           /\ coinRun'[t].op = "run" /\ coinRun'[t].claimed = 0 /\ coinRun'[t].shards = Touched(x)
           /\ coinTx'[t] = x
           /\ \A u \in CoinThread : u # t => coinRun'[u] = coinRun[u] /\ coinTx'[u] = coinTx[u]
<1> DEFINE r == [op |-> "run", claimed |-> 0, shards |-> Touched(x)]
<1>1. coinRun \in [CoinThread -> RunTypes] /\ RunShape /\ coinTx \in [CoinThread -> Tx]
  BY DEF CoinBase, CoinTypes, RunTypes
<1>2. r \in RunTypes /\ r.op = "run" /\ r.claimed = 0 /\ r.shards = Touched(x)
  <2>1. Touched(x) \subseteq 1..NumShards
    BY InputsFact, CoinAssumption DEF Touched, Inputs
  <2> QED BY <2>1 DEF RunTypes, Phases
<1>3. coinRun' = [coinRun EXCEPT ![t] = r] /\ coinTx' = [coinTx EXCEPT ![t] = x]
  BY DEF Validate
<1> HIDE DEF r
<1>4. /\ coinRun' \in [CoinThread -> RunTypes] /\ coinRun'[t] = r /\ coinTx' \in [CoinThread -> Tx] /\ coinTx'[t] = x
      /\ \A u \in CoinThread : u # t => coinRun'[u] = coinRun[u] /\ coinTx'[u] = coinTx[u]
  BY <1>1, <1>2, <1>3
<1>5. RunShape'
  <2>1. Len(Spends[x]) \in Nat
    BY InputsFact
  <2> QED BY <1>1, <1>2, <1>4, <2>1 DEF RunShape
<1>6. CoinTypes'
  BY <1>4 DEF Validate, CoinBase, CoinTypes, RunTypes, cacheVars, claimVars, coinGhost
<1> QED BY <1>2, <1>4, <1>5, <1>6 DEF CoinBase

\* The threads an action of thread t leaves alone.
Others(t) == \A u \in CoinThread : u # t => /\ coinRun'[u] = coinRun[u] /\ coinTx'[u] = coinTx[u]
                                            /\ Claimed(u)' = Claimed(u) /\ (Busy(u)' <=> Busy(u))

LEMMA OthersFact ==
    ASSUME NEW t, \A u \in CoinThread : u # t => coinRun'[u] = coinRun[u] /\ coinTx'[u] = coinTx[u]
    PROVE  Others(t)
BY DEF Others, Claimed, Busy

\* A claim joins an order of distinct claims, whose oldest leave it.
LEMMA OrderFact ==
    ASSUME CoinBase, NEW c \in Coin, c \notin spentSet, NEW over \in Nat, over <= Len(Append(spentOrder, c)),
           IsInjective(spentOrder), ToSet(spentOrder) \subseteq spentSet
    PROVE  LET order == Append(spentOrder, c)
               kept == SubSeq(order, over + 1, Len(order))
               gone == ToSet(SubSeq(order, 1, over))
           IN IsInjective(kept) /\ ToSet(kept) \subseteq (spentSet \cup {c}) \ gone
<1> DEFINE order == Append(spentOrder, c)
           kept == SubSeq(order, over + 1, Len(order))
           gone == ToSet(SubSeq(order, 1, over))
<1> HIDE DEF order, kept, gone
<1>1. spentOrder \in Seq(Coin)
  BY DEF CoinBase, CoinTypes
<1>2. order \in Seq(Coin) /\ Len(order) = Len(spentOrder) + 1 /\ Len(spentOrder) \in Nat /\ ToSet(order) = ToSet(spentOrder) \cup {c}
  BY <1>1, AppendSet DEF order
<1>3. /\ DOMAIN spentOrder = 1..Len(spentOrder) /\ DOMAIN order = 1..Len(order)
      /\ order[Len(order)] = c /\ \A i \in 1..Len(spentOrder) : order[i] = spentOrder[i]
      /\ over <= Len(order)
  BY <1>1 DEF order
<1>4. \A i \in 1..Len(spentOrder) : spentOrder[i] \in spentSet
  BY <1>3 DEF ToSet
<1>5. \A i, j \in 1..Len(order) : order[i] = order[j] => i = j
  <2> SUFFICES ASSUME NEW i \in 1..Len(order), NEW j \in 1..Len(order), order[i] = order[j] PROVE i = j
    OBVIOUS
  <2>1. CASE i = Len(order) \/ j = Len(order)
    BY <1>2, <1>3, <1>4, <2>1
  <2>2. CASE i # Len(order) /\ j # Len(order)
    <3>1. i \in DOMAIN spentOrder /\ j \in DOMAIN spentOrder /\ spentOrder[i] = spentOrder[j]
      BY <1>2, <1>3, <2>2
    <3> QED BY <3>1 DEF IsInjective
  <2> QED BY <2>1, <2>2
<1>6. /\ ToSet(kept) = {order[i] : i \in over + 1..Len(order)}
      /\ \A i \in DOMAIN kept : kept[i] = order[over + 1 + i - 1] /\ over + 1 + i - 1 \in over + 1..Len(order)
      /\ kept \in Seq(Coin)
  <2>1. order \in Seq(Coin) /\ over + 1 \in Nat \ {0} /\ Len(order) \in Nat /\ Len(order) <= Len(order)
    BY <1>2
  <2>2. /\ SubSeq(order, over + 1, Len(order)) \in Seq(Coin)
        /\ ToSet(SubSeq(order, over + 1, Len(order))) = {order[i] : i \in over + 1..Len(order)}
        /\ \A i \in DOMAIN SubSeq(order, over + 1, Len(order)) :
             /\ SubSeq(order, over + 1, Len(order))[i] = order[over + 1 + i - 1]
             /\ over + 1 + i - 1 \in over + 1..Len(order)
    BY ONLY <2>1, SubSeqSet
  <2> QED BY <2>2 DEF kept
<1>7. gone = {order[i] : i \in 1..over}
  <2>1. order \in Seq(Coin) /\ over \in Nat /\ over <= Len(order) /\ 1 \in Nat \ {0}
    BY <1>2, <1>3
  <2>2. ToSet(SubSeq(order, 1, over)) = {order[i] : i \in 1..over}
    BY ONLY <2>1, SubSeqSet
  <2> QED BY <2>2 DEF gone
<1>8. IsInjective(kept)
  <2> SUFFICES ASSUME NEW i \in DOMAIN kept, NEW j \in DOMAIN kept, kept[i] = kept[j] PROVE i = j
    BY DEF IsInjective
  <2>1. over + 1 + i - 1 = over + 1 + j - 1
    <3>1. order[over + 1 + i - 1] = order[over + 1 + j - 1]
      BY ONLY <1>6, i \in DOMAIN kept, j \in DOMAIN kept, kept[i] = kept[j]
    <3>2. over + 1 + i - 1 \in over + 1..Len(order) /\ over + 1 + j - 1 \in over + 1..Len(order)
      BY ONLY <1>6, i \in DOMAIN kept, j \in DOMAIN kept
    <3>3. Len(order) \in Nat
      BY <1>2
    <3>4. over + 1 + i - 1 \in 1..Len(order) /\ over + 1 + j - 1 \in 1..Len(order)
      BY ONLY <3>2, <3>3, over \in Nat
    <3> QED BY ONLY <1>5, <3>1, <3>4
  <2>2. i \in Nat /\ j \in Nat
    BY <1>6
  <2> QED BY <2>1, <2>2
<1>9. \A e \in ToSet(kept) : e \in ToSet(order) /\ e \notin gone
  <2> SUFFICES ASSUME NEW i \in over + 1..Len(order) PROVE order[i] \in ToSet(order) /\ order[i] \notin gone
    BY <1>6
  <2>1. i \in 1..Len(order) /\ \A j \in 1..over : j \in 1..Len(order) /\ i # j
    BY <1>2
  <2>2. order[i] \in ToSet(order)
    BY <1>3, <2>1 DEF ToSet
  <2> QED BY <1>5, <1>7, <2>1, <2>2
<1> QED BY <1>2, <1>8, <1>9 DEF order, kept, gone

LEMMA TryMarkSpentFact ==
    ASSUME CoinBase, NEW t \in CoinThread, TryMarkSpent(t)
    PROVE  /\ CoinBase' /\ Others(t) /\ coinTx' = coinTx /\ Busy(t) /\ Busy(t)'
           /\ coinRun'[t].shards = coinRun[t].shards
           /\ NextInput(t) \in Inputs(coinTx[t]) /\ NextInput(t) \notin spentSet
           /\ Claimed(t)' = Claimed(t) \cup {NextInput(t)}
           /\ Clean' => Clean
           /\ Clean' /\ IsInjective(spentOrder) /\ ToSet(spentOrder) \subseteq spentSet =>
                /\ IsInjective(spentOrder') /\ ToSet(spentOrder') \subseteq spentSet'
                /\ (spentSet \cup {NextInput(t)}) \cap Needed \subseteq spentSet'
<1> DEFINE c == NextInput(t)
           k == coinRun[t].claimed
           r == [op |-> "run", claimed |-> k + 1, shards |-> coinRun[t].shards]
           order == Append(spentOrder, c)
           over == Max({Len(order) - SpentLimit, 0})
           kept == SubSeq(order, over + 1, Len(order))
           gone == ToSet(SubSeq(order, 1, over))
<1>1. /\ coinRun \in [CoinThread -> RunTypes] /\ coinTx \in [CoinThread -> Tx]
      /\ coinRun[t] \in RunTypes /\ coinTx[t] \in Tx /\ spentOrder \in Seq(Coin) /\ spentSet \subseteq Coin
      /\ lapses \subseteq Lapse
  BY DEF CoinBase, CoinTypes, RunTypes
<1>2. coinRun[t].op = "run" /\ k < Len(Spends[coinTx[t]]) /\ c \notin spentSet
  BY DEF TryMarkSpent, Claiming
<1>3. c \in Inputs(coinTx[t]) /\ c \in Coin /\ k \in Nat /\ Len(Spends[coinTx[t]]) \in Nat
  BY <1>1, RunFact, InputsFact DEF TryMarkSpent
<1>4. coinRun' = [coinRun EXCEPT ![t] = r] /\ coinTx' = coinTx
  <2>1. coinRun' = [coinRun EXCEPT ![t] = [coinRun[t] EXCEPT !.claimed = k + 1]] /\ coinTx' = coinTx
    BY DEF TryMarkSpent
  <2>2. [coinRun[t] EXCEPT !.claimed = k + 1] = r
    BY <1>1, <1>2 DEF RunTypes
  <2> QED BY <2>1, <2>2
<1>5. r \in RunTypes /\ r.claimed = k + 1 /\ r.op = "run" /\ r.shards = coinRun[t].shards
  BY <1>1, <1>2, <1>3 DEF RunTypes
<1> HIDE DEF r
<1>6. k + 1 <= Len(Spends[coinTx[t]])
  BY <1>2, <1>3
<1>7. /\ coinRun' \in [CoinThread -> RunTypes] /\ RunShape' /\ coinRun'[t] = r
      /\ \A u \in CoinThread : u # t => coinRun'[u] = coinRun[u]
  BY <1>4, <1>5, <1>6, RunUpdate
<1>8. Others(t)
  BY <1>4, <1>7, OthersFact
<1>9. Claimed(t)' = Claimed(t) \cup {c}
  <2>1. Claimed(t)' = {Spends[coinTx[t]][i] : i \in 1..k + 1}
    BY <1>4, <1>5, <1>7 DEF Claimed
  <2>2. 1..k + 1 = (1..k) \cup {k + 1}
    BY <1>3
  <2> QED BY <2>1, <2>2 DEF Claimed, NextInput
<1>10. Busy(t) /\ Busy(t)'
  BY <1>2, <1>5, <1>7 DEF Busy
<1>11. /\ spentOrder' = kept /\ spentSet' = (spentSet \cup {c}) \ gone
       /\ lapses' = lapses \cup {l \in {"overrun"} : (gone \ ToSet(kept)) \cap Needed # {}}
  BY DEF TryMarkSpent
<1>12. order \in Seq(Coin) /\ Len(order) = Len(spentOrder) + 1 /\ Len(spentOrder) \in Nat
  BY <1>1, <1>3, AppendSet
<1> HIDE DEF c, order
<1>13. over \in Nat /\ over <= Len(order)
  <2>1. SpentLimit \in Nat
    BY CoinAssumption
  <2> QED BY <1>12, <2>1, MaxFact
<1> HIDE DEF over
<1>14. kept \in Seq(Coin)
  BY <1>12, <1>13, SubSeqSet
<1>15. CoinTypes'
  <2>1. lapses' \subseteq Lapse /\ spentSet' \subseteq Coin /\ spentOrder' \in Seq(Coin)
    BY <1>1, <1>3, <1>11, <1>14 DEF Lapse
  <2> QED BY <1>7, <2>1 DEF TryMarkSpent, CoinBase, CoinTypes, RunTypes, cacheVars
<1>16. ASSUME Clean', IsInjective(spentOrder), ToSet(spentOrder) \subseteq spentSet
       PROVE  /\ IsInjective(spentOrder') /\ ToSet(spentOrder') \subseteq spentSet'
              /\ (spentSet \cup {c}) \cap Needed \subseteq spentSet'
  <2>1. (gone \ ToSet(kept)) \cap Needed = {}
    BY <1>11, <1>16 DEF Clean
  <2>2. IsInjective(kept) /\ ToSet(kept) \subseteq (spentSet \cup {c}) \ gone
    <3>1. c \in Coin /\ c \notin spentSet /\ over <= Len(Append(spentOrder, c))
      BY <1>2, <1>3, <1>13 DEF order
    <3>2. /\ IsInjective(SubSeq(Append(spentOrder, c), over + 1, Len(Append(spentOrder, c))))
          /\ ToSet(SubSeq(Append(spentOrder, c), over + 1, Len(Append(spentOrder, c))))
               \subseteq (spentSet \cup {c}) \ ToSet(SubSeq(Append(spentOrder, c), 1, over))
      BY ONLY <1>13, <1>16, <3>1, CoinBase, OrderFact
    <3> QED BY <3>2 DEF order
  <2> QED BY <1>11, <2>1, <2>2
<1>17. Clean' => Clean
  BY <1>11 DEF Clean
<1> QED BY <1>2, <1>3, <1>4, <1>5, <1>7, <1>8, <1>9, <1>10, <1>15, <1>16, <1>17 DEF CoinBase, c

LEMMA NotRunningType ==
    /\ NotRunning \in RunTypes /\ NotRunning.op = "idle" /\ NotRunning.claimed = 0 /\ NotRunning.shards = {}
BY DEF NotRunning, RunTypes, Phases

LEMMA RollBackFact ==
    ASSUME CoinBase, NEW t \in CoinThread, RollBack(t)
    PROVE  /\ CoinBase' /\ Others(t) /\ coinTx' = coinTx /\ ~Busy(t)' /\ Claimed(t)' = {}
           /\ spentSet' \subseteq spentSet
           /\ Clean' => Clean /\ spentSet' = spentSet
<1>1. coinRun' = [coinRun EXCEPT ![t] = NotRunning] /\ coinTx' = coinTx
  BY DEF RollBack
<1>2. coinTx[t] \in Tx /\ Len(Spends[coinTx[t]]) \in Nat
  BY RunFact, InputsFact
<1>3. /\ coinRun' \in [CoinThread -> RunTypes] /\ RunShape' /\ coinRun'[t] = NotRunning
      /\ \A u \in CoinThread : u # t => coinRun'[u] = coinRun[u]
  <2>1. /\ NotRunning \in RunTypes /\ NotRunning.claimed <= Len(Spends[coinTx[t]]) /\ NotRunning.claimed = 0
        /\ NotRunning.op # "index"
    BY <1>2, NotRunningType
  <2> QED BY <1>1, <2>1, RunUpdate
<1>4. Others(t)
  BY <1>1, <1>3, OthersFact
<1>5. ~Busy(t)' /\ Claimed(t)' = {}
  <2>1. coinRun'[t].op = "idle" /\ coinRun'[t].claimed = 0
    BY <1>3, NotRunningType
  <2>2. 1..0 = {}
    OBVIOUS
  <2> QED BY <2>1, <2>2 DEF Busy, Claimed
<1>6. /\ spentSet' = spentSet \ Claimed(t)
      /\ lapses' = lapses \cup {l \in {"released"} : Claimed(t) # {}}
  BY DEF RollBack
<1>7. CoinTypes'
  BY <1>3, <1>6 DEF RollBack, CoinBase, CoinTypes, RunTypes, cacheVars, Lapse
<1>8. Clean' => Clean /\ spentSet' = spentSet
  BY <1>6 DEF Clean
<1> QED BY <1>1, <1>3, <1>4, <1>5, <1>6, <1>7, <1>8 DEF CoinBase

\* Only the phase of a thread changes.
LEMMA PhaseFact ==
    ASSUME CoinBase, NEW t \in CoinThread, MissedSpends(t)
    PROVE  /\ CoinBase' /\ (Clean' <=> Clean)
           /\ UNCHANGED <<shard, coinDb, spentSet, spentOrder, coinTx, coinQueue, coinSpent, coinBorn, settled>>
           /\ \A u \in CoinThread : /\ coinRun'[u].shards = coinRun[u].shards
                                    /\ Claimed(u)' = Claimed(u) /\ (Busy(u)' <=> Busy(u))
<1> DEFINE x == coinTx[t]
           r == [op |-> "index", claimed |-> coinRun[t].claimed, shards |-> coinRun[t].shards]
           found == deferred[t].miss \cap coinDb
<1>1. /\ coinRun[t] \in RunTypes /\ coinRun \in [CoinThread -> RunTypes]
      /\ coinRun[t].claimed <= Len(Spends[x])
  BY DEF CoinBase, CoinTypes, RunTypes, RunShape
<1>2. UNCHANGED <<shard, coinDb, spentSet, spentOrder, coinTx, coinQueue, coinSpent, coinBorn, settled, coinBoots>>
  BY DEF MissedSpends, claimVars
<1>3. /\ coinRun' = [coinRun EXCEPT ![t] = [coinRun[t] EXCEPT !.op = "index"]]
      /\ coinRun[t].op = "run" /\ coinRun[t].claimed = Len(Spends[x]) /\ coinRun[t].shards = {}
  BY DEF MissedSpends, Missed, Applying
<1>4. [coinRun[t] EXCEPT !.op = "index"] = r
  BY <1>1 DEF RunTypes
<1>5. r \in RunTypes /\ r.claimed = coinRun[t].claimed /\ r.op = "index" /\ r.shards = coinRun[t].shards
  BY <1>1 DEF RunTypes, Phases
<1>6. coinRun' = [coinRun EXCEPT ![t] = r]
  BY <1>3, <1>4
<1> HIDE DEF r
<1>7. /\ coinRun' \in [CoinThread -> RunTypes] /\ RunShape' /\ coinRun'[t] = r
      /\ \A u \in CoinThread : u # t => coinRun'[u] = coinRun[u]
  BY <1>1, <1>2, <1>3, <1>5, <1>6, RunUpdate
<1>8. \A u \in CoinThread : coinRun'[u].shards = coinRun[u].shards /\ coinRun'[u].claimed = coinRun[u].claimed
  BY <1>5, <1>7
<1>9. \A u \in CoinThread : Busy(u)' <=> Busy(u)
  BY <1>3, <1>5, <1>7 DEF Busy
<1>10. \A u \in CoinThread : Claimed(u)' = Claimed(u)
  BY <1>2, <1>8 DEF Claimed
<1>11. CoinTypes' /\ (Clean' <=> Clean)
  <2>1. lapses' = lapses \cup {l \in {"vanished"} : found # deferred[t].miss}
    BY DEF MissedSpends
  <2>2. lapses' \subseteq Lapse /\ (Clean' <=> Clean)
    BY <2>1 DEF CoinBase, CoinTypes, Lapse, Clean
  <2> QED BY <1>2, <1>7, <2>2 DEF CoinBase, CoinTypes, RunTypes
<1> QED BY <1>2, <1>7, <1>8, <1>9, <1>10, <1>11 DEF CoinBase

\* The steps of a thread that only keep the books: what they change is read by
\* no other part of the invariant.
BooksOnly ==
    /\ UNCHANGED <<shard, coinDb, spentSet, spentOrder, coinRun, coinTx, coinQueue,
                   coinSpent, coinBorn, settled, coinBoots>>
    /\ lapses \subseteq lapses' /\ lapses' \subseteq lapses \cup {"forgotten", "unlisted"}

LEMMA BooksFact ==
    ASSUME NEW t \in CoinThread,
           DropBalance(t) \/ CountCreates(t) \/ IndexAdd(t) \/ IndexRemove(t) \/ DropAddress(t)
    PROVE  BooksOnly
<1>1. CASE DropBalance(t)
  BY <1>1 DEF DropBalance, BooksOnly, claimVars
<1>2. CASE CountCreates(t)
  BY <1>2 DEF CountCreates, BooksOnly, claimVars, coinGhost
<1>3. CASE IndexAdd(t)
  BY <1>3 DEF IndexAdd, BooksOnly, claimVars, coinGhost
<1>4. CASE IndexRemove(t)
  BY <1>4 DEF IndexRemove, BooksOnly, claimVars, coinGhost
<1>5. CASE DropAddress(t)
  BY <1>5 DEF DropAddress, BooksOnly, claimVars
<1> QED BY <1>1, <1>2, <1>3, <1>4, <1>5

LEMMA SendFact ==
    ASSUME CoinBase, NEW t \in CoinThread, Send(t)
    PROVE  /\ CoinBase' /\ Others(t) /\ coinTx' = coinTx /\ Busy(t) /\ ~Busy(t)' /\ Claimed(t)' = {}
           /\ coinRun[t].shards = {} /\ Claimed(t) = Inputs(coinTx[t]) /\ coinTx[t] \in Tx
           /\ coinQueue' = Append(coinQueue, coinTx[t]) /\ Queued' = Queued \cup {coinTx[t]}
<1>1. coinRun' = [coinRun EXCEPT ![t] = NotRunning] /\ coinTx' = coinTx /\ coinRun[t].op = "index"
      /\ coinQueue' = Append(coinQueue, coinTx[t])
  BY DEF Send, Indexing
<1>2. /\ coinTx[t] \in Tx /\ Len(Spends[coinTx[t]]) \in Nat
      /\ coinRun[t].claimed = Len(Spends[coinTx[t]]) => Claimed(t) = Inputs(coinTx[t])
  BY RunFact, InputsFact
<1>3. /\ coinRun' \in [CoinThread -> RunTypes] /\ RunShape' /\ coinRun'[t] = NotRunning
      /\ \A u \in CoinThread : u # t => coinRun'[u] = coinRun[u]
  <2>1. /\ NotRunning \in RunTypes /\ NotRunning.claimed <= Len(Spends[coinTx[t]]) /\ NotRunning.claimed = 0
        /\ NotRunning.op # "index"
    BY <1>2, NotRunningType
  <2> QED BY <1>1, <2>1, RunUpdate
<1>4. Others(t)
  BY <1>1, <1>3, OthersFact
<1>5. ~Busy(t)' /\ Claimed(t)' = {}
  <2>1. coinRun'[t].op = "idle" /\ coinRun'[t].claimed = 0
    BY <1>3, NotRunningType
  <2>2. 1..0 = {}
    OBVIOUS
  <2> QED BY <2>1, <2>2 DEF Busy, Claimed
<1>6. coinQueue' \in Seq(Tx) /\ Queued' = Queued \cup {coinTx[t]}
  <2>1. coinQueue \in Seq(Tx)
    BY DEF CoinBase, CoinTypes
  <2> QED BY <1>1, <1>2, <2>1, AppendSet DEF Queued
<1>7. coinRun[t].shards = {} /\ coinRun[t].claimed = Len(Spends[coinTx[t]])
  BY <1>1 DEF CoinBase, RunShape
<1>8. CoinTypes'
  BY <1>3, <1>6 DEF Send, CoinBase, CoinTypes, RunTypes, cacheVars, claimVars, coinGhost
<1> QED BY <1>1, <1>2, <1>3, <1>4, <1>5, <1>6, <1>7, <1>8 DEF CoinBase, Busy

LEMMA WriteCoinsFact ==
    ASSUME CoinBase, WriteCoins
    PROVE  /\ CoinBase' /\ coinQueue # <<>> /\ Head(coinQueue) \in Tx
           /\ Queued = {Head(coinQueue)} \cup Queued' /\ coinQueue' = Tail(coinQueue)
           /\ coinDb' = (coinDb \ Inputs(Head(coinQueue))) \cup Creates[Head(coinQueue)]
           /\ settled' = settled \cup {Head(coinQueue)}
           /\ SettledBorn' = SettledBorn \cup Creates[Head(coinQueue)]
           /\ Clean' => Clean /\ Inputs(Head(coinQueue)) \subseteq SettledBorn
           /\ UNCHANGED <<shard, spentSet, spentOrder, coinRun, coinTx, coinSpent, coinBorn>>
           /\ \A u \in CoinThread : Claimed(u)' = Claimed(u) /\ (Busy(u)' <=> Busy(u))
<1> DEFINE x == Head(coinQueue)
<1>1. coinQueue # <<>> /\ coinQueue \in Seq(Tx)
  BY DEF WriteCoins, CoinBase, CoinTypes
<1>2. x \in Tx /\ Tail(coinQueue) \in Seq(Tx) /\ ToSet(coinQueue) = {x} \cup ToSet(Tail(coinQueue))
  BY <1>1, TailSet
<1>3. /\ coinQueue' = Tail(coinQueue) /\ settled' = settled \cup {x}
      /\ coinDb' = (coinDb \ Inputs(x)) \cup Creates[x]
      /\ lapses' = lapses \cup {l \in {"reordered"} : ~(Inputs(x) \subseteq SettledBorn)}
      /\ UNCHANGED <<shard, spentSet, spentOrder, coinRun, coinTx, coinSpent, coinBorn, coinBoots>>
  BY DEF WriteCoins, cacheVars, claimVars, Inputs, SettledBorn
<1>4. Queued = {x} \cup Queued'
  BY <1>2, <1>3 DEF Queued
<1> HIDE DEF x
<1>5. SettledBorn' = SettledBorn \cup Creates[x]
  BY <1>3 DEF SettledBorn
<1>6. Clean' => Clean /\ Inputs(x) \subseteq SettledBorn
  BY <1>3 DEF Clean
<1>7. \A u \in CoinThread : Claimed(u)' = Claimed(u) /\ (Busy(u)' <=> Busy(u))
  BY <1>3 DEF Claimed, Busy
<1>8. CoinTypes'
  BY <1>2, <1>3, CoinAssumption DEF CoinBase, CoinTypes, Lapse
<1>9. RunShape'
  BY <1>3 DEF CoinBase, RunShape
<1> QED BY <1>1, <1>2, <1>3, <1>4, <1>5, <1>6, <1>7, <1>8, <1>9 DEF CoinBase, x

LEMMA CachedOf ==
    ASSUME CoinBase, NEW c
    PROVE  c \in Cached <=> c \in Coin /\ ShardOf[c] \in 1..NumShards /\ c \in ToSet(shard[ShardOf[c]])
<1>1. /\ shard \in [1..NumShards -> Seq(Coin)]
      /\ \A s \in 1..NumShards : \A d \in ToSet(shard[s]) : ShardOf[d] = s
  BY DEF CoinBase, CoinTypes
<1>2. \A s \in 1..NumShards : ToSet(shard[s]) \subseteq Coin
  BY <1>1 DEF ToSet
<1>3. c \in Cached <=> \E s \in 1..NumShards : c \in ToSet(shard[s])
  BY DEF Cached
<1> QED BY <1>1, <1>2, <1>3

LEMMA RestartFact ==
    ASSUME CoinBase, Restart
    PROVE  /\ CoinBase' /\ Queued' = {} /\ coinQueue' = <<>> /\ spentSet' = {} /\ spentOrder' = <<>>
           /\ Cached' \subseteq coinDb /\ SettledBorn' = SettledBorn /\ coinBorn' = SettledBorn
           /\ coinSpent' = [c \in Coin |-> {x \in settled : c \in Inputs(x)}]
           /\ UNCHANGED <<coinDb, settled>> /\ (Clean' <=> Clean)
           /\ \A u \in CoinThread : ~Busy(u)' /\ Claimed(u)' = {}
<1>1. /\ shard' = Loaded(coinDb) /\ coinQueue' = <<>> /\ spentSet' = {} /\ spentOrder' = <<>>
      /\ coinRun' = [t \in CoinThread |-> NotRunning] /\ coinBorn' = SettledBorn
      /\ coinSpent' = [c \in Coin |-> {x \in settled : c \in Inputs(x)}]
      /\ coinTx' = [t \in CoinThread |-> CHOOSE x \in Tx : TRUE]
      /\ UNCHANGED <<coinDb, settled>> /\ coinBoots' = coinBoots + 1
      /\ lapses' = lapses \ {"forgotten", "unlisted"} \/ lapses' = (lapses \ {"forgotten", "unlisted"}) \cup {"uncounted"}
  <2>1. \A P : {l \in {"uncounted"} : P} \in {{}, {"uncounted"}}
    OBVIOUS
  <2> QED BY <2>1 DEF Restart, SettledBorn, Inputs
<1>2. coinDb \in SUBSET Coin /\ settled \subseteq Tx
  BY DEF CoinBase, CoinTypes
<1>3. /\ Loaded(coinDb) \in [1..NumShards -> Seq(Coin)]
      /\ \A s \in 1..NumShards : ToSet(Loaded(coinDb)[s]) \subseteq {c \in coinDb : ShardOf[c] = s}
  BY <1>2, LoadedFact
<1>4. Cached' \subseteq coinDb
  BY <1>1, <1>3 DEF Cached
<1>5. Queued' = {}
  BY <1>1 DEF Queued, ToSet
<1>6. \A u \in CoinThread : coinRun'[u] = NotRunning
  BY <1>1
<1>7. \A u \in CoinThread : ~Busy(u)' /\ Claimed(u)' = {}
  <2>1. \A u \in CoinThread : coinRun'[u].op = "idle" /\ coinRun'[u].claimed = 0
    BY <1>6, NotRunningType
  <2>2. 1..0 = {}
    OBVIOUS
  <2> QED BY <2>1, <2>2 DEF Busy, Claimed
<1>8. RunShape'
  <2>1. \A u \in CoinThread : coinTx'[u] \in Tx /\ Len(Spends[coinTx'[u]]) \in Nat
    BY <1>1, InputsFact, CoinAssumption
  <2> QED BY <1>6, <2>1, NotRunningType DEF RunShape
<1>9. coinRun' \in [CoinThread -> RunTypes]
  BY <1>1, NotRunningType
<1>10. SettledBorn' = SettledBorn
  BY <1>1 DEF SettledBorn
<1>11. SettledBorn \subseteq Coin
  BY <1>2, CoinAssumption DEF SettledBorn
<1>12. coinSpent' \in [Coin -> SUBSET Tx]
  BY <1>1, <1>2
<1>13. shard' \in [1..NumShards -> Seq(Coin)] /\ \A s \in 1..NumShards : \A c \in ToSet(shard'[s]) : ShardOf[c] = s
  BY <1>1, <1>3
<1>14. lapses' \subseteq Lapse /\ (Clean' <=> Clean)
  BY <1>1 DEF CoinBase, CoinTypes, Lapse, Clean
<1>15. CoinTypes'
  <2>1. coinBorn' \subseteq Coin /\ coinBoots' \in Nat /\ coinTx' \in [CoinThread -> Tx]
    BY <1>1, <1>11, CoinAssumption DEF CoinBase, CoinTypes
  <2> QED BY <1>1, <1>9, <1>12, <1>13, <1>14, <2>1 DEF CoinBase, CoinTypes, RunTypes
<1> QED BY <1>1, <1>4, <1>5, <1>7, <1>8, <1>10, <1>14, <1>15 DEF CoinBase

\* The coins of a set that live in shard s.
Here(coins, s) == {c \in coins : ShardOf[c] = s}

\* Thread t moves the coins of shard s, of which the spends have left kept.
\* What it pushes is counted before it lets the shard go.
Shifts(t, s, kept) ==
    LET spends == Here(Inputs(coinTx[t]), s)
        fresh == Here(Creates[coinTx[t]], s)
        hit == spends \cap ToSet(shard[s])
        pushed == PushAll(kept, fresh)
    IN /\ shard' = [shard EXCEPT ![s] = pushed.lru]
       /\ balance' = Less(hit)
       /\ pending' = [pending EXCEPT ![t] = [lock |-> s, zeroed |-> Zeroed(hit), uncounted |-> fresh, bare |-> {}]]
       /\ pending[t] = Settled /\ Free(s)
       /\ deferred' = [deferred EXCEPT ![t] =
            [add |-> deferred[t].add \cup fresh, remove |-> deferred[t].remove \cup hit \cup pushed.out,
             miss |-> deferred[t].miss \cup (spends \ hit)]]

LEMMA ApplyShardFact ==
    ASSUME CoinBase, NEW t \in CoinThread, ApplyShard(t)
    PROVE  /\ CoinBase' /\ Others(t) /\ coinTx' = coinTx /\ Busy(t) /\ Busy(t)' /\ (Clean' <=> Clean)
           /\ Claimed(t)' = Claimed(t) /\ Claimed(t) = Inputs(coinTx[t]) /\ coinTx[t] \in Tx
           /\ UNCHANGED <<spentSet, spentOrder, coinDb, coinQueue, settled>>
           /\ \E s \in coinRun[t].shards :
                /\ coinRun'[t].shards = coinRun[t].shards \ {s}
                /\ Cached' \subseteq (Cached \ Here(Inputs(coinTx[t]), s)) \cup Here(Creates[coinTx[t]], s)
                /\ coinSpent' = [c \in Coin |-> IF c \in Here(Inputs(coinTx[t]), s)
                                                THEN coinSpent[c] \cup {coinTx[t]} ELSE coinSpent[c]]
                /\ coinBorn' = coinBorn \cup Here(Creates[coinTx[t]], s)
                /\ \E kept \in Popped(shard[s], Here(Inputs(coinTx[t]), s)) : Shifts(t, s, kept)
<1> DEFINE x == coinTx[t]
           spends(s) == Here(Inputs(x), s)
           fresh(s) == Here(Creates[x], s)
<1>1. /\ coinRun[t].op = "run" /\ coinRun[t].claimed = Len(Spends[x])
      /\ UNCHANGED <<spentSet, spentOrder, coinDb, coinQueue, settled, coinTx, lapses, coinBoots>>
  BY DEF ApplyShard, Applying, claimVars
<1>2. PICK s \in coinRun[t].shards : \E kept \in Popped(shard[s], spends(s)) :
         /\ coinRun' = [coinRun EXCEPT ![t] = [coinRun[t] EXCEPT !.shards = coinRun[t].shards \ {s}]]
         /\ shard' = [shard EXCEPT ![s] = PushAll(kept, fresh(s)).lru]
         /\ coinSpent' = [c \in Coin |-> IF c \in spends(s) THEN coinSpent[c] \cup {x} ELSE coinSpent[c]]
         /\ coinBorn' = coinBorn \cup fresh(s) /\ Shifts(t, s, kept)
  BY DEF ApplyShard, Shifts, Here, Inputs
<1>3. PICK kept \in Popped(shard[s], spends(s)) :
         /\ coinRun' = [coinRun EXCEPT ![t] = [coinRun[t] EXCEPT !.shards = coinRun[t].shards \ {s}]]
         /\ shard' = [shard EXCEPT ![s] = PushAll(kept, fresh(s)).lru]
         /\ coinSpent' = [c \in Coin |-> IF c \in spends(s) THEN coinSpent[c] \cup {x} ELSE coinSpent[c]]
         /\ coinBorn' = coinBorn \cup fresh(s) /\ Shifts(t, s, kept)
  BY <1>2
<1>4. /\ coinRun[t] \in RunTypes /\ coinRun[t].shards \subseteq 1..NumShards /\ x \in Tx /\ Inputs(x) \subseteq Coin
      /\ coinRun[t].claimed \in Nat /\ Claimed(t) = Inputs(x)
  BY <1>1, RunFact
<1>5. s \in 1..NumShards /\ shard \in [1..NumShards -> Seq(Coin)] /\ shard[s] \in Seq(Coin)
      /\ \A r \in 1..NumShards : \A c \in ToSet(shard[r]) : ShardOf[c] = r
  BY <1>4 DEF CoinBase, CoinTypes
<1>6. fresh(s) \in SUBSET Coin /\ spends(s) \subseteq Coin
  BY <1>4, CoinAssumption DEF Here
<1>7. kept \in Seq(Coin) /\ ToSet(kept) \subseteq ToSet(shard[s]) \ spends(s)
  BY <1>3, <1>5, PoppedFact
<1>8. /\ PushAll(kept, fresh(s)).lru \in Seq(Coin)
      /\ ToSet(PushAll(kept, fresh(s)).lru) \subseteq ToSet(kept) \cup fresh(s)
  BY <1>6, <1>7, PushAllFact
<1> DEFINE r == [op |-> "run", claimed |-> coinRun[t].claimed, shards |-> coinRun[t].shards \ {s}]
<1>9. coinRun' = [coinRun EXCEPT ![t] = r]
  <2>1. [coinRun[t] EXCEPT !.shards = coinRun[t].shards \ {s}] = r
    <3> DEFINE left == coinRun[t].shards \ {s}
    <3> HIDE DEF left
    <3>1. [coinRun[t] EXCEPT !.shards = left] = [op |-> "run", claimed |-> coinRun[t].claimed, shards |-> left]
      BY ONLY <1>1, <1>4 DEF RunTypes
    <3> QED BY <3>1 DEF left
  <2> QED BY <1>3, <2>1
<1>10. r \in RunTypes /\ r.op = "run" /\ r.claimed = coinRun[t].claimed /\ r.shards = coinRun[t].shards \ {s}
  BY <1>4 DEF RunTypes, Phases
<1> HIDE DEF r, fresh, spends
<1>11. r.claimed <= Len(Spends[x])
  BY <1>1, <1>4, <1>10, InputsFact
<1>12. /\ coinRun' \in [CoinThread -> RunTypes] /\ RunShape' /\ coinRun'[t] = r
       /\ \A u \in CoinThread : u # t => coinRun'[u] = coinRun[u]
  BY <1>1, <1>9, <1>10, <1>11, RunUpdate
<1>13. Others(t)
  BY <1>1, <1>12, OthersFact
<1>14. Busy(t) /\ Busy(t)' /\ Claimed(t)' = Claimed(t)
  BY <1>1, <1>10, <1>12 DEF Busy, Claimed
<1>15. /\ shard' \in [1..NumShards -> Seq(Coin)] /\ shard'[s] = PushAll(kept, fresh(s)).lru
       /\ \A q \in 1..NumShards : q # s => shard'[q] = shard[q]
  BY <1>3, <1>5, <1>8
<1>16. \A c \in ToSet(shard'[s]) : (c \in ToSet(shard[s]) /\ c \notin spends(s)) \/ c \in fresh(s)
  BY <1>7, <1>8, <1>15
<1>17. \A q \in 1..NumShards : \A c \in ToSet(shard'[q]) : ShardOf[c] = q
  BY <1>5, <1>15, <1>16 DEF fresh, Here
<1>18. Cached' \subseteq (Cached \ spends(s)) \cup fresh(s)
  <2> SUFFICES ASSUME NEW q \in 1..NumShards, NEW c \in ToSet(shard'[q])
               PROVE  (c \in Cached /\ c \notin spends(s)) \/ c \in fresh(s)
    BY DEF Cached
  <2>1. CASE q = s
    BY <1>5, <1>16, <2>1 DEF Cached
  <2>2. CASE q # s
    <3>1. c \in ToSet(shard[q]) /\ ShardOf[c] # s
      BY <1>5, <1>15, <2>2
    <3> QED BY <3>1 DEF Cached, spends, Here
  <2> QED BY <2>1, <2>2
<1>19. CoinTypes'
  <2>1. coinSpent' \in [Coin -> SUBSET Tx]
    BY <1>3, <1>4 DEF CoinBase, CoinTypes
  <2>2. coinBorn' \subseteq Coin
    BY <1>3, <1>6 DEF CoinBase, CoinTypes
  <2> QED BY <1>1, <1>12, <1>15, <1>17, <2>1, <2>2 DEF CoinBase, CoinTypes, RunTypes
<1>20. Clean' <=> Clean
  BY <1>1 DEF Clean
<1>21. coinRun'[t].shards = coinRun[t].shards \ {s}
  BY <1>10, <1>12
<1>22. \E k \in Popped(shard[s], Here(Inputs(x), s)) : Shifts(t, s, k)
  BY <1>3 DEF spends
<1> QED BY <1>1, <1>3, <1>4, <1>12, <1>13, <1>14, <1>18, <1>19, <1>20, <1>21, <1>22 DEF CoinBase, fresh, spends

-----------------------------------------------------------------------------
(* The invariant.                                                          *)

\* An output exists from the moment its transaction has been through its
\* shard, whether or not the store knows it; the cache and the store hold
\* nothing else.
BirthsTold ==
    /\ Cached \subseteq coinBorn /\ SettledBorn \subseteq coinBorn /\ coinDb \subseteq SettledBorn
    /\ \A x \in Queued : Creates[x] \subseteq coinBorn
    /\ \A t \in CoinThread : Busy(t) =>
         /\ Inputs(coinTx[t]) \subseteq coinBorn
         /\ \A c \in Creates[coinTx[t]] : c \in coinBorn <=> ShardOf[c] \notin coinRun[t].shards

\* A transaction with outputs is run, queued and stored once.
RunOnce ==
    /\ \A t, u \in CoinThread : Busy(t) /\ Busy(u) /\ coinTx[t] = coinTx[u] => t = u
    /\ \A t \in CoinThread : Busy(t) /\ Creates[coinTx[t]] # {} => ~Made(coinTx[t])
    /\ \A x \in Queued : Creates[x] # {} => x \notin settled
    /\ \A i, j \in DOMAIN coinQueue : coinQueue[i] = coinQueue[j] /\ Creates[coinQueue[i]] # {} => i = j

\* The claims that still protect something are in the set, each once; what a
\* running transaction may still claim and another has consumed is in it too.
ClaimsHeld ==
    /\ IsInjective(spentOrder) /\ ToSet(spentOrder) \subseteq spentSet
    /\ \A t \in CoinThread : Claimed(t) \subseteq spentSet
    /\ \A x \in Queued : Inputs(x) \subseteq spentSet
    /\ \A t \in CoinThread : Busy(t) => \A c \in Inputs(coinTx[t]) : coinSpent[c] # {} => c \in spentSet
    /\ \A t, u \in CoinThread : t # u => Claimed(t) \cap Claimed(u) = {}
    /\ \A t \in CoinThread : \A c \in Claimed(t) : coinSpent[c] \subseteq {coinTx[t]}

\* Who has consumed an output; it is in no shard.
SpendsTold ==
    /\ \A c \in Coin : \A x, y \in coinSpent[c] : x = y
    /\ \A c \in Coin : \A x \in coinSpent[c] :
         c \in Inputs(x) /\ (Made(x) \/ \E t \in CoinThread : Busy(t) /\ coinTx[t] = x /\ c \in Claimed(t))
    /\ \A x \in Tx : Made(x) => \A c \in Inputs(x) : x \in coinSpent[c]
    /\ \A t \in CoinThread : Busy(t) => \A c \in Inputs(coinTx[t]) :
         coinTx[t] \in coinSpent[c] \/ ShardOf[c] \in coinRun[t].shards
    /\ \A c \in Coin : coinSpent[c] # {} => c \in coinBorn /\ c \notin Cached

\* What a stored transaction consumed has left the store for good.
SettledSpent ==
    \A x \in settled : Inputs(x) \cap coinDb = {} /\ Inputs(x) \subseteq SettledBorn

CoinInv ==
    /\ CoinBase /\ BirthsTold /\ RunOnce
    /\ Clean => ClaimsHeld /\ SpendsTold /\ SettledSpent

LEMMA ValidateStep ==
    ASSUME CoinInv, NEW t \in CoinThread, NEW x \in Tx, Validate(t, x)
    PROVE  CoinInv'
<1>1. CoinBase /\ BirthsTold /\ RunOnce /\ (Clean => ClaimsHeld /\ SpendsTold /\ SettledSpent)
  BY DEF CoinInv
<1>2. /\ CoinBase' /\ coinTx'[t] = x /\ coinRun'[t].op = "run" /\ coinRun'[t].claimed = 0 /\ coinRun'[t].shards = Touched(x)
      /\ \A u \in CoinThread : u # t => coinRun'[u] = coinRun[u] /\ coinTx'[u] = coinTx[u]
  BY <1>1, ValidateFact
<1>3. \A u \in CoinThread : u # t => /\ coinRun'[u] = coinRun[u] /\ coinTx'[u] = coinTx[u]
                                     /\ Claimed(u)' = Claimed(u) /\ (Busy(u)' <=> Busy(u))
  <2>1. Others(t)
    BY <1>2, OthersFact
  <2> QED BY <2>1 DEF Others
<1>4. Busy(t)' /\ Claimed(t)' = {} /\ ~Busy(t)
  <2>1. 1..0 = {}
    OBVIOUS
  <2>2. ~Busy(t)
    BY DEF Validate
  <2> QED BY <1>2, <2>1, <2>2 DEF Busy, Claimed
<1>5. /\ \A u \in CoinThread : Busy(u) => coinTx[u] # x
      /\ \A c \in Creates[x] : c \notin coinBorn
      /\ \A c \in Inputs(x) : Get(c)
      /\ UNCHANGED <<shard, spentSet, spentOrder, coinDb, coinQueue, coinSpent, coinBorn, settled, lapses>>
  BY DEF Validate, cacheVars, claimVars, coinGhost, Inputs
<1>6. /\ Cached' = Cached /\ Queued' = Queued /\ SettledBorn' = SettledBorn
      /\ (Clean' <=> Clean) /\ \A y : Made(y)' <=> Made(y)
  BY <1>5 DEF Cached, Queued, SettledBorn, Clean, Made
<1>7. /\ Inputs(x) \subseteq Coin /\ Creates[x] \subseteq Coin
      /\ \A c \in Inputs(x) \cup Creates[x] : ShardOf[c] \in Touched(x) /\ ShardOf[c] \in 1..NumShards
  BY InputsFact, CoinAssumption DEF Touched, Inputs
<1>8. \A c \in Inputs(x) : c \in Cached \/ c \in coinDb
  BY <1>1, <1>5, <1>7, CachedOf DEF Get
<1>9. BirthsTold'
  <2>1. Inputs(x) \subseteq coinBorn
    BY <1>1, <1>8 DEF BirthsTold
  <2>2. \A u \in CoinThread : Busy(u)' =>
          /\ Inputs(coinTx'[u]) \subseteq coinBorn
          /\ \A c \in Creates[coinTx'[u]] : c \in coinBorn <=> ShardOf[c] \notin coinRun'[u].shards
    BY <1>1, <1>2, <1>3, <1>5, <1>7, <2>1 DEF BirthsTold
  <2> QED BY <1>1, <1>5, <1>6, <2>2 DEF BirthsTold
<1>10. RunOnce'
  <2>1. Creates[x] # {} => ~Made(x)
    BY <1>1, <1>5 DEF BirthsTold, Made, SettledBorn
  <2>2. \A u, v \in CoinThread : Busy(u)' /\ Busy(v)' /\ coinTx'[u] = coinTx'[v] => u = v
    BY <1>1, <1>2, <1>3, <1>5 DEF RunOnce
  <2>3. \A u \in CoinThread : Busy(u)' /\ Creates[coinTx'[u]] # {} => ~Made(coinTx'[u])
    BY <1>1, <1>2, <1>3, <2>1 DEF RunOnce
  <2> QED BY <1>1, <1>5, <1>6, <2>2, <2>3 DEF RunOnce, Made
<1>11. ASSUME Clean' PROVE ClaimsHeld' /\ SpendsTold' /\ SettledSpent'
  <2>1. ClaimsHeld /\ SpendsTold /\ SettledSpent
    BY <1>1, <1>6, <1>11
  <2>2. ASSUME NEW c \in Inputs(x) PROVE coinSpent[c] # {} => c \in spentSet
    <3> SUFFICES ASSUME NEW y \in coinSpent[c] PROVE c \in spentSet
      OBVIOUS
    <3>1. c \in Coin /\ c \in Inputs(y) /\ (y \in settled \/ y \in Queued \/ \E u \in CoinThread : c \in Claimed(u))
      BY <1>7, <2>1 DEF SpendsTold, Made
    <3>2. c \notin Cached
      BY <2>1, <3>1 DEF SpendsTold
    <3>3. y \notin settled
      BY <1>8, <2>1, <3>1, <3>2 DEF SettledSpent
    <3> QED BY <2>1, <3>1, <3>3 DEF ClaimsHeld
  <2>3. /\ \A u \in CoinThread : Claimed(u)' \subseteq spentSet
        /\ \A u \in CoinThread : Busy(u)' => \A c \in Inputs(coinTx'[u]) : coinSpent[c] # {} => c \in spentSet
        /\ \A u, v \in CoinThread : u # v => Claimed(u)' \cap Claimed(v)' = {}
        /\ \A u \in CoinThread : \A c \in Claimed(u)' : coinSpent[c] \subseteq {coinTx'[u]}
    BY <1>2, <1>3, <1>4, <2>1, <2>2 DEF ClaimsHeld
  <2>4. ClaimsHeld'
    BY <1>5, <1>6, <2>1, <2>3 DEF ClaimsHeld
  <2>5. \A c \in Coin : \A y \in coinSpent[c] :
          c \in Inputs(y) /\ (Made(y) \/ \E u \in CoinThread : Busy(u)' /\ coinTx'[u] = y /\ c \in Claimed(u)')
    BY <1>3, <1>4, <2>1 DEF SpendsTold
  <2>6. \A u \in CoinThread : Busy(u)' => \A c \in Inputs(coinTx'[u]) :
          coinTx'[u] \in coinSpent[c] \/ ShardOf[c] \in coinRun'[u].shards
    BY <1>2, <1>3, <1>7, <2>1 DEF SpendsTold
  <2>7. SpendsTold'
    BY <1>5, <1>6, <2>1, <2>5, <2>6 DEF SpendsTold
  <2>8. SettledSpent'
    BY <1>5, <1>6, <2>1 DEF SettledSpent
  <2> QED BY <2>4, <2>7, <2>8
<1> QED BY <1>2, <1>9, <1>10, <1>11 DEF CoinInv

LEMMA ClaimStep ==
    ASSUME CoinInv, NEW t \in CoinThread, TryMarkSpent(t)
    PROVE  CoinInv'
<1> DEFINE c == NextInput(t)
           x == coinTx[t]
<1>1. CoinBase /\ BirthsTold /\ RunOnce /\ (Clean => ClaimsHeld /\ SpendsTold /\ SettledSpent)
  BY DEF CoinInv
<1>2. /\ CoinBase' /\ Others(t) /\ coinTx' = coinTx /\ Busy(t) /\ Busy(t)'
      /\ coinRun'[t].shards = coinRun[t].shards
      /\ c \in Inputs(x) /\ c \notin spentSet
      /\ Claimed(t)' = Claimed(t) \cup {c}
      /\ Clean' => Clean
      /\ Clean' /\ IsInjective(spentOrder) /\ ToSet(spentOrder) \subseteq spentSet =>
           /\ IsInjective(spentOrder') /\ ToSet(spentOrder') \subseteq spentSet'
           /\ (spentSet \cup {c}) \cap Needed \subseteq spentSet'
  BY <1>1, TryMarkSpentFact
<1> HIDE DEF c
<1>3. UNCHANGED <<shard, coinDb, coinQueue, coinSpent, coinBorn, settled>>
  BY DEF TryMarkSpent, cacheVars
<1>4. /\ Cached' = Cached /\ Queued' = Queued /\ SettledBorn' = SettledBorn /\ \A y : Made(y)' <=> Made(y)
  BY <1>3 DEF Cached, Queued, SettledBorn, Made
<1>5. \A u \in CoinThread : /\ coinRun'[u].shards = coinRun[u].shards /\ coinTx'[u] = coinTx[u] /\ (Busy(u)' <=> Busy(u))
                            /\ u # t => Claimed(u)' = Claimed(u)
                            /\ Claimed(u) \subseteq Claimed(u)'
  BY <1>2 DEF Others
<1>6. BirthsTold' /\ RunOnce'
  <2>1. BirthsTold'
    BY <1>1, <1>3, <1>4, <1>5 DEF BirthsTold
  <2>2. RunOnce'
    BY <1>1, <1>3, <1>4, <1>5 DEF RunOnce
  <2> QED BY <2>1, <2>2
<1>7. ASSUME Clean' PROVE ClaimsHeld' /\ SpendsTold' /\ SettledSpent'
  <2>1. ClaimsHeld /\ SpendsTold /\ SettledSpent
    BY <1>1, <1>2, <1>7
  <2>2. /\ IsInjective(spentOrder') /\ ToSet(spentOrder') \subseteq spentSet'
        /\ \A d : d \in spentSet \cup {c} /\ d \in Needed => d \in spentSet'
    BY <1>2, <1>7, <2>1 DEF ClaimsHeld
  <2>3. /\ \A u \in CoinThread : Busy(u) => Inputs(coinTx[u]) \subseteq Needed
        /\ \A y \in Queued : Inputs(y) \subseteq Needed
    <3>1. ASSUME NEW u \in CoinThread, Busy(u) PROVE Inputs(coinTx[u]) \subseteq Needed
      BY <3>1 DEF Needed, Inputs
    <3>2. ASSUME NEW y \in Queued PROVE Inputs(y) \subseteq Needed
      <4>1. PICK i \in DOMAIN coinQueue : y = coinQueue[i]
        BY DEF Queued, ToSet
      <4> DEFINE waiting == {ToSet(Spends[coinQueue[j]]) : j \in DOMAIN coinQueue}
                 running == UNION {ToSet(Spends[coinTx[u]]) : u \in {v \in CoinThread : Busy(v)}}
      <4>2. Inputs(y) \in waiting
        BY <4>1 DEF Inputs
      <4>3. Needed = running \cup UNION waiting
        BY DEF Needed
      <4> HIDE DEF waiting, running
      <4> QED BY <4>2, <4>3
    <3> QED BY <3>1, <3>2
  <2>4. \A u \in CoinThread : Claimed(u) \subseteq Needed
    BY <1>1, <2>3, RunFact
  <2>5. c \in spentSet'
    BY <1>2, <2>2, <2>3
  <2>6. \A u \in CoinThread : Claimed(u)' \subseteq spentSet'
    BY <1>2, <1>5, <2>1, <2>2, <2>4, <2>5 DEF ClaimsHeld
  <2>7. \A y \in Queued : Inputs(y) \subseteq spentSet'
    BY <2>1, <2>2, <2>3 DEF ClaimsHeld
  <2>8. \A u \in CoinThread : Busy(u) => \A d \in Inputs(coinTx[u]) : coinSpent[d] # {} => d \in spentSet'
    BY <2>1, <2>2, <2>3 DEF ClaimsHeld
  <2>9. \A u \in CoinThread : c \notin Claimed(u)
    BY <1>2, <2>1 DEF ClaimsHeld
  <2>10. \A u, v \in CoinThread : u # v => Claimed(u)' \cap Claimed(v)' = {}
    BY <1>2, <1>5, <2>1, <2>9 DEF ClaimsHeld
  <2>11. \A u \in CoinThread : \A d \in Claimed(u)' : coinSpent[d] \subseteq {coinTx[u]}
    <3>1. coinSpent[c] = {}
      BY <1>2, <2>1 DEF ClaimsHeld
    <3> QED BY <1>2, <1>5, <2>1, <3>1 DEF ClaimsHeld
  <2>12. ClaimsHeld'
    BY <1>3, <1>4, <1>5, <2>2, <2>6, <2>7, <2>8, <2>10, <2>11 DEF ClaimsHeld
  <2>13. \A d \in Coin : \A y \in coinSpent[d] :
           d \in Inputs(y) /\ (Made(y) \/ \E u \in CoinThread : Busy(u)' /\ coinTx'[u] = y /\ d \in Claimed(u)')
    BY <1>5, <2>1 DEF SpendsTold
  <2>14. SpendsTold'
    BY <1>3, <1>4, <1>5, <2>1, <2>13 DEF SpendsTold
  <2>15. SettledSpent'
    BY <1>3, <1>4, <2>1 DEF SettledSpent
  <2> QED BY <2>12, <2>14, <2>15
<1> QED BY <1>2, <1>6, <1>7 DEF CoinInv

LEMMA RollBackStep ==
    ASSUME CoinInv, NEW t \in CoinThread, RollBack(t)
    PROVE  CoinInv'
<1>1. CoinBase /\ BirthsTold /\ RunOnce /\ (Clean => ClaimsHeld /\ SpendsTold /\ SettledSpent)
  BY DEF CoinInv
<1>2. /\ CoinBase' /\ Others(t) /\ coinTx' = coinTx /\ ~Busy(t)' /\ Claimed(t)' = {}
      /\ Clean' => Clean /\ spentSet' = spentSet
  BY <1>1, RollBackFact
<1>3. /\ UNCHANGED <<shard, coinDb, spentOrder, coinQueue, coinSpent, coinBorn, settled>>
      /\ lapses' = lapses \cup {l \in {"released"} : Claimed(t) # {}}
  BY DEF RollBack, cacheVars
<1>4. /\ Cached' = Cached /\ Queued' = Queued /\ SettledBorn' = SettledBorn /\ \A y : Made(y)' <=> Made(y)
  BY <1>3 DEF Cached, Queued, SettledBorn, Made
<1>5. \A u \in CoinThread : /\ coinTx'[u] = coinTx[u] /\ (Busy(u)' => Busy(u) /\ u # t)
                            /\ u # t => Claimed(u)' = Claimed(u) /\ (Busy(u)' <=> Busy(u)) /\ coinRun'[u] = coinRun[u]
                            /\ Claimed(u)' \subseteq Claimed(u)
  BY <1>2 DEF Others
<1>6. BirthsTold' /\ RunOnce'
  <2>1. BirthsTold'
    BY <1>1, <1>3, <1>4, <1>5 DEF BirthsTold
  <2>2. RunOnce'
    BY <1>1, <1>3, <1>4, <1>5 DEF RunOnce
  <2> QED BY <2>1, <2>2
<1>7. ASSUME Clean' PROVE ClaimsHeld' /\ SpendsTold' /\ SettledSpent'
  <2>1. ClaimsHeld /\ SpendsTold /\ SettledSpent /\ spentSet' = spentSet
    BY <1>1, <1>2, <1>7
  <2>2. Claimed(t) = {}
    BY <1>3, <1>7 DEF Clean
  <2>3. ClaimsHeld'
    BY <1>3, <1>4, <1>5, <2>1 DEF ClaimsHeld
  <2>4. \A d \in Coin : \A y \in coinSpent[d] :
          d \in Inputs(y) /\ (Made(y) \/ \E u \in CoinThread : Busy(u)' /\ coinTx'[u] = y /\ d \in Claimed(u)')
    BY <1>5, <2>1, <2>2 DEF SpendsTold
  <2>5. SpendsTold'
    BY <1>3, <1>4, <1>5, <2>1, <2>4 DEF SpendsTold
  <2>6. SettledSpent'
    BY <1>3, <1>4, <2>1 DEF SettledSpent
  <2> QED BY <2>3, <2>5, <2>6
<1> QED BY <1>2, <1>6, <1>7 DEF CoinInv

LEMMA PhaseStep ==
    ASSUME CoinInv, NEW t \in CoinThread, MissedSpends(t)
    PROVE  CoinInv'
<1>1. CoinBase /\ BirthsTold /\ RunOnce /\ (Clean => ClaimsHeld /\ SpendsTold /\ SettledSpent)
  BY DEF CoinInv
<1>2. /\ CoinBase' /\ (Clean' <=> Clean)
      /\ UNCHANGED <<shard, coinDb, spentSet, spentOrder, coinTx, coinQueue, coinSpent, coinBorn, settled>>
      /\ \A u \in CoinThread : /\ coinRun'[u].shards = coinRun[u].shards
                               /\ Claimed(u)' = Claimed(u) /\ (Busy(u)' <=> Busy(u))
  BY <1>1, PhaseFact
<1>3. /\ Cached' = Cached /\ Queued' = Queued /\ SettledBorn' = SettledBorn /\ \A y : Made(y)' <=> Made(y)
  BY <1>2 DEF Cached, Queued, SettledBorn, Made
<1>4. BirthsTold'
  BY <1>1, <1>2, <1>3 DEF BirthsTold
<1>5. RunOnce'
  BY <1>1, <1>2, <1>3 DEF RunOnce
<1>6. ASSUME Clean' PROVE ClaimsHeld' /\ SpendsTold' /\ SettledSpent'
  <2>1. ClaimsHeld /\ SpendsTold /\ SettledSpent
    BY <1>1, <1>2, <1>6
  <2>2. ClaimsHeld'
    BY <1>2, <1>3, <2>1 DEF ClaimsHeld
  <2>3. SpendsTold'
    BY <1>2, <1>3, <2>1 DEF SpendsTold
  <2>4. SettledSpent'
    BY <1>2, <1>3, <2>1 DEF SettledSpent
  <2> QED BY <2>2, <2>3, <2>4
<1> QED BY <1>2, <1>4, <1>5, <1>6 DEF CoinInv

LEMMA BooksStep ==
    ASSUME CoinInv, BooksOnly
    PROVE  CoinInv'
<1>1. /\ UNCHANGED <<shard, coinDb, spentSet, spentOrder, coinRun, coinTx, coinQueue, coinSpent, coinBorn,
                     settled, coinBoots>>
      /\ lapses \subseteq lapses' /\ lapses' \subseteq lapses \cup {"forgotten", "unlisted"}
  BY DEF BooksOnly
<1>2. /\ Cached' = Cached /\ Queued' = Queued /\ SettledBorn' = SettledBorn /\ (Clean' <=> Clean)
      /\ (\A y : Made(y)' <=> Made(y))
      /\ \A t : Claimed(t)' = Claimed(t) /\ (Busy(t)' <=> Busy(t))
  BY <1>1 DEF Cached, Queued, SettledBorn, Clean, Made, Claimed, Busy
<1>3. CoinBase'
  <2>1. lapses' \subseteq Lapse
    BY <1>1 DEF CoinInv, CoinBase, CoinTypes, Lapse
  <2> QED BY <1>1, <2>1 DEF CoinInv, CoinBase, CoinTypes, RunShape
<1>4. BirthsTold' /\ RunOnce'
  BY <1>1, <1>2 DEF CoinInv, BirthsTold, RunOnce
<1>5. ASSUME Clean' PROVE ClaimsHeld' /\ SpendsTold' /\ SettledSpent'
  <2>1. ClaimsHeld /\ SpendsTold /\ SettledSpent
    BY <1>2, <1>5 DEF CoinInv
  <2>2. ClaimsHeld'
    BY <1>1, <1>2, <2>1 DEF ClaimsHeld
  <2>3. SpendsTold'
    BY <1>1, <1>2, <2>1 DEF SpendsTold
  <2>4. SettledSpent'
    BY <1>1, <1>2, <2>1 DEF SettledSpent
  <2> QED BY <2>2, <2>3, <2>4
<1> QED BY <1>3, <1>4, <1>5 DEF CoinInv

LEMMA OutpointFact ==
    /\ \A x \in Tx : /\ Creates[x] \subseteq Coin /\ Creates[x] \cap Inputs(x) = {}
                     /\ Creates[x] \cap FirstCoin = {}
    /\ \A x, y \in Tx : x # y => Creates[x] \cap Creates[y] = {}
BY CoinAssumption DEF Inputs

LEMMA ApplyStep ==
    ASSUME CoinInv, NEW t \in CoinThread, ApplyShard(t)
    PROVE  CoinInv'
<1> DEFINE x == coinTx[t]
<1>1. CoinBase /\ BirthsTold /\ RunOnce /\ (Clean => ClaimsHeld /\ SpendsTold /\ SettledSpent)
  BY DEF CoinInv
<1>2. /\ CoinBase' /\ Others(t) /\ coinTx' = coinTx /\ Busy(t) /\ Busy(t)' /\ (Clean' <=> Clean)
      /\ Claimed(t)' = Claimed(t) /\ Claimed(t) = Inputs(x) /\ x \in Tx
      /\ UNCHANGED <<spentSet, spentOrder, coinDb, coinQueue, settled>>
  BY <1>1, ApplyShardFact
<1>3. PICK s \in coinRun[t].shards :
        /\ coinRun'[t].shards = coinRun[t].shards \ {s}
        /\ Cached' \subseteq (Cached \ Here(Inputs(x), s)) \cup Here(Creates[x], s)
        /\ coinSpent' = [c \in Coin |-> IF c \in Here(Inputs(x), s) THEN coinSpent[c] \cup {x} ELSE coinSpent[c]]
        /\ coinBorn' = coinBorn \cup Here(Creates[x], s)
  BY <1>1, ApplyShardFact
<1>4. /\ Queued' = Queued /\ SettledBorn' = SettledBorn /\ \A y : Made(y)' <=> Made(y)
  BY <1>2 DEF Queued, SettledBorn, Made
<1>5. \A u \in CoinThread : /\ coinTx'[u] = coinTx[u] /\ (Busy(u)' <=> Busy(u)) /\ Claimed(u)' = Claimed(u)
                            /\ u # t => coinRun'[u] = coinRun[u]
  BY <1>2 DEF Others
<1>6. /\ \A c \in Here(Inputs(x), s) : c \in Coin /\ c \in Inputs(x) /\ ShardOf[c] = s /\ c \notin Creates[x]
      /\ \A c \in Here(Creates[x], s) : c \in Creates[x] /\ ShardOf[c] = s /\ c \notin Inputs(x) /\ c \in Coin
      /\ \A c \in Creates[x] : ShardOf[c] = s => c \in Here(Creates[x], s)
      /\ \A c \in Inputs(x) : ShardOf[c] = s => c \in Here(Inputs(x), s)
      /\ Inputs(x) \subseteq Coin
  BY <1>2, OutpointFact, InputsFact DEF Here
<1>7. \A u \in CoinThread : coinTx[u] \in Tx /\ Inputs(coinTx[u]) \subseteq Coin
  BY <1>1, RunFact
<1>8. \A c \in Here(Creates[x], s) : c \notin coinBorn
  BY <1>1, <1>2, <1>3, <1>6 DEF BirthsTold
<1>9. BirthsTold'
  <2>1. Cached' \subseteq coinBorn' /\ coinBorn \subseteq coinBorn'
    BY <1>1, <1>3 DEF BirthsTold
  <2>2. ASSUME NEW u \in CoinThread, Busy(u)
        PROVE  \A c \in Creates[coinTx[u]] : c \in coinBorn' <=> ShardOf[c] \notin coinRun'[u].shards
    <3>1. CASE u = t
      BY <1>1, <1>2, <1>3, <1>6, <3>1 DEF BirthsTold
    <3>2. CASE u # t
      <4>1. coinTx[u] # x
        BY <1>1, <1>2, <2>2, <3>2 DEF RunOnce
      <4>2. \A c \in Creates[coinTx[u]] : c \notin Here(Creates[x], s)
        BY <1>2, <1>6, <1>7, <4>1, OutpointFact
      <4> QED BY <1>1, <1>3, <1>5, <2>2, <3>2, <4>2 DEF BirthsTold
    <3> QED BY <3>1, <3>2
  <2> QED BY <1>1, <1>2, <1>4, <1>5, <2>1, <2>2 DEF BirthsTold
<1>10. RunOnce'
  BY <1>1, <1>2, <1>4, <1>5 DEF RunOnce
<1>11. ASSUME Clean' PROVE ClaimsHeld' /\ SpendsTold' /\ SettledSpent'
  <2>1. ClaimsHeld /\ SpendsTold /\ SettledSpent
    BY <1>1, <1>2, <1>11
  <2>2. /\ \A c \in Coin : c \in Here(Inputs(x), s) => coinSpent'[c] = coinSpent[c] \cup {x}
        /\ \A c \in Coin : c \notin Here(Inputs(x), s) => coinSpent'[c] = coinSpent[c]
    BY <1>3
  <2>3. \A c \in Here(Inputs(x), s) : c \in Claimed(t) /\ c \in spentSet /\ coinSpent[c] \subseteq {x}
    BY <1>2, <1>6, <2>1 DEF ClaimsHeld
  <2>4. ClaimsHeld'
    <3>1. ASSUME NEW u \in CoinThread, Busy(u), NEW c \in Inputs(coinTx[u]), coinSpent'[c] # {}
          PROVE  c \in spentSet
      BY <1>7, <2>1, <2>2, <2>3, <3>1 DEF ClaimsHeld
    <3>2. ASSUME NEW u \in CoinThread, NEW c \in Claimed(u)
          PROVE  coinSpent'[c] \subseteq {coinTx[u]}
      <4>1. c \in Coin
        BY <1>1, <1>7, RunFact
      <4>2. CASE u = t
        BY <2>1, <2>2, <4>1, <4>2 DEF ClaimsHeld
      <4>3. CASE u # t
        <5>1. c \notin Here(Inputs(x), s)
          BY <2>1, <2>3, <4>3 DEF ClaimsHeld
        <5> QED BY <2>1, <2>2, <4>1, <5>1 DEF ClaimsHeld
      <4> QED BY <4>2, <4>3
    <3> QED BY <1>2, <1>4, <1>5, <2>1, <3>1, <3>2 DEF ClaimsHeld
  <2>5. \A c \in Coin : \A y, z \in coinSpent'[c] : y = z
    BY <2>1, <2>2, <2>3 DEF SpendsTold
  <2>6. ASSUME NEW c \in Coin, NEW y \in coinSpent'[c]
        PROVE  c \in Inputs(y) /\ (Made(y) \/ \E u \in CoinThread : Busy(u) /\ coinTx[u] = y /\ c \in Claimed(u))
    <3>1. CASE y \in coinSpent[c]
      BY <2>1, <3>1 DEF SpendsTold
    <3>2. CASE y \notin coinSpent[c]
      <4>1. y = x /\ c \in Here(Inputs(x), s)
        BY <2>2, <2>6, <3>2
      <4> QED BY <1>2, <1>6, <2>3, <4>1
    <3> QED BY <3>1, <3>2
  <2>7. \A c \in Coin : coinSpent[c] \subseteq coinSpent'[c]
    BY <2>2
  <2>8. ASSUME NEW y \in Tx, Made(y), NEW c \in Inputs(y) PROVE y \in coinSpent'[c]
    BY <2>1, <2>7, <2>8, InputsFact DEF SpendsTold
  <2>9. ASSUME NEW u \in CoinThread, Busy(u), NEW c \in Inputs(coinTx[u])
        PROVE  coinTx[u] \in coinSpent'[c] \/ ShardOf[c] \in coinRun'[u].shards
    <3>1. c \in Coin /\ (coinTx[u] \in coinSpent[c] \/ ShardOf[c] \in coinRun[u].shards)
      BY <1>7, <2>1, <2>9 DEF SpendsTold
    <3>2. CASE u # t
      BY <1>5, <2>7, <3>1, <3>2
    <3>3. CASE u = t
      BY <1>3, <1>6, <2>2, <2>7, <3>1, <3>3
    <3> QED BY <3>2, <3>3
  <2>10. ASSUME NEW c \in Coin, coinSpent'[c] # {} PROVE c \in coinBorn' /\ c \notin Cached'
    <3>1. CASE c \in Here(Inputs(x), s)
      <4>1. c \in coinBorn
        BY <1>1, <1>2, <1>6, <3>1 DEF BirthsTold
      <4> QED BY <1>3, <1>6, <3>1, <4>1
    <3>2. CASE c \notin Here(Inputs(x), s)
      <4>1. c \in coinBorn /\ c \notin Cached
        BY <2>1, <2>2, <2>10, <3>2 DEF SpendsTold
      <4> QED BY <1>3, <1>8, <4>1
    <3> QED BY <3>1, <3>2
  <2>11. SpendsTold'
    BY <1>4, <1>5, <2>5, <2>6, <2>8, <2>9, <2>10 DEF SpendsTold
  <2>12. SettledSpent'
    BY <1>2, <1>4, <2>1 DEF SettledSpent
  <2> QED BY <2>4, <2>11, <2>12
<1> QED BY <1>2, <1>9, <1>10, <1>11 DEF CoinInv

LEMMA SendStep ==
    ASSUME CoinInv, NEW t \in CoinThread, Send(t)
    PROVE  CoinInv'
<1> DEFINE x == coinTx[t]
<1>1. CoinBase /\ BirthsTold /\ RunOnce /\ (Clean => ClaimsHeld /\ SpendsTold /\ SettledSpent)
  BY DEF CoinInv
<1>2. /\ CoinBase' /\ Others(t) /\ coinTx' = coinTx /\ Busy(t) /\ ~Busy(t)' /\ Claimed(t)' = {}
      /\ coinRun[t].shards = {} /\ Claimed(t) = Inputs(x) /\ x \in Tx
      /\ coinQueue' = Append(coinQueue, x) /\ Queued' = Queued \cup {x}
  BY <1>1, SendFact
<1>3. UNCHANGED <<shard, coinDb, spentSet, spentOrder, coinSpent, coinBorn, settled, lapses>>
  BY DEF Send, cacheVars, claimVars, coinGhost
<1>4. /\ Cached' = Cached /\ SettledBorn' = SettledBorn /\ (Clean' <=> Clean)
      /\ \A y : Made(y)' <=> Made(y) \/ y = x
  BY <1>2, <1>3 DEF Cached, SettledBorn, Made, Clean
<1>5. \A u \in CoinThread : /\ coinTx'[u] = coinTx[u] /\ (Busy(u)' <=> Busy(u) /\ u # t)
                            /\ u # t => Claimed(u)' = Claimed(u) /\ coinRun'[u] = coinRun[u]
                            /\ Claimed(u)' \subseteq Claimed(u)
  BY <1>2 DEF Others
<1>6. BirthsTold'
  <2>1. Creates[x] \subseteq coinBorn
    BY <1>1, <1>2 DEF BirthsTold
  <2> QED BY <1>1, <1>2, <1>3, <1>4, <1>5, <2>1 DEF BirthsTold
<1>7. RunOnce'
  <2>1. Creates[x] # {} => x \notin settled /\ x \notin Queued
    BY <1>1, <1>2 DEF RunOnce, Made
  <2>2. \A u \in CoinThread : Busy(u)' => coinTx[u] # x
    BY <1>1, <1>2, <1>5 DEF RunOnce
  <2>3. /\ coinQueue \in Seq(Tx) /\ Len(coinQueue) \in Nat
        /\ DOMAIN coinQueue = 1..Len(coinQueue) /\ DOMAIN coinQueue' = 1..Len(coinQueue) + 1
        /\ coinQueue'[Len(coinQueue) + 1] = x /\ \A i \in 1..Len(coinQueue) : coinQueue'[i] = coinQueue[i]
    BY <1>1, <1>2 DEF CoinBase, CoinTypes
  <2>4. \A i \in 1..Len(coinQueue) : coinQueue[i] \in Queued
    BY <2>3 DEF Queued, ToSet
  <2>5. \A i, j \in DOMAIN coinQueue' : coinQueue'[i] = coinQueue'[j] /\ Creates[coinQueue'[i]] # {} => i = j
    <3> SUFFICES ASSUME NEW i \in DOMAIN coinQueue', NEW j \in DOMAIN coinQueue', coinQueue'[i] = coinQueue'[j],
                        Creates[coinQueue'[i]] # {}
                 PROVE  i = j
      OBVIOUS
    <3>1. \A k \in DOMAIN coinQueue' : k \in 1..Len(coinQueue) \/ k = Len(coinQueue) + 1
      BY <2>3
    <3>2. CASE i \in 1..Len(coinQueue) /\ j \in 1..Len(coinQueue)
      BY <1>1, <2>3, <3>2 DEF RunOnce
    <3>3. CASE i = Len(coinQueue) + 1 /\ j \in 1..Len(coinQueue)
      BY <2>1, <2>3, <2>4, <3>3
    <3>4. CASE i \in 1..Len(coinQueue) /\ j = Len(coinQueue) + 1
      BY <2>1, <2>3, <2>4, <3>4
    <3> QED BY <3>1, <3>2, <3>3, <3>4
  <2>6. \A u, v \in CoinThread : Busy(u)' /\ Busy(v)' /\ coinTx'[u] = coinTx'[v] => u = v
    BY <1>1, <1>5 DEF RunOnce
  <2>7. \A u \in CoinThread : Busy(u)' /\ Creates[coinTx'[u]] # {} => ~Made(coinTx[u]) /\ coinTx[u] # x
    BY <1>1, <1>5, <2>2 DEF RunOnce
  <2>8. \A y \in Queued' : Creates[y] # {} => y \notin settled
    BY <1>1, <1>2, <2>1 DEF RunOnce
  <2> QED BY <1>3, <1>4, <1>5, <2>5, <2>6, <2>7, <2>8 DEF RunOnce
<1>8. ASSUME Clean' PROVE ClaimsHeld' /\ SpendsTold' /\ SettledSpent'
  <2>1. ClaimsHeld /\ SpendsTold /\ SettledSpent
    BY <1>1, <1>4, <1>8
  <2>2. ClaimsHeld'
    <3>1. Inputs(x) \subseteq spentSet
      BY <1>2, <2>1 DEF ClaimsHeld
    <3> QED BY <1>2, <1>3, <1>4, <1>5, <2>1, <3>1 DEF ClaimsHeld
  <2>3. \A c \in Coin : \A y \in coinSpent[c] :
          c \in Inputs(y) /\ (Made(y)' \/ \E u \in CoinThread : Busy(u)' /\ coinTx'[u] = y /\ c \in Claimed(u)')
    BY <1>2, <1>4, <1>5, <2>1 DEF SpendsTold
  <2>4. \A c \in Inputs(x) : x \in coinSpent[c]
    BY <1>2, <2>1 DEF SpendsTold
  <2>5. SpendsTold'
    BY <1>3, <1>4, <1>5, <2>1, <2>3, <2>4 DEF SpendsTold
  <2>6. SettledSpent'
    BY <1>3, <1>4, <2>1 DEF SettledSpent
  <2> QED BY <2>2, <2>5, <2>6
<1> QED BY <1>2, <1>6, <1>7, <1>8 DEF CoinInv

LEMMA WriteStep ==
    ASSUME CoinInv, WriteCoins
    PROVE  CoinInv'
<1> DEFINE h == Head(coinQueue)
<1>1. CoinBase /\ BirthsTold /\ RunOnce /\ (Clean => ClaimsHeld /\ SpendsTold /\ SettledSpent)
  BY DEF CoinInv
<1>2. /\ CoinBase' /\ coinQueue # <<>> /\ h \in Tx
      /\ Queued = {h} \cup Queued' /\ coinQueue' = Tail(coinQueue)
      /\ coinDb' = (coinDb \ Inputs(h)) \cup Creates[h]
      /\ settled' = settled \cup {h} /\ SettledBorn' = SettledBorn \cup Creates[h]
      /\ Clean' => Clean /\ Inputs(h) \subseteq SettledBorn
      /\ UNCHANGED <<shard, spentSet, spentOrder, coinRun, coinTx, coinSpent, coinBorn>>
      /\ \A u \in CoinThread : Claimed(u)' = Claimed(u) /\ (Busy(u)' <=> Busy(u))
  BY <1>1, WriteCoinsFact
<1>3. /\ coinQueue \in Seq(Tx) /\ Len(coinQueue) \in Nat /\ DOMAIN coinQueue = 1..Len(coinQueue)
      /\ Len(coinQueue) > 0 /\ h = coinQueue[1]
      /\ DOMAIN coinQueue' = 1..(Len(coinQueue) - 1)
      /\ \A i \in 1..(Len(coinQueue) - 1) : coinQueue'[i] = coinQueue[i + 1]
  <2>1. coinQueue \in Seq(Tx) /\ coinQueue # <<>>
    BY <1>1, <1>2 DEF CoinBase, CoinTypes
  <2>2. /\ Tail(coinQueue) \in Seq(Tx) /\ Len(Tail(coinQueue)) = Len(coinQueue) - 1
        /\ \A i \in 1..Len(Tail(coinQueue)) : Tail(coinQueue)[i] = coinQueue[i + 1]
    BY <2>1, HeadTailProperties
  <2>3. Len(coinQueue) \in Nat /\ DOMAIN coinQueue = 1..Len(coinQueue) /\ Len(coinQueue) > 0 /\ h = coinQueue[1]
    BY <2>1
  <2>4. DOMAIN Tail(coinQueue) = 1..Len(Tail(coinQueue))
    BY <2>2
  <2> QED BY <1>2, <2>1, <2>2, <2>3, <2>4
<1> HIDE DEF h
<1>4. /\ Cached' = Cached /\ \A y : Made(y)' <=> Made(y)
  BY <1>2 DEF Cached, Made
<1>5. h \in Queued /\ Creates[h] \subseteq coinBorn
  BY <1>1, <1>2 DEF BirthsTold
<1>6. BirthsTold'
  BY <1>1, <1>2, <1>4, <1>5 DEF BirthsTold
<1>7. RunOnce'
  <2>1. \A y \in Queued' : Creates[y] # {} => y # h
    <3> SUFFICES ASSUME NEW y \in Queued', Creates[y] # {}, y = h PROVE FALSE
      OBVIOUS
    <3>1. PICK i \in 1..(Len(coinQueue) - 1) : y = coinQueue[i + 1]
      BY <1>3 DEF Queued, ToSet
    <3>2. i + 1 \in DOMAIN coinQueue /\ 1 \in DOMAIN coinQueue /\ i + 1 # 1
      BY <1>3
    <3> QED BY <1>1, <1>3, <3>1, <3>2 DEF RunOnce
  <2>2. \A i, j \in DOMAIN coinQueue' : coinQueue'[i] = coinQueue'[j] /\ Creates[coinQueue'[i]] # {} => i = j
    <3> SUFFICES ASSUME NEW i \in DOMAIN coinQueue', NEW j \in DOMAIN coinQueue', coinQueue'[i] = coinQueue'[j],
                        Creates[coinQueue'[i]] # {}
                 PROVE  i = j
      OBVIOUS
    <3>1. /\ i + 1 \in DOMAIN coinQueue /\ j + 1 \in DOMAIN coinQueue /\ i \in Int /\ j \in Int
          /\ coinQueue'[i] = coinQueue[i + 1] /\ coinQueue'[j] = coinQueue[j + 1]
      BY <1>3
    <3>2. i + 1 = j + 1
      BY <1>1, <3>1 DEF RunOnce
    <3> QED BY <3>1, <3>2
  <2>3. \A y \in Queued' : Creates[y] # {} => y \notin settled'
    BY <1>1, <1>2, <2>1 DEF RunOnce
  <2> QED BY <1>1, <1>2, <1>4, <2>2, <2>3 DEF RunOnce
<1>8. ASSUME Clean' PROVE ClaimsHeld' /\ SpendsTold' /\ SettledSpent'
  <2>1. ClaimsHeld /\ SpendsTold /\ SettledSpent /\ Inputs(h) \subseteq SettledBorn
    BY <1>1, <1>2, <1>8
  <2>2. ClaimsHeld'
    BY <1>2, <1>4, <2>1 DEF ClaimsHeld
  <2>3. SpendsTold'
    BY <1>2, <1>4, <2>1 DEF SpendsTold
  <2>4. Creates[h] \cap SettledBorn = {}
    <3> SUFFICES ASSUME NEW c \in Creates[h], c \in SettledBorn PROVE FALSE
      OBVIOUS
    <3>1. c \notin FirstCoin
      BY <1>2, OutpointFact
    <3>2. PICK z \in settled : c \in Creates[z]
      BY <3>1 DEF SettledBorn
    <3>3. z \in Tx
      BY <1>1 DEF CoinBase, CoinTypes
    <3>4. z = h
      BY <1>2, <3>2, <3>3, OutpointFact
    <3> QED BY <1>1, <1>5, <3>2, <3>4 DEF RunOnce
  <2>5. ASSUME NEW y \in settled' PROVE Inputs(y) \cap coinDb' = {} /\ Inputs(y) \subseteq SettledBorn'
    <3>1. CASE y \in settled
      BY <1>2, <2>1, <2>4, <3>1 DEF SettledSpent
    <3>2. CASE y = h
      BY <1>2, <2>1, <3>2, OutpointFact
    <3> QED BY <1>2, <3>1, <3>2
  <2>6. SettledSpent'
    BY <2>5 DEF SettledSpent
  <2> QED BY <2>2, <2>3, <2>6
<1> QED BY <1>2, <1>6, <1>7, <1>8 DEF CoinInv

LEMMA RestartStep ==
    ASSUME CoinInv, Restart
    PROVE  CoinInv'
<1>1. CoinBase /\ BirthsTold /\ RunOnce /\ (Clean => ClaimsHeld /\ SpendsTold /\ SettledSpent)
  BY DEF CoinInv
<1>2. /\ CoinBase' /\ Queued' = {} /\ coinQueue' = <<>> /\ spentSet' = {} /\ spentOrder' = <<>>
      /\ Cached' \subseteq coinDb /\ SettledBorn' = SettledBorn /\ coinBorn' = SettledBorn
      /\ coinSpent' = [c \in Coin |-> {x \in settled : c \in Inputs(x)}]
      /\ UNCHANGED <<coinDb, settled>> /\ (Clean' <=> Clean)
      /\ \A u \in CoinThread : ~Busy(u)' /\ Claimed(u)' = {}
  BY <1>1, RestartFact
<1>3. \A y : Made(y)' <=> y \in settled
  BY <1>2 DEF Made
<1>4. BirthsTold'
  BY <1>1, <1>2 DEF BirthsTold
<1>5. DOMAIN coinQueue' = {}
  BY <1>2
<1>6. RunOnce'
  BY <1>2, <1>5 DEF RunOnce
<1>7. ASSUME Clean' PROVE ClaimsHeld' /\ SpendsTold' /\ SettledSpent'
  <2>1. ClaimsHeld /\ SpendsTold /\ SettledSpent
    BY <1>1, <1>2, <1>7
  <2>2. IsInjective(spentOrder') /\ ToSet(spentOrder') = {}
    BY <1>2 DEF IsInjective, ToSet
  <2>3. ClaimsHeld'
    BY <1>2, <2>2 DEF ClaimsHeld
  <2>4. \A c \in Coin : \A y : y \in coinSpent'[c] <=> y \in settled /\ c \in Inputs(y)
    BY <1>2
  <2>5. settled \subseteq Tx /\ \A y \in settled : Inputs(y) \subseteq Coin
    BY <1>1, InputsFact DEF CoinBase, CoinTypes
  <2>6. ASSUME NEW c \in Coin PROVE coinSpent'[c] \subseteq coinSpent[c]
    BY <2>1, <2>4, <2>5 DEF SpendsTold, Made
  <2>7. \A c \in Coin : \A y, z \in coinSpent'[c] : y = z
    BY <2>1, <2>6 DEF SpendsTold
  <2>8. \A c \in Coin : coinSpent'[c] # {} => c \in coinBorn' /\ c \notin Cached'
    BY <1>2, <2>1, <2>4 DEF SettledSpent
  <2>9. \A y \in settled : \A c \in Inputs(y) : y \in coinSpent'[c]
    BY <2>4, <2>5
  <2>10. SpendsTold'
    BY <1>2, <1>3, <2>4, <2>7, <2>8, <2>9 DEF SpendsTold
  <2>11. SettledSpent'
    BY <1>2, <2>1 DEF SettledSpent
  <2> QED BY <2>3, <2>10, <2>11
<1> QED BY <1>2, <1>4, <1>6, <1>7 DEF CoinInv

LEMMA CoinStart ==
    ASSUME CoinInit PROVE CoinInv
<1>1. /\ shard = Loaded(FirstCoin) /\ coinDb = FirstCoin /\ spentSet = {} /\ spentOrder = <<>>
      /\ coinRun = [t \in CoinThread |-> NotRunning] /\ coinTx = [t \in CoinThread |-> CHOOSE x \in Tx : TRUE]
      /\ coinQueue = <<>> /\ coinSpent = [c \in Coin |-> {}] /\ coinBorn = FirstCoin
      /\ settled = {} /\ lapses = {} /\ coinBoots = 0
  BY DEF CoinInit
<1>2. FirstCoin \in SUBSET Coin /\ (CHOOSE x \in Tx : TRUE) \in Tx
  BY CoinAssumption
<1>3. /\ Loaded(FirstCoin) \in [1..NumShards -> Seq(Coin)]
      /\ \A s \in 1..NumShards : ToSet(Loaded(FirstCoin)[s]) \subseteq {c \in FirstCoin : ShardOf[c] = s}
  BY <1>2, LoadedFact
<1>4. coinTx \in [CoinThread -> Tx] /\ coinRun \in [CoinThread -> RunTypes]
  BY <1>1, <1>2, NotRunningType
<1>5. CoinTypes
  <2>1. shard \in [1..NumShards -> Seq(Coin)] /\ \A s \in 1..NumShards : \A c \in ToSet(shard[s]) : ShardOf[c] = s
    BY <1>1, <1>3
  <2> QED BY <1>1, <1>2, <1>4, <2>1 DEF CoinTypes, RunTypes
<1>6. \A t \in CoinThread : /\ coinRun[t].op = "idle" /\ coinRun[t].claimed = 0
                            /\ coinTx[t] \in Tx /\ Len(Spends[coinTx[t]]) \in Nat
  BY <1>1, <1>4, NotRunningType, InputsFact
<1>7. RunShape
  BY <1>6 DEF RunShape
<1>8. \A t \in CoinThread : ~Busy(t) /\ Claimed(t) = {}
  <2>1. 1..0 = {}
    OBVIOUS
  <2> QED BY <1>6, <2>1 DEF Busy, Claimed
<1>9. Queued = {} /\ Cached \subseteq FirstCoin /\ SettledBorn = FirstCoin /\ DOMAIN coinQueue = {}
      /\ \A y : ~Made(y)
  <2>1. Queued = {} /\ DOMAIN coinQueue = {}
    BY <1>1 DEF Queued, ToSet
  <2>2. Cached \subseteq FirstCoin
    BY <1>1, <1>3 DEF Cached
  <2> QED BY <1>1, <2>1, <2>2 DEF SettledBorn, Made
<1>10. BirthsTold
  BY <1>1, <1>8, <1>9 DEF BirthsTold
<1>11. RunOnce
  BY <1>8, <1>9 DEF RunOnce
<1>12. ClaimsHeld
  <2>1. IsInjective(spentOrder) /\ ToSet(spentOrder) = {}
    BY <1>1 DEF IsInjective, ToSet
  <2> QED BY <1>8, <1>9, <2>1 DEF ClaimsHeld
<1>13. SpendsTold
  BY <1>1, <1>8, <1>9 DEF SpendsTold
<1>14. SettledSpent
  BY <1>1 DEF SettledSpent
<1> QED BY <1>5, <1>7, <1>10, <1>11, <1>12, <1>13, <1>14 DEF CoinInv, CoinBase

LEMMA CoinStep ==
    ASSUME CoinInv, [CoinNext]_coinVars PROVE CoinInv'
<1>1. ASSUME NEW t \in CoinThread, NEW x \in Tx, Validate(t, x) PROVE CoinInv'
  BY <1>1, ValidateStep
<1>2. ASSUME NEW t \in CoinThread, TryMarkSpent(t) PROVE CoinInv'
  BY <1>2, ClaimStep
<1>3. ASSUME NEW t \in CoinThread, RollBack(t) PROVE CoinInv'
  BY <1>3, RollBackStep
<1>4. ASSUME NEW t \in CoinThread, ApplyShard(t) PROVE CoinInv'
  BY <1>4, ApplyStep
<1>5. ASSUME NEW t \in CoinThread, MissedSpends(t) PROVE CoinInv'
  BY <1>5, PhaseStep
<1>6. ASSUME NEW t \in CoinThread, Send(t) PROVE CoinInv'
  BY <1>6, SendStep
<1>7. CASE WriteCoins
  BY <1>7, WriteStep
<1>8. CASE Restart
  BY <1>8, RestartStep
<1>9. ASSUME NEW t \in CoinThread,
             DropBalance(t) \/ CountCreates(t) \/ IndexAdd(t) \/ IndexRemove(t) \/ DropAddress(t)
      PROVE  CoinInv'
  BY <1>9, BooksFact, BooksStep
<1>10. CASE UNCHANGED coinVars
  <2>1. BooksOnly
    BY <1>10 DEF BooksOnly, coinVars, cacheVars, claimVars, coinGhost
  <2> QED BY <2>1, BooksStep
<1> QED BY <1>1, <1>2, <1>3, <1>4, <1>5, <1>6, <1>7, <1>8, <1>9, <1>10 DEF CoinNext

LEMMA SpentOnceOf ==
    ASSUME CoinInv PROVE SpentOnceButStale
<1> SUFFICES ASSUME "released" \notin lapses, lapses \cap {"overrun", "reordered"} = {}, NEW c \in Coin
             PROVE  Cardinality(coinSpent[c]) <= 1
  BY DEF SpentOnceButStale, SpentOnce
<1>1. \A x, y \in coinSpent[c] : x = y
  <2>1. Clean
    BY DEF Clean
  <2> QED BY <2>1 DEF CoinInv, SpendsTold
<1>2. CASE coinSpent[c] = {}
  BY <1>2, FS_EmptySet
<1>3. CASE coinSpent[c] # {}
  <2>1. PICK x : coinSpent[c] = {x}
    BY <1>1, <1>3
  <2>2. Cardinality({x}) = 1
    BY FS_Singleton
  <2> QED BY <2>1, <2>2
<1> QED BY <1>2, <1>3

\* No output is consumed by two transactions, for any transactions, shards
\* and limits: what a store that lags still offers is held by a claim
\* (ClaimsHeld) until the spend is stored (SettledSpent), so that a miss that
\* is answered by the store (utxo.rs 285-295) opens no second spend unless a
\* claim was evicted, released or overtaken (spent.rs 16-45).
THEOREM SpentAlwaysOnce == CoinSpec => []SpentOnceButStale
<1>1. CoinInit => CoinInv
  BY CoinStart
<1>2. CoinInv /\ [CoinNext]_coinVars => CoinInv'
  BY CoinStep
<1>3. CoinInv => SpentOnceButStale
  BY SpentOnceOf
<1> QED BY <1>1, <1>2, <1>3, PTL DEF CoinSpec

-----------------------------------------------------------------------------
(* What an address sees of its coins.                                      *)

\* A shard holds an output once, and gives up what it does not keep.
LEMMA PushAllExact ==
    ASSUME NEW lru \in Seq(Coin), IsInjective(lru), NEW coins \in SUBSET Coin, ToSet(lru) \cap coins = {}
    PROVE  /\ IsInjective(PushAll(lru, coins).lru)
           /\ PushAll(lru, coins).out \subseteq ToSet(lru) \cup coins
           /\ PushAll(lru, coins).out \cap ToSet(PushAll(lru, coins).lru) = {}
           /\ lru = <<>> /\ Cardinality(coins) <= ShardCap => ToSet(PushAll(lru, coins).lru) = coins
<1> DEFINE new == SetToSeq(coins)
           all == lru \o new
           over == Max({Len(all) - ShardCap, 0})
           kept == SubSeq(all, over + 1, Len(all))
           gone == ToSet(SubSeq(all, 1, over))
<1>1. IsFiniteSet(coins)
  BY CoinAssumption, FS_Subset
<1>2. /\ new \in Seq(Coin) /\ ToSet(new) = coins /\ Len(new) = Cardinality(coins)
      /\ \A i, j \in DOMAIN new : new[i] = new[j] => i = j
  <2>1. new \in Seq(coins) /\ ToSet(new) = coins /\ Len(new) = Cardinality(coins)
        /\ \A i, j \in DOMAIN new : new[i] = new[j] => i = j
    BY <1>1, SetToSeqFact DEF ToSet
  <2> HIDE DEF new
  <2>2. new \in Seq(Coin)
    BY <2>1
  <2> QED BY <2>1, <2>2
<1>3. PushAll(lru, coins) = [lru |-> kept, out |-> gone]
  BY DEF PushAll
<1> HIDE DEF new
<1>4. /\ all \in Seq(Coin) /\ Len(all) = Len(lru) + Len(new) /\ Len(lru) \in Nat /\ Len(new) \in Nat
      /\ \A i \in 1..Len(lru) + Len(new) : all[i] = IF i <= Len(lru) THEN lru[i] ELSE new[i - Len(lru)]
      /\ DOMAIN lru = 1..Len(lru) /\ DOMAIN new = 1..Len(new) /\ DOMAIN all = 1..Len(all)
  <2>1. /\ all \in Seq(Coin) /\ Len(all) = Len(lru) + Len(new)
        /\ \A i \in 1..Len(lru) + Len(new) : all[i] = IF i <= Len(lru) THEN lru[i] ELSE new[i - Len(lru)]
    <3>1. lru \in Seq(Coin) /\ new \in Seq(Coin)
      BY <1>2
    <3>2. /\ lru \o new \in Seq(Coin) /\ Len(lru \o new) = Len(lru) + Len(new)
          /\ \A i \in 1..Len(lru) + Len(new) : (lru \o new)[i] = IF i <= Len(lru) THEN lru[i] ELSE new[i - Len(lru)]
      BY ONLY <3>1, ConcatProperties
    <3> QED BY <3>2
  <2> HIDE DEF all
  <2>2. DOMAIN lru = 1..Len(lru) /\ DOMAIN new = 1..Len(new) /\ DOMAIN all = 1..Len(all)
        /\ Len(lru) \in Nat /\ Len(new) \in Nat
    BY <1>2, <2>1
  <2> QED BY <2>1, <2>2
<1>5. ToSet(all) \subseteq ToSet(lru) \cup coins
  BY <1>2, ConcatSet
<1> HIDE DEF all
<1>6. \A i \in 1..Len(lru) : lru[i] \in ToSet(lru)
  BY <1>4 DEF ToSet
<1>7. \A i \in 1..Len(new) : new[i] \in coins
  BY <1>2, <1>4 DEF ToSet
<1>8. \A i, j \in 1..Len(all) : all[i] = all[j] => i = j
  <2> SUFFICES ASSUME NEW i \in 1..Len(all), NEW j \in 1..Len(all), all[i] = all[j] PROVE i = j
    OBVIOUS
  <2>1. CASE i <= Len(lru) /\ j <= Len(lru)
    <3>1. i \in DOMAIN lru /\ j \in DOMAIN lru /\ lru[i] = lru[j]
      BY <1>4, <2>1
    <3> QED BY <3>1 DEF IsInjective
  <2>2. CASE ~(i <= Len(lru)) /\ ~(j <= Len(lru))
    <3>1. i - Len(lru) \in DOMAIN new /\ j - Len(lru) \in DOMAIN new /\ new[i - Len(lru)] = new[j - Len(lru)]
      BY <1>4, <2>2
    <3>2. i - Len(lru) = j - Len(lru)
      BY <1>2, <3>1
    <3> QED BY <1>4, <3>2
  <2>3. CASE i <= Len(lru) /\ ~(j <= Len(lru))
    <3>1. i \in 1..Len(lru) /\ j - Len(lru) \in 1..Len(new) /\ lru[i] = new[j - Len(lru)]
      BY <1>4, <2>3
    <3> QED BY <1>6, <1>7, <3>1
  <2>4. CASE ~(i <= Len(lru)) /\ j <= Len(lru)
    <3>1. j \in 1..Len(lru) /\ i - Len(lru) \in 1..Len(new) /\ lru[j] = new[i - Len(lru)]
      BY <1>4, <2>4
    <3> QED BY <1>6, <1>7, <3>1
  <2> QED BY <2>1, <2>2, <2>3, <2>4
<1>9. Len(all) \in Nat /\ ShardCap \in Nat \ {0}
  BY <1>4, CoinAssumption
<1>10. over \in Nat /\ over <= Len(all) /\ (Len(all) <= ShardCap => over = 0)
  BY <1>9, MaxFact
<1> HIDE DEF over
<1>11. /\ kept \in Seq(Coin) /\ ToSet(kept) = {all[i] : i \in over + 1..Len(all)}
       /\ \A i \in DOMAIN kept : kept[i] = all[over + 1 + i - 1] /\ over + 1 + i - 1 \in over + 1..Len(all)
  <2>1. all \in Seq(Coin) /\ over + 1 \in Nat \ {0} /\ Len(all) \in Nat /\ Len(all) <= Len(all)
    BY <1>4, <1>9, <1>10
  <2>2. /\ SubSeq(all, over + 1, Len(all)) \in Seq(Coin)
        /\ ToSet(SubSeq(all, over + 1, Len(all))) = {all[i] : i \in over + 1..Len(all)}
        /\ \A i \in DOMAIN SubSeq(all, over + 1, Len(all)) :
             /\ SubSeq(all, over + 1, Len(all))[i] = all[over + 1 + i - 1]
             /\ over + 1 + i - 1 \in over + 1..Len(all)
    BY ONLY <2>1, SubSeqSet
  <2> QED BY <2>2
<1>12. gone = {all[i] : i \in 1..over}
  <2>1. 1 \in Nat \ {0}
    OBVIOUS
  <2> QED BY <1>4, <1>10, <2>1, SubSeqSet
<1> HIDE DEF kept, gone
<1>13. IsInjective(kept)
  <2> SUFFICES ASSUME NEW i \in DOMAIN kept, NEW j \in DOMAIN kept, kept[i] = kept[j] PROVE i = j
    BY DEF IsInjective
  <2>1. i \in Nat /\ j \in Nat /\ over + 1 + i - 1 \in 1..Len(all) /\ over + 1 + j - 1 \in 1..Len(all)
    BY <1>9, <1>10, <1>11
  <2>2. all[over + 1 + i - 1] = all[over + 1 + j - 1]
    BY <1>11
  <2>3. over + 1 + i - 1 = over + 1 + j - 1
    BY ONLY <1>8, <2>1, <2>2
  <2> QED BY <1>10, <2>1, <2>3
<1>14. gone \subseteq ToSet(lru) \cup coins
  <2>1. \A i \in 1..over : i \in DOMAIN all
    BY <1>4, <1>9, <1>10
  <2> QED BY <1>5, <1>12, <2>1 DEF ToSet
<1>15. gone \cap ToSet(kept) = {}
  <2> SUFFICES ASSUME NEW i \in 1..over, NEW j \in over + 1..Len(all), all[i] = all[j] PROVE FALSE
    BY <1>11, <1>12
  <2>1. i \in 1..Len(all) /\ j \in 1..Len(all) /\ i # j
    BY <1>9, <1>10
  <2> QED BY <1>8, <2>1
<1>16. ASSUME lru = <<>>, Cardinality(coins) <= ShardCap PROVE ToSet(kept) = coins
  <2>1. Len(lru) = 0
    BY <1>16
  <2>2. over = 0 /\ Len(all) = Len(new)
    BY <1>2, <1>4, <1>9, <1>10, <1>16, <2>1
  <2>3. \A i \in 1..Len(new) : all[i] = new[i]
    BY <1>4, <2>1
  <2>4. ToSet(kept) = {new[i] : i \in 1..Len(new)}
    BY <1>11, <2>2, <2>3
  <2> QED BY <1>2, <1>4, <2>4 DEF ToSet
<1> QED BY <1>3, <1>13, <1>14, <1>15, <1>16

LEMMA PoppedOnce ==
    ASSUME NEW lru, NEW coins, NEW kept \in Popped(lru, coins)
    PROVE  IsInjective(kept)
<1> DEFINE left == ToSet(lru) \ coins
           n == Cardinality(left)
<1>1. kept \in [1..n -> left] /\ \A i, j \in 1..n : i # j => kept[i] # kept[j]
  BY DEF Popped, SetToSeqs
<1> HIDE DEF n, left
<1>2. DOMAIN kept = 1..n
  BY <1>1
<1> QED BY <1>1, <1>2 DEF IsInjective

LEMMA LoadedExact ==
    ASSUME NEW coins \in SUBSET Coin
    PROVE  /\ \A s \in 1..NumShards : IsInjective(Loaded(coins)[s])
           /\ Fits(coins) => UNION {ToSet(Loaded(coins)[s]) : s \in 1..NumShards} = coins
<1>1. ASSUME NEW s \in 1..NumShards
      PROVE  /\ IsInjective(Loaded(coins)[s])
             /\ Fits(coins) => ToSet(Loaded(coins)[s]) = Here(coins, s)
  <2> DEFINE here == {c \in coins : ShardOf[c] = s}
  <2>1. Loaded(coins)[s] = PushAll(<<>>, here).lru
    BY DEF Loaded
  <2>2. here \in SUBSET Coin /\ <<>> \in Seq(Coin) /\ ToSet(<<>>) \cap here = {} /\ IsInjective(<<>>)
    BY DEF ToSet, IsInjective
  <2>3. Fits(coins) => Cardinality(here) <= ShardCap
    BY DEF Fits
  <2>4. Here(coins, s) = here
    BY DEF Here
  <2> HIDE DEF here
  <2>5. /\ IsInjective(PushAll(<<>>, here).lru)
        /\ Cardinality(here) <= ShardCap => ToSet(PushAll(<<>>, here).lru) = here
    BY <2>2, PushAllExact
  <2> QED BY <2>1, <2>3, <2>4, <2>5
<1>2. ASSUME Fits(coins) PROVE UNION {ToSet(Loaded(coins)[s]) : s \in 1..NumShards} = coins
  <2>1. UNION {ToSet(Loaded(coins)[s]) : s \in 1..NumShards} = UNION {Here(coins, s) : s \in 1..NumShards}
    BY <1>1, <1>2
  <2>2. \A c \in coins : ShardOf[c] \in 1..NumShards
    BY CoinAssumption
  <2> QED BY <2>1, <2>2 DEF Here
<1> QED BY <1>1, <1>2

\* The units of an address when coins leave a set and others join it.
UnitsMoved(a, S, out, in) ==
    /\ Units(a, S) \in Nat /\ Units(a, out) \in Nat /\ Units(a, in) \in Nat
    /\ Units(a, (S \ out) \cup in) = Units(a, S) - Units(a, out) + Units(a, in)

LEMMA UnitsMove ==
    ASSUME NEW a, NEW S, S \subseteq Coin, NEW out, out \subseteq S, NEW in, in \subseteq Coin, in \cap S = {}
    PROVE  UnitsMoved(a, S, out, in)
<1> DEFINE Own(T) == Owned(a, T)
<1>1. \A T \in SUBSET Coin : IsFiniteSet(Own(T)) /\ Cardinality(Own(T)) \in Nat
  BY CoinAssumption, FS_Subset, FS_CardinalityType DEF Owned
<1>2. \A T : Units(a, T) = Cardinality(Own(T))
  BY DEF Units
<1>3. /\ Own(S) = Own(S \ out) \cup Own(out) /\ Own(S \ out) \cap Own(out) = {}
      /\ Own((S \ out) \cup in) = Own(S \ out) \cup Own(in) /\ Own(S \ out) \cap Own(in) = {}
  <2>1. \A T, c : c \in Own(T) <=> c \in T /\ CoinOwner[c] = a
    BY DEF Owned
  <2> HIDE DEF Own
  <2>2. Own(S) = Own(S \ out) \cup Own(out) /\ Own(S \ out) \cap Own(out) = {}
    BY <2>1
  <2>3. Own((S \ out) \cup in) = Own(S \ out) \cup Own(in)
    BY <2>1
  <2>4. Own(S \ out) \cap Own(in) = {}
    BY <2>1
  <2> QED BY <2>2, <2>3, <2>4
<1>4. S \ out \in SUBSET Coin /\ out \in SUBSET Coin
  OBVIOUS
<1> HIDE DEF Own
<1>5. ASSUME NEW A, NEW B, IsFiniteSet(A), IsFiniteSet(B), A \cap B = {}
      PROVE  Cardinality(A \cup B) = Cardinality(A) + Cardinality(B)
  <2>1. Cardinality({}) = 0 /\ Cardinality(A) \in Nat /\ Cardinality(B) \in Nat
    BY <1>5, FS_EmptySet, FS_CardinalityType
  <2>2. Cardinality(A \cup B) = Cardinality(A) + Cardinality(B) - Cardinality(A \cap B)
    BY <1>5, FS_Union
  <2>3. Cardinality(A \cap B) = 0
    BY <1>5, <2>1
  <2> QED BY ONLY <2>1, <2>2, <2>3
<1>6. Cardinality(Own(S)) = Cardinality(Own(S \ out)) + Cardinality(Own(out))
  BY <1>1, <1>3, <1>4, <1>5
<1>7. Cardinality(Own((S \ out) \cup in)) = Cardinality(Own(S \ out)) + Cardinality(Own(in))
  BY <1>1, <1>3, <1>4, <1>5
<1>8. in \in SUBSET Coin /\ S \in SUBSET Coin
  OBVIOUS
<1> QED BY <1>1, <1>2, <1>4, <1>6, <1>7, <1>8 DEF UnitsMoved

LEMMA UnitsLeave ==
    ASSUME NEW a, NEW S \in SUBSET Coin, NEW out \in SUBSET S
    PROVE  /\ Units(a, S) \in Nat /\ Units(a, out) \in Nat /\ Units(a, S \ out) \in Nat
           /\ Units(a, S \ out) = Units(a, S) - Units(a, out)
<1>1. PICK none : none = {}
  OBVIOUS
<1>2. S \subseteq Coin /\ out \subseteq S /\ none \subseteq Coin /\ none \cap S = {}
  BY <1>1
<1>3. UnitsMoved(a, S, out, none)
  BY ONLY <1>2, UnitsMove
<1>4. Units(a, none) = 0
  <2>1. Owned(a, none) = {}
    BY <1>1 DEF Owned
  <2> QED BY <2>1, FS_EmptySet DEF Units
<1>5. (S \ out) \cup none = S \ out
  BY <1>1
<1>6. Units(a, S \ out) = Units(a, S) - Units(a, out) + Units(a, none)
  <2>1. Units(a, (S \ out) \cup none) = Units(a, S) - Units(a, out) + Units(a, none)
    BY ONLY <1>3 DEF UnitsMoved
  <2> QED BY ONLY <2>1, <1>5
<1>7. Units(a, S \ out) \in Nat
  <2>1. UnitsMoved(a, S \ out, none, none)
    <3>1. S \ out \subseteq Coin /\ none \subseteq S \ out /\ none \cap (S \ out) = {}
      BY <1>1
    <3> QED BY ONLY <1>2, <3>1, UnitsMove
  <2> QED BY ONLY <2>1 DEF UnitsMoved
<1>8. Units(a, S) \in Nat /\ Units(a, out) \in Nat
  BY ONLY <1>3 DEF UnitsMoved
<1> QED BY <1>4, <1>6, <1>7, <1>8

\* Units that a balance has leave it; the floor of Less only holds when it had not.
LEMMA LessExact ==
    ASSUME NEW a \in CoinOwners, NEW S \in SUBSET Coin, NEW out \in SUBSET S, balance[a] = Units(a, S)
    PROVE  Less(out)[a] = Units(a, S \ out)
<1>1. Less(out)[a] = Max({Units(a, S) - Units(a, out), 0})
  BY DEF Less
<1>2. Units(a, S \ out) \in Nat /\ Units(a, S \ out) = Units(a, S) - Units(a, out)
  BY UnitsLeave
<1>3. Max({Units(a, S \ out), 0}) = IF Units(a, S \ out) > 0 THEN Units(a, S \ out) ELSE 0
  <2>1. Units(a, S \ out) \in Int
    BY <1>2
  <2> QED BY ONLY <2>1, MaxFact
<1>4. Less(out)[a] = Max({Units(a, S \ out), 0})
  BY ONLY <1>1, <1>2
<1>5. Units(a, S \ out) \in Nat => (IF Units(a, S \ out) > 0 THEN Units(a, S \ out) ELSE 0) = Units(a, S \ out)
  OBVIOUS
<1> QED BY ONLY <1>2, <1>3, <1>4, <1>5

LEMMA LessType ==
    ASSUME balance \in [CoinOwners -> Nat], NEW out \in SUBSET Coin
    PROVE  Less(out) \in [CoinOwners -> Nat]
<1>1. ASSUME NEW a \in CoinOwners PROVE Less(out)[a] \in Nat
  <2>1. Units(a, out) \in Nat /\ out \in SUBSET out
    BY UnitsLeave
  <2>2. balance[a] - Units(a, out) \in Int
    BY <2>1
  <2>3. Less(out)[a] = Max({balance[a] - Units(a, out), 0})
    BY DEF Less
  <2> QED BY <2>2, <2>3, MaxFact
<1> QED BY <1>1 DEF Less

\* The index operations that apply_diff has put off, and what a thread is in
\* the middle of.
Deferrals == [add : SUBSET Coin, remove : SUBSET Coin, miss : SUBSET Coin]
Pendings == [lock : 0..NumShards, zeroed : SUBSET CoinOwners, uncounted : SUBSET Coin, bare : SUBSET CoinOwners]
PutOff == UNION {deferred[t].add : t \in CoinThread}

\* Spends no shard held, whose units are still in the balance, and outputs whose
\* units are not there yet.
Missing == UNION {deferred[t].miss : t \in CoinThread}
Uncounted == UNION {pending[t].uncounted : t \in CoinThread}
Due == (Live \cup Missing) \ Uncounted

ViewTypes ==
    /\ balance \in [CoinOwners -> Nat] /\ indexed \subseteq Coin
    /\ deferred \in [CoinThread -> Deferrals] /\ pending \in [CoinThread -> Pendings]
    /\ \A s \in 1..NumShards : IsInjective(shard[s])
    /\ \A t \in CoinThread : ~Applying(t) /\ coinRun[t].op # "index" =>
         deferred[t] = NotDeferred /\ pending[t] = Settled

\* A shard is locked by one thread; what is still to be counted is in that shard.
LocksHeld ==
    /\ \A t, u \in CoinThread : pending[t].lock = pending[u].lock /\ pending[t].lock # 0 => t = u
    /\ \A t \in CoinThread : pending[t].lock # 0 => pending[t].bare = {}
    /\ \A t \in CoinThread : \A c \in pending[t].uncounted :
         c \in coinBorn /\ pending[t].lock # 0 /\ ShardOf[c] = pending[t].lock

\* A cached output is in the index, or about to be; what is about to leave
\* the index is in no shard and comes back to none.
IndexTold ==
    /\ "unlisted" \notin lapses => Cached \subseteq indexed \cup PutOff
    /\ \A t \in CoinThread : deferred[t].remove \cup deferred[t].miss \subseteq coinBorn \ Cached

\* A claimed output is unspent until its shard has been visited, a spend that
\* missed its shard is one, and what is to be counted nobody could spend yet.
SpendsTaken ==
    /\ \A t \in CoinThread : \A c \in Claimed(t) : ShardOf[c] \in coinRun[t].shards => coinSpent[c] = {}
    /\ \A t \in CoinThread : \A c \in deferred[t].miss : Busy(t) /\ coinTx[t] \in coinSpent[c]
    /\ \A t \in CoinThread : \A c \in pending[t].uncounted : coinSpent[c] = {}

\* The store holds all that it was given and not told to drop.
StoreTold == \A c \in SettledBorn : c \in coinDb \/ \E x \in settled : c \in Inputs(x)

Counted == \A a \in CoinOwners : balance[a] = Units(a, Due)
Exact == lapses \subseteq {"unlisted"}

ViewInv ==
    /\ ViewTypes /\ LocksHeld /\ IndexTold
    /\ Clean => SpendsTaken /\ StoreTold
    /\ Exact => Counted

LEMMA SettledFact ==
    /\ Settled \in Pendings /\ Settled.lock = 0 /\ Settled.zeroed = {} /\ Settled.uncounted = {} /\ Settled.bare = {}
    /\ NotDeferred \in Deferrals /\ NotDeferred.add = {} /\ NotDeferred.remove = {} /\ NotDeferred.miss = {}
<1>1. 0 \in 0..NumShards
  BY CoinAssumption
<1>2. {} \in SUBSET Coin /\ {} \in SUBSET CoinOwners
  OBVIOUS
<1> HIDE DEF CoinOwners
<1> QED BY ONLY <1>1, <1>2 DEF Settled, Pendings, NotDeferred, Deferrals

LEMMA MembersOf ==
    /\ \A c : c \in PutOff <=> \E u \in CoinThread : c \in deferred[u].add
    /\ \A c : c \in Missing <=> \E u \in CoinThread : c \in deferred[u].miss
    /\ \A c : c \in Uncounted <=> \E u \in CoinThread : c \in pending[u].uncounted
    /\ \A c : c \in Live <=> c \in coinBorn /\ coinSpent[c] = {}
BY DEF PutOff, Missing, Uncounted, Live

LEMMA MembersNext ==
    /\ \A c : c \in PutOff' <=> \E u \in CoinThread : c \in deferred'[u].add
    /\ \A c : c \in Missing' <=> \E u \in CoinThread : c \in deferred'[u].miss
    /\ \A c : c \in Uncounted' <=> \E u \in CoinThread : c \in pending'[u].uncounted
    /\ \A c : c \in Live' <=> c \in coinBorn' /\ coinSpent'[c] = {}
BY DEF PutOff, Missing, Uncounted, Live

LEMMA DueType ==
    ASSUME CoinBase, ViewTypes PROVE Due \in SUBSET Coin
<1>1. Live \subseteq Coin
  BY DEF Live, CoinBase, CoinTypes
<1>2. Missing \subseteq Coin
  BY MembersOf DEF ViewTypes, Deferrals
<1> QED BY <1>1, <1>2 DEF Due

\* The balances stay exact when they give up what is no longer due.
LEMMA CountedLess ==
    ASSUME CoinBase, ViewTypes, Counted, NEW out, out \subseteq Due, Due' = Due \ out, balance' = Less(out)
    PROVE  Counted'
<1>1. ASSUME NEW a \in CoinOwners PROVE balance'[a] = Units(a, Due')
  <2>1. Due \in SUBSET Coin /\ out \in SUBSET Due /\ balance[a] = Units(a, Due)
    BY DueType DEF Counted
  <2>2. Less(out)[a] = Units(a, Due \ out)
    BY ONLY <2>1, a \in CoinOwners, LessExact
  <2>3. Units(a, Due') = Units(a, Due \ out)
    BY ONLY Due' = Due \ out
  <2> QED BY <2>2, <2>3
<1> QED BY <1>1 DEF Counted, Units, Owned

LEMMA CountedSame ==
    ASSUME Counted, Due' = Due, balance' = balance
    PROVE  Counted'
<1>1. \A a : Units(a, Due') = Units(a, Due)
  OBVIOUS
<1> QED BY <1>1 DEF Counted, Units, Owned

\* An action of thread t that touches neither the cache nor the store.
CalmAction(t) ==
    /\ UNCHANGED <<shard, indexed, balance, deferred, pending, coinSpent, coinBorn, coinDb, settled>>
    /\ \A u \in CoinThread : u # t => coinRun'[u] = coinRun[u] /\ coinTx'[u] = coinTx[u]
    /\ deferred[t] = NotDeferred /\ pending[t] = Settled
    /\ lapses \subseteq lapses'

LEMMA CalmStep ==
    ASSUME ViewInv, NEW t \in CoinThread, CalmAction(t),
           Clean' => \A c \in Claimed(t)' : ShardOf[c] \in coinRun'[t].shards => coinSpent[c] = {}
    PROVE  ViewInv'
<1>1. /\ UNCHANGED <<shard, indexed, balance, deferred, pending, coinSpent, coinBorn, coinDb, settled>>
      /\ \A u \in CoinThread : u # t => coinRun'[u] = coinRun[u] /\ coinTx'[u] = coinTx[u]
      /\ deferred[t].add = {} /\ deferred[t].remove = {} /\ deferred[t].miss = {} /\ deferred[t] = NotDeferred
      /\ pending[t] = Settled /\ lapses \subseteq lapses'
  BY SettledFact DEF CalmAction
<1>2. /\ Cached' = Cached /\ PutOff' = PutOff /\ SettledBorn' = SettledBorn /\ Due' = Due
      /\ (Clean' => Clean) /\ (Exact' => Exact)
  BY <1>1 DEF Cached, PutOff, SettledBorn, Due, Live, Missing, Uncounted, Clean, Exact
<1>3. \A u \in CoinThread : u # t => /\ Claimed(u)' = Claimed(u) /\ (Applying(u)' <=> Applying(u))
                                    /\ (Busy(u)' <=> Busy(u))
  BY <1>1 DEF Claimed, Applying, Busy
<1>5. ViewTypes' /\ LocksHeld'
  <2>1. ViewTypes'
    BY <1>1, <1>3 DEF ViewInv, ViewTypes
  <2> QED BY <1>1, <2>1 DEF ViewInv, LocksHeld
<1>6. IndexTold'
  BY <1>1, <1>2 DEF ViewInv, IndexTold
<1>7. ASSUME Clean' PROVE SpendsTaken' /\ StoreTold'
  <2>1. SpendsTaken /\ StoreTold
    BY <1>2, <1>7 DEF ViewInv
  <2>2. StoreTold'
    BY <1>1, <1>2, <2>1 DEF StoreTold
  <2>3. SpendsTaken'
    BY <1>1, <1>3, <1>7, <2>1 DEF SpendsTaken
  <2> QED BY <2>2, <2>3
<1>8. ASSUME Exact' PROVE Counted'
  BY <1>1, <1>2, <1>8, CountedSame DEF ViewInv
<1> QED BY <1>5, <1>6, <1>7, <1>8 DEF ViewInv

LEMMA ValidateViews ==
    ASSUME CoinInv, ViewInv, NEW t \in CoinThread, NEW x \in Tx, Validate(t, x)
    PROVE  ViewInv'
<1>1. CoinBase
  BY DEF CoinInv
<1>2. /\ coinRun'[t].claimed = 0
      /\ \A u \in CoinThread : u # t => coinRun'[u] = coinRun[u] /\ coinTx'[u] = coinTx[u]
  BY <1>1, ValidateFact
<1>3. /\ UNCHANGED <<shard, indexed, balance, deferred, pending, coinSpent, coinBorn, coinDb, settled, lapses>>
      /\ ~Busy(t)
  BY DEF Validate, cacheVars, coinGhost
<1>4. deferred[t] = NotDeferred /\ pending[t] = Settled
  BY <1>3 DEF ViewInv, ViewTypes, Busy, Applying
<1>5. CalmAction(t)
  BY <1>2, <1>3, <1>4 DEF CalmAction
<1>6. Claimed(t)' = {}
  <2>1. 1..0 = {}
    OBVIOUS
  <2> QED BY <1>2, <2>1 DEF Claimed
<1> QED BY <1>5, <1>6, CalmStep

LEMMA ClaimViews ==
    ASSUME CoinInv, ViewInv, NEW t \in CoinThread, TryMarkSpent(t)
    PROVE  ViewInv'
<1>1. CoinBase /\ (Clean => ClaimsHeld)
  BY DEF CoinInv
<1>2. /\ Others(t) /\ coinTx' = coinTx /\ Busy(t) /\ coinRun'[t].shards = coinRun[t].shards
      /\ NextInput(t) \in Inputs(coinTx[t]) /\ NextInput(t) \notin spentSet
      /\ Claimed(t)' = Claimed(t) \cup {NextInput(t)} /\ (Clean' => Clean)
  BY <1>1, TryMarkSpentFact
<1>3. /\ UNCHANGED <<shard, indexed, balance, deferred, pending, coinSpent, coinBorn, coinDb, settled>>
      /\ lapses \subseteq lapses' /\ Claiming(t)
  BY DEF TryMarkSpent, cacheVars
<1>4. deferred[t] = NotDeferred /\ pending[t] = Settled
  <2>1. coinRun[t].claimed \in Nat /\ Len(Spends[coinTx[t]]) \in Nat
    BY <1>1, RunFact, InputsFact
  <2>2. ~Applying(t) /\ coinRun[t].op # "index"
    BY <1>3, <2>1 DEF Claiming, Applying
  <2> QED BY <2>2 DEF ViewInv, ViewTypes
<1>5. CalmAction(t)
  BY <1>2, <1>3, <1>4 DEF CalmAction, Others
<1>6. ASSUME Clean', NEW c \in Claimed(t)', ShardOf[c] \in coinRun'[t].shards PROVE coinSpent[c] = {}
  <2>1. ClaimsHeld /\ SpendsTaken
    BY <1>1, <1>2, <1>6 DEF ViewInv
  <2>2. CASE c \in Claimed(t)
    BY <1>2, <1>6, <2>1, <2>2 DEF SpendsTaken
  <2>3. CASE c = NextInput(t)
    BY <1>2, <2>1, <2>3 DEF ClaimsHeld
  <2> QED BY <1>2, <1>6, <2>2, <2>3
<1> QED BY <1>5, <1>6, CalmStep

LEMMA RollBackViews ==
    ASSUME CoinInv, ViewInv, NEW t \in CoinThread, RollBack(t)
    PROVE  ViewInv'
<1>1. CoinBase
  BY DEF CoinInv
<1>2. Others(t) /\ Claimed(t)' = {}
  BY <1>1, RollBackFact
<1>3. /\ UNCHANGED <<shard, indexed, balance, deferred, pending, coinSpent, coinBorn, coinDb, settled>>
      /\ lapses \subseteq lapses' /\ Claiming(t)
  BY DEF RollBack, cacheVars
<1>4. deferred[t] = NotDeferred /\ pending[t] = Settled
  <2>1. coinRun[t].claimed \in Nat /\ Len(Spends[coinTx[t]]) \in Nat
    BY <1>1, RunFact, InputsFact
  <2>2. ~Applying(t) /\ coinRun[t].op # "index"
    BY <1>3, <2>1 DEF Claiming, Applying
  <2> QED BY <2>2 DEF ViewInv, ViewTypes
<1>5. CalmAction(t)
  BY <1>2, <1>3, <1>4 DEF CalmAction, Others
<1> QED BY <1>2, <1>5, CalmStep

LEMMA SendViews ==
    ASSUME CoinInv, ViewInv, NEW t \in CoinThread, Send(t)
    PROVE  ViewInv'
<1>1. CoinBase
  BY DEF CoinInv
<1>2. Others(t) /\ Claimed(t)' = {}
  BY <1>1, SendFact
<1>3. /\ UNCHANGED <<shard, indexed, balance, deferred, pending, coinSpent, coinBorn, coinDb, settled, lapses>>
      /\ deferred[t] = NotDeferred /\ pending[t] = Settled
  BY DEF Send, Indexing, cacheVars, coinGhost
<1>5. CalmAction(t)
  BY <1>2, <1>3 DEF CalmAction, Others
<1> QED BY <1>2, <1>5, CalmStep

LEMMA DueSame ==
    ASSUME UNCHANGED <<coinBorn, coinSpent>>,
           \A u \in CoinThread : deferred'[u].miss = deferred[u].miss /\ pending'[u].uncounted = pending[u].uncounted
    PROVE  Due' = Due
<1>1. Missing' = Missing /\ Uncounted' = Uncounted /\ Live' = Live
  BY MembersOf, MembersNext
<1> QED BY <1>1 DEF Due

\* A step of thread t's own books: balance, index, what it has put off and
\* what it is in the middle of.
BooksAction(t) ==
    /\ BooksOnly
    /\ coinRun[t].op = "index" \/ Applying(t)
    /\ balance' \in [CoinOwners -> Nat] /\ indexed' \subseteq Coin
    /\ deferred' \in [CoinThread -> Deferrals] /\ pending' \in [CoinThread -> Pendings]
    /\ \A u \in CoinThread : u # t => deferred'[u] = deferred[u] /\ pending'[u] = pending[u]
    /\ deferred'[t].miss = deferred[t].miss /\ deferred'[t].remove \subseteq deferred[t].remove
    /\ \/ pending'[t].lock = pending[t].lock /\ pending'[t].uncounted = pending[t].uncounted
       \/ pending'[t].lock = 0 /\ pending'[t].uncounted = {}
    /\ pending'[t].lock # 0 => pending'[t].bare = pending[t].bare
    /\ "unlisted" \notin lapses' => Cached \subseteq indexed' \cup PutOff'

LEMMA BooksViews ==
    ASSUME ViewInv, NEW t \in CoinThread, BooksAction(t), Exact' => Counted'
    PROVE  ViewInv'
<1>1. /\ UNCHANGED <<shard, coinDb, coinRun, coinTx, coinSpent, coinBorn, settled>>
      /\ lapses' \subseteq lapses \cup {"forgotten", "unlisted"} /\ lapses \subseteq lapses'
  BY DEF BooksAction, BooksOnly
<1>2. /\ Cached' = Cached /\ SettledBorn' = SettledBorn /\ (Clean' => Clean)
      /\ \A u \in CoinThread : /\ Claimed(u)' = Claimed(u) /\ (Applying(u)' <=> Applying(u))
                               /\ (Busy(u)' <=> Busy(u))
  BY <1>1 DEF Cached, SettledBorn, Clean, Claimed, Applying, Busy
<1>3. ViewTypes /\ LocksHeld /\ IndexTold
  BY DEF ViewInv
<1>4. \A u \in CoinThread : u # t => deferred'[u] = deferred[u] /\ pending'[u] = pending[u]
  BY DEF BooksAction
<1>5. ViewTypes'
  <2>1. coinRun[t].op = "index" \/ Applying(t)
    BY DEF BooksAction
  <2>2. \A u \in CoinThread : ~Applying(u)' /\ coinRun'[u].op # "index" =>
          deferred'[u] = NotDeferred /\ pending'[u] = Settled
    BY <1>1, <1>2, <1>3, <1>4, <2>1 DEF ViewTypes
  <2> QED BY <1>1, <1>3, <2>2 DEF BooksAction, ViewTypes
<1>6. LocksHeld'
  <2>1. /\ pending'[t].lock = pending[t].lock \/ pending'[t].lock = 0
        /\ pending'[t].uncounted \subseteq pending[t].uncounted
        /\ pending'[t].uncounted # {} => pending'[t].lock = pending[t].lock
        /\ pending'[t].lock # 0 => pending'[t].bare = pending[t].bare
    BY DEF BooksAction
  <2> QED BY <1>1, <1>3, <1>4, <2>1 DEF LocksHeld
<1>7. IndexTold'
  <2>1. \A u \in CoinThread : deferred'[u].remove \subseteq deferred[u].remove /\ deferred'[u].miss = deferred[u].miss
    BY <1>4 DEF BooksAction
  <2>2. "unlisted" \notin lapses' => Cached' \subseteq indexed' \cup PutOff'
    BY <1>2 DEF BooksAction
  <2> QED BY <1>1, <1>2, <1>3, <2>1, <2>2 DEF IndexTold
<1>8. ASSUME Clean' PROVE SpendsTaken' /\ StoreTold'
  <2>1. SpendsTaken /\ StoreTold
    BY <1>2, <1>8 DEF ViewInv
  <2>2. StoreTold'
    BY <1>1, <1>2, <2>1 DEF StoreTold
  <2>3. \A u \in CoinThread : deferred'[u].miss = deferred[u].miss /\ pending'[u].uncounted \subseteq pending[u].uncounted
    BY <1>4 DEF BooksAction
  <2>4. SpendsTaken'
    BY <1>1, <1>2, <2>1, <2>3 DEF SpendsTaken
  <2> QED BY <2>2, <2>4
<1> QED BY <1>5, <1>6, <1>7, <1>8 DEF ViewInv

LEMMA DropBalanceViews ==
    ASSUME ViewInv, NEW t \in CoinThread, DropBalance(t)
    PROVE  ViewInv'
<1>1. BooksOnly
  BY BooksFact
<1>2. ViewTypes /\ LocksHeld /\ IndexTold
  BY DEF ViewInv
<1>3. PICK a \in pending[t].zeroed :
        /\ pending' = [pending EXCEPT ![t].zeroed = pending[t].zeroed \ {a}]
        /\ balance' = [balance EXCEPT ![a] = 0]
        /\ lapses' = lapses \cup {l \in {"forgotten"} : balance[a] # 0}
  BY DEF DropBalance
<1>4. UNCHANGED <<indexed, deferred>>
  BY DEF DropBalance
<1>5. /\ pending' \in [CoinThread -> Pendings] /\ \A u \in CoinThread : u # t => pending'[u] = pending[u]
      /\ pending'[t].lock = pending[t].lock /\ pending'[t].uncounted = pending[t].uncounted
      /\ pending'[t].bare = pending[t].bare
  BY <1>2, <1>3 DEF ViewTypes, Pendings
<1>6. coinRun[t].op = "index" \/ Applying(t)
  BY <1>2, <1>3, SettledFact DEF ViewTypes
<1>7. a \in CoinOwners /\ balance' \in [CoinOwners -> Nat]
  BY <1>2, <1>3 DEF ViewTypes, Pendings
<1>8. "unlisted" \notin lapses' => Cached \subseteq indexed' \cup PutOff'
  BY <1>2, <1>3, <1>4 DEF IndexTold, PutOff
<1>9. BooksAction(t)
  BY <1>1, <1>2, <1>4, <1>5, <1>6, <1>7, <1>8 DEF BooksAction, ViewTypes
<1>10. ASSUME Exact' PROVE Counted'
  <2>1. balance[a] = 0 /\ Exact
    BY <1>3, <1>10 DEF Exact
  <2>2. balance' = balance
    BY <1>2, <1>3, <1>7, <2>1 DEF ViewTypes
  <2>3. Due' = Due
    BY <1>1, <1>4, <1>5, DueSame DEF BooksOnly
  <2> QED BY <2>1, <2>2, <2>3, CountedSame DEF ViewInv
<1> QED BY <1>9, <1>10, BooksViews

LEMMA CountCreatesViews ==
    ASSUME CoinInv, ViewInv, NEW t \in CoinThread, CountCreates(t)
    PROVE  ViewInv'
<1> DEFINE fresh == pending[t].uncounted
<1>1. BooksOnly /\ CoinBase
  BY BooksFact DEF CoinInv
<1>2. ViewTypes /\ LocksHeld /\ IndexTold
  BY DEF ViewInv
<1>3. /\ pending[t].lock # 0 /\ UNCHANGED <<indexed, deferred, lapses>>
      /\ balance' = [a \in CoinOwners |-> balance[a] + Units(a, fresh)]
      /\ pending' = [pending EXCEPT ![t] = Settled]
  BY DEF CountCreates, coinGhost
<1>4. /\ pending' \in [CoinThread -> Pendings] /\ \A u \in CoinThread : u # t => pending'[u] = pending[u]
      /\ pending'[t] = Settled /\ pending'[t].lock = 0 /\ pending'[t].uncounted = {}
  BY <1>2, <1>3, SettledFact DEF ViewTypes
<1>5. coinRun[t].op = "index" \/ Applying(t)
  BY <1>2, <1>3, SettledFact DEF ViewTypes
<1>6. fresh \in SUBSET Coin
  BY <1>2 DEF ViewTypes, Pendings
<1> HIDE DEF fresh
<1>7. balance' \in [CoinOwners -> Nat]
  <2>1. ASSUME NEW a \in CoinOwners PROVE Units(a, fresh) \in Nat
    BY <1>6, UnitsLeave
  <2> QED BY <1>2, <1>3, <2>1 DEF ViewTypes
<1>8. "unlisted" \notin lapses' => Cached \subseteq indexed' \cup PutOff'
  BY <1>2, <1>3 DEF IndexTold, PutOff
<1>9. BooksAction(t)
  BY <1>1, <1>2, <1>3, <1>4, <1>5, <1>7, <1>8 DEF BooksAction, ViewTypes
<1>10. ASSUME Exact' PROVE Counted'
  <2>1. Clean /\ Counted
    BY <1>3, <1>10 DEF Exact, Clean, ViewInv
  <2>2. fresh \subseteq Live
    BY <1>2, <2>1 DEF ViewInv, LocksHeld, SpendsTaken, Live, fresh
  <2>3. \A c : c \in Uncounted <=> c \in fresh \/ c \in Uncounted'
    BY <1>4, MembersOf, MembersNext DEF fresh
  <2>4. \A c : c \in fresh => c \notin Uncounted'
    <3> SUFFICES ASSUME NEW c \in fresh, NEW u \in CoinThread, c \in pending'[u].uncounted PROVE FALSE
      BY MembersNext
    <3>1. u # t /\ c \in pending[u].uncounted /\ c \in pending[t].uncounted
      BY <1>4 DEF fresh
    <3> QED BY <1>2, <3>1 DEF LocksHeld
  <2>5. Live' = Live /\ Missing' = Missing
    BY <1>1, <1>3, MembersOf, MembersNext DEF BooksOnly
  <2>6. Due' = (Due \ {}) \cup fresh /\ fresh \cap Due = {}
    BY <2>2, <2>3, <2>4, <2>5 DEF Due
  <2>7. ASSUME NEW a \in CoinOwners PROVE balance'[a] = Units(a, Due')
    <3>1. PICK none : none = {}
      OBVIOUS
    <3>2. Due \subseteq Coin /\ none \subseteq Due /\ fresh \subseteq Coin /\ fresh \cap Due = {}
      BY <1>1, <1>2, <1>6, <2>6, <3>1, DueType
    <3>3. UnitsMoved(a, Due, none, fresh) /\ UnitsMoved(a, Due, none, none)
      <4>1. none \subseteq Coin /\ none \cap Due = {}
        BY <3>1
      <4> QED BY ONLY <3>2, <4>1, UnitsMove
    <3>4. Units(a, (Due \ none) \cup fresh) = Units(a, Due) - Units(a, none) + Units(a, fresh)
      BY ONLY <3>3 DEF UnitsMoved
    <3>5. Units(a, none) = 0
      <4>1. Owned(a, none) = {}
        BY <3>1 DEF Owned
      <4> QED BY <4>1, FS_EmptySet DEF Units
    <3>6. (Due \ none) \cup fresh = Due'
      BY <2>6, <3>1
    <3>7. Units(a, Due) \in Nat /\ Units(a, fresh) \in Nat
      BY ONLY <3>3 DEF UnitsMoved
    <3>8. Units(a, Due') = Units(a, Due) - Units(a, none) + Units(a, fresh)
      BY ONLY <3>4, <3>6
    <3>9. balance'[a] = balance[a] + Units(a, fresh) /\ balance[a] = Units(a, Due)
      BY <1>3, <2>1 DEF Counted
    <3> QED BY ONLY <3>5, <3>7, <3>8, <3>9
  <2> QED BY <2>7 DEF Counted, Units, Owned
<1> QED BY <1>9, <1>10, BooksViews

LEMMA IndexAddViews ==
    ASSUME CoinInv, ViewInv, NEW t \in CoinThread, IndexAdd(t)
    PROVE  ViewInv'
<1>1. BooksOnly
  BY BooksFact
<1>2. ViewTypes /\ IndexTold
  BY DEF ViewInv
<1>3. PICK c \in deferred[t].add :
        /\ indexed' = indexed \cup {c}
        /\ deferred' = [deferred EXCEPT ![t].add = deferred[t].add \ {c}]
  BY DEF IndexAdd
<1>4. UNCHANGED <<balance, pending, lapses>> /\ coinRun[t].op = "index"
  BY DEF IndexAdd, Indexing, coinGhost
<1>5. /\ deferred' \in [CoinThread -> Deferrals] /\ \A u \in CoinThread : u # t => deferred'[u] = deferred[u]
      /\ deferred'[t].miss = deferred[t].miss /\ deferred'[t].remove = deferred[t].remove
      /\ deferred'[t].add = deferred[t].add \ {c}
  BY <1>2, <1>3 DEF ViewTypes, Deferrals
<1>6. indexed' \subseteq Coin
  BY <1>2, <1>3 DEF ViewTypes, Deferrals
<1>7. \A d \in PutOff : d = c \/ d \in PutOff'
  BY <1>5, MembersOf, MembersNext
<1>8. "unlisted" \notin lapses' => Cached \subseteq indexed' \cup PutOff'
  BY <1>2, <1>3, <1>4, <1>7 DEF IndexTold
<1>9. BooksAction(t)
  BY <1>1, <1>2, <1>4, <1>5, <1>6, <1>8 DEF BooksAction, ViewTypes
<1>10. ASSUME Exact' PROVE Counted'
  <2>1. Due' = Due
    BY <1>1, <1>4, <1>5, DueSame DEF BooksOnly
  <2> QED BY <1>4, <1>10, <2>1, CountedSame DEF ViewInv, Exact
<1> QED BY <1>9, <1>10, BooksViews

LEMMA IndexRemoveViews ==
    ASSUME CoinInv, ViewInv, NEW t \in CoinThread, IndexRemove(t)
    PROVE  ViewInv'
<1>1. BooksOnly
  BY BooksFact
<1>2. ViewTypes /\ IndexTold
  BY DEF ViewInv
<1>3. PICK c \in deferred[t].remove \ deferred[t].add :
        /\ indexed' = indexed \ {c}
        /\ deferred' = [deferred EXCEPT ![t].remove = deferred[t].remove \ {c}]
        /\ pending' = [pending EXCEPT ![t].bare = {a \in {CoinOwner[c]} \cap addresses : Owned(a, indexed \ {c}) = {}}]
  BY DEF IndexRemove
<1>4. UNCHANGED <<balance, lapses>> /\ coinRun[t].op = "index" /\ pending[t] = Settled
  BY DEF IndexRemove, Indexing, coinGhost
<1>5. /\ deferred' \in [CoinThread -> Deferrals] /\ \A u \in CoinThread : u # t => deferred'[u] = deferred[u]
      /\ deferred'[t].miss = deferred[t].miss /\ deferred'[t].remove = deferred[t].remove \ {c}
      /\ deferred'[t].add = deferred[t].add
  BY <1>2, <1>3 DEF ViewTypes, Deferrals
<1>6. c \in Coin /\ c \notin Cached /\ CoinOwner[c] \in CoinOwners
  BY <1>2, <1>3 DEF ViewTypes, Deferrals, IndexTold, CoinOwners
<1>7. /\ pending' \in [CoinThread -> Pendings] /\ \A u \in CoinThread : u # t => pending'[u] = pending[u]
      /\ pending'[t].lock = pending[t].lock /\ pending'[t].uncounted = pending[t].uncounted
      /\ pending'[t].lock = 0
  <2> DEFINE empty == {a \in {CoinOwner[c]} \cap addresses : Owned(a, indexed \ {c}) = {}}
  <2>1. empty \in SUBSET CoinOwners
    BY <1>6
  <2>2. pending' = [pending EXCEPT ![t].bare = empty]
    BY <1>3
  <2> HIDE DEF empty
  <2> QED BY <1>2, <1>4, <2>1, <2>2, SettledFact DEF ViewTypes, Pendings
<1>8. indexed' \subseteq Coin
  BY <1>2, <1>3 DEF ViewTypes
<1>9. PutOff' = PutOff
  <2>1. \A u \in CoinThread : deferred'[u].add = deferred[u].add
    BY <1>5
  <2> QED BY ONLY <2>1 DEF PutOff
<1>10. "unlisted" \notin lapses' => Cached \subseteq indexed' \cup PutOff'
  BY <1>2, <1>3, <1>4, <1>6, <1>9 DEF IndexTold
<1>11. BooksAction(t)
  BY <1>1, <1>2, <1>4, <1>5, <1>7, <1>8, <1>10 DEF BooksAction, ViewTypes
<1>12. ASSUME Exact' PROVE Counted'
  <2>1. Due' = Due
    BY <1>1, <1>5, <1>7, DueSame DEF BooksOnly
  <2> QED BY <1>4, <1>12, <2>1, CountedSame DEF ViewInv, Exact
<1> QED BY <1>11, <1>12, BooksViews

LEMMA DropAddressViews ==
    ASSUME CoinInv, ViewInv, NEW t \in CoinThread, DropAddress(t)
    PROVE  ViewInv'
<1>1. BooksOnly
  BY BooksFact
<1>2. ViewTypes /\ LocksHeld /\ IndexTold
  BY DEF ViewInv
<1>3. PICK a \in pending[t].bare :
        /\ indexed' = indexed \ Owned(a, indexed)
        /\ lapses' = lapses \cup {l \in {"unlisted"} : Owned(a, indexed) # {}}
  BY DEF DropAddress
<1>4. UNCHANGED <<balance, deferred>> /\ pending' = [pending EXCEPT ![t] = Settled]
  BY DEF DropAddress
<1>5. /\ pending' \in [CoinThread -> Pendings] /\ \A u \in CoinThread : u # t => pending'[u] = pending[u]
      /\ pending'[t] = Settled /\ pending'[t].lock = 0 /\ pending'[t].uncounted = {} /\ pending[t].uncounted = {}
  <2>1. pending[t].lock = 0
    BY <1>2, <1>3 DEF LocksHeld
  <2>2. pending[t].uncounted = {}
    BY <1>2, <2>1 DEF LocksHeld
  <2> QED BY <1>2, <1>4, <2>2, SettledFact DEF ViewTypes
<1>6. coinRun[t].op = "index" \/ Applying(t)
  BY <1>2, <1>3, SettledFact DEF ViewTypes
<1>7. indexed' \subseteq Coin
  BY <1>2, <1>3 DEF ViewTypes
<1>8. "unlisted" \notin lapses' => Cached \subseteq indexed' \cup PutOff'
  <2> SUFFICES ASSUME "unlisted" \notin lapses' PROVE Cached \subseteq indexed' \cup PutOff'
    OBVIOUS
  <2>1. "unlisted" \notin lapses /\ indexed' = indexed
    BY <1>3
  <2> QED BY <1>2, <1>4, <2>1 DEF IndexTold, PutOff
<1>9. BooksAction(t)
  BY <1>1, <1>2, <1>4, <1>5, <1>6, <1>7, <1>8 DEF BooksAction, ViewTypes
<1>10. ASSUME Exact' PROVE Counted'
  <2>1. Due' = Due
    BY <1>1, <1>4, <1>5, DueSame DEF BooksOnly
  <2>2. Exact
    BY <1>3, <1>10 DEF Exact
  <2> QED BY <1>4, <2>1, <2>2, CountedSame DEF ViewInv
<1> QED BY <1>9, <1>10, BooksViews

LEMMA MissedViews ==
    ASSUME CoinInv, ViewInv, NEW t \in CoinThread, MissedSpends(t)
    PROVE  ViewInv'
<1> DEFINE miss == deferred[t].miss
           found == miss \cap coinDb
           r == [add |-> deferred[t].add, remove |-> deferred[t].remove \cup found, miss |-> {}]
<1>1. CoinBase /\ coinRun \in [CoinThread -> RunTypes]
  BY DEF CoinInv, CoinBase, CoinTypes, RunTypes
<1>2. /\ ViewTypes /\ LocksHeld /\ IndexTold /\ deferred \in [CoinThread -> Deferrals] /\ deferred[t] \in Deferrals
      /\ pending \in [CoinThread -> Pendings]
  BY DEF ViewInv, ViewTypes
<1>3. /\ UNCHANGED <<shard, indexed, coinTx, coinSpent, coinBorn, coinDb, settled>>
      /\ coinRun[t].op = "run" /\ pending[t] = Settled /\ coinRun' = [coinRun EXCEPT ![t].op = "index"]
      /\ balance' = Less(found)
      /\ pending' = [pending EXCEPT ![t].zeroed = Zeroed(found)]
      /\ deferred' = [deferred EXCEPT ![t] = r]
      /\ lapses' = lapses \cup {l \in {"vanished"} : found # miss}
  BY DEF MissedSpends, Missed, Applying, claimVars
<1>4. r \in Deferrals /\ r.add = deferred[t].add /\ r.miss = {} /\ r.remove = deferred[t].remove \cup found
  BY <1>2 DEF Deferrals
<1> HIDE DEF r, found
<1>5. found \subseteq miss /\ miss \subseteq Coin /\ found \in SUBSET Coin
  BY <1>2 DEF found, Deferrals
<1>6. /\ deferred' \in [CoinThread -> Deferrals] /\ deferred'[t] = r
      /\ \A u \in CoinThread : u # t => deferred'[u] = deferred[u]
      /\ \A u \in CoinThread : deferred'[u].add = deferred[u].add
  BY <1>2, <1>3, <1>4
<1>7. /\ pending' \in [CoinThread -> Pendings] /\ \A u \in CoinThread : u # t => pending'[u] = pending[u]
      /\ \A u \in CoinThread : /\ pending'[u].lock = pending[u].lock /\ pending'[u].uncounted = pending[u].uncounted
                               /\ pending'[u].bare = pending[u].bare
  <2>1. Zeroed(found) \in SUBSET CoinOwners
    BY DEF Zeroed
  <2> QED BY <1>2, <1>3, <2>1 DEF Pendings
<1>8. /\ coinRun'[t].op = "index" /\ \A u \in CoinThread : u # t => coinRun'[u] = coinRun[u]
      /\ \A u \in CoinThread : coinRun'[u].shards = coinRun[u].shards /\ coinRun'[u].claimed = coinRun[u].claimed
  BY <1>1, <1>3 DEF RunTypes
<1>9. /\ Cached' = Cached /\ SettledBorn' = SettledBorn /\ Live' = Live /\ PutOff' = PutOff
      /\ (Clean' => Clean) /\ (Exact' => Exact /\ found = miss)
  BY <1>3, <1>6 DEF Cached, SettledBorn, Live, PutOff, Clean, Exact
<1>10. ViewTypes'
  <2>1. \A u \in CoinThread : u # t => (Applying(u)' <=> Applying(u))
    BY <1>3, <1>8 DEF Applying
  <2>2. balance' \in [CoinOwners -> Nat]
    BY <1>2, <1>3, <1>5, LessType DEF ViewTypes
  <2> QED BY <1>2, <1>3, <1>6, <1>7, <1>8, <2>1, <2>2 DEF ViewTypes
<1>11. LocksHeld' /\ IndexTold'
  <2>1. \A u \in CoinThread : deferred'[u].remove \cup deferred'[u].miss \subseteq deferred[u].remove \cup deferred[u].miss
    BY <1>4, <1>5, <1>6
  <2>2. IndexTold'
    BY <1>2, <1>3, <1>9, <2>1 DEF IndexTold
  <2> QED BY <1>2, <1>3, <1>7, <2>2 DEF LocksHeld
<1>12. ASSUME Clean' PROVE SpendsTaken' /\ StoreTold'
  <2>1. SpendsTaken /\ StoreTold
    BY <1>9, <1>12 DEF ViewInv
  <2>2. StoreTold'
    BY <1>3, <1>9, <2>1 DEF StoreTold
  <2>3. \A u \in CoinThread : Claimed(u)' = Claimed(u) /\ (Busy(u) => Busy(u)')
    BY <1>3, <1>8 DEF Claimed, Busy
  <2>4. \A u \in CoinThread : deferred'[u].miss \subseteq deferred[u].miss
    BY <1>4, <1>6
  <2>5. SpendsTaken'
    BY <1>3, <1>7, <1>8, <2>1, <2>3, <2>4 DEF SpendsTaken
  <2> QED BY <2>2, <2>5
<1>13. ASSUME Exact' PROVE Counted'
  <2>1. Clean /\ found = miss
    BY <1>9, <1>13 DEF Clean, Exact
  <2>2. SpendsTold /\ RunOnce /\ SpendsTaken /\ Counted
    BY <1>9, <1>13, <2>1 DEF CoinInv, ViewInv
  <2>3. \A c : c \in Missing <=> c \in miss \/ c \in Missing'
    BY <1>4, <1>6, MembersOf, MembersNext
  <2>4. ASSUME NEW c \in miss PROVE c \notin Live /\ c \notin Missing' /\ c \notin Uncounted
    <3>1. c \in Coin /\ Busy(t) /\ coinTx[t] \in coinSpent[c]
      BY <1>5, <2>2 DEF SpendsTaken
    <3>2. ASSUME NEW u \in CoinThread, c \in deferred'[u].miss PROVE FALSE
      <4>1. u # t /\ c \in deferred[u].miss
        BY <1>4, <1>6, <3>2
      <4>2. Busy(u) /\ coinTx[u] \in coinSpent[c]
        BY <2>2, <4>1 DEF SpendsTaken
      <4>3. coinTx[u] = coinTx[t]
        BY <2>2, <3>1, <4>2 DEF SpendsTold
      <4> QED BY <2>2, <3>1, <4>1, <4>2, <4>3 DEF RunOnce
    <3>3. c \notin Uncounted
      BY <2>2, <3>1, MembersOf DEF SpendsTaken
    <3> QED BY <3>1, <3>2, <3>3, MembersOf, MembersNext
  <2>5. Uncounted' = Uncounted
    BY <1>7, MembersOf, MembersNext
  <2>6. Due' = Due \ found /\ found \subseteq Due
    BY <1>9, <2>1, <2>3, <2>4, <2>5 DEF Due
  <2> QED BY <1>1, <1>2, <1>3, <2>2, <2>6, CountedLess
<1> QED BY <1>10, <1>11, <1>12, <1>13 DEF ViewInv

LEMMA WriteViews ==
    ASSUME CoinInv, ViewInv, WriteCoins
    PROVE  ViewInv'
<1> DEFINE h == Head(coinQueue)
<1>1. CoinBase
  BY DEF CoinInv
<1>2. /\ coinDb' = (coinDb \ Inputs(h)) \cup Creates[h] /\ settled' = settled \cup {h}
      /\ SettledBorn' = SettledBorn \cup Creates[h] /\ (Clean' => Clean)
      /\ \A u \in CoinThread : Claimed(u)' = Claimed(u) /\ (Busy(u)' <=> Busy(u))
  BY <1>1, WriteCoinsFact
<1>3. /\ UNCHANGED <<shard, indexed, balance, deferred, pending, coinRun, coinTx, coinSpent, coinBorn>>
      /\ lapses \subseteq lapses'
  BY DEF WriteCoins, cacheVars
<1> HIDE DEF h
<1>4. Cached' = Cached /\ PutOff' = PutOff /\ Due' = Due /\ (Exact' => Exact)
  BY <1>3 DEF Cached, Live, PutOff, Missing, Uncounted, Due, Exact
<1>5. ViewTypes' /\ LocksHeld'
  <2>1. ViewTypes'
    BY <1>3 DEF ViewInv, ViewTypes, Applying
  <2> QED BY <1>3, <2>1 DEF ViewInv, LocksHeld
<1>6. IndexTold'
  BY <1>3, <1>4 DEF ViewInv, IndexTold
<1>7. ASSUME Clean' PROVE SpendsTaken' /\ StoreTold'
  <2>1. SpendsTaken /\ StoreTold
    BY <1>2, <1>7 DEF ViewInv
  <2>2. SpendsTaken'
    BY <1>2, <1>3, <2>1 DEF SpendsTaken
  <2>3. StoreTold'
    BY <1>2, <2>1 DEF StoreTold
  <2> QED BY <2>2, <2>3
<1>8. ASSUME Exact' PROVE Counted'
  BY <1>3, <1>4, <1>8, CountedSame DEF ViewInv
<1> QED BY <1>5, <1>6, <1>7, <1>8 DEF ViewInv

LEMMA RestartViews ==
    ASSUME CoinInv, ViewInv, Restart
    PROVE  ViewInv'
<1> DEFINE held == UNION {ToSet(Loaded(coinDb)[s]) : s \in 1..NumShards}
           rebuild == Cardinality(coinDb) <= ShardCap * NumShards
           counts == IF rebuild THEN held ELSE coinDb
<1>1. CoinBase /\ BirthsTold /\ (Clean => SettledSpent) /\ coinDb \subseteq Coin
  BY DEF CoinInv, CoinBase, CoinTypes
<1>2. /\ Cached' \subseteq coinDb /\ SettledBorn' = SettledBorn /\ coinBorn' = SettledBorn
      /\ coinSpent' = [c \in Coin |-> {x \in settled : c \in Inputs(x)}]
      /\ UNCHANGED <<coinDb, settled>> /\ (Clean' <=> Clean)
      /\ \A u \in CoinThread : Claimed(u)' = {}
  BY <1>1, RestartFact
<1>3. /\ shard' = Loaded(coinDb) /\ indexed' = held
      /\ balance' = [a \in CoinOwners |-> Units(a, counts)]
      /\ lapses' = (lapses \ {"forgotten", "unlisted"}) \cup {l \in {"uncounted"} : rebuild /\ ~Fits(coinDb)}
      /\ coinRun' = [t \in CoinThread |-> NotRunning]
      /\ deferred' = [t \in CoinThread |-> NotDeferred]
      /\ pending' = [t \in CoinThread |-> Settled]
  BY DEF Restart
<1>4. /\ \A s \in 1..NumShards : IsInjective(Loaded(coinDb)[s])
      /\ Fits(coinDb) => held = coinDb
  BY <1>1, LoadedExact
<1>5. Cached' = held
  BY <1>3 DEF Cached
<1> HIDE DEF held, rebuild
<1>6. held \subseteq Coin /\ counts \subseteq Coin
  BY <1>1, <1>2, <1>5
<1> HIDE DEF counts
<1>7. /\ deferred' \in [CoinThread -> Deferrals] /\ pending' \in [CoinThread -> Pendings]
      /\ \A u \in CoinThread : /\ deferred'[u] = NotDeferred /\ coinRun'[u] = NotRunning /\ pending'[u] = Settled
                               /\ deferred'[u].remove = {} /\ deferred'[u].miss = {}
                               /\ pending'[u].lock = 0 /\ pending'[u].uncounted = {}
  BY <1>3, SettledFact
<1>8. ViewTypes' /\ LocksHeld'
  <2>1. ASSUME NEW a \in CoinOwners PROVE Units(a, counts) \in Nat
    BY <1>6, UnitsLeave
  <2>2. balance' \in [CoinOwners -> Nat]
    BY <1>3, <2>1
  <2>3. ViewTypes'
    BY <1>3, <1>4, <1>6, <1>7, <2>2 DEF ViewTypes
  <2> QED BY <1>7, <2>3 DEF LocksHeld
<1>9. IndexTold'
  BY <1>3, <1>5, <1>7 DEF IndexTold
<1>10. ASSUME Clean' PROVE SpendsTaken' /\ StoreTold'
  <2>1. StoreTold
    BY <1>2, <1>10 DEF ViewInv
  <2> QED BY <1>2, <1>7, <2>1 DEF SpendsTaken, StoreTold
<1>11. ASSUME Exact' PROVE Counted'
  <2>1. Clean /\ SettledSpent /\ StoreTold
    BY <1>1, <1>3, <1>11 DEF Clean, Exact, ViewInv
  <2>2. counts = coinDb
    <3>1. ~(rebuild /\ ~Fits(coinDb))
      BY <1>3, <1>11 DEF Exact
    <3> QED BY <1>4, <3>1 DEF counts
  <2>3. Missing' = {} /\ Uncounted' = {}
    BY <1>7, MembersNext
  <2>4. SettledBorn \subseteq Coin
    <3>1. settled \subseteq Tx
      BY <1>1 DEF CoinBase, CoinTypes
    <3> QED BY <3>1, CoinAssumption DEF SettledBorn
  <2>5. Live' = coinDb
    <3>1. \A c : c \in Live' <=> c \in SettledBorn /\ ~(\E x \in settled : c \in Inputs(x))
      BY <1>2, <2>4 DEF Live
    <3>2. \A c : c \in SettledBorn /\ ~(\E x \in settled : c \in Inputs(x)) => c \in coinDb
      BY <2>1 DEF StoreTold
    <3>3. \A c \in coinDb : c \in SettledBorn /\ ~(\E x \in settled : c \in Inputs(x))
      BY <1>1, <2>1 DEF BirthsTold, SettledSpent
    <3> QED BY <3>1, <3>2, <3>3
  <2>6. Due' = counts
    BY <2>2, <2>3, <2>5 DEF Due
  <2>7. ASSUME NEW a \in CoinOwners PROVE balance'[a] = Units(a, Due')
    <3>1. Units(a, Due') = Units(a, counts)
      BY ONLY <2>6
    <3> QED BY <1>3, <3>1
  <2> QED BY <2>7 DEF Counted, Units, Owned
<1> QED BY <1>8, <1>9, <1>10, <1>11 DEF ViewInv

LEMMA ViewStart ==
    ASSUME CoinInit PROVE ViewInv
<1>1. /\ shard = Loaded(FirstCoin) /\ indexed = Cached /\ coinDb = FirstCoin
      /\ balance = [a \in CoinOwners |-> Units(a, FirstCoin)]
      /\ coinRun = [t \in CoinThread |-> NotRunning] /\ deferred = [t \in CoinThread |-> NotDeferred]
      /\ pending = [t \in CoinThread |-> Settled]
      /\ coinSpent = [c \in Coin |-> {}] /\ coinBorn = FirstCoin /\ settled = {}
  BY DEF CoinInit
<1>2. FirstCoin \in SUBSET Coin
  BY CoinAssumption
<1>3. /\ deferred \in [CoinThread -> Deferrals] /\ pending \in [CoinThread -> Pendings]
      /\ \A u \in CoinThread : /\ deferred[u] = NotDeferred /\ coinRun[u] = NotRunning /\ pending[u] = Settled
                               /\ deferred[u].remove = {} /\ deferred[u].miss = {}
                               /\ pending[u].lock = 0 /\ pending[u].uncounted = {}
  BY <1>1, SettledFact
<1>4. ViewTypes /\ LocksHeld
  <2>1. ASSUME NEW a \in CoinOwners PROVE Units(a, FirstCoin) \in Nat
    BY <1>2, UnitsLeave
  <2>2. Cached \subseteq Coin
    BY <1>1, <1>2, LoadedFact DEF Cached
  <2>3. \A s \in 1..NumShards : IsInjective(shard[s])
    BY <1>1, <1>2, LoadedExact
  <2>4. balance \in [CoinOwners -> Nat]
    BY <1>1, <2>1
  <2>5. ViewTypes
    BY <1>1, <1>3, <2>2, <2>3, <2>4 DEF ViewTypes
  <2> QED BY <1>3, <2>5 DEF LocksHeld
<1>5. IndexTold
  BY <1>1, <1>3 DEF IndexTold
<1>6. SpendsTaken /\ StoreTold
  <2>1. \A u \in CoinThread : Claimed(u) = {}
    <3>1. \A u \in CoinThread : coinRun[u].claimed = 0
      BY <1>3, NotRunningType
    <3>2. 1..0 = {}
      OBVIOUS
    <3> QED BY <3>1, <3>2 DEF Claimed
  <2>2. SettledBorn = FirstCoin
    BY <1>1 DEF SettledBorn
  <2> QED BY <1>1, <1>3, <2>1, <2>2 DEF SpendsTaken, StoreTold
<1>7. Counted
  <2>1. Missing = {} /\ Uncounted = {}
    BY <1>3, MembersOf
  <2>2. Live = FirstCoin
    BY <1>1, <1>2 DEF Live
  <2>3. Due = FirstCoin
    BY <2>1, <2>2 DEF Due
  <2>4. \A a : Units(a, Due) = Units(a, FirstCoin)
    BY <2>3
  <2> QED BY <1>1, <2>4 DEF Counted
<1> QED BY <1>4, <1>5, <1>6, <1>7 DEF ViewInv

LEMMA ApplyViews ==
    ASSUME CoinInv, CoinInv', ViewInv, NEW t \in CoinThread, ApplyShard(t)
    PROVE  ViewInv'
<1> DEFINE x == coinTx[t]
<1>1. CoinBase /\ BirthsTold /\ RunOnce /\ (Clean => ClaimsHeld /\ SpendsTold)
  BY DEF CoinInv
<1>2. /\ Others(t) /\ coinTx' = coinTx /\ Busy(t) /\ (Clean' <=> Clean)
      /\ Claimed(t)' = Claimed(t) /\ Claimed(t) = Inputs(x) /\ x \in Tx
      /\ UNCHANGED <<coinDb, settled>>
  BY <1>1, ApplyShardFact
<1>3. PICK s \in coinRun[t].shards :
        /\ coinRun'[t].shards = coinRun[t].shards \ {s}
        /\ Cached' \subseteq (Cached \ Here(Inputs(x), s)) \cup Here(Creates[x], s)
        /\ coinSpent' = [c \in Coin |-> IF c \in Here(Inputs(x), s)
                                        THEN coinSpent[c] \cup {x} ELSE coinSpent[c]]
        /\ coinBorn' = coinBorn \cup Here(Creates[x], s)
        /\ \E k \in Popped(shard[s], Here(Inputs(x), s)) : Shifts(t, s, k)
  BY <1>1, ApplyShardFact
<1>4. PICK kept \in Popped(shard[s], Here(Inputs(x), s)) : Shifts(t, s, kept)
  BY <1>3
<1> DEFINE spends == Here(Inputs(x), s)
           fresh == Here(Creates[x], s)
           hit == spends \cap ToSet(shard[s])
           pushed == PushAll(kept, fresh)
           r == [add |-> deferred[t].add \cup fresh, remove |-> deferred[t].remove \cup hit \cup pushed.out,
                 miss |-> deferred[t].miss \cup (spends \ hit)]
<1>5. /\ shard' = [shard EXCEPT ![s] = pushed.lru]
      /\ balance' = Less(hit) /\ deferred' = [deferred EXCEPT ![t] = r]
      /\ pending' = [pending EXCEPT ![t] = [lock |-> s, zeroed |-> Zeroed(hit), uncounted |-> fresh, bare |-> {}]]
      /\ pending[t] = Settled /\ \A u \in CoinThread : pending[u].lock # s
  BY <1>4 DEF Shifts, Free
<1>6. /\ UNCHANGED <<indexed, lapses>> /\ coinRun[t].op = "run" /\ coinRun[t].claimed = Len(Spends[x])
      /\ coinRun'[t].op = "run" /\ coinRun'[t].claimed = coinRun[t].claimed
      /\ \A u \in CoinThread : u # t => coinRun'[u] = coinRun[u]
  <2>1. PICK q : coinRun' = [coinRun EXCEPT ![t].shards = coinRun[t].shards \ {q}]
    BY DEF ApplyShard
  <2>2. coinRun \in [CoinThread -> RunTypes]
    BY <1>1 DEF CoinBase, CoinTypes, RunTypes
  <2>3. UNCHANGED <<indexed, lapses>> /\ coinRun[t].op = "run" /\ coinRun[t].claimed = Len(Spends[x])
    BY DEF ApplyShard, Applying
  <2> QED BY <2>1, <2>2, <2>3 DEF RunTypes
<1>7. /\ ViewTypes /\ LocksHeld /\ IndexTold /\ pending \in [CoinThread -> Pendings]
      /\ deferred \in [CoinThread -> Deferrals] /\ deferred[t] \in Deferrals
      /\ \A q \in 1..NumShards : IsInjective(shard[q])
  BY DEF ViewInv, ViewTypes
<1>8. /\ s \in 1..NumShards /\ shard \in [1..NumShards -> Seq(Coin)] /\ shard[s] \in Seq(Coin)
      /\ \A q \in 1..NumShards : \A c \in ToSet(shard[q]) : ShardOf[c] = q
  BY <1>1, RunFact DEF CoinBase, CoinTypes
<1>9. fresh \subseteq Coin /\ spends \subseteq Coin /\ spends \subseteq Inputs(x) /\ \A c \in spends : ShardOf[c] = s
  BY <1>2, OutpointFact, InputsFact DEF Here
<1>10. fresh \cap coinBorn = {} /\ spends \subseteq coinBorn /\ Cached \subseteq coinBorn
  BY <1>1, <1>2 DEF BirthsTold, Here
<1>11. \A c \in spends : c \in hit <=> c \in Cached
  BY <1>1, <1>8, <1>9, CachedOf
<1>12. /\ kept \in Seq(Coin) /\ ToSet(kept) \subseteq ToSet(shard[s]) \ spends /\ IsInjective(kept)
       /\ ToSet(shard[s]) \subseteq Cached
  BY <1>4, <1>8, PoppedFact, PoppedOnce DEF Cached
<1>13. /\ IsInjective(pushed.lru) /\ pushed.out \subseteq ToSet(kept) \cup fresh
       /\ pushed.out \cap ToSet(pushed.lru) = {}
  <2>1. fresh \in SUBSET Coin /\ ToSet(kept) \cap fresh = {}
    BY <1>9, <1>10, <1>12
  <2> HIDE DEF fresh
  <2> QED BY <1>12, <2>1, PushAllExact
<1>14. r \in Deferrals /\ r.add = deferred[t].add \cup fresh /\ r.remove = deferred[t].remove \cup hit \cup pushed.out
       /\ r.miss = deferred[t].miss \cup (spends \ hit)
  <2>1. ToSet(kept) \subseteq Coin
    BY <1>8, <1>12 DEF ToSet
  <2>2. pushed.out \subseteq Coin /\ hit \subseteq Coin
    BY <1>9, <1>13, <2>1
  <2> HIDE DEF pushed, hit, fresh, spends
  <2> QED BY <1>7, <1>9, <2>2 DEF Deferrals
<1>141. /\ pending' \in [CoinThread -> Pendings] /\ \A u \in CoinThread : u # t => pending'[u] = pending[u]
        /\ pending'[t].lock = s /\ pending'[t].uncounted = fresh /\ pending'[t].bare = {}
  <2>1. Zeroed(hit) \in SUBSET CoinOwners /\ s \in 0..NumShards
    BY <1>8 DEF Zeroed
  <2> HIDE DEF hit, fresh
  <2> QED BY <1>5, <1>7, <1>9, <2>1 DEF Pendings
<1> HIDE DEF r, pushed, hit, fresh, spends
<1>15. /\ deferred' \in [CoinThread -> Deferrals] /\ deferred'[t] = r
       /\ \A u \in CoinThread : u # t => deferred'[u] = deferred[u]
  BY <1>5, <1>7, <1>14
<1>16. /\ shard'[s] = pushed.lru /\ \A q \in 1..NumShards : q # s => shard'[q] = shard[q]
  BY <1>5, <1>8
<1>17. \A c \in Cached' : (c \in Cached /\ c \notin spends) \/ c \in fresh
  BY <1>3 DEF spends, fresh
<1>18. \A c \in pushed.out : c \notin Cached'
  <2> SUFFICES ASSUME NEW c \in pushed.out, c \in Cached' PROVE FALSE
    OBVIOUS
  <2>1. ShardOf[c] = s
    BY <1>8, <1>12, <1>13 DEF fresh, Here
  <2>2. CoinBase'
    BY DEF CoinInv
  <2>3. PICK q \in 1..NumShards : c \in ToSet(shard'[q])
    BY DEF Cached
  <2>4. ShardOf[c] = q
    BY <2>2, <2>3 DEF CoinBase, CoinTypes
  <2> QED BY <1>13, <1>16, <2>1, <2>3, <2>4
<1>19. ViewTypes'
  <2>1. balance' \in [CoinOwners -> Nat]
    <3>1. hit \in SUBSET Coin
      BY <1>9 DEF hit
    <3> QED BY <1>5, <1>7, <3>1, LessType DEF ViewTypes
  <2>2. \A q \in 1..NumShards : IsInjective(shard'[q])
    BY <1>7, <1>13, <1>16
  <2>3. \A u \in CoinThread : Applying(u)' <=> Applying(u)
    BY <1>2, <1>6 DEF Applying
  <2>4. Applying(t)
    BY <1>6 DEF Applying
  <2> QED BY <1>6, <1>7, <1>141, <1>15, <2>1, <2>2, <2>3, <2>4 DEF ViewTypes
<1>191. LocksHeld'
  <2>1. \A c \in fresh : ShardOf[c] = s /\ c \in coinBorn'
    BY <1>3 DEF fresh, Here
  <2>2. s # 0 /\ coinBorn \subseteq coinBorn'
    BY <1>3, <1>8
  <2> QED BY <1>5, <1>7, <1>141, <2>1, <2>2 DEF LocksHeld
<1>20. IndexTold'
  <2>1. ASSUME "unlisted" \notin lapses, NEW c \in Cached' PROVE c \in indexed \/ \E u \in CoinThread : c \in deferred'[u].add
    <3>1. CASE c \in fresh
      BY <1>14, <1>15, <3>1
    <3>2. CASE c \notin fresh
      <4>1. c \in indexed \/ \E u \in CoinThread : c \in deferred[u].add
        BY <1>7, <1>17, <2>1, <3>2 DEF IndexTold, PutOff
      <4> QED BY <1>14, <1>15, <4>1
    <3> QED BY <3>1, <3>2
  <2>2. "unlisted" \notin lapses' => Cached' \subseteq indexed' \cup PutOff'
    BY <1>6, <2>1 DEF PutOff
  <2>3. coinBorn' = coinBorn \cup fresh
    BY <1>3 DEF fresh
  <2>4. ASSUME NEW c, c \in coinBorn, c \notin Cached PROVE c \in coinBorn' /\ c \notin Cached'
    BY <1>10, <1>17, <2>3, <2>4
  <2>5. ASSUME NEW c \in spends PROVE c \in coinBorn' /\ c \notin Cached'
    BY <1>10, <1>17, <2>3
  <2>6. hit \subseteq spends
    BY DEF hit
  <2>7. pushed.out \subseteq coinBorn'
    BY <1>10, <1>12, <1>13, <2>3
  <2>8. deferred'[t].remove \cup deferred'[t].miss \subseteq coinBorn' \ Cached'
    BY <1>7, <1>14, <1>15, <1>18, <2>4, <2>5, <2>6, <2>7 DEF IndexTold
  <2>9. \A u \in CoinThread : deferred'[u].remove \cup deferred'[u].miss \subseteq coinBorn' \ Cached'
    BY <1>7, <1>15, <2>4, <2>8 DEF IndexTold
  <2> QED BY <2>2, <2>9 DEF IndexTold
<1>21. ASSUME Clean'
       PROVE  /\ SpendsTaken' /\ StoreTold'
              /\ \A c \in spends : coinSpent[c] = {} /\ coinSpent'[c] = {x}
              /\ \A c \in Coin : c \notin spends => coinSpent'[c] = coinSpent[c]
  <2>1. SpendsTaken /\ StoreTold /\ ClaimsHeld
    BY <1>1, <1>2, <1>21 DEF ViewInv
  <2>2. \A c \in spends : coinSpent[c] = {}
    BY <1>2, <1>9, <2>1 DEF SpendsTaken
  <2>3. \A c \in spends : coinSpent'[c] = {x}
    BY <1>3, <1>9, <2>2 DEF spends
  <2>4. \A c \in Coin : c \notin spends => coinSpent'[c] = coinSpent[c]
    BY <1>3 DEF spends
  <2>5. SettledBorn' = SettledBorn
    BY <1>2 DEF SettledBorn
  <2>6. StoreTold'
    BY <1>2, <2>1, <2>5 DEF StoreTold
  <2>7. ASSUME NEW u \in CoinThread, NEW c \in Claimed(u)', ShardOf[c] \in coinRun'[u].shards
        PROVE  coinSpent'[c] = {}
    <3>1. c \in Claimed(u) /\ c \in Coin /\ Claimed(u) \subseteq Coin
      BY <1>1, <1>2, <2>7, RunFact DEF Others
    <3>2. CASE u = t
      <4>1. c \notin spends /\ ShardOf[c] \in coinRun[t].shards
        BY <1>3, <1>9, <2>7, <3>2
      <4> QED BY <2>1, <2>4, <3>1, <3>2, <4>1 DEF SpendsTaken
    <3>3. CASE u # t
      <4>1. c \notin spends
        BY <1>2, <1>9, <2>1, <3>1, <3>3 DEF ClaimsHeld
      <4> QED BY <1>6, <2>1, <2>4, <2>7, <3>1, <3>3, <4>1 DEF SpendsTaken
    <3> QED BY <3>2, <3>3
  <2>8. ASSUME NEW u \in CoinThread, NEW c \in deferred'[u].miss PROVE Busy(u)' /\ coinTx'[u] \in coinSpent'[c]
    <3>1. CASE c \in deferred[u].miss
      <4>1. c \in Coin /\ Busy(u) /\ coinTx[u] \in coinSpent[c]
        BY <1>7, <2>1, <3>1 DEF SpendsTaken, Deferrals
      <4>2. c \notin spends
        BY <2>2, <4>1
      <4> QED BY <1>2, <1>6, <2>4, <4>1, <4>2 DEF Busy
    <3>2. CASE c \notin deferred[u].miss
      <4>1. u = t /\ c \in spends
        BY <1>14, <1>15, <2>8, <3>2
      <4> QED BY <1>2, <1>6, <2>3, <4>1 DEF Busy
    <3> QED BY <3>1, <3>2
  <2>9. ASSUME NEW u \in CoinThread, NEW c \in pending'[u].uncounted PROVE coinSpent'[c] = {}
    <3>1. CASE u = t
      <4>1. c \in fresh /\ c \in Coin
        BY <1>9, <1>141, <2>9, <3>1
      <4>2. SpendsTold
        BY <1>1, <1>2, <1>21
      <4> QED BY <1>10, <2>4, <4>1, <4>2 DEF SpendsTold
    <3>2. CASE u # t
      <4>1. c \in pending[u].uncounted /\ c \in Coin
        BY <1>7, <1>141, <2>9, <3>2 DEF Pendings
      <4>2. ShardOf[c] # s /\ coinSpent[c] = {}
        BY <1>5, <1>7, <2>1, <4>1 DEF LocksHeld, SpendsTaken
      <4> QED BY <1>9, <2>4, <4>1, <4>2
    <3> QED BY <3>1, <3>2
  <2>10. SpendsTaken'
    BY <2>7, <2>8, <2>9 DEF SpendsTaken
  <2> QED BY <2>2, <2>3, <2>4, <2>6, <2>10
<1>22. ASSUME Exact' PROVE Counted'
  <2>1. Clean' /\ Clean /\ Counted
    BY <1>2, <1>6, <1>22 DEF Clean, Exact, ViewInv
  <2>2. /\ \A c \in spends : coinSpent[c] = {} /\ coinSpent'[c] = {x}
        /\ \A c \in Coin : c \notin spends => coinSpent'[c] = coinSpent[c]
        /\ SpendsTaken'
    BY <1>21, <2>1
  <2>3. coinBorn' = coinBorn \cup fresh /\ coinBorn \subseteq Coin
    BY <1>1, <1>3 DEF fresh, CoinBase, CoinTypes
  <2>4. \A c \in fresh : c \notin Live /\ c \notin Missing /\ c \notin Uncounted /\ c \notin spends
    <3>1. \A c \in fresh : c \notin Missing
      BY <1>7, <1>10, MembersOf DEF IndexTold
    <3>2. \A c \in fresh : c \notin Uncounted
      BY <1>7, <1>10, MembersOf DEF LocksHeld
    <3> QED BY <1>10, <3>1, <3>2, MembersOf
  <2>5. \A c : c \in Live' => c \in Live \/ c \in fresh
    BY <1>9, <2>2, <2>3, MembersOf, MembersNext
  <2>6. \A c : c \in Live /\ c \notin spends => c \in Live'
    BY <2>2, <2>3, MembersOf, MembersNext
  <2>7. \A c \in spends : c \in Live /\ c \notin Live' /\ c \notin Uncounted
    <3>1. \A c \in spends : c \in Live /\ c \notin Live'
      BY <1>10, <2>2, MembersOf, MembersNext
    <3>2. \A c \in spends : c \notin Uncounted
      BY <1>5, <1>7, <1>9, MembersOf DEF LocksHeld
    <3> QED BY <3>1, <3>2
  <2>8. \A c : c \in Missing' <=> c \in Missing \/ (c \in spends /\ c \notin hit)
    BY <1>14, <1>15, MembersOf, MembersNext
  <2>9. \A c : c \in Uncounted' <=> c \in Uncounted \/ c \in fresh
    BY <1>5, <1>141, MembersOf, MembersNext, SettledFact
  <2>10. hit \subseteq spends
    BY DEF hit
  <2>11. \A c \in hit : c \notin Missing
    BY <1>7, <1>11, <2>10, MembersOf DEF IndexTold
  <2>12. Due' = Due \ hit /\ hit \subseteq Due
    <3>1. ASSUME NEW c \in Due' PROVE c \in Due /\ c \notin hit
      BY <2>5, <2>7, <2>8, <2>9, <2>10, <2>11 DEF Due
    <3>2. ASSUME NEW c \in Due, c \notin hit PROVE c \in Due'
      BY <2>4, <2>6, <2>8, <2>9, <3>2 DEF Due
    <3>3. hit \subseteq Due
      BY <2>7, <2>10 DEF Due
    <3>4. ASSUME NEW c \in hit PROVE c \notin Due'
      BY <3>1, <3>4
    <3> QED BY <3>1, <3>2, <3>3, <3>4
  <2> QED BY <1>1, <1>5, <1>7, <2>1, <2>12, CountedLess
<1> QED BY <1>19, <1>191, <1>20, <1>21, <1>22 DEF ViewInv

LEMMA ViewStep ==
    ASSUME CoinInv, ViewInv, [CoinNext]_coinVars PROVE ViewInv'
<1>1. CoinInv'
  BY CoinStep
<1>2. ASSUME NEW t \in CoinThread, NEW x \in Tx, Validate(t, x) PROVE ViewInv'
  BY <1>2, ValidateViews
<1>3. ASSUME NEW t \in CoinThread, TryMarkSpent(t) PROVE ViewInv'
  BY <1>3, ClaimViews
<1>4. ASSUME NEW t \in CoinThread, RollBack(t) PROVE ViewInv'
  BY <1>4, RollBackViews
<1>5. ASSUME NEW t \in CoinThread, ApplyShard(t) PROVE ViewInv'
  BY <1>1, <1>5, ApplyViews
<1>6. ASSUME NEW t \in CoinThread, MissedSpends(t) PROVE ViewInv'
  BY <1>6, MissedViews
<1>7. ASSUME NEW t \in CoinThread,
             DropBalance(t) \/ CountCreates(t) \/ IndexAdd(t) \/ IndexRemove(t) \/ DropAddress(t)
      PROVE  ViewInv'
  BY <1>7, DropBalanceViews, CountCreatesViews, IndexAddViews, IndexRemoveViews, DropAddressViews
<1>8. ASSUME NEW t \in CoinThread, Send(t) PROVE ViewInv'
  BY <1>8, SendViews
<1>9. CASE WriteCoins
  BY <1>9, WriteViews
<1>10. CASE Restart
  BY <1>10, RestartViews
<1>11. CASE UNCHANGED coinVars
  <2>1. UNCHANGED <<shard, indexed, balance, coinDb, coinRun, coinTx, deferred, pending, coinSpent, coinBorn, settled, lapses>>
    BY <1>11 DEF coinVars, cacheVars, claimVars, coinGhost
  <2>2. /\ Cached' = Cached /\ PutOff' = PutOff /\ Due' = Due /\ SettledBorn' = SettledBorn
        /\ (Clean' <=> Clean) /\ (Exact' <=> Exact)
        /\ \A u \in CoinThread : Claimed(u)' = Claimed(u) /\ (Busy(u)' <=> Busy(u))
    BY <2>1 DEF Cached, PutOff, Missing, Uncounted, Due, Live, SettledBorn, Clean, Exact, Claimed, Busy
  <2>3. ViewTypes' /\ LocksHeld' /\ IndexTold'
    <3>1. ViewTypes'
      BY <2>1 DEF ViewInv, ViewTypes, Applying
    <3>2. LocksHeld'
      BY <2>1 DEF ViewInv, LocksHeld
    <3> QED BY <2>1, <2>2, <3>1, <3>2 DEF ViewInv, IndexTold
  <2>4. ASSUME Clean' PROVE SpendsTaken' /\ StoreTold'
    BY <2>1, <2>2, <2>4 DEF ViewInv, SpendsTaken, StoreTold
  <2>5. ASSUME Exact' PROVE Counted'
    BY <2>1, <2>2, <2>5, CountedSame DEF ViewInv
  <2> QED BY <2>3, <2>4, <2>5 DEF ViewInv
<1> QED BY <1>2, <1>3, <1>4, <1>5, <1>6, <1>7, <1>8, <1>9, <1>10, <1>11 DEF CoinNext

LEMMA ViewsOf ==
    ASSUME CoinInv, ViewInv PROVE CoinViewsExact
<1>1. ASSUME Quiet
      PROVE  /\ \A t \in CoinThread : coinRun[t].op = "idle" /\ ~Busy(t)
             /\ Due = Live /\ PutOff = {}
  <2>1. \A t \in CoinThread : coinRun[t].op = "idle" /\ ~Busy(t)
    BY <1>1 DEF Quiet, Busy
  <2>2. \A t \in CoinThread : deferred[t] = NotDeferred /\ pending[t] = Settled
    BY <2>1 DEF ViewInv, ViewTypes, Applying
  <2>3. Missing = {} /\ PutOff = {} /\ Uncounted = {}
    BY <2>2, MembersOf, SettledFact
  <2> QED BY <2>1, <2>3 DEF Due
<1>2. BalancesExact
  <2> SUFFICES ASSUME Quiet, lapses \subseteq {"unlisted"}, NEW a \in CoinOwners PROVE balance[a] = Units(a, Live)
    BY DEF BalancesExact
  <2>1. Due = Live
    BY <1>1
  <2>2. Units(a, Due) = Units(a, Live)
    BY ONLY <2>1
  <2> QED BY <2>2 DEF ViewInv, Counted, Exact
<1>3. ListingConverges
  <2> SUFFICES ASSUME Quiet, coinQueue = <<>>, lapses \cap {"overrun", "released", "reordered"} = {}, NEW a \in CoinOwners
               PROVE  Listing(a) \subseteq Live /\ ("unlisted" \notin lapses => Owned(a, Cached) \subseteq Listing(a))
    BY DEF ListingConverges
  <2>1. Clean
    BY DEF Clean
  <2>2. CoinBase /\ BirthsTold /\ SpendsTold /\ SettledSpent /\ IndexTold
    BY <2>1 DEF CoinInv, ViewInv
  <2>3. \A x : Made(x) => x \in settled
    BY DEF Made, Queued, ToSet
  <2>4. ASSUME NEW c \in Cached PROVE c \in Live /\ ("unlisted" \notin lapses => c \in indexed) /\ Get(c)
    <3>1. c \in Coin /\ c \in ToSet(shard[ShardOf[c]])
      BY <2>2, CachedOf
    <3>2. c \in coinBorn /\ coinSpent[c] = {}
      BY <2>2, <3>1 DEF BirthsTold, SpendsTold
    <3>3. "unlisted" \notin lapses => c \in indexed
      BY <1>1, <2>2 DEF IndexTold
    <3> QED BY <3>1, <3>2, <3>3 DEF Live, Get
  <2>5. ASSUME NEW c \in coinDb PROVE c \in Live
    <3>1. c \in Coin /\ c \in coinBorn
      BY <2>2 DEF CoinBase, CoinTypes, BirthsTold
    <3>2. ASSUME NEW x \in coinSpent[c] PROVE FALSE
      <4>1. c \in Inputs(x) /\ x \in settled
        BY <1>1, <2>2, <2>3, <3>1 DEF SpendsTold
      <4> QED BY <2>2, <4>1 DEF SettledSpent
    <3> QED BY <3>1, <3>2 DEF Live
  <2>6. ASSUME NEW c \in Listing(a) PROVE c \in Live
    <3>1. c \in indexed /\ Get(c)
      BY DEF Listing
    <3>2. c \in Coin
      BY <3>1 DEF ViewInv, ViewTypes
    <3>3. c \in Cached \/ c \in coinDb
      <4>1. ShardOf[c] \in 1..NumShards
        BY <3>2, CoinAssumption
      <4> QED BY <3>1, <4>1 DEF Get, Cached
    <3> QED BY <2>4, <2>5, <3>3
  <2>7. "unlisted" \notin lapses => Owned(a, Cached) \subseteq Listing(a)
    BY <2>4 DEF Listing, Owned
  <2> QED BY <2>6, <2>7
<1> QED BY <1>2, <1>3 DEF CoinViewsExact

\* An address sees its coins as they are, for any transactions, shards and
\* limits: the balance counts the unspent outputs and the spends whose amount
\* is still to be looked up (Counted), through evictions, misses and restarts
\* (utxo.rs 285-295); what leaves the index late is in no shard any more, and
\* what is not there yet is in the operations of a thread (IndexTold), so
\* that the order in which threads update the index does not matter (utxo.rs
\* 430-453).
THEOREM ViewsAlwaysExact == CoinSpec => []CoinViewsExact
<1>1. CoinInit => CoinInv /\ ViewInv
  BY CoinStart, ViewStart
<1>2. CoinInv /\ ViewInv /\ [CoinNext]_coinVars => CoinInv' /\ ViewInv'
  BY CoinStep, ViewStep
<1>3. CoinInv /\ ViewInv => CoinViewsExact
  BY ViewsOf
<1> QED BY <1>1, <1>2, <1>3, PTL DEF CoinSpec
=============================================================================
