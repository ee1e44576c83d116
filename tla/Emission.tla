------------------------------ MODULE Emission ------------------------------
(***************************************************************************)
(* The shared emission budget of native PMS on the main ledger             *)
(* (pms-server/emission.rs) and its three users: the periodic baseline     *)
(* mint, the fiat on-ramp and the token conversion.  A call reserves under *)
(* the mutex of the EmissionGate, writes the counter to RocksDB, forges    *)
(* and persists the Mint block, and releases the reservation on failure.   *)
(*                                                                         *)
(* Each Call runs once.  No await happens while the mutex is held, so      *)
(* reserve and release are one step each; everything between them          *)
(* interleaves with other calls, with governance, with the clock and with  *)
(* the end of the process.                                                 *)
(***************************************************************************)
EXTENDS Integers, FiniteSets, Functions

CONSTANTS
    Call,       \* emission attempts
    VoieOf,     \* the voie of each
    Requested,  \* its amount, in units of 10^-8 PMS; not read for the baseline
    Corridor,   \* values governance may give the emission corridor
    Boot,       \* the corridor of FeesSettings
    Supply0,    \* circulating supply at the first boot
    PerYear,    \* 100 * SECONDS_PER_YEAR, in the units of rate and duration
    MaxTime,    \* bound: last instant of the clock
    MaxCrashes  \* bound: process exits in a behaviour

Voie == {"Baseline", "OnRamp", "TokenConversion"}
Params == [target : Nat, ceiling : Nat, floor : Nat, duration : Nat]

ASSUME CallAssumption ==
    /\ IsFiniteSet(Call)
    /\ VoieOf \in [Call -> Voie]
    /\ Requested \in [Call -> Nat]
ASSUME ParamAssumption ==
    /\ Corridor \subseteq Params
    /\ Boot \in Corridor
    /\ \A p \in Corridor \ {Boot} : p.floor <= p.target /\ p.target <= p.ceiling /\ p.duration > 0
    /\ Supply0 \in Nat
    /\ PerYear \in Nat \ {0}
    /\ MaxTime \in Nat
    /\ MaxCrashes \in Nat

VARIABLES
    now,                  \* the system clock
    corridor, mintEnabled,\* RuntimeConfig
    supply, dbSupply,     \* circulating supply of the UTXO set in memory, in RocksDB
    gate,                 \* the EmissionEpochState behind the mutex
    durable,              \* the one in RocksDB
    pc, params, sup, at,  \* locals of the calls
    amount,               \* what a call reserved, 0 before
    epoch, cap,           \* when it reserved, and the budget it saw
    freed,                \* the epoch its reservation was given back in
    crashes

world == <<now, corridor, mintEnabled>>
local == <<params, sup, at>>
book  == <<amount, epoch, cap>>
vars  == <<world, supply, dbSupply, gate, durable, pc, local, book, freed, crashes>>

\* idle .. lock: before the reservation; burn, forge: with it; minted: the
\* block is in memory and queued; stored: it is in RocksDB.
Steps == {"idle", "supply", "lock", "burn", "forge", "release",
          "minted", "stored", "lost", "done"}
Never == -1

EpochState == [epoch_id : Nat, supply_ref : Nat, budget : Nat, emitted : Nat]

TypeOK ==
    /\ now \in 0 .. MaxTime
    /\ corridor \in Corridor
    /\ mintEnabled \in BOOLEAN
    /\ supply \in Nat
    /\ dbSupply \in Nat
    /\ gate \in EpochState
    /\ durable \in EpochState
    /\ pc \in [Call -> Steps]
    /\ params \in [Call -> Corridor]
    /\ sup \in [Call -> Nat]
    /\ at \in [Call -> 0 .. MaxTime]
    /\ amount \in [Call -> Nat]
    /\ epoch \in [Call -> Nat]
    /\ cap \in [Call -> Nat]
    /\ freed \in [Call -> Nat \cup {Never}]
    /\ crashes \in Nat

DefaultState == [epoch_id |-> 0, supply_ref |-> 0, budget |-> 0, emitted |-> 0]

Init ==
    /\ now = 0
    /\ corridor = Boot
    /\ mintEnabled = TRUE
    /\ supply = Supply0
    /\ dbSupply = Supply0
    /\ gate = DefaultState
    /\ durable = DefaultState
    /\ pc = [c \in Call |-> "idle"]
    /\ params = [c \in Call |-> Boot]
    /\ sup = [c \in Call |-> 0]
    /\ at = [c \in Call |-> 0]
    /\ amount = [c \in Call |-> 0]
    /\ epoch = [c \in Call |-> 0]
    /\ cap = [c \in Call |-> 0]
    /\ freed = [c \in Call |-> Never]
    /\ crashes = 0

-----------------------------------------------------------------------------
(* The budget.                                                             *)

Lower(m, n) == IF m < n THEN m ELSE n
Upper(m, n) == IF m < n THEN n ELSE m

\* effective_rate_pct: the target clamped to the normalised corridor.
EffectiveRatePct(p) ==
    LET lo == Lower(p.floor, p.ceiling)
        hi == Upper(p.floor, p.ceiling)
    IN Lower(Upper(p.target, lo), hi)

\* round_dp: to the nearest unit, a tie to the even one.
RoundDp(n, d) ==
    LET q == n \div d
        r == n % d
    IN IF 2 * r < d \/ (2 * r = d /\ q % 2 = 0) THEN q ELSE q + 1

ComputeEpochBudget(ref, p) == RoundDp(ref * EffectiveRatePct(p) * p.duration, PerYear)

\* EmissionEpochState::remaining.
RemainingWhole(st) == st.budget
Remaining(st) == Upper(st.budget - st.emitted, 0)

\* now_ms / epoch_dur_ms, where a zero duration counts as one.
EpochAt(t, p) == t \div Upper(p.duration, 1)

\* The forward-only test of reserve.
RollsAgain(e) == e >= gate.epoch_id
Rolls(e) == e > gate.epoch_id

\* The gate after the rollover test of reserve.
Rolled(c) ==
    LET e == EpochAt(at[c], params[c]) IN
    IF Rolls(e)
    THEN [epoch_id |-> e, supply_ref |-> sup[c],
          budget |-> ComputeEpochBudget(sup[c], params[c]), emitted |-> 0]
    ELSE gate

-----------------------------------------------------------------------------
(* The calls.                                                              *)

Goto(c, step) == pc' = [pc EXCEPT ![c] = step]

\* The arguments of reserve are gone when it returns.
Forget(c) ==
    /\ params' = [params EXCEPT ![c] = Boot]
    /\ sup' = [sup EXCEPT ![c] = 0]
    /\ at' = [at EXCEPT ![c] = 0]

\* params_from_runtime.
Begin(c) ==
    /\ pc[c] = "idle"
    /\ params' = [params EXCEPT ![c] = corridor]
    /\ Goto(c, "supply")
    /\ UNCHANGED <<world, supply, gate, durable, sup, at, book, freed, dbSupply, crashes>>

\* circulating_supply, ts_ms and the kill switch, which is tested before the
\* mutex is taken.
Enter(c) ==
    /\ pc[c] = "supply"
    /\ \/ /\ mintEnabled
          /\ sup' = [sup EXCEPT ![c] = supply]
          /\ at' = [at EXCEPT ![c] = now]
          /\ Goto(c, "lock")
          /\ UNCHANGED params
       \/ ~mintEnabled /\ Forget(c) /\ Goto(c, "done")
    /\ UNCHANGED <<world, supply, gate, durable, book, freed, dbSupply, crashes>>

\* persist_locked: the counter of the gate, as this step leaves it.
PersistLocked == durable' = gate'

\* The amount reserve works with: the baseline takes what is left.
Wanted(c) == IF VoieOf[c] = "Baseline" THEN Remaining(Rolled(c)) ELSE Requested[c]

\* reserve, under the mutex: refused, nothing to do, or reserved and written.
ReserveNothing(c) ==
    /\ pc[c] = "lock"
    /\ Wanted(c) = 0 \/ Wanted(c) > Remaining(Rolled(c))
    /\ gate' = Rolled(c)
    /\ Forget(c)
    /\ Goto(c, "done")
    /\ UNCHANGED <<world, supply, durable, book, freed, dbSupply, crashes>>

Reserve(c) ==
    /\ pc[c] = "lock"
    /\ Wanted(c) \in 1 .. Remaining(Rolled(c))
    /\ gate' = [Rolled(c) EXCEPT !.emitted = @ + Wanted(c)]
    /\ PersistLocked
    /\ amount' = [amount EXCEPT ![c] = Wanted(c)]
    /\ epoch' = [epoch EXCEPT ![c] = gate'.epoch_id]
    /\ cap' = [cap EXCEPT ![c] = gate'.budget]
    /\ Goto(c, IF VoieOf[c] = "TokenConversion" THEN "burn" ELSE "forge")
    /\ Forget(c)
    /\ UNCHANGED <<world, supply, freed, dbSupply, crashes>>

\* The write of the counter fails: the reservation is undone, the rollover is
\* not.
ReserveFails(c) ==
    /\ pc[c] = "lock"
    /\ Wanted(c) \in 1 .. Remaining(Rolled(c))
    /\ gate' = Rolled(c)
    /\ Forget(c)
    /\ Goto(c, "done")
    /\ UNCHANGED <<world, supply, durable, book, freed, dbSupply, crashes>>

\* The TokenBurn block of a conversion is inserted.
Burn(c) ==
    /\ pc[c] = "burn"
    /\ Goto(c, "forge")
    /\ UNCHANGED <<world, supply, gate, durable, local, book, freed, dbSupply, crashes>>

\* The Mint block is inserted: apply_diff has raised the supply.
Mint(c) ==
    /\ pc[c] = "forge"
    /\ supply' = supply + amount[c]
    /\ Goto(c, "minted")
    /\ UNCHANGED <<world, gate, durable, local, book, freed, dbSupply, crashes>>

\* No outputs, no parents, a failed forge, AlreadyExists, Rejected or an
\* error.  The error of a closed persist channel comes after apply_diff.
Fail(c) ==
    /\ pc[c] \in {"burn", "forge"}
    /\ supply' \in IF pc[c] = "forge" THEN {supply, supply + amount[c]} ELSE {supply}
    /\ Goto(c, "release")
    /\ UNCHANGED <<world, gate, durable, local, book, freed, dbSupply, crashes>>

\* release: whatever epoch the gate is in by now.  The write is best effort.
Released(c) == Upper(gate.emitted - amount[c], 0)

Release(c) ==
    /\ pc[c] = "release"
    /\ gate' = [gate EXCEPT !.emitted = Released(c)]
    /\ PersistLocked \/ UNCHANGED durable
    /\ freed' = [freed EXCEPT ![c] = gate.epoch_id]
    /\ Goto(c, "done")
    /\ UNCHANGED <<world, supply, local, book, dbSupply, crashes>>

\* The persist task writes the block.
Store(c) ==
    /\ pc[c] = "minted"
    /\ Goto(c, "stored")
    /\ dbSupply' = dbSupply + amount[c]
    /\ UNCHANGED <<world, supply, gate, durable, local, book, freed, crashes>>

\* TimeoutLayer drops the future of a request at an await: no release follows.
\* The baseline runs in a task of its own, which nothing drops.
Drop(c) ==
    /\ VoieOf[c] # "Baseline"
    /\ pc[c] \in {"supply", "lock", "burn", "forge", "release"}
    /\ Forget(c)
    /\ Goto(c, "done")
    /\ UNCHANGED <<world, supply, gate, durable, book, freed, dbSupply, crashes>>

-----------------------------------------------------------------------------
(* Governance, the clock and the process.                                  *)

\* SetEmissionCorridor and SetMintEnabled, once enacted.
Govern ==
    /\ \/ corridor' \in Corridor \ {corridor} /\ UNCHANGED mintEnabled
       \/ mintEnabled' = ~mintEnabled /\ UNCHANGED corridor
    /\ UNCHANGED <<now, supply, gate, durable, pc, local, book, freed, dbSupply, crashes>>

\* ts_ms reads the wall clock, which may also be set back.
SetClock ==
    /\ now' \in (0 .. MaxTime) \ {now}
    /\ UNCHANGED <<corridor, mintEnabled, supply, gate, durable, pc, local, book,
                   freed, dbSupply, crashes>>

\* EmissionGate::load at the next boot; the blocks that were still queued are
\* gone, and the UTXO set is that of RocksDB.
Crash ==
    /\ crashes < MaxCrashes
    /\ crashes' = crashes + 1
    /\ gate' = durable
    /\ supply' = dbSupply
    /\ pc' = [c \in Call |-> CASE pc[c] \in {"idle", "stored", "lost"} -> pc[c]
                               [] pc[c] = "minted" -> "lost"
                               [] OTHER -> "done"]
    /\ params' = [c \in Call |-> Boot]
    /\ sup' = [c \in Call |-> 0]
    /\ at' = [c \in Call |-> 0]
    /\ UNCHANGED <<world, dbSupply, durable, book, freed>>

Next ==
    \/ \E c \in Call : \/ Begin(c) \/ Enter(c)
                       \/ ReserveNothing(c) \/ Reserve(c) \/ ReserveFails(c)
                       \/ Burn(c) \/ Mint(c) \/ Fail(c) \/ Release(c)
                       \/ Store(c) \/ Drop(c)
    \/ Govern
    \/ SetClock
    \/ Crash

Spec == Init /\ [][Next]_vars

-----------------------------------------------------------------------------
(* Properties.                                                             *)

Reserved == {c \in Call : amount[c] > 0}
Total(S) == SumFunctionOnSet(amount, S)

\* What was emitted on reservations of epoch e, and the older reservations
\* that were given back while the gate was in epoch e.
EmittedIn(e) == Total({c \in Reserved : epoch[c] = e /\ pc[c] \in {"minted", "stored", "lost"}})
GivenBackLate(e) == {c \in Reserved : freed[c] = e /\ epoch[c] # e}
FreedLate(e) == Total(GivenBackLate(e))

\* P1 as the gate keeps it: the budget of a period is exceeded, if at all, by
\* no more than the reservations of earlier periods that release gave back to
\* it, through clock jumps, governance, dropped requests and crashes.
CeilingButLate ==
    \A c \in Reserved : EmittedIn(epoch[c]) <= cap[c] + FreedLate(epoch[c])

\* D1, "budget stable/auditable": all the reservations of a period saw one
\* budget, also when a crash, a new supply or a new corridor came between.
BudgetFrozen ==
    \A c, d \in Reserved : epoch[c] = epoch[d] => cap[c] = cap[d]

\* The reservations behind BudgetFrozen: RocksDB is never behind one of them,
\* and the gate is never behind RocksDB.
FrozenInv ==
    /\ durable.epoch_id <= gate.epoch_id
    /\ durable.epoch_id = gate.epoch_id => durable.budget = gate.budget
    /\ \A c \in Reserved :
         /\ epoch[c] <= durable.epoch_id
         /\ epoch[c] = durable.epoch_id => cap[c] = durable.budget
    /\ BudgetFrozen

\* The reservations of epoch e that nobody gave back.
Unreleased(e) == {c \in Reserved : epoch[c] = e /\ freed[c] = Never}

\* A call owns an amount from its reservation on, and only a call that ran to
\* the end of release gave it back.
CallBooks ==
    \A c \in Call :
        /\ pc[c] \in {"idle", "supply", "lock"} => amount[c] = 0
        /\ pc[c] \in {"burn", "forge", "release", "minted", "stored", "lost"} => amount[c] > 0
        /\ freed[c] # Never => pc[c] = "done"

\* A counter of the gate, in memory or stored, is within its budget and behind
\* the reservations of its period by no more than what was given back to it.
Covers(st) ==
    /\ st.emitted <= st.budget
    /\ Total(Unreleased(st.epoch_id)) <= st.emitted + FreedLate(st.epoch_id)

CeilingInv ==
    /\ CallBooks
    /\ Covers(gate)
    /\ Covers(durable)
    /\ \A c \in Reserved : Total(Unreleased(epoch[c])) <= cap[c] + FreedLate(epoch[c])
=============================================================================
