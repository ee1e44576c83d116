----------------------------- MODULE MCEconomy ------------------------------
(***************************************************************************)
(* Instances of FeeEconomy and Emission: what the network pays out and     *)
(* what it issues.  part says which machine a behaviour follows: the three *)
(* of FeeEconomy share the restart and nothing that a property of one      *)
(* reads of another, and none of them shares state with the emission gate. *)
(*                                                                         *)
(* Emission: a baseline mint, an on-ramp and a conversion, a boot corridor *)
(* whose target is above its ceiling, and a governed one that changes the  *)
(* rate and the length of the period.                                      *)
(***************************************************************************)
EXTENDS FeeEconomy, Emission

CONSTANTS base, ramp, conv

MCVoieOf == [c \in Call |-> CASE c = base -> "Baseline"
                              [] c = conv -> "TokenConversion"
                              [] OTHER -> "OnRamp"]
MCRequested == [c \in Call |-> IF c = conv THEN 1 ELSE 2]

\* With a supply of 4 and PerYear = 4: budgets of 2, 1 (or 2 over two ticks).
MCBoot == [target |-> 5, ceiling |-> 2, floor |-> 0, duration |-> 1]
MCCorridor == {MCBoot,
               [target |-> 1, ceiling |-> 2, floor |-> 1, duration |-> 2]}

VARIABLE part

EconomyInit ==
    /\ FeeInit
    /\ Init
    /\ part \in {"fees", "nodes", "cells", "emission"}
    /\ part # "fees" => feTreasury = NoWallet

\* Bound: the switch, which only the start of a call reads, is off at the first instant
\* and in the boot corridor.
OffAtFirst == ~mintEnabled' => now' = 0 /\ corridor' = Boot

\* Bound: a crash before any reservation, which loses calls that did nothing yet, is
\* left out.
CrashAfterReserve == crashes' > crashes => Reserved # {}

\* Bound: without a treasury three fee units, which it would have had a share of.
FewFees == feTreasury = NoWallet => feCollected' <= 3

\* Bound: the second node, there to take the one place of the registry, names one wallet.
OneWallet ==
    /\ feRegistry'["n2"].wallet # "w1"
    /\ \A m \in feSigned' : m.node = "n2" => m.wallet = "w2"

EconomyNext ==
    /\ \/ part = "fees" /\ FeeNext /\ FewFees /\ UNCHANGED vars
       \/ part = "nodes" /\ NodeNext /\ OneWallet /\ UNCHANGED vars
       \/ part = "cells" /\ CellNext /\ UNCHANGED vars
       \/ part = "emission" /\ Next /\ OffAtFirst /\ CrashAfterReserve /\ UNCHANGED feVars
    /\ UNCHANGED <<feTreasury, part>>

EconomySpec == EconomyInit /\ [][EconomyNext]_<<feVars, vars, part>>
=============================================================================
