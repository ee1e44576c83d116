------------------------------ MODULE MCGuard -------------------------------
(***************************************************************************)
(* An instance of ReadOnlyGuard.  The guard's loop and the persist task    *)
(* are tasks of their own on the runtime: each runs again and again.       *)
(***************************************************************************)
EXTENDS ReadOnlyGuard

CONSTANTS o1, o2

WritesUnderWay == roQueue > 0 \/ roStalled \/ \E w \in Writer : roWriter[w] # "idle"

\* Bounds: calls differ only in their names, so that the second one is o2 when it is
\* made while the first is open; it is not made while a write is under way.
CallsInOrder ==
    roOperator[o2] = "idle" /\ roOperator'[o2] # "idle" => roOperator[o1] # "idle" /\ ~WritesUnderWay

GuardSpec == GuardBehaviour /\ WF_roVars(Tick) /\ WF_roVars(Consume)
=============================================================================
