------------------------------- MODULE MCDag -------------------------------
(***************************************************************************)
(* Instances of DagWindow and CoinCache.  The two hold different parts of  *)
(* a ledger's memory and meet in no state, so a behaviour follows one of   *)
(* them: memory says which.                                                *)
(*                                                                         *)
(* a, b and c are received in this order and sort in the other, so that a  *)
(* child has a smaller key than its parent in by_time.  x1 and x2 are a    *)
(* chain, x3 wants both first coins, x4 and x5 each want the second, x6    *)
(* spends what x4 creates and creates nothing.                             *)
(***************************************************************************)
EXTENDS DagWindow, CoinCache, TLC

VARIABLE memory

ThreadSymmetry == Permutations(DagThread \cup CoinThread)

MCIdRank == ("g" :> 4 @@ "a" :> 3 @@ "b" :> 2 @@ "c" :> 1)

\* Bound: new blocks take the ids from the greatest on.
InIdOrder ==
    \A b, d \in DagBlock :
        b \in DOMAIN parentsOf' /\ IdRank[d] > IdRank[b] => d \in DOMAIN parentsOf'

MCSpends == [x1 |-> <<"c1">>, x2 |-> <<"d1">>, x3 |-> <<"c2", "c1">>, x4 |-> <<"c2">>, x5 |-> <<"c2">>,
             x6 |-> <<"d2">>]
MCCreates == [x1 |-> {"d1"}, x2 |-> {"e1"}, x3 |-> {"f1"}, x4 |-> {"d2"}, x5 |-> {"g1"}, x6 |-> {}]
MCCoinOwner == [c \in Coin |-> IF c \in {"c1", "e1", "f1"} THEN "ann" ELSE "bob"]
MCShardOf == [c \in Coin |-> IF c \in {"c1", "d1", "d2", "g1"} THEN 1 ELSE 2]

\* Bound: the store fails while no block is being inserted.
FailsAtRest == dbFails' > dbFails => Running = {}

\* Bound: a behaviour ends with a lapse after which no property claims anything.
StillClaimed == lapses \cap {"overrun", "released", "reordered"} = {}

Init == DagInit /\ CoinInit /\ memory \in {"dag", "coins"}

Next ==
    \/ memory = "dag" /\ DagNext /\ InIdOrder /\ FailsAtRest /\ UNCHANGED <<coinVars, memory>>
    \/ memory = "coins" /\ CoinNext /\ StillClaimed /\ UNCHANGED <<dagVars, memory>>

Spec == Init /\ [][Next]_<<dagVars, coinVars, memory>>
=============================================================================
