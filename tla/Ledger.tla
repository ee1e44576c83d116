------------------------------- MODULE Ledger -------------------------------
(***************************************************************************)
(* What the durable ledger promises, with nothing of threads, queues or    *)
(* crashes: a set of blocks that only grows, in which every block follows  *)
(* a stored parent, spends outputs that stored blocks created and that no  *)
(* other stored block spends, and consumes a bridge lock or mint nonce     *)
(* that no other stored block consumes.                                    *)
(***************************************************************************)
CONSTANTS Block, Genesis, ParentOf, Spends, Creates, NoKey, KeyOf

VARIABLE stored

Valid(S) ==
    /\ \A b \in S \ {Genesis} : ParentOf[b] \in S
    /\ \A b \in S : Spends[b] \subseteq UNION {Creates[c] : c \in S}
    /\ \A b, c \in S : b # c => /\ Spends[b] \cap Spends[c] = {}
                                /\ KeyOf[b] = KeyOf[c] => KeyOf[b] = NoKey

Init == stored = {Genesis}

\* A batch is appended: all of it or nothing, and never a removal.
Append ==
    /\ stored' \in SUBSET Block
    /\ stored \subseteq stored'
    /\ Valid(stored')

Spec == Init /\ [][Append]_stored
=============================================================================
