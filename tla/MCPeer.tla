------------------------------- MODULE MCPeer -------------------------------
(***************************************************************************)
(* An instance of Peer: a chain of three blocks, one connection in each    *)
(* direction, room for one orphan.                                         *)
(***************************************************************************)
EXTENDS Peer

CONSTANTS b1, b2, b3

Chain == (b1 :> {}) @@ (b2 :> {b1}) @@ (b3 :> {b2})

VARIABLE trouble

\* One kind of trouble in a behaviour: a block that comes over HTTP as well, a lost
\* connection, a block that validation rejects, or a storage that fails once.
Init ==
    /\ PeerInit
    /\ trouble \in {"http", "break", "refuse", "storage"}
    /\ (trouble = "refuse") = (pnRefused # {})
    /\ trouble # "http" => pnRemote = PBlock \* the node is behind from the start

Next ==
    /\ PeerNext
    /\ trouble # "http" => pnBuffer' = {}
    /\ trouble # "break" => pnBreaks' = 0
    /\ trouble # "storage" => pnFailed' = 0
    /\ UNCHANGED trouble

Spec == Init /\ [][Next]_<<pnVars, pnOdds, trouble>> /\ PeerFairness
=============================================================================
