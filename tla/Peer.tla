-------------------------------- MODULE Peer --------------------------------
(***************************************************************************)
(* The peer-to-peer server of one node: connections and their handshake,   *)
(* announcements, requests in flight, orphans waiting for a parent, and    *)
(* the two periodic tasks that ask again.  The node on the other side runs *)
(* the same program; only what it holds and what it answers is kept.       *)
(*                                                                         *)
(* One reader task per connection takes the messages in order.  Inside     *)
(* process_incoming_blocks a block is looked up, then put into the tables  *)
(* or persisted, then its children are released: three steps between which *)
(* the other readers and the HTTP side run.                                *)
(*                                                                         *)
(* The other node answers a message when it is sent: it keeps no state but *)
(* its blocks, and a late answer is one that waits longer to be read.      *)
(* Ping, Pong and HelloAck change nothing here (both sides send Hello      *)
(* first).  The periodic tasks run when the queues are empty: their        *)
(* periods are long against the handling of a message.                     *)
(***************************************************************************)
EXTENDS Naturals, Sequences, FiniteSets, SequencesExt

CONSTANTS
    PBlock,         \* blocks
    Parents,        \* [PBlock -> SUBSET PBlock]
    Refusable,      \* blocks of which validation may reject one
    Submitted,      \* blocks that clients also submit here over HTTP
    Inbound,        \* connections the other node opened
    Outbound,       \* connections this node opened
    MaxOrphans, MaxParentDeps, MaxInflight, \* [p2p] limits
    MaxBreaks,      \* bound: connections lost
    MaxFailures,    \* bound: failures of the storage
    MaxAccepts      \* bound: connections accepted

ASSUME PeerAssumption ==
    /\ IsFiniteSet(PBlock) \* an id is 32 bytes
    /\ Parents \in [PBlock -> SUBSET PBlock]
    /\ Refusable \subseteq PBlock /\ Submitted \subseteq PBlock
    /\ Inbound \cap Outbound = {}

Link == Inbound \cup Outbound

VARIABLES
    pnRefused,  \* blocks that validation rejects
    pnHave,     \* blocks the adapter knows
    pnOrphans,  \* blocks kept until a parent arrives
    pnDeps,     \* parent -> children that wait for it
    pnFlight,   \* requests in flight: "none", "fresh" or "old" (past its TTL)
    pnLink,     \* connection -> "closed", "greeting" or "shaken"
    pnIn,       \* connection -> messages to be read
    pnTask,     \* connection -> what its reader is doing
    pnBuffer,   \* blocks of the HTTP side to be announced
    pnRemote,   \* what the other node holds
    pnStray,    \* history: orphans whose parent came where no reader saw it
    pnBreaks, pnOpens,
    pnFailed    \* failures of the storage so far

tables == <<pnOrphans, pnDeps, pnFlight, pnStray>>
wires == <<pnLink, pnIn, pnBreaks, pnOpens>>
pnVars == <<pnHave, tables, wires, pnTask, pnBuffer, pnRemote>>
pnOdds == <<pnRefused, pnFailed>>

Msg(t, ids) == [type |-> t, ids |-> ids]
Hello == Msg("Hello", {})
BadHello == Msg("BadHello", {}) \* another protocol, this node's own id, or no Hello at all
GetTips == Msg("GetTips", {})
Get(ids) == Msg("GetBlocks", ids)

Message == [type : {"Hello", "BadHello", "GetTips", "GetBlocks", "Inv", "Tips", "Blocks"},
            ids : SUBSET PBlock]

NoTask == [step |-> "idle", todo |-> {}, block |-> {}, missing |-> {}]

Tips(held) == {b \in held : \A c \in held : b \notin Parents[c]}
Closed(held) == \A b \in held : Parents[b] \subseteq held

PeerTypeOK ==
    /\ pnHave \subseteq PBlock /\ pnOrphans \subseteq PBlock /\ pnStray \subseteq PBlock
    /\ pnBuffer \subseteq PBlock /\ pnRemote \subseteq PBlock
    /\ pnDeps \in [PBlock -> SUBSET PBlock]
    /\ pnFlight \in [PBlock -> {"none", "fresh", "old"}]
    /\ pnLink \in [Link -> {"closed", "greeting", "shaken"}]
    /\ pnIn \in [Link -> Seq(Message)]

PeerInit ==
    /\ pnRefused \in {{}} \cup {{b} : b \in Refusable}
    /\ pnHave = {} /\ pnOrphans = {} /\ pnStray = {} /\ pnBuffer = {}
    /\ pnDeps = [b \in PBlock |-> {}]
    /\ pnFlight = [b \in PBlock |-> "none"]
    /\ pnLink = [c \in Link |-> "closed"]
    /\ pnIn = [c \in Link |-> <<>>]
    /\ pnTask = [c \in Link |-> NoTask]
    /\ pnRemote \in SUBSET PBlock /\ Closed(pnRemote)
    /\ pnBreaks = 0 /\ pnOpens = [c \in Link |-> 0] /\ pnFailed = 0

-----------------------------------------------------------------------------
(* Sending, and what the other node does with a message.                   *)

Post(queue, m) ==
    IF m \in ToSet(queue) \/ (m.type \in {"GetBlocks", "Blocks"} /\ m.ids = {})
    THEN queue ELSE Append(queue, m)

Reply(m) ==
    CASE m.type = "GetTips" -> Msg("Tips", Tips(pnRemote))
      [] m.type = "GetBlocks" -> Msg("Blocks", m.ids \cap pnRemote)
      [] m.type \in {"Inv", "Tips"} -> Get(m.ids \ pnRemote)

\* unicast: to a connection that is no longer in the table nothing is sent.
Unicast(in, c, m) == IF pnLink[c] = "closed" THEN in ELSE [in EXCEPT ![c] = Post(@, Reply(m))]

\* broadcast and broadcast_except: inbound connections only.
Broadcast(in, cs, m) ==
    [c \in Link |-> IF c \in cs \cap Inbound /\ pnLink[c] # "closed" THEN Post(in[c], Reply(m))
                                                                     ELSE in[c]]

-----------------------------------------------------------------------------
(* Requests in flight.                                                     *)

InFlight(flight) == {b \in PBlock : flight[b] # "none"}

\* A request for each id while the table has room (a parent: or is in it already).
RequestOne(flight, b, again) ==
    IF Cardinality(InFlight(flight)) < MaxInflight \/ (again /\ flight[b] # "none")
    THEN [flight EXCEPT ![b] = "fresh"] ELSE flight

RequestAll(flight, ids, again) == FoldSet(LAMBDA b, f : RequestOne(f, b, again), flight, ids)

Requested(flight, ids) == {b \in ids : flight[b] = "fresh"}

\* Inv and Tips: what is neither known nor asked for within the TTL.
Unknown(ids) == {b \in ids : b \notin pnHave /\ pnFlight[b] # "fresh"}

Age(b) ==
    /\ pnFlight[b] = "fresh"
    /\ pnFlight' = [pnFlight EXCEPT ![b] = "old"]
    /\ UNCHANGED <<pnHave, pnOrphans, pnDeps, pnStray, wires, pnTask, pnBuffer, pnRemote>>

-----------------------------------------------------------------------------
(* Connections.                                                            *)

\* handle_new_peer_from_io on both sides: the table entry first, then a Hello.
OpenLink(c) ==
    /\ pnLink[c] = "closed" /\ pnTask[c] = NoTask
    /\ pnOpens' = [pnOpens EXCEPT ![c] = @ + 1]
    /\ pnLink' = [pnLink EXCEPT ![c] = "greeting"]
    /\ \E first \in {<<Hello, GetTips>>, <<BadHello>>} : pnIn' = [pnIn EXCEPT ![c] = first]
    /\ UNCHANGED <<pnHave, tables, pnTask, pnBuffer, pnRemote, pnBreaks>>

\* listen and listen_tls.  The permit of max_connections is only held while the
\* connection is set up, so it bounds nothing here.
AcceptLink(c) == c \in Inbound /\ pnOpens[c] < MaxAccepts /\ OpenLink(c)

\* The connector tries until it succeeds once, and never again.
DialLink(c) == c \in Outbound /\ pnOpens[c] = 0 /\ OpenLink(c)

CloseLink(c) ==
    /\ pnLink' = [pnLink EXCEPT ![c] = "closed"]
    /\ pnIn' = [pnIn EXCEPT ![c] = <<>>]

\* End of file, a failed write, the idle timeout, a long line, too many parse errors.
\* The reader finishes the block it is at; what it would still send goes nowhere.
BreakLink(c) ==
    /\ pnLink[c] # "closed" /\ pnBreaks < MaxBreaks
    /\ pnBreaks' = pnBreaks + 1
    /\ CloseLink(c)
    /\ UNCHANGED <<pnHave, tables, pnTask, pnBuffer, pnRemote, pnOpens>>

-----------------------------------------------------------------------------
(* The reader of a connection, one message at a time.                      *)

Reading(c, types) ==
    /\ pnTask[c] = NoTask /\ pnIn[c] # <<>>
    /\ Head(pnIn[c]).type \in types

Unread(c) == [pnIn EXCEPT ![c] = Tail(@)]

Greet(c) ==
    /\ pnLink[c] = "greeting"
    /\ \/ /\ Reading(c, {"Hello"})
          /\ pnLink' = [pnLink EXCEPT ![c] = "shaken"]
          /\ pnIn' = Unicast(Unread(c), c, GetTips)
       \/ /\ Reading(c, {"BadHello"})
          /\ CloseLink(c)
    /\ UNCHANGED <<pnHave, tables, pnTask, pnBuffer, pnRemote, pnBreaks, pnOpens>>

\* Inv and Tips.
OnAnnounced(c) ==
    /\ pnLink[c] = "shaken" /\ Reading(c, {"Inv", "Tips"})
    /\ LET ids == Unknown(Head(pnIn[c]).ids)
           flight == RequestAll(pnFlight, ids, FALSE)
       IN /\ pnFlight' = flight
          /\ pnIn' = Unicast(Unread(c), c, Get(Requested(flight, ids)))
    /\ UNCHANGED <<pnHave, pnOrphans, pnDeps, pnStray, pnLink, pnTask, pnBuffer, pnRemote,
                   pnBreaks, pnOpens>>

\* GetTips, and GetBlock and GetBlocks: what this node serves; the other node
\* inserts the blocks whose parents it has.
OnAsked(c) ==
    /\ pnLink[c] = "shaken" /\ Reading(c, {"GetTips", "GetBlocks"})
    /\ LET m == Head(pnIn[c])
       IN IF m = GetTips
          THEN /\ pnIn' = Unicast(Unread(c), c, Msg("Tips", Tips(pnHave)))
               /\ UNCHANGED pnRemote
          ELSE /\ pnIn' = Unread(c)
               /\ pnRemote' = pnRemote \cup
                                {b \in m.ids \cap pnHave : Parents[b] \subseteq pnRemote}
    /\ UNCHANGED <<pnHave, tables, pnLink, pnTask, pnBuffer, pnBreaks, pnOpens>>

\* Blocks: handed to process_incoming_blocks.
OnBlocks(c) ==
    /\ pnLink[c] = "shaken" /\ Reading(c, {"Blocks"})
    /\ pnIn' = Unread(c)
    /\ pnTask' = [pnTask EXCEPT ![c].step = "next", ![c].todo = Head(pnIn[c]).ids]
    /\ UNCHANGED <<pnHave, tables, pnLink, pnBuffer, pnRemote, pnBreaks, pnOpens>>

-----------------------------------------------------------------------------
(* process_incoming_blocks.                                                *)

Keys(deps) == {b \in PBlock : deps[b] # {}}

\* Mutant: a block that is dropped is not waited with.
AwaitIfKept(deps, parents, child) ==
    IF Cardinality(pnOrphans) >= MaxOrphans THEN deps
    ELSE [p \in PBlock |-> IF p \in parents THEN deps[p] \cup {child} ELSE deps[p]]

AwaitOne(deps, p, child) ==
    IF Cardinality(Keys(deps)) < MaxParentDeps THEN [deps EXCEPT ![p] = @ \cup {child}] ELSE deps

Await(deps, parents, child) == FoldSet(LAMBDA p, d : AwaitOne(d, p, child), deps, parents)

Resume(todo) == [NoTask EXCEPT !.step = IF todo = {} THEN "idle" ELSE "next", !.todo = todo]

\* The next block: no longer in flight; known blocks are skipped; each missing
\* parent gets the block as a child that waits for it.  have_block takes what it
\* cannot read for unknown.
LookUp(c, unread) ==
    /\ pnTask[c].step = "next"
    /\ \E b \in pnTask[c].todo :
        LET rest == pnTask[c].todo \ {b}
            known == pnHave \ unread
            missing == Parents[b] \ known
        IN /\ pnFlight' = [pnFlight EXCEPT ![b] = "none"]
           /\ IF b \in known
              THEN /\ pnTask' = [pnTask EXCEPT ![c] = Resume(rest)]
                   /\ UNCHANGED <<pnDeps, pnStray>>
              ELSE /\ pnTask' = [pnTask EXCEPT ![c] =
                                    [step |-> "place", todo |-> rest, block |-> {b},
                                     missing |-> missing]]
                   /\ pnDeps' = Await(pnDeps, missing, b)
                   /\ pnStray' = IF \A p \in missing : b \in pnDeps'[p]
                                 THEN pnStray ELSE pnStray \cup {b}
    /\ UNCHANGED <<pnHave, pnOrphans, wires, pnBuffer, pnRemote>>

Look(c) == LookUp(c, {})
LookUnread(c) == \E unread \in SUBSET pnHave : unread # {} /\ LookUp(c, unread)

\* A parent was missing: the block is kept while there is room, and the parents
\* that are not orphans themselves are requested from the sender.
Orphan(c) ==
    /\ pnTask[c].step = "place" /\ pnTask[c].missing # {}
    /\ pnTask' = [pnTask EXCEPT ![c] = Resume(@.todo)]
    /\ \E b \in pnTask[c].block :
        IF Cardinality(pnOrphans) >= MaxOrphans
        THEN UNCHANGED <<pnOrphans, pnStray, pnFlight, pnIn>>
        ELSE LET ids == pnTask[c].missing \ pnOrphans
                 flight == RequestAll(pnFlight, ids, TRUE)
             IN /\ pnOrphans' = pnOrphans \cup {b}
                /\ pnStray' = IF Parents[b] \subseteq pnHave THEN pnStray \cup {b} ELSE pnStray
                /\ pnFlight' = flight
                /\ pnIn' = Unicast(pnIn, c, Get(Requested(flight, ids)))
    /\ UNCHANGED <<pnHave, pnDeps, pnLink, pnBreaks, pnOpens, pnBuffer, pnRemote>>

\* All parents were there: persist_block, and an announcement to the others.
PersistIncoming(c) ==
    /\ pnTask[c].step = "place" /\ pnTask[c].missing = {}
    /\ \E b \in pnTask[c].block \ pnRefused :
        /\ pnHave' = pnHave \cup {b}
        /\ pnIn' = IF b \in pnHave THEN pnIn
                   ELSE Broadcast(pnIn, Link \ {c}, Msg("Inv", {b}))
    /\ pnTask' = [pnTask EXCEPT ![c].step = "release"]
    /\ UNCHANGED <<tables, pnLink, pnBreaks, pnOpens, pnBuffer, pnRemote>>

\* Rejected for anything else than a parent: only counted.  Its children stay orphans.
RejectIncoming(c) ==
    /\ pnTask[c].step = "place" /\ pnTask[c].missing = {} /\ pnTask[c].block \subseteq pnRefused
    /\ pnTask' = [pnTask EXCEPT ![c] = Resume(@.todo)]
    /\ UNCHANGED <<pnHave, tables, wires, pnBuffer, pnRemote>>

\* Rejected "parent not found": a parent that was there at the look-up has left the
\* window and is not on disk yet, or cannot be read.  The block is an orphan again
\* while there is room; it waits for a parent that is known, and the parent is
\* requested all the same.
MissIncoming(c) ==
    /\ pnTask[c].step = "place" /\ pnTask[c].missing = {}
    /\ pnTask' = [pnTask EXCEPT ![c] = Resume(@.todo)]
    /\ \E b \in pnTask[c].block : \E p \in Parents[b] :
        LET flight == RequestOne(pnFlight, p, TRUE)
        IN /\ IF Cardinality(pnOrphans) < MaxOrphans
              THEN /\ pnOrphans' = pnOrphans \cup {b}
                   /\ pnDeps' = AwaitOne(pnDeps, p, b)
                   /\ pnStray' = pnStray \cup {b}
              ELSE UNCHANGED <<pnOrphans, pnDeps, pnStray>>
           /\ pnFlight' = flight
           /\ pnIn' = Unicast(pnIn, c, Get(Requested(flight, {p})))
    /\ UNCHANGED <<pnHave, pnLink, pnBreaks, pnOpens, pnBuffer, pnRemote>>

\* An error of persist_block: logged, and the block is dropped.
FailIncoming(c) ==
    /\ pnTask[c].step = "place" /\ pnTask[c].missing = {}
    /\ pnTask' = [pnTask EXCEPT ![c] = Resume(@.todo)]
    /\ UNCHANGED <<pnHave, tables, wires, pnBuffer, pnRemote>>

\* Mutant: the children are read from the orphan table, not taken from it.
ReleaseCopies(c) ==
    /\ pnTask[c].step = "release"
    /\ \E b \in pnTask[c].block :
        /\ pnDeps' = [pnDeps EXCEPT ![b] = {}]
        /\ pnTask' = [pnTask EXCEPT ![c] = Resume(@.todo \cup (pnDeps[b] \cap pnOrphans))]
    /\ UNCHANGED <<pnHave, pnOrphans, pnStray, pnFlight, wires, pnBuffer, pnRemote>>

\* What readers have looked up and not placed yet.
Placing == UNION {pnTask[c].block : c \in {d \in Link : pnTask[d].step = "place"}}

\* Inserted or AlreadyExists: the children that waited for it are processed again.
Release(c) ==
    /\ pnTask[c].step = "release"
    /\ \E b \in pnTask[c].block :
        LET children == pnDeps[b] \cap pnOrphans
        IN /\ pnDeps' = [pnDeps EXCEPT ![b] = {}]
           /\ pnOrphans' = pnOrphans \ children
           /\ pnTask' = [pnTask EXCEPT ![c] = Resume(@.todo \cup children)]
           /\ pnStray' = pnStray \ (children \ Placing)
    /\ UNCHANGED <<pnHave, pnFlight, wires, pnBuffer, pnRemote>>

ReaderStep(c) ==
    \/ Greet(c) \/ OnAnnounced(c) \/ OnAsked(c) \/ OnBlocks(c)
    \/ Look(c) \/ Orphan(c) \/ PersistIncoming(c) \/ RejectIncoming(c)
    \/ Release(c)

-----------------------------------------------------------------------------
(* The HTTP side and the periodic tasks.                                   *)

\* A block persisted by a request: known at once, announced by the broadcast
\* worker; no reader releases the orphans that wait for it.
Submit(b) ==
    /\ b \in Submitted \ (pnHave \cup pnRefused) /\ Parents[b] \subseteq pnHave
    /\ pnHave' = pnHave \cup {b}
    /\ pnBuffer' = pnBuffer \cup {b}
    /\ pnStray' = pnStray \cup {o \in pnOrphans : b \in Parents[o] /\ Parents[o] \subseteq pnHave'}
    /\ UNCHANGED <<pnOrphans, pnDeps, pnFlight, wires, pnTask, pnRemote>>

FlushBroadcastBuffer ==
    /\ pnBuffer # {}
    /\ pnBuffer' = {}
    /\ pnIn' = Broadcast(pnIn, Link, Msg("Inv", pnBuffer))
    /\ UNCHANGED <<pnHave, tables, pnLink, pnBreaks, pnOpens, pnTask, pnRemote>>

Quiet == \A c \in Link : pnIn[c] = <<>>

\* Every 10 s: every awaited parent that was not asked for within 2 s (a fresh
\* request may be older than that), then the tips.
RefetchParents ==
    /\ Quiet
    /\ \E recent \in SUBSET {p \in Keys(pnDeps) : pnFlight[p] = "fresh"} :
        LET ids == Keys(pnDeps) \ recent
        IN /\ pnFlight' = [b \in PBlock |-> IF b \in ids THEN "fresh" ELSE pnFlight[b]]
           /\ pnIn' = Broadcast(Broadcast(pnIn, Link, Get(ids)), Link, GetTips)
    /\ UNCHANGED <<pnHave, pnOrphans, pnDeps, pnStray, pnLink, pnBreaks, pnOpens, pnTask,
                   pnBuffer, pnRemote>>

\* trigger_sync, every 5 s.
TriggerSync ==
    /\ Quiet
    /\ pnFlight' = [b \in PBlock |-> IF pnFlight[b] = "old" THEN "none" ELSE pnFlight[b]]
    /\ pnIn' = Broadcast(pnIn, Link, GetTips)
    /\ UNCHANGED <<pnHave, pnOrphans, pnDeps, pnStray, pnLink, pnBreaks, pnOpens, pnTask,
                   pnBuffer, pnRemote>>

-----------------------------------------------------------------------------
(* The other node.                                                         *)

\* A block made there, announced on the connections that are inbound there.
RemoteInsert(b) ==
    /\ b \notin pnRemote /\ Parents[b] \subseteq pnRemote
    /\ pnRemote' = pnRemote \cup {b}
    /\ pnIn' = [c \in Link |-> IF c \in Outbound /\ pnLink[c] = "shaken"
                               THEN Post(pnIn[c], Msg("Inv", {b})) ELSE pnIn[c]]
    /\ UNCHANGED <<pnHave, tables, pnLink, pnBreaks, pnOpens, pnTask, pnBuffer>>

-----------------------------------------------------------------------------
StorageFails(c) == LookUnread(c) \/ MissIncoming(c) \/ FailIncoming(c)

PeerNext ==
    /\ \/ /\ \/ \E c \in Link : AcceptLink(c) \/ DialLink(c) \/ BreakLink(c) \/ ReaderStep(c)
             \/ \E b \in PBlock : Submit(b) \/ RemoteInsert(b) \/ Age(b)
             \/ FlushBroadcastBuffer \/ RefetchParents \/ TriggerSync
          /\ UNCHANGED pnFailed
       \/ /\ pnFailed < MaxFailures /\ pnFailed' = pnFailed + 1
          /\ \E c \in Link : StorageFails(c)
    /\ UNCHANGED pnRefused

\* Tasks that are spawned and loop for ever; sockets that deliver while open.  The
\* periodic tasks wait for nothing in the code: strong fairness makes up for Quiet.
PeerFairness ==
    /\ \A c \in Link : WF_pnVars(ReaderStep(c))
    /\ \A b \in PBlock : WF_pnVars(Age(b))
    /\ WF_pnVars(FlushBroadcastBuffer) /\ SF_pnVars(RefetchParents) /\ SF_pnVars(TriggerSync)

PeerSpec == PeerInit /\ [][PeerNext]_<<pnVars, pnOdds>> /\ PeerFairness

-----------------------------------------------------------------------------
\* An orphan whose parents have all arrived is about to be released by the reader
\* that persisted the last of them; the only others are those whose parent arrived
\* where no reader releases them (pnStray: over HTTP, between the look-up and the
\* insertion, or with the dependency table full), or was there all the time and was
\* not found when the orphan was looked up or persisted.
OrphansReleased ==
    \A o \in pnOrphans : Parents[o] \subseteq pnHave =>
        \/ o \in pnStray
        \/ \E c \in Link : /\ pnTask[c].step = "release"
                           /\ \E b \in pnTask[c].block : o \in pnDeps[b]

\* A block and all that it rests on.
Ancestry(b) == {a \in PBlock : \A held \in SUBSET PBlock : b \in held /\ Closed(held) => a \in held}

\* Blocks spread: while an inbound connection stays up, every valid block the other
\* node holds is known here in the end, whatever was dropped, lost, raced or evicted
\* on the way (a full orphan table, a stray orphan, a request that was not answered, a
\* look-up or a persist that failed).
BlocksSpread ==
    (\E c \in Inbound : <>[](pnLink[c] = "shaken")) =>
        \A b \in PBlock : Ancestry(b) \cap pnRefused = {} =>
            [](b \in pnRemote => <>(b \in pnHave))
=============================================================================
