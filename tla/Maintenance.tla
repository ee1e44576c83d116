----------------------------- MODULE Maintenance -----------------------------
(***************************************************************************)
(* Opening a ledger's store: the schema migrations, the genesis block and  *)
(* the DAG version check, with the process dying between any two writes.   *)
(* Block ids are numbers in the order their strings sort, which is the     *)
(* order every scan follows.  The migrations 0 to 1 and 6 to 13 only write *)
(* and delete a marker.  The counts of children are taken as recorded, and *)
(* the cache activity_items, written again by 5 to 6, is left out.         *)
(***************************************************************************)
EXTENDS Integers, FiniteSets, FiniteSetsExt, Functions

CONSTANTS
    OldBlocks,      \* the blocks an older binary left in the store
    Genesis,        \* the block an empty store is given
    ParentsOf,      \* the parents of every block
    OldTyped,       \* its <<address, category>> pairs, as version 5 filed them
    NewTyped,       \* the same pairs as the code files them now
    OldStores,      \* the <<schema version, DAG version>> pairs stores come in
    NoVersion,      \* the DAG version key is absent
    TipLimit,       \* tip_limit of the settings: tips kept, 0 for all of them
    MaxBoots        \* bound: times the process is started

Stored == OldBlocks \cup {Genesis}

\* Addresses a transfer pays nothing but its fee to.
FeeOnly(b) == {x[1] : x \in {y \in NewTyped[b] : y[2] = "fee"}}
AsTransfer(b) == {<<a, "transfer">> : a \in FeeOnly(b)}

\* A block is no parent of itself; version 5 filed the fee under transfer, which
\* an address is now filed under only if it was paid more than the fee; a binary
\* that wrote no DAG version left more than the genesis block.
ASSUME StoreAssumption ==
    /\ Stored \subseteq Int /\ IsFiniteSet(Stored)
    /\ \A b \in Stored : IsFiniteSet(ParentsOf[b]) /\ b \notin ParentsOf[b]
    /\ \A b \in OldBlocks : /\ NewTyped[b] \cap AsTransfer(b) = {}
                            /\ OldTyped[b] \subseteq NewTyped[b] \cup AsTransfer(b)
                            /\ FeeOnly(b) = {} => NewTyped[b] \subseteq OldTyped[b]
    /\ TipLimit \in Nat
    /\ OldStores \subseteq Nat \X ({NoVersion} \cup (Nat \X Nat))
    /\ NoVersion \notin Nat \X Nat
    /\ OldBlocks # {} /\ (OldBlocks = {Genesis} => \A s \in OldStores : s[2] # NoVersion)

VARIABLES
    disk,       \* the column families of the ledger
    boot,       \* the process: its phase and the migration it is in
    boots,      \* times it was started
    estimate,   \* tip_count_estimate of the process
    keptTips, keptEntries,  \* tips and typed entries whose delete failed unnoticed
    torn,       \* blocks whose two time-index writes a crash came between
    stillborn   \* a crash came between the genesis block and its version

mtVars == <<disk, boot, boots, estimate, keptTips, keptEntries, torn, stillborn>>

CURRENT_VER == 13
DAG_VERSION == <<3, 16>>
FirstRealTs == 100      \* wall-clock stamps sort after every synthetic one

Children(B, p) == {c \in B : p \in ParentsOf[c]}
Addresses(b) == {x[1] : x \in NewTyped[b]}

\* What a binary of schema version v keeps for the blocks B, with the time
\* index of the blocks in Trimmed cut off before version 3.
StoreOf(v, d, B, Trimmed) ==
    LET stamp == [b \in B \ Trimmed |-> FirstRealTs + b]
        typed == IF v >= 6 THEN NewTyped ELSE OldTyped
    IN  [ver |-> v, dag |-> d, blocks |-> B,
         tips |-> IF v >= 2 THEN {b \in B : Children(B, b) = {}} ELSE {},
         byTime |-> {<<stamp[b], b>> : b \in DOMAIN stamp},
         id2ts |-> stamp,
         addrs |-> IF v >= 4 THEN UNION {{<<a, stamp[b], b>> : a \in Addresses(b)} : b \in B}
                   ELSE {},
         typed |-> IF v >= 5 THEN UNION {{<<x, stamp[b], b>> : x \in typed[b]} : b \in B}
                   ELSE {}]

Down == [phase |-> "down", v |-> 0, running |-> FALSE, todo |-> {},
         half |-> FALSE, ts |-> 1, fresh |-> FALSE]

MaintenanceInit ==
    /\ disk \in {StoreOf(0, NoVersion, {}, {})}
         \cup UNION {{StoreOf(s[1], s[2], OldBlocks, T) :
                         T \in IF s[1] < 3 THEN SUBSET OldBlocks ELSE {{}}} :
                      s \in OldStores}
    /\ boot = Down
    /\ boots = 0
    /\ estimate = 0
    /\ keptTips = {} /\ keptEntries = {}
    /\ torn = {}
    /\ stillborn = FALSE
-----------------------------------------------------------------------------
\* The column families are opened and the stored version is read.
OpenStore ==
    /\ boot.phase = "down"
    /\ boots < MaxBoots
    /\ boots' = boots + 1
    /\ boot' = [Down EXCEPT !.phase = "schema", !.v = disk.ver]
    /\ UNCHANGED <<disk, estimate, keptTips, keptEntries, torn, stillborn>>

\* Migrations that only write and delete a marker in the column families they
\* introduce; the one of 0 to 1 is written again and deleted by the next boot.
MarkerOnly == {0} \cup 6..12

\* What migration v to v + 1 walks through: every block, the time index, or
\* nothing but its marker.
Scan(v) == CASE v \in MarkerOnly -> {}
             [] v \in {1, 2} -> {<<0, b>> : b \in disk.blocks}
             [] v \in {3, 4, 5} -> disk.byTime

\* A migration that is run again deletes again what it deletes.
Retried == /\ keptTips' = IF boot.v = 1 THEN {} ELSE keptTips
           /\ keptEntries' = IF boot.v = 5 THEN {} ELSE keptEntries

\* A plausible slip: the version is stored when a migration starts.
BeginMigrationStored ==
    /\ boot.phase = "schema"
    /\ ~boot.running
    /\ boot.v < CURRENT_VER
    /\ boot' = [boot EXCEPT !.running = TRUE, !.todo = Scan(boot.v), !.ts = 1]
    /\ disk' = [disk EXCEPT !.ver = boot.v + 1]
    /\ Retried
    /\ UNCHANGED <<boots, estimate, torn, stillborn>>

BeginMigration ==
    /\ boot.phase = "schema"
    /\ ~boot.running
    /\ boot.v < CURRENT_VER
    /\ boot' = [boot EXCEPT !.running = TRUE, !.todo = Scan(boot.v), !.ts = 1]
    /\ Retried
    /\ UNCHANGED <<disk, boots, estimate, torn, stillborn>>

\* The least key the scan has not come to.
Here == CHOOSE e \in boot.todo :
            \A f \in boot.todo : e[1] < f[1] \/ (e[1] = f[1] /\ e[2] <= f[2])

InScan(v) ==
    /\ boot.phase = "schema"
    /\ boot.running
    /\ boot.todo # {}
    /\ boot.v = v

Onward == [boot EXCEPT !.todo = @ \ {Here}, !.half = FALSE]

\* The store refuses to drop its last tip.
RemoveTip(T, p) == IF T = {p} THEN T ELSE T \ {p}

RemoveTips(T, P) == FoldSet(LAMBDA p, U : RemoveTip(U, p), T, P)

\* The estimate starts at 0 whatever the store holds and falls with every parent
\* removed, listed or not; below 0 it wraps and is over every limit.
OverLimit == TipLimit # 0 /\ estimate \notin 0..TipLimit

RealTips(B, T) == {t \in T : Children(B, t) = {}}

\* Over the limit the tips with children are dropped, and the real ones down to
\* the limit: those with the latest stamps stay, which are milliseconds of the
\* scan and may be equal.
trim_tips(T) ==
    LET real == RealTips(disk.blocks, T)
    IN  IF ~OverLimit THEN {T}
        ELSE IF Cardinality(real) > TipLimit THEN kSubset(TipLimit, real)
        ELSE {real}

\* The block is put among the tips; then they are trimmed and its parents taken
\* out, where an error is ignored.
mig_1_to_2 ==
    /\ InScan(1)
    /\ LET b == Here[2]
       IN  \/ /\ ~boot.half
              /\ disk' = [disk EXCEPT !.tips = @ \cup {b}]
              /\ estimate' = estimate + 1
              /\ boot' = [boot EXCEPT !.half = TRUE]
              /\ UNCHANGED keptTips
           \/ /\ boot.half
              /\ \E T \in trim_tips(disk.tips), F \in SUBSET ParentsOf[b] :
                    /\ disk' = [disk EXCEPT !.tips = RemoveTips(T, ParentsOf[b] \ F)]
                    /\ estimate' = (IF OverLimit THEN Cardinality(T) ELSE estimate)
                                       - Cardinality(ParentsOf[b] \ F)
                    /\ keptTips' = keptTips \cup F
              /\ boot' = Onward
    /\ UNCHANGED <<boots, keptEntries, torn, stillborn>>

Stamped(b, ts) ==
    [x \in DOMAIN disk.id2ts \cup {b} |-> IF x = b THEN ts ELSE disk.id2ts[x]]

\* A block without a stamp is given the next synthetic one, first in the time
\* index and then, by a second write, in id2ts.
mig_2_to_3 ==
    /\ InScan(2)
    /\ LET b == Here[2]
       IN  \/ /\ b \in DOMAIN disk.id2ts
              /\ boot' = Onward
              /\ UNCHANGED disk
           \/ /\ b \notin DOMAIN disk.id2ts
              /\ ~boot.half
              /\ disk' = [disk EXCEPT !.byTime = @ \cup {<<boot.ts, b>>}]
              /\ boot' = [boot EXCEPT !.half = TRUE]
           \/ /\ b \notin DOMAIN disk.id2ts
              /\ boot.half
              /\ disk' = [disk EXCEPT !.id2ts = Stamped(b, boot.ts)]
              /\ boot' = [Onward EXCEPT !.ts = @ + 1]
    /\ UNCHANGED <<boots, estimate, keptTips, keptEntries, torn, stillborn>>

mig_3_to_4 ==
    /\ InScan(3)
    /\ LET b == Here[2]
       IN  disk' = [disk EXCEPT !.addrs =
                       @ \cup {<<a, disk.id2ts[b], b>> : a \in Addresses(b)}]
    /\ boot' = Onward
    /\ UNCHANGED <<boots, estimate, keptTips, keptEntries, torn, stillborn>>

mig_4_to_5 ==
    /\ InScan(4)
    /\ LET b == Here[2]
       IN  disk' = [disk EXCEPT !.typed =
                       @ \cup {<<x, disk.id2ts[b], b>> : x \in NewTyped[b]}]
    /\ boot' = Onward
    /\ UNCHANGED <<boots, estimate, keptTips, keptEntries, torn, stillborn>>

\* A transfer with a fee output is filed anew; then the entry under transfer
\* is deleted for the addresses that only took the fee, where an error is ignored.
mig_5_to_6 ==
    /\ InScan(5)
    /\ LET b == Here[2]
           old == {<<x, disk.id2ts[b], b>> : x \in AsTransfer(b)}
       IN  \/ /\ FeeOnly(b) = {}
              /\ boot' = Onward
              /\ UNCHANGED <<disk, keptEntries>>
           \/ /\ FeeOnly(b) # {}
              /\ ~boot.half
              /\ disk' = [disk EXCEPT !.typed =
                             @ \cup {<<x, disk.id2ts[b], b>> : x \in NewTyped[b]}]
              /\ boot' = [boot EXCEPT !.half = TRUE]
              /\ UNCHANGED keptEntries
           \/ /\ FeeOnly(b) # {}
              /\ boot.half
              /\ \E F \in SUBSET old :
                    /\ disk' = [disk EXCEPT !.typed = @ \ (old \ F)]
                    /\ keptEntries' = keptEntries \cup F
              /\ boot' = Onward
    /\ UNCHANGED <<boots, estimate, keptTips, torn, stillborn>>

\* Only a migration that came to its end moves the stored version.
set_version ==
    /\ boot.phase = "schema"
    /\ boot.running
    /\ boot.todo = {}
    /\ disk' = [disk EXCEPT !.ver = boot.v + 1]
    /\ boot' = [boot EXCEPT !.running = FALSE, !.v = @ + 1]
    /\ UNCHANGED <<boots, estimate, keptTips, keptEntries, torn, stillborn>>

\* A schema as new as the binary's, or newer, is taken as it is.
SchemaReady ==
    /\ boot.phase = "schema"
    /\ ~boot.running
    /\ boot.v >= CURRENT_VER
    /\ boot' = [boot EXCEPT !.phase = "genesis", !.fresh = disk.blocks = {}]
    /\ UNCHANGED <<disk, boots, estimate, keptTips, keptEntries, torn, stillborn>>

\* The genesis block goes in with all its indexes, in one batch.
persist_genesis ==
    /\ boot.phase = "genesis"
    /\ boot.fresh
    /\ disk' = [StoreOf(disk.ver, disk.dag, {Genesis}, {})
                    EXCEPT !.tips = {Genesis}]
    /\ boot' = [boot EXCEPT !.phase = "version"]
    /\ UNCHANGED <<boots, estimate, keptTips, keptEntries, torn, stillborn>>

NotFresh ==
    /\ boot.phase = "genesis"
    /\ ~boot.fresh
    /\ boot' = [boot EXCEPT !.phase = "version"]
    /\ UNCHANGED <<disk, boots, estimate, keptTips, keptEntries, torn, stillborn>>

set_dag_version ==
    /\ boot.phase = "version"
    /\ boot.fresh
    /\ disk' = [disk EXCEPT !.dag = DAG_VERSION]
    /\ boot' = [boot EXCEPT !.phase = "up"]
    /\ UNCHANGED <<boots, estimate, keptTips, keptEntries, torn, stillborn>>

\* A missing key reads as 1.0.0.
get_dag_version == IF disk.dag = NoVersion THEN <<1, 0>> ELSE disk.dag

check_dag_compatibility(stored, current) ==
    CASE stored[1] > current[1] \/ (stored[1] = current[1] /\ stored[2] > current[2])
            -> "downgrade"
      [] stored[1] < current[1] -> "major"
      [] OTHER -> "compatible"

CheckVersion ==
    /\ boot.phase = "version"
    /\ ~boot.fresh
    /\ \/ /\ check_dag_compatibility(get_dag_version, DAG_VERSION) = "compatible"
          /\ disk' = [disk EXCEPT !.dag = DAG_VERSION]
          /\ boot' = [boot EXCEPT !.phase = "up"]
       \/ /\ check_dag_compatibility(get_dag_version, DAG_VERSION) # "compatible"
          /\ boot' = [boot EXCEPT !.phase = "refused"]
          /\ UNCHANGED disk
    /\ UNCHANGED <<boots, estimate, keptTips, keptEntries, torn, stillborn>>

\* The process ends, by a crash or by a write that failed: what it held in
\* memory is gone, what it wrote stays.
StopProcess ==
    /\ boot.phase # "down"
    /\ boot' = Down
    /\ torn' = IF boot.half /\ boot.v = 2 THEN torn \cup {Here[2]} ELSE torn
    /\ stillborn' = (stillborn \/ (boot.phase = "version" /\ boot.fresh))
    /\ estimate' = 0
    /\ UNCHANGED <<disk, boots, keptTips, keptEntries>>

MaintenanceNext ==
    \/ OpenStore \/ BeginMigration \/ mig_1_to_2 \/ mig_2_to_3 \/ mig_3_to_4
    \/ mig_4_to_5 \/ mig_5_to_6 \/ set_version \/ SchemaReady
    \/ persist_genesis \/ NotFresh \/ set_dag_version \/ CheckVersion
    \/ StopProcess
-----------------------------------------------------------------------------
\* Tips: the migration visits ids in sorting order and adds each block after
\* its smaller children took it out, so exactly the blocks without a later
\* child are listed: every true tip is, and some that are none.
TipsAfterMigration(B) == {b \in B : \A c \in Children(B, b) : c <= b}

\* As many childless tips as are kept.
Full(B, T) == TipLimit # 0 /\ Cardinality(RealTips(B, T)) >= TipLimit

\* The stored schema version is a promise about the indexes that holds at
\* every moment, wherever the process died and however often the migrations
\* were run again: from 2 a childless block is missing from the tips only if as
\* many others as tip_limit are there, and a listed block with children sorts
\* after all of them or is one whose removal failed; from 3 every block is
\* found by time under the stamp id2ts gives it, and is found twice only if a
\* crash came between its two writes; from 4 the address index and from 6 the
\* typed index are exact, but for the entries whose delete failed.  A ledger is
\* refused only for a DAG version that really differs or for a genesis block
\* whose version was never written.
SchemaSound ==
    LET d == disk
        B == d.blocks
    IN  /\ d.ver >= 2 =>
             /\ RealTips(B, B) \subseteq d.tips \/ Full(B, d.tips)
             /\ d.tips \subseteq TipsAfterMigration(B) \cup keptTips
        /\ d.ver >= 3 =>
             /\ \A b \in B : b \in DOMAIN d.id2ts /\ <<d.id2ts[b], b>> \in d.byTime
             /\ \A e \in d.byTime : e[1] = d.id2ts[e[2]] \/ e[2] \in torn
        /\ d.ver >= 4 =>
             d.addrs = UNION {{<<a, d.id2ts[b], b>> : a \in Addresses(b)} : b \in B}
        /\ d.ver >= 6 =>
             LET typed == UNION {{<<x, d.id2ts[b], b>> : x \in NewTyped[b]} : b \in B}
             IN  typed \subseteq d.typed /\ d.typed \subseteq typed \cup keptEntries
        /\ boot.phase = "up" => B # {} /\ d.ver >= CURRENT_VER /\ d.dag = DAG_VERSION
        /\ boot.phase = "refused" =>
             \/ stillborn
             \/ d.dag = NoVersion /\ B # {Genesis}
             \/ d.dag # NoVersion /\ (d.dag[1] # DAG_VERSION[1] \/ d.dag[2] > DAG_VERSION[2])

-----------------------------------------------------------------------------
(* The machine, and the invariants of the proofs.                          *)

MaintenanceSpec == MaintenanceInit /\ [][MaintenanceNext]_mtVars

StoreTypes ==
    /\ disk = [ver |-> disk.ver, dag |-> disk.dag, blocks |-> disk.blocks, tips |-> disk.tips,
               byTime |-> disk.byTime, id2ts |-> disk.id2ts, addrs |-> disk.addrs,
               typed |-> disk.typed]
    /\ disk.ver \in Nat /\ disk.dag \in {NoVersion} \cup (Nat \X Nat)
    /\ disk.blocks \in {{}, OldBlocks, {Genesis}} /\ disk.tips \subseteq disk.blocks
    /\ disk.byTime \subseteq Int \X disk.blocks /\ IsFiniteSet(disk.byTime)
    /\ DOMAIN disk.id2ts \subseteq disk.blocks
    /\ disk.id2ts \in [DOMAIN disk.id2ts -> Int]

BootTypes ==
    /\ boot \in [phase : {"down", "schema", "genesis", "version", "up", "refused"}, v : Nat,
                 running : BOOLEAN, todo : SUBSET (Int \X disk.blocks), half : BOOLEAN,
                 ts : Int, fresh : BOOLEAN]
    /\ IsFiniteSet(boot.todo)
    /\ boot.phase = "schema" => boot.v = disk.ver
    /\ boot.running => boot.phase = "schema" /\ boot.v < CURRENT_VER
    /\ boot.todo # {} => boot.running
    /\ boot.half => boot.todo # {} /\ boot.v \in {1, 2, 5} /\ (boot.v = 1 => Here[2] \in disk.tips)

Refusable ==
    \/ stillborn
    \/ disk.dag = NoVersion /\ disk.blocks # {Genesis}
    \/ disk.dag # NoVersion /\ (disk.dag[1] # DAG_VERSION[1] \/ disk.dag[2] > DAG_VERSION[2])

\* Only a complete schema is opened; a genesis block without a DAG version is one
\* whose process is still about to write it, or died before.
PhaseInv ==
    /\ boot.phase \in {"genesis", "version", "up", "refused"} => disk.ver >= CURRENT_VER
    /\ boot.phase = "genesis" => (boot.fresh <=> disk.blocks = {})
    /\ boot.phase \in {"version", "up"} => disk.blocks # {}
    /\ boot.phase = "version" /\ boot.fresh => disk.blocks = {Genesis} /\ disk.dag = NoVersion
    /\ boot.phase = "up" => disk.dag = DAG_VERSION
    /\ boot.phase = "refused" => Refusable
    /\ disk.blocks = {} => disk.dag = NoVersion
    /\ disk.blocks \notin {{}, OldBlocks} => disk.ver >= CURRENT_VER
    /\ disk.blocks = {Genesis} /\ disk.dag = NoVersion =>
            stillborn \/ (boot.phase = "version" /\ boot.fresh)

Scanning(v) == boot.running /\ boot.v = v
ToCome(b) == <<0, b>> \in boot.todo

\* A tip that has a later child is one whose child the scan has not come to, or
\* whose removal failed.
TipsInv ==
    LET B == disk.blocks
    IN  /\ disk.ver >= 2 => /\ RealTips(B, B) \subseteq disk.tips \/ Full(B, disk.tips)
                            /\ disk.tips \subseteq TipsAfterMigration(B) \cup keptTips
        /\ Scanning(1) =>
             /\ \A e \in boot.todo : e[1] = 0 /\ \A c \in B : c > e[2] => ToCome(c)
             /\ \/ \A b \in RealTips(B, B) : ~ToCome(b) => b \in disk.tips
                \/ Full(B, disk.tips)
             /\ \A b \in disk.tips :
                   b \in keptTips \/ \A c \in Children(B, b) : c <= b \/ ToCome(c)

\* A stamp is in the time index before it is in id2ts.
TimeInv ==
    /\ disk.ver >= 3 => DOMAIN disk.id2ts = disk.blocks
    /\ \A b \in DOMAIN disk.id2ts : <<disk.id2ts[b], b>> \in disk.byTime
    /\ \A e \in disk.byTime : \/ e[2] \in DOMAIN disk.id2ts /\ e[1] = disk.id2ts[e[2]]
                              \/ e[2] \in torn
                              \/ boot.half /\ boot.v = 2 /\ e[2] = Here[2] /\ e[1] = boot.ts
    /\ Scanning(2) =>
         /\ \A e \in boot.todo : e[1] = 0
         /\ \A b \in disk.blocks : ~ToCome(b) => b \in DOMAIN disk.id2ts
         /\ boot.half => <<boot.ts, Here[2]>> \in disk.byTime /\ Here[2] \notin DOMAIN disk.id2ts

AddrsOf(b) == {<<a, disk.id2ts[b], b>> : a \in Addresses(b)}
TypedOf(b) == {<<x, disk.id2ts[b], b>> : x \in NewTyped[b]}
StaleOf(b) == {<<x, disk.id2ts[b], b>> : x \in AsTransfer(b)}

\* An index has every block the scan has left behind, and nothing foreign.
AddrsInv ==
    LET B == disk.blocks
    IN  /\ disk.ver < 3 => disk.addrs = {}
        /\ disk.ver >= 3 => disk.addrs \subseteq UNION {AddrsOf(b) : b \in B}
        /\ disk.ver >= 4 => UNION {AddrsOf(b) : b \in B} \subseteq disk.addrs
        /\ Scanning(3) => /\ boot.todo \subseteq disk.byTime
                          /\ \A e \in disk.byTime \ boot.todo : AddrsOf(e[2]) \subseteq disk.addrs

TypedInv ==
    LET B == disk.blocks
    IN  /\ disk.ver < 4 => disk.typed = {}
        /\ disk.ver = 4 => disk.typed \subseteq UNION {TypedOf(b) : b \in B}
        /\ disk.ver >= 6 => disk.typed \subseteq (UNION {TypedOf(b) : b \in B}) \cup keptEntries
        /\ disk.ver = 5 => /\ disk.typed \subseteq UNION {TypedOf(b) \cup StaleOf(b) : b \in B}
                           /\ \A b \in B : FeeOnly(b) = {} => TypedOf(b) \subseteq disk.typed
        /\ disk.ver >= 6 => UNION {TypedOf(b) : b \in B} \subseteq disk.typed
        /\ Scanning(4) => /\ boot.todo \subseteq disk.byTime
                          /\ \A e \in disk.byTime \ boot.todo : TypedOf(e[2]) \subseteq disk.typed
        /\ Scanning(5) => /\ boot.todo \subseteq disk.byTime
                          /\ boot.half => TypedOf(Here[2]) \subseteq disk.typed
                          /\ \A e \in disk.byTime \ boot.todo :
                                /\ TypedOf(e[2]) \subseteq disk.typed
                                /\ StaleOf(e[2]) \cap disk.typed \subseteq keptEntries

SchemaInv == StoreTypes /\ BootTypes /\ PhaseInv /\ TipsInv /\ TimeInv /\ AddrsInv /\ TypedInv
=============================================================================
