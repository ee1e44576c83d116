--------------------------- MODULE AssetRegistry ---------------------------
(***************************************************************************)
(* The registries of one ledger that the persist arms write directly to    *)
(* RocksDB, before the block itself is deduplicated and inserted: tokens,  *)
(* SFT classes and their collections, royalty policies, frozen addresses   *)
(* and the coordinator's key history; with the HTTP handlers in front.     *)
(*                                                                         *)
(* A call is one handler, or one block that arrives a second time after it *)
(* was pruned from memory (Resubmit).  One step is one access to shared    *)
(* state.  The server's own wallet signs every forged block; after a key   *)
(* rotation it is the old key until the process restarts with the new one. *)
(***************************************************************************)
EXTENDS Integers, Sequences, FiniteSets, SequencesExt

CONSTANTS
    TokenId, ClassId,   \* asset ids of the two registries
    CollOf,             \* the collection of a class
    Who,                \* addresses
    RegKey, BootKey,    \* coordinator keys, the one of the configuration
    RegRequest,         \* what clients ask
    Absent,             \* a missing registry entry, a field left out
    FullBps,            \* 10_000 basis points
    GraceWindow,        \* grace_window_seconds
    RegCall,            \* concurrent calls
    MaxRegCalls, MaxRegTroubles, MaxRegNow, MaxRegPruned  \* bounds;
                        \* troubles: exits and failed accesses to RocksDB

Asset == TokenId \cup ClassId
Nobody == "nobody"

\* What the registries keep of an asset, and what a client asks for: a
\* creation, a new royalty, a freeze, a rotation.
RegMeta == [creator : Who, beneficiary : Who \cup {Nobody}, bps : Nat, version : Nat, wellFormed : BOOLEAN]
Creation == [op : {"token"}, asset : TokenId, meta : RegMeta] \cup [op : {"class"}, asset : ClassId, meta : RegMeta]
AskedRoyalty == [op : {"royalty"}, asset : Asset, by : Who,
                 bps : Nat \cup {Absent}, beneficiary : Who \cup {Nobody, Absent}]
Freezing == [op : {"freeze", "unfreeze"}, address : Who]
Rotation == [op : {"rotate"}, old : RegKey, new : RegKey]

ASSUME RegAssumption ==
    /\ TokenId \cap ClassId = {} /\ Nobody \notin Who /\ Absent \notin RegMeta
    /\ BootKey \in RegKey /\ FullBps \in Nat /\ GraceWindow \in Nat
    /\ {MaxRegCalls, MaxRegTroubles, MaxRegNow, MaxRegPruned} \subseteq Nat
    /\ RegRequest \subseteq Creation \cup AskedRoyalty \cup Freezing \cup Rotation

VARIABLES
    metaDb,              \* token_registry and sft_classes
    collDb, collRam,     \* sft_collections, claimed_collections
    frozenDb, frozenRam, \* compliance_frozen, frozen_set
    complianceLock,      \* AppState.compliance_lock: the call that holds it
    keyDb, keyRam,       \* coordinator_key_history and its cache
    keyUnread,           \* the cache missed the last list: a read failed
    keyLoose,            \* a rotation recorded meanwhile, or at a time not the latest
    nodeKey, regNow,
    regPc, regReq, regSig, regSnap,
    regAt,               \* the time a call read when it passed the gate
    regDag, regPruned,   \* request and signer of the blocks in memory, pruned
    answered,            \* creations answered with success
    royaltyUses,         \* signed royalty authorizations that were applied
    regRaced,            \* assets, addresses and keys two calls overlapped on
    regCalls, regTroubles

regDb    == <<metaDb, collDb, frozenDb, keyDb>>
keyRing  == <<keyRam, keyUnread, keyLoose, nodeKey>>
regRam   == <<collRam, frozenRam, complianceLock, keyRing>>
regRead  == <<regSnap, regAt>>
regLocal == <<regPc, regReq, regSig, regRead>>
regGhost == <<regDag, regPruned, answered, royaltyUses, regRaced>>
regBound == <<regNow, regCalls, regTroubles>>
regVars  == <<regDb, regRam, regLocal, regGhost, regBound>>

RegInit ==
    /\ metaDb = [a \in Asset |-> Absent]
    /\ collDb = [k \in {CollOf[c] : c \in ClassId} |-> Nobody]
    /\ collRam = collDb
    /\ frozenDb = {} /\ frozenRam = {}
    /\ complianceLock = Nobody
    /\ keyDb = <<>> /\ keyRam = <<>>
    /\ keyUnread = FALSE /\ keyLoose = FALSE
    /\ nodeKey = BootKey /\ regNow = 0
    /\ regPc = [c \in RegCall |-> "idle"]
    /\ regReq = [c \in RegCall |-> Absent]
    /\ regSig = [c \in RegCall |-> BootKey]
    /\ regSnap = [c \in RegCall |-> Absent] /\ regAt = [c \in RegCall |-> 0]
    /\ regDag = {} /\ regPruned = {} /\ answered = {} /\ royaltyUses = [u \in {} |-> 0]
    /\ regRaced = {} /\ regCalls = 0 /\ regTroubles = 0

-----------------------------------------------------------------------------
(* Keys: KeyRotationState, single_writer_gate, validate_payload_authority. *)

CurrentPk(hist) == IF hist = <<>> THEN BootKey ELSE Last(hist).new

OldKeyInGrace(r) == r.grace > 0 /\ regNow - r.at \in 0..(r.grace - 1)

AcceptedSignerKeys(hist) ==
    {CurrentPk(hist)} \cup {hist[i].old : i \in {j \in 1..Len(hist) : OldKeyInGrace(hist[j])}}

\* The coordinator's own payloads need the current key, not one in grace.
CoordinatorOnly(r) == r.op # "royalty"

Gate(r, signer) ==
    /\ signer \in AcceptedSignerKeys(keyRam)
    /\ CoordinatorOnly(r) => signer = CurrentPk(keyRam)

-----------------------------------------------------------------------------
(* Field checks.                                                           *)

ValidRoyaltyFields(bps, beneficiary) ==
    /\ bps <= FullBps
    /\ bps > 0 => beneficiary # Nobody

\* validate_token_metadata, and the checks of the SftClassCreate arm.
ValidMetadata(m) == m.wellFormed /\ ValidRoyaltyFields(m.bps, m.beneficiary)

\* The address whose key may change the royalty: the beneficiary, or the
\* creator when there is none.
Authorizer(m) == IF m.beneficiary # Nobody THEN m.beneficiary ELSE m.creator

\* resolve_new_policy: a field that the request leaves out keeps its value.
NewPolicy(m, r) ==
    [bps |-> IF r.bps = Absent THEN m.bps ELSE r.bps,
     beneficiary |-> IF r.beneficiary = Absent THEN m.beneficiary ELSE r.beneficiary]

-----------------------------------------------------------------------------
Scope(r) == CASE r.op \in {"token", "class", "royalty"} -> {r.asset}
              [] r.op \in {"freeze", "unfreeze"} -> {r.address}
              [] OTHER -> RegKey

RegInFlight == {c \in RegCall : regPc[c] # "idle"}

StartSigned(c, r, signer, pc) ==
    /\ regPc[c] = "idle" /\ regCalls < MaxRegCalls
    /\ regCalls' = regCalls + 1
    /\ regPc' = [regPc EXCEPT ![c] = pc]
    /\ regReq' = [regReq EXCEPT ![c] = r]
    /\ regSig' = [regSig EXCEPT ![c] = signer]
    /\ regSnap' = [regSnap EXCEPT ![c] = Absent]
    /\ regAt' = [regAt EXCEPT ![c] = 0]
    /\ UNCHANGED <<regDb, regRam, regDag, regPruned, answered, royaltyUses, regNow, regTroubles>>

Start(c, r, pc) == StartSigned(c, r, nodeKey, pc)

Overlap(r) ==
    regRaced' = regRaced \cup UNION {Scope(r) \cap Scope(regReq[d]) : d \in RegInFlight}

End(c) ==
    /\ regPc' = [regPc EXCEPT ![c] = "idle"]
    /\ regReq' = [regReq EXCEPT ![c] = Absent]
    /\ regSnap' = [regSnap EXCEPT ![c] = Absent]
    /\ regAt' = [regAt EXCEPT ![c] = 0]
    /\ complianceLock' = IF complianceLock = c THEN Nobody ELSE complianceLock
    /\ UNCHANGED regSig

Goto(c, pc) == regPc' = [regPc EXCEPT ![c] = pc]

\* create_token_custodial and admin_create_token look the id up, then call
\* register_token, which looks it up again; the block comes afterwards and
\* the token stays registered when the block is refused.
CreateToken(c, r) ==
    /\ r.op = "token" /\ metaDb[r.asset] = Absent
    /\ Start(c, r, "register") /\ Overlap(r)

RegisterToken(c) ==
    /\ regPc[c] = "register"
    /\ IF ValidMetadata(regReq[c].meta) /\ metaDb[regReq[c].asset] = Absent
       THEN Goto(c, "putToken") /\ UNCHANGED <<regReq, regSig, regRead, complianceLock>>
       ELSE End(c)
    /\ UNCHANGED <<regDb, collRam, frozenRam, keyRing, regGhost, regBound>>

PutToken(c) ==
    /\ regPc[c] = "putToken"
    /\ metaDb' = [metaDb EXCEPT ![regReq[c].asset] = regReq[c].meta]
    /\ answered' = answered \cup {<<regReq[c].asset, regReq[c].meta.creator>>}
    /\ regDag' = IF Gate(regReq[c], regSig[c]) THEN regDag \cup {<<regReq[c], regSig[c]>>} ELSE regDag
    /\ End(c)
    /\ UNCHANGED <<collDb, frozenDb, keyDb, collRam, frozenRam, keyRing,
                   regPruned, royaltyUses, regRaced, regBound>>

\* admin_create_sft_class and create_sft_class_custodial only forge a block.
CreateClass(c, r) ==
    /\ r.op = "class" /\ Start(c, r, "gate") /\ Overlap(r)

\* royalty_prepare and royalty_update: the handler resolves the new policy and the
\* version that the authorizer signs; the server checks a key it is given.
RoyaltyUpdate(c, r) ==
    /\ r.op = "royalty" /\ metaDb[r.asset] # Absent
    /\ LET m == metaDb[r.asset]
           p == NewPolicy(m, r)
           signed == [op |-> "royalty", asset |-> r.asset, bps |-> p.bps,
                      beneficiary |-> p.beneficiary, by |-> r.by, version |-> m.version]
       IN /\ ValidRoyaltyFields(p.bps, p.beneficiary)
          /\ Authorizer(m) = r.by
          /\ Start(c, signed, "gate") /\ Overlap(signed)

\* admin_freeze and admin_unfreeze take compliance_lock for the whole call.
Freeze(c, r) ==
    /\ r.op \in {"freeze", "unfreeze"}
    /\ Start(c, r, "lock") /\ Overlap(r)

TakeComplianceLock(c) ==
    /\ regPc[c] = "lock" /\ complianceLock = Nobody
    /\ IF (regReq[c].address \in frozenRam) = (regReq[c].op = "freeze")
       THEN End(c)
       ELSE /\ complianceLock' = c
            /\ Goto(c, "gate") /\ UNCHANGED <<regReq, regSig, regRead>>
    /\ UNCHANGED <<regDb, collRam, frozenRam, keyRing, regGhost, regBound>>

RotateKey(c, r) ==
    /\ r.op = "rotate" /\ Start(c, r, "gate") /\ Overlap(r)

\* A block arrives again (a peer, a client retry).  In memory it is answered
\* AlreadyExists before any arm runs; pruned from memory it is new again.
Resubmit(c, p) ==
    /\ p \in regPruned /\ p[1].op # "token"
    /\ StartSigned(c, p[1], p[2], "gate") /\ Overlap(p[1])

PruneReg(p) ==
    /\ p \in regDag /\ Cardinality(regPruned) < MaxRegPruned
    /\ regDag' = regDag \ {p}
    /\ regPruned' = regPruned \cup {p}
    /\ UNCHANGED <<regDb, regRam, regLocal, answered, royaltyUses, regRaced, regBound>>

FirstStep == [class |-> "owner", royalty |-> "resolve", freeze |-> "guard",
              unfreeze |-> "guard", rotate |-> "rotate", token |-> "insert"]

\* A rotation carries the time of this step (now_ms_for_signers).
PassGate(c) ==
    /\ regPc[c] = "gate"
    /\ IF Gate(regReq[c], regSig[c])
       THEN /\ Goto(c, FirstStep[regReq[c].op])
            /\ regAt' = IF regReq[c].op = "rotate" THEN [regAt EXCEPT ![c] = regNow] ELSE regAt
            /\ UNCHANGED <<regReq, regSig, regSnap, complianceLock>>
       ELSE End(c)
    /\ UNCHANGED <<regDb, collRam, frozenRam, keyRing, regGhost, regBound>>

\* The arm is through: the block enters the DAG, or is found there.
Insert(c) ==
    /\ regPc[c] = "insert"
    /\ regDag' = regDag \cup {<<regReq[c], regSig[c]>>}
    /\ answered' = IF regReq[c].op = "class"
                   THEN answered \cup {<<regReq[c].asset, regReq[c].meta.creator>>} ELSE answered
    /\ End(c)
    /\ UNCHANGED <<regDb, collRam, frozenRam, keyRing, regPruned, royaltyUses, regRaced, regBound>>

-----------------------------------------------------------------------------
(* The SftClassCreate arm.                                                 *)

Coll(c) == CollOf[regReq[c].asset]
Creator(c) == regReq[c].meta.creator

CollectionOwner(c) ==
    /\ regPc[c] = "owner"
    /\ LET owner == collDb[Coll(c)] IN
       CASE ~ValidMetadata(regReq[c].meta) \/ owner \notin {Nobody, Creator(c)} -> End(c)
         [] ValidMetadata(regReq[c].meta) /\ owner = Nobody ->
              Goto(c, "claim") /\ UNCHANGED <<regReq, regSig, regRead, complianceLock>>
         [] ValidMetadata(regReq[c].meta) /\ owner = Creator(c) ->
              Goto(c, "classCheck") /\ UNCHANGED <<regReq, regSig, regRead, complianceLock>>
    /\ UNCHANGED <<regDb, collRam, frozenRam, keyRing, regGhost, regBound>>

\* Mutant of TryClaimCollection: the claim is overwritten, not tested.
ClaimCollectionAlways(c) ==
    /\ regPc[c] = "claim"
    /\ collRam' = [collRam EXCEPT ![Coll(c)] = Creator(c)]
    /\ Goto(c, "putOwner")
    /\ UNCHANGED <<regDb, frozenRam, complianceLock, keyRing, regReq, regSig, regRead,
                   regGhost, regBound>>

\* try_claim_collection is one atomic entry of a DashMap.
TryClaimCollection(c) ==
    /\ regPc[c] = "claim"
    /\ IF collRam[Coll(c)] \in {Nobody, Creator(c)}
       THEN /\ collRam' = [collRam EXCEPT ![Coll(c)] = Creator(c)]
            /\ Goto(c, "putOwner") /\ UNCHANGED <<regReq, regSig, regRead, complianceLock>>
       ELSE End(c) /\ UNCHANGED collRam
    /\ UNCHANGED <<regDb, frozenRam, keyRing, regGhost, regBound>>

PutCollectionOwner(c) ==
    /\ regPc[c] = "putOwner"
    /\ collDb' = [collDb EXCEPT ![Coll(c)] = Creator(c)]
    /\ Goto(c, "classCheck")
    /\ UNCHANGED <<metaDb, frozenDb, keyDb, regRam, regReq, regSig, regRead, regGhost, regBound>>

ClassIsNew(c) ==
    /\ regPc[c] = "classCheck"
    /\ IF metaDb[regReq[c].asset] = Absent
       THEN Goto(c, "putClass") /\ UNCHANGED <<regReq, regSig, regRead, complianceLock>>
       ELSE End(c)
    /\ UNCHANGED <<regDb, collRam, frozenRam, keyRing, regGhost, regBound>>

PutSftClass(c) ==
    /\ regPc[c] = "putClass"
    /\ metaDb' = [metaDb EXCEPT ![regReq[c].asset] = regReq[c].meta]
    /\ Goto(c, "insert")
    /\ UNCHANGED <<collDb, frozenDb, keyDb, regRam, regReq, regSig, regRead, regGhost, regBound>>

-----------------------------------------------------------------------------
(* The RoyaltyUpdate arm: the signature covers the version in the registry *)
(* when it is checked; the write comes later and stores that version + 1.  *)

ResolveRoyalty(c) ==
    /\ regPc[c] = "resolve"
    /\ LET m == metaDb[regReq[c].asset] IN
       IF /\ m # Absent
          /\ ValidRoyaltyFields(regReq[c].bps, regReq[c].beneficiary)
          /\ m.version = regReq[c].version
          /\ Authorizer(m) = regReq[c].by
       THEN /\ Goto(c, "putRoyalty")
            /\ regSnap' = [regSnap EXCEPT ![c] = m]
            /\ UNCHANGED <<regReq, regSig, regAt, complianceLock>>
       ELSE End(c)
    /\ UNCHANGED <<regDb, collRam, frozenRam, keyRing, regGhost, regBound>>

\* Mutant of PutRoyalty: the version stays, so the signature is good again.
PutRoyaltyKeepsVersion(c) ==
    /\ regPc[c] = "putRoyalty"
    /\ metaDb' = [metaDb EXCEPT ![regReq[c].asset] =
         [@ EXCEPT !.bps = regReq[c].bps, !.beneficiary = regReq[c].beneficiary]]
    /\ royaltyUses' =
         [u \in DOMAIN royaltyUses \cup {regReq[c]} |->
            (IF u \in DOMAIN royaltyUses THEN royaltyUses[u] ELSE 0)
            + (IF u = regReq[c] THEN 1 ELSE 0)]
    /\ Goto(c, "insert")
    /\ UNCHANGED <<collDb, frozenDb, keyDb, regRam, regReq, regSig, regRead,
                   regDag, regPruned, answered, regRaced, regBound>>

PutRoyalty(c) ==
    /\ regPc[c] = "putRoyalty"
    /\ metaDb' = [metaDb EXCEPT ![regReq[c].asset] =
         [@ EXCEPT !.bps = regReq[c].bps, !.beneficiary = regReq[c].beneficiary,
                   !.version = regSnap[c].version + 1]]
    /\ royaltyUses' =
         [u \in DOMAIN royaltyUses \cup {regReq[c]} |->
            (IF u \in DOMAIN royaltyUses THEN royaltyUses[u] ELSE 0)
            + (IF u = regReq[c] THEN 1 ELSE 0)]
    /\ Goto(c, "insert")
    /\ UNCHANGED <<collDb, frozenDb, keyDb, regRam, regReq, regSig, regRead,
                   regDag, regPruned, answered, regRaced, regBound>>

-----------------------------------------------------------------------------
(* freeze_address and unfreeze_address: the set in memory is tested, the   *)
(* column family is written, then the set.                                 *)

FrozenGuard(c) ==
    /\ regPc[c] = "guard"
    /\ IF (regReq[c].address \in frozenRam) = (regReq[c].op = "freeze")
       THEN End(c)
       ELSE Goto(c, "frozenDb") /\ UNCHANGED <<regReq, regSig, regRead, complianceLock>>
    /\ UNCHANGED <<regDb, collRam, frozenRam, keyRing, regGhost, regBound>>

PutFrozen(c) ==
    /\ regPc[c] = "frozenDb"
    /\ frozenDb' = IF regReq[c].op = "freeze" THEN frozenDb \cup {regReq[c].address}
                                              ELSE frozenDb \ {regReq[c].address}
    /\ Goto(c, "frozenRam")
    /\ UNCHANGED <<metaDb, collDb, keyDb, regRam, regReq, regSig, regRead, regGhost, regBound>>

\* Mutant of CacheFrozen: an unfreeze never reaches the set in memory.
CacheFrozenOnlyAdds(c) ==
    /\ regPc[c] = "frozenRam"
    /\ frozenRam' = IF regReq[c].op = "freeze" THEN frozenRam \cup {regReq[c].address} ELSE frozenRam
    /\ Goto(c, "insert")
    /\ UNCHANGED <<metaDb, collDb, frozenDb, keyDb, collRam, complianceLock, keyRing,
                   regReq, regSig, regRead, regGhost, regBound>>

CacheFrozen(c) ==
    /\ regPc[c] = "frozenRam"
    /\ frozenRam' = IF regReq[c].op = "freeze" THEN frozenRam \cup {regReq[c].address}
                                               ELSE frozenRam \ {regReq[c].address}
    /\ Goto(c, "insert")
    /\ UNCHANGED <<metaDb, collDb, frozenDb, keyDb, collRam, complianceLock, keyRing,
                   regReq, regSig, regRead, regGhost, regBound>>

-----------------------------------------------------------------------------
(* The CoordinatorKeyRotate arm.                                           *)

\* Mutant of CheckRotation: old_pubkey is not compared with the current key.
CheckRotationSigner(c) ==
    /\ regPc[c] = "rotate"
    /\ IF regSig[c] = CurrentPk(keyRam) /\ regReq[c].new # regReq[c].old
       THEN Goto(c, "putRotation") /\ UNCHANGED <<regReq, regSig, regRead, complianceLock>>
       ELSE End(c)
    /\ UNCHANGED <<regDb, collRam, frozenRam, keyRing, regGhost, regBound>>

CheckRotation(c) ==
    /\ regPc[c] = "rotate"
    /\ LET r == regReq[c] IN
       IF regSig[c] = CurrentPk(keyRam) /\ r.old = CurrentPk(keyRam) /\ r.new # r.old
       THEN Goto(c, "putRotation") /\ UNCHANGED <<regReq, regSig, regRead, complianceLock>>
       ELSE End(c)
    /\ UNCHANGED <<regDb, collRam, frozenRam, keyRing, regGhost, regBound>>

\* The keys of coordinator_key_history are the time and the block id, which is
\* a hash: among equal times a rotation lands anywhere.  A block that is there
\* already, with the same time, is not written again.
RotationRecord(c) == [old |-> regReq[c].old, new |-> regReq[c].new,
                      at |-> regAt[c], grace |-> GraceWindow]
InTimeOrder(hist, i, r) ==
    \A j \in 1..Len(hist) : IF j < i THEN hist[j].at <= r.at ELSE hist[j].at >= r.at
Latest(hist, r) == \A j \in 1..Len(hist) : hist[j].at < r.at

RecordKeyRotation(c) ==
    /\ regPc[c] = "putRotation"
    /\ \/ \E i \in 1..Len(keyDb) + 1 :
             InTimeOrder(keyDb, i, RotationRecord(c)) /\ keyDb' = InsertAt(keyDb, i, RotationRecord(c))
       \/ (\E j \in 1..Len(keyDb) : keyDb[j] = RotationRecord(c)) /\ UNCHANGED keyDb
    /\ keyLoose' = (keyLoose \/ keyUnread \/ ~Latest(keyDb, RotationRecord(c)))
    /\ Goto(c, "refresh")
    /\ UNCHANGED <<metaDb, collDb, frozenDb, collRam, frozenRam, complianceLock, keyRam, keyUnread,
                   nodeKey, regReq, regSig, regRead, regGhost, regBound>>

\* refresh_key_rotation_state lists the history, then takes the write lock; a
\* list that fails is only logged.
ListKeyRotations(c) ==
    /\ regPc[c] = "refresh"
    /\ regSnap' = [regSnap EXCEPT ![c] = keyDb]
    /\ Goto(c, "cacheKeys")
    /\ UNCHANGED <<regDb, regRam, regReq, regSig, regAt, regGhost, regBound>>

KeyListFails(c) ==
    /\ regPc[c] = "refresh"
    /\ regTroubles < MaxRegTroubles /\ regTroubles' = regTroubles + 1
    /\ keyUnread' = TRUE
    /\ Goto(c, "insert")
    /\ UNCHANGED <<regDb, collRam, frozenRam, complianceLock, keyRam, keyLoose, nodeKey,
                   regReq, regSig, regRead, regGhost, regNow, regCalls>>

RefreshKeyRotationState(c) ==
    /\ regPc[c] = "cacheKeys"
    /\ keyRam' = regSnap[c] /\ keyUnread' = FALSE
    /\ Goto(c, "insert")
    /\ UNCHANGED <<regDb, collRam, frozenRam, complianceLock, keyLoose, nodeKey,
                   regReq, regSig, regRead, regGhost, regBound>>

-----------------------------------------------------------------------------
\* An access to RocksDB fails: the handler or the arm answers the error, the
\* block is not inserted, and what was written before stays.
AtStore == {"register", "putToken", "gate", "owner", "putOwner", "classCheck", "putClass", "resolve",
            "putRoyalty", "frozenDb", "putRotation", "insert"}
AccessFails(c) ==
    /\ regPc[c] \in AtStore
    /\ regTroubles < MaxRegTroubles /\ regTroubles' = regTroubles + 1
    /\ End(c)
    /\ UNCHANGED <<regDb, collRam, frozenRam, keyRing, regGhost, regNow, regCalls>>

\* log_compliance_action fails at the end of freeze_address: the address is
\* frozen, the block is rejected.  That of an unfreeze is only logged.
FreezeUnlogged(c) ==
    /\ regPc[c] = "frozenRam" /\ regReq[c].op = "freeze"
    /\ regTroubles < MaxRegTroubles /\ regTroubles' = regTroubles + 1
    /\ frozenRam' = frozenRam \cup {regReq[c].address}
    /\ End(c)
    /\ UNCHANGED <<regDb, collRam, keyRing, regGhost, regNow, regCalls>>

\* The process stops at any point and starts again: the sets in memory are
\* rebuilt from RocksDB, the claims are empty, and the operator has installed
\* the current key.  A key history that cannot be read is taken for empty.  A
\* block lost before it was stored is unknown to the window from then on, like
\* one that PruneReg removes.
Restart ==
    /\ regTroubles < MaxRegTroubles /\ regTroubles' = regTroubles + 1
    /\ keyUnread' \in BOOLEAN /\ keyRam' = IF keyUnread' THEN <<>> ELSE keyDb
    /\ regPc' = [c \in RegCall |-> "idle"]
    /\ regReq' = [c \in RegCall |-> Absent]
    /\ regSnap' = [c \in RegCall |-> Absent]
    /\ regAt' = [c \in RegCall |-> 0]
    /\ UNCHANGED regSig
    /\ collRam' = [k \in DOMAIN collRam |-> Nobody]
    /\ frozenRam' = frozenDb
    /\ complianceLock' = Nobody
    /\ nodeKey' = CurrentPk(keyDb)
    /\ UNCHANGED <<regDb, keyLoose, regGhost, regNow, regCalls>>

\* SystemTime::now may be set back.
TickReg ==
    /\ regNow' \in 0..MaxRegNow /\ regNow' # regNow
    /\ UNCHANGED <<regDb, regRam, regLocal, regGhost, regCalls, regTroubles>>

RegWorks ==
    \/ \E c \in RegCall :
         \/ \E r \in RegRequest :
              \/ CreateToken(c, r) \/ CreateClass(c, r) \/ RoyaltyUpdate(c, r)
              \/ Freeze(c, r) \/ RotateKey(c, r)
         \/ \E p \in regPruned : Resubmit(c, p)
         \/ RegisterToken(c) \/ PutToken(c) \/ TakeComplianceLock(c) \/ PassGate(c) \/ Insert(c)
         \/ CollectionOwner(c) \/ TryClaimCollection(c) \/ PutCollectionOwner(c)
         \/ ClassIsNew(c) \/ PutSftClass(c)
         \/ ResolveRoyalty(c) \/ PutRoyalty(c)
         \/ FrozenGuard(c) \/ PutFrozen(c) \/ CacheFrozen(c)
         \/ CheckRotation(c) \/ RecordKeyRotation(c)
         \/ ListKeyRotations(c) \/ RefreshKeyRotationState(c)
    \/ \E p \in regDag : PruneReg(p)

RegTrouble ==
    \/ \E c \in RegCall : AccessFails(c) \/ FreezeUnlogged(c) \/ KeyListFails(c)
    \/ Restart

RegNext == RegWorks \/ TickReg \/ RegTrouble

RegSpec == RegInit /\ [][RegNext]_regVars

-----------------------------------------------------------------------------
\* The classes of a collection have one creator, the owner of the collection,
\* whatever the interleaving of creations and process exits: the lookup, the
\* claim in memory and the write are three steps (persist.rs 1178-1215).
CollectionHasOneOwner ==
    \A k \in ClassId : metaDb[k] # Absent => metaDb[k].creator = collDb[CollOf[k]]

\* A creation answered with success is the one in the registry, and a signed
\* royalty authorization is applied once, however often its block arrives,
\* for every asset on which no two calls overlapped.
AssetAnswersHold ==
    /\ \A p \in answered : p[1] \notin regRaced => /\ metaDb[p[1]] # Absent
                                                   /\ metaDb[p[1]].creator = p[2]
    /\ \A u \in DOMAIN royaltyUses : u.asset \notin regRaced => royaltyUses[u] = 1

\* The set of frozen addresses in memory and the column family agree on every
\* address that no compliance block is changing: what is enforced is what a
\* restart restores.  compliance_lock serialises the two admin handlers.
FrozenMirrored ==
    \A w \in Who : (w \in frozenRam /\ w \notin frozenDb) \/ (w \in frozenDb /\ w \notin frozenRam)
        => w \in regRaced \/ \E c \in RegInFlight : w \in Scope(regReq[c])

\* The key history is a chain from the configured key, unless two rotations
\* overlapped, one was recorded at a time not later than the others', or the
\* cache had missed one; the gate asks the stored history, unless two rotations
\* overlapped, the last list failed or one is being cached.
KeyHistoryChains ==
    RegKey \cap regRaced = {} =>
        /\ ~keyLoose => \A i \in 1..Len(keyDb) : keyDb[i].old = CurrentPk(SubSeq(keyDb, 1, i - 1))
        /\ \/ keyRam = keyDb \/ keyUnread
           \/ \E c \in RegInFlight : regPc[c] \in {"refresh", "cacheKeys"}

\* What the registries promise, together: an answer given stands, the frozen
\* addresses in memory are the stored ones, and the keys form one chain,
\* through restarts and overlapping calls on other assets.
RegistriesHold == AssetAnswersHold /\ FrozenMirrored /\ KeyHistoryChains

-----------------------------------------------------------------------------
(* Inductive strengthenings, for the proofs.                               *)

Colls == {CollOf[k] : k \in ClassId}
SignedRoyalty == [op : {"royalty"}, asset : Asset, bps : Nat, beneficiary : Who \cup {Nobody},
                  by : Who, version : Nat]
InBlock == Creation \cup SignedRoyalty \cup Freezing \cup Rotation
KeyRecord == [old : RegKey, new : RegKey, at : Nat, grace : Nat]

\* The steps of a call, by what it asks.
StepsOf == [
    token    |-> {"register", "putToken"},
    class    |-> {"gate", "owner", "claim", "putOwner", "classCheck", "putClass", "insert"},
    royalty  |-> {"gate", "resolve", "putRoyalty", "insert"},
    freeze   |-> {"lock", "gate", "guard", "frozenDb", "frozenRam", "insert"},
    unfreeze |-> {"lock", "gate", "guard", "frozenDb", "frozenRam", "insert"},
    rotate   |-> {"gate", "rotate", "putRotation", "refresh", "cacheKeys", "insert"}]

RegPc == {"idle", "register", "putToken", "gate", "owner", "claim", "putOwner", "classCheck", "putClass",
          "insert", "resolve", "putRoyalty", "lock", "guard", "frozenDb", "frozenRam", "rotate",
          "putRotation", "refresh", "cacheKeys"}

RegStoreTypes ==
    /\ metaDb \in [Asset -> RegMeta \cup {Absent}]
    /\ {collDb, collRam} \subseteq [Colls -> Who \cup {Nobody}]
    /\ {keyDb, keyRam} \subseteq Seq(KeyRecord) /\ regNow \in Nat
    /\ \A p \in regDag \cup regPruned : p[1] \in InBlock
    /\ \A p \in answered : p[1] \in Asset
    /\ DOMAIN royaltyUses \subseteq SignedRoyalty
RegCallTypes ==
    /\ regPc \in [RegCall -> RegPc]
    /\ DOMAIN regReq = RegCall /\ DOMAIN regSnap = RegCall /\ regAt \in [RegCall -> Nat]
    /\ \A c \in RegInFlight : regReq[c] \in InBlock /\ regPc[c] \in StepsOf[regReq[c].op]
    /\ \A c \in RegCall :
         /\ regPc[c] = "putRoyalty" => regSnap[c] \in RegMeta
         /\ regPc[c] = "cacheKeys" => regSnap[c] \in Seq(KeyRecord)
RegTypes == RegStoreTypes /\ RegCallTypes

\* A call that waits to claim a collection with an owner will be refused; one
\* that claimed it keeps others out; one past it has read the owner.
OwnerKnown(c) ==
    /\ regPc[c] = "claim" /\ collDb[Coll(c)] # Nobody => collRam[Coll(c)] = collDb[Coll(c)]
    /\ regPc[c] = "putOwner" => collRam[Coll(c)] = Creator(c) /\ collDb[Coll(c)] \in {Nobody, Creator(c)}
    /\ regPc[c] \in {"classCheck", "putClass"} => collDb[Coll(c)] = Creator(c)
RoyaltyHasAsset(c) == regPc[c] = "putRoyalty" => metaDb[regReq[c].asset] # Absent
OwnerInv == CollectionHasOneOwner /\ \A c \in RegCall : OwnerKnown(c) /\ RoyaltyHasAsset(c)

\* Two calls meet on what was raced only.
Apart == \A c, d \in RegInFlight : c # d => Scope(regReq[c]) \cap Scope(regReq[d]) \subseteq regRaced

\* What a call alone on its asset, its address or the keys has found there
\* is still so when it writes.
AnswerKnown(c) ==
    LET a == regReq[c].asset
    IN a \notin regRaced =>
         /\ regPc[c] \in {"putToken", "putClass"} => metaDb[a] = Absent
         /\ regPc[c] = "insert" /\ regReq[c].op = "class" => metaDb[a] # Absent /\ metaDb[a].creator = Creator(c)
         /\ regPc[c] = "putRoyalty" => regSnap[c] = metaDb[a] /\ metaDb[a].version = regReq[c].version
AnswerInv ==
    /\ \A c \in RegInFlight : regReq[c].op \in {"token", "class", "royalty"} => AnswerKnown(c)
    /\ \A p \in answered : p[1] \notin regRaced => metaDb[p[1]] # Absent /\ metaDb[p[1]].creator = p[2]
    /\ \A u \in DOMAIN royaltyUses : u.asset \notin regRaced =>
         metaDb[u.asset] # Absent /\ metaDb[u.asset].version > u.version /\ royaltyUses[u] = 1

FrozenInv ==
    \A w \in Who \ regRaced :
        /\ \A c \in RegInFlight : regPc[c] = "frozenRam" /\ regReq[c].address = w
             => (w \in frozenDb <=> regReq[c].op = "freeze")
        /\ \/ w \in frozenRam <=> w \in frozenDb
           \/ \E c \in RegInFlight : regPc[c] = "frozenRam" /\ regReq[c].address = w

KeyInv ==
    /\ KeyHistoryChains
    /\ RegKey \cap regRaced = {} => \A c \in RegCall :
         /\ regPc[c] = "putRotation" => regReq[c].old = CurrentPk(keyRam)
         /\ regPc[c] = "cacheKeys" => regSnap[c] = keyDb

RegistryInv == Apart /\ AnswerInv /\ FrozenInv /\ KeyInv
=============================================================================
