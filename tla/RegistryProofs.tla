--------------------------- MODULE RegistryProofs ---------------------------
(***************************************************************************)
(* Theorems about AssetRegistry and NftRegistry, for every set of assets,  *)
(* tokens, addresses, keys, requests, blocks and concurrent calls.         *)
(***************************************************************************)
EXTENDS NftRegistry, AssetRegistry, FiniteSetTheorems, SequenceTheorems, TLAPS

-----------------------------------------------------------------------------
(* Requests and steps.                                                     *)

\* What the gate asks of the key history.
keyCache == <<keyRam, keyUnread, keyLoose>>

USE DEF keyCache, keyRing, regRead

LEMMA RequestFacts ==
    ASSUME NEW r \in InBlock
    PROVE  /\ r.op \in {"token", "class", "royalty", "freeze", "unfreeze", "rotate"}
           /\ r.op \in {"token", "class"} => r.asset \in Asset /\ r.meta \in RegMeta
           /\ r.op = "token" => r.asset \in TokenId
           /\ r.op = "class" => r.asset \in ClassId
           /\ r.op = "royalty" => r \in SignedRoyalty
           /\ r.op \in {"freeze", "unfreeze"} => r.address \in Who
           /\ r.op = "rotate" => r.old \in RegKey /\ r.new \in RegKey
BY DEF InBlock, Creation, SignedRoyalty, Freezing, Rotation, Asset

LEMMA StepFacts ==
    /\ StepsOf["token"] = {"register", "putToken"}
    /\ StepsOf["class"] = {"gate", "owner", "claim", "putOwner", "classCheck", "putClass", "insert"}
    /\ StepsOf["royalty"] = {"gate", "resolve", "putRoyalty", "insert"}
    /\ StepsOf["freeze"] = {"lock", "gate", "guard", "frozenDb", "frozenRam", "insert"}
    /\ StepsOf["unfreeze"] = {"lock", "gate", "guard", "frozenDb", "frozenRam", "insert"}
    /\ StepsOf["rotate"] = {"gate", "rotate", "putRotation", "refresh", "cacheKeys", "insert"}
BY DEF StepsOf

LEMMA FirstStepFacts ==
    /\ FirstStep["class"] = "owner" /\ FirstStep["royalty"] = "resolve" /\ FirstStep["rotate"] = "rotate"
    /\ FirstStep["freeze"] = "guard" /\ FirstStep["unfreeze"] = "guard"
BY DEF FirstStep

\* What a call at one of the steps is doing.
LEMMA StepRequest ==
    ASSUME RegCallTypes, NEW c \in RegCall, regPc[c] # "idle"
    PROVE  /\ c \in RegInFlight /\ regReq[c] \in InBlock
           /\ regPc[c] \in {"register", "putToken"} => regReq[c].op = "token"
           /\ regPc[c] \in {"owner", "claim", "putOwner", "classCheck", "putClass"} => regReq[c].op = "class"
           /\ regPc[c] \in {"resolve", "putRoyalty"} => regReq[c].op = "royalty"
           /\ regPc[c] \in {"lock", "guard", "frozenDb", "frozenRam"} => regReq[c].op \in {"freeze", "unfreeze"}
           /\ regPc[c] \in {"rotate", "putRotation", "refresh", "cacheKeys"} => regReq[c].op = "rotate"
           /\ regPc[c] = "gate" => regReq[c].op \in {"class", "royalty", "freeze", "unfreeze", "rotate"}
           /\ regPc[c] = "insert" => regReq[c].op \in {"class", "royalty", "freeze", "unfreeze", "rotate"}
<1>1. c \in RegInFlight /\ regReq[c] \in InBlock /\ regPc[c] \in StepsOf[regReq[c].op]
  BY DEF RegCallTypes, RegInFlight
<1>2. regReq[c].op \in {"token", "class", "royalty", "freeze", "unfreeze", "rotate"}
  BY <1>1, RequestFacts
<1> QED BY <1>1, <1>2, StepFacts

\* A step of call c leaves the other calls alone.
Moved(c) ==
    /\ regPc' \in [RegCall -> RegPc] /\ DOMAIN regReq' = RegCall /\ DOMAIN regSnap' = RegCall
    /\ regAt' \in [RegCall -> Nat]
    /\ \A d \in RegCall \ {c} : regPc'[d] = regPc[d] /\ regReq'[d] = regReq[d] /\ regSnap'[d] = regSnap[d]
Ended(c) == Moved(c) /\ regPc'[c] = "idle"
WentTo(c, pc) == Moved(c) /\ regPc'[c] = pc /\ regReq'[c] = regReq[c]

LEMMA EndFrame ==
    ASSUME RegCallTypes, NEW c \in RegCall, End(c)
    PROVE  Ended(c)
BY DEF RegCallTypes, End, Ended, Moved, RegPc

LEMMA GotoFrame ==
    ASSUME RegCallTypes, NEW c \in RegCall, NEW pc \in RegPc, Goto(c, pc), UNCHANGED regReq,
           regSnap' = regSnap \/ \E m : regSnap' = [regSnap EXCEPT ![c] = m],
           regAt' = regAt \/ \E n \in Nat : regAt' = [regAt EXCEPT ![c] = n]
    PROVE  WentTo(c, pc)
BY DEF RegCallTypes, Goto, WentTo, Moved

-----------------------------------------------------------------------------
(* The steps, by what they do to the registries.                           *)

\* A call begins.
Begins(c) ==
    \E r \in InBlock : \E pc \in StepsOf[r.op] :
        /\ regPc[c] = "idle" /\ pc \in {"register", "gate", "lock"}
        /\ Moved(c) /\ regPc'[c] = pc /\ regReq'[c] = r /\ Overlap(r)
        /\ UNCHANGED <<regDb, collRam, frozenRam, keyCache, regDag, regPruned, answered, royaltyUses, regNow>>

\* A call reads, and goes on or ends; or its access to the store fails.
Reads(c) ==
    /\ regPc[c] \notin {"idle", "frozenRam", "refresh", "cacheKeys"}
    /\ UNCHANGED <<regDb, collRam, frozenRam, keyCache, regGhost, regNow>>
    /\ \/ Ended(c)
       \/ regPc[c] = "register" /\ WentTo(c, "putToken") /\ metaDb[regReq[c].asset] = Absent
       \/ regPc[c] = "lock" /\ WentTo(c, "gate")
       \/ regPc[c] = "gate" /\ \E pc \in {"owner", "resolve", "guard", "rotate"} :
                                   WentTo(c, pc) /\ pc \in StepsOf[regReq[c].op]
       \/ regPc[c] = "owner" /\ WentTo(c, "claim") /\ collDb[Coll(c)] = Nobody
       \/ regPc[c] = "owner" /\ WentTo(c, "classCheck") /\ collDb[Coll(c)] = Creator(c)
       \/ regPc[c] = "classCheck" /\ WentTo(c, "putClass") /\ metaDb[regReq[c].asset] = Absent
       \/ /\ regPc[c] = "resolve" /\ WentTo(c, "putRoyalty") /\ regSnap'[c] = metaDb[regReq[c].asset]
          /\ metaDb[regReq[c].asset] # Absent /\ metaDb[regReq[c].asset].version = regReq[c].version
       \/ regPc[c] = "guard" /\ WentTo(c, "frozenDb")
       \/ regPc[c] = "rotate" /\ WentTo(c, "putRotation") /\ regReq[c].old = CurrentPk(keyRam)

\* A call claims a collection.
Claims(c) ==
    /\ regPc[c] = "claim" /\ WentTo(c, "putOwner")
    /\ collRam[Coll(c)] \in {Nobody, Creator(c)}
    /\ collRam' = [collRam EXCEPT ![Coll(c)] = Creator(c)]
    /\ UNCHANGED <<regDb, frozenRam, keyCache, regGhost, regNow>>

\* Nothing that the registries depend on changes.
Rests ==
    /\ UNCHANGED <<regDb, collRam, frozenRam, keyCache, regPc, regReq, regRead, answered, royaltyUses, regRaced>>
    /\ regDag' \cup regPruned' = regDag \cup regPruned /\ regNow' \in Nat

LEMMA BeginSteps ==
    ASSUME RegTypes, NEW c \in RegCall, NEW r \in InBlock, NEW signer, NEW pc \in StepsOf[r.op],
           pc \in {"register", "gate", "lock"}, StartSigned(c, r, signer, pc), Overlap(r)
    PROVE  Begins(c)
<1>1. /\ regPc[c] = "idle" /\ regPc' = [regPc EXCEPT ![c] = pc] /\ regReq' = [regReq EXCEPT ![c] = r]
      /\ regSnap' = [regSnap EXCEPT ![c] = Absent] /\ regAt' = [regAt EXCEPT ![c] = 0]
      /\ UNCHANGED <<regDb, collRam, frozenRam, keyCache, regDag, regPruned, answered, royaltyUses, regNow>>
  BY DEF StartSigned, regRam
<1>2. Moved(c) /\ regPc'[c] = pc /\ regReq'[c] = r
  BY <1>1 DEF RegTypes, RegCallTypes, Moved, RegPc
<1> QED BY <1>1, <1>2 DEF Begins

LEMMA AskedBegins ==
    ASSUME RegTypes, NEW c \in RegCall, NEW r \in RegRequest,
           CreateToken(c, r) \/ CreateClass(c, r) \/ RoyaltyUpdate(c, r) \/ Freeze(c, r) \/ RotateKey(c, r)
    PROVE  Begins(c)
<1>1. r \in Creation \cup AskedRoyalty \cup Freezing \cup Rotation
  BY RegAssumption
<1>2. CASE CreateToken(c, r)
  <2>1. r \in InBlock /\ r.op = "token" /\ "register" \in StepsOf[r.op]
    BY <1>1, <1>2, StepFacts DEF CreateToken, InBlock, AskedRoyalty
  <2> QED BY <1>2, <2>1, BeginSteps DEF CreateToken, Start
<1>3. CASE CreateClass(c, r)
  <2>1. r \in InBlock /\ r.op = "class" /\ "gate" \in StepsOf[r.op]
    BY <1>1, <1>3, StepFacts DEF CreateClass, InBlock, AskedRoyalty
  <2> QED BY <1>3, <2>1, BeginSteps DEF CreateClass, Start
<1>4. CASE RoyaltyUpdate(c, r)
  <2> DEFINE m == metaDb[r.asset]
             p == NewPolicy(m, r)
             signed == [op |-> "royalty", asset |-> r.asset, bps |-> p.bps,
                        beneficiary |-> p.beneficiary, by |-> r.by, version |-> m.version]
  <2>1. r.op = "royalty" /\ m # Absent /\ Start(c, signed, "gate") /\ Overlap(signed)
    BY <1>4 DEF RoyaltyUpdate
  <2>2. r \in AskedRoyalty
    BY <1>1, <2>1 DEF Creation, Freezing, Rotation
  <2>3. r.asset \in Asset /\ r.by \in Who /\ r.bps \in Nat \cup {Absent} /\ r.beneficiary \in Who \cup {Nobody, Absent}
    BY <2>2 DEF AskedRoyalty
  <2>4. m \in RegMeta
    BY <2>1, <2>3 DEF RegTypes, RegStoreTypes
  <2>5. m.bps \in Nat /\ m.beneficiary \in Who \cup {Nobody} /\ m.version \in Nat
    BY <2>4 DEF RegMeta
  <2>6. p.bps \in Nat /\ p.beneficiary \in Who \cup {Nobody}
    BY <2>3, <2>5 DEF NewPolicy
  <2>7. signed \in SignedRoyalty
    BY <2>3, <2>5, <2>6 DEF SignedRoyalty
  <2>8. signed.op = "royalty"
    OBVIOUS
  <2> HIDE DEF signed
  <2>9. signed \in InBlock /\ "gate" \in StepsOf[signed.op]
    BY <2>7, <2>8, StepFacts DEF InBlock
  <2> QED BY <2>1, <2>9, BeginSteps DEF Start
<1>5. CASE Freeze(c, r)
  <2>1. r \in InBlock /\ r.op \in {"freeze", "unfreeze"} /\ "lock" \in StepsOf[r.op]
    BY <1>1, <1>5, StepFacts DEF Freeze, InBlock, AskedRoyalty
  <2> QED BY <1>5, <2>1, BeginSteps DEF Freeze, Start
<1>6. CASE RotateKey(c, r)
  <2>1. r \in InBlock /\ r.op = "rotate" /\ "gate" \in StepsOf[r.op]
    BY <1>1, <1>6, StepFacts DEF RotateKey, InBlock, AskedRoyalty
  <2> QED BY <1>6, <2>1, BeginSteps DEF RotateKey, Start
<1> QED BY <1>2, <1>3, <1>4, <1>5, <1>6

LEMMA ResubmitBegins ==
    ASSUME RegTypes, NEW c \in RegCall, NEW p \in regPruned, Resubmit(c, p)
    PROVE  Begins(c)
<1>1. p[1] \in InBlock /\ p[1].op # "token"
  BY DEF RegTypes, RegStoreTypes, Resubmit
<1>2. "gate" \in StepsOf[p[1].op]
  BY <1>1, RequestFacts, StepFacts
<1> QED BY <1>1, <1>2, BeginSteps DEF Resubmit

LEMMA ReadSteps ==
    ASSUME RegTypes, NEW c \in RegCall,
           \/ RegisterToken(c) \/ TakeComplianceLock(c) \/ PassGate(c) \/ CollectionOwner(c)
           \/ ClassIsNew(c) \/ ResolveRoyalty(c) \/ FrozenGuard(c) \/ CheckRotation(c) \/ AccessFails(c)
    PROVE  Reads(c)
<1> USE DEF regBound
<1>1. RegCallTypes
  BY DEF RegTypes
<1>2. End(c) => Ended(c)
  BY <1>1, EndFrame
<1>3. ASSUME NEW pc \in RegPc, Goto(c, pc), UNCHANGED regReq,
             regSnap' = regSnap \/ \E m : regSnap' = [regSnap EXCEPT ![c] = m],
             regAt' = regAt \/ \E n \in Nat : regAt' = [regAt EXCEPT ![c] = n]
      PROVE  WentTo(c, pc)
  BY <1>1, <1>3, GotoFrame
<1>4. CASE RegisterToken(c)
  BY <1>2, <1>3, <1>4 DEF RegisterToken, Reads, RegPc
<1>5. CASE TakeComplianceLock(c)
  BY <1>2, <1>3, <1>5 DEF TakeComplianceLock, Reads, RegPc
<1>6. CASE PassGate(c)
  <2>1. regReq[c].op \in {"class", "royalty", "freeze", "unfreeze", "rotate"}
    BY <1>1, <1>6, StepRequest DEF PassGate
  <2>2. FirstStep[regReq[c].op] \in {"owner", "resolve", "guard", "rotate"} \cap StepsOf[regReq[c].op] \cap RegPc
    BY <2>1, FirstStepFacts, StepFacts DEF RegPc
  <2> DEFINE pc == FirstStep[regReq[c].op]
  <2>3. /\ regPc[c] = "gate"
        /\ \/ /\ Goto(c, pc) /\ UNCHANGED <<regReq, regSnap>>
              /\ regAt' = regAt \/ regAt' = [regAt EXCEPT ![c] = regNow]
           \/ End(c)
        /\ UNCHANGED <<regDb, collRam, frozenRam, keyCache, regGhost, regNow>>
    BY <1>6 DEF PassGate
  <2> HIDE DEF pc
  <2>4. pc \in {"owner", "resolve", "guard", "rotate"} /\ pc \in StepsOf[regReq[c].op] /\ pc \in RegPc
    BY <2>2 DEF pc
  <2>5. regNow \in Nat
    BY DEF RegTypes, RegStoreTypes
  <2>6. Ended(c) \/ WentTo(c, pc)
    BY <1>2, <1>3, <2>3, <2>4, <2>5
  <2> QED BY <2>3, <2>4, <2>6 DEF Reads
<1>7. CASE CollectionOwner(c)
  <2>1. \/ End(c)
        \/ Goto(c, "claim") /\ UNCHANGED <<regReq, regRead>> /\ collDb[Coll(c)] = Nobody
        \/ Goto(c, "classCheck") /\ UNCHANGED <<regReq, regRead>> /\ collDb[Coll(c)] = Creator(c)
    BY <1>7 DEF CollectionOwner
  <2>2. \/ Ended(c)
        \/ WentTo(c, "claim") /\ collDb[Coll(c)] = Nobody
        \/ WentTo(c, "classCheck") /\ collDb[Coll(c)] = Creator(c)
    BY <1>2, <1>3, <2>1 DEF RegPc
  <2> QED BY <1>7, <2>2 DEF CollectionOwner, Reads
<1>8. CASE ClassIsNew(c)
  BY <1>2, <1>3, <1>8 DEF ClassIsNew, Reads, RegPc
<1>9. CASE ResolveRoyalty(c)
  <2>1. \/ End(c)
        \/ /\ Goto(c, "putRoyalty") /\ UNCHANGED <<regReq, regAt>>
           /\ regSnap' = [regSnap EXCEPT ![c] = metaDb[regReq[c].asset]]
           /\ metaDb[regReq[c].asset] # Absent /\ metaDb[regReq[c].asset].version = regReq[c].version
    BY <1>9 DEF ResolveRoyalty
  <2>2. \/ Ended(c)
        \/ /\ WentTo(c, "putRoyalty") /\ regSnap'[c] = metaDb[regReq[c].asset]
           /\ metaDb[regReq[c].asset] # Absent /\ metaDb[regReq[c].asset].version = regReq[c].version
    BY <1>1, <1>2, <1>3, <2>1 DEF RegPc, RegCallTypes
  <2> QED BY <1>9, <2>2 DEF ResolveRoyalty, Reads
<1>10. CASE FrozenGuard(c)
  BY <1>2, <1>3, <1>10 DEF FrozenGuard, Reads, RegPc
<1>11. CASE CheckRotation(c)
  BY <1>2, <1>3, <1>11 DEF CheckRotation, Reads, RegPc
<1>12. CASE AccessFails(c)
  BY <1>2, <1>12 DEF AccessFails, AtStore, Reads
<1> QED BY <1>4, <1>5, <1>6, <1>7, <1>8, <1>9, <1>10, <1>11, <1>12

LEMMA ClaimSteps ==
    ASSUME RegTypes, NEW c \in RegCall, TryClaimCollection(c)
    PROVE  Reads(c) \/ Claims(c)
<1>1. regPc[c] = "claim" /\ UNCHANGED <<regDb, frozenRam, keyCache, regGhost, regNow>>
  BY DEF TryClaimCollection, regBound
<1>2. CASE collRam[Coll(c)] \in {Nobody, Creator(c)}
  <2>1. /\ collRam' = [collRam EXCEPT ![Coll(c)] = Creator(c)]
        /\ Goto(c, "putOwner") /\ UNCHANGED <<regReq, regRead>>
    BY <1>2 DEF TryClaimCollection
  <2>2. WentTo(c, "putOwner")
    BY <2>1, GotoFrame DEF RegTypes, RegPc
  <2> QED BY <1>1, <1>2, <2>1, <2>2 DEF Claims
<1>3. CASE collRam[Coll(c)] \notin {Nobody, Creator(c)}
  <2>1. End(c) /\ UNCHANGED collRam
    BY <1>3 DEF TryClaimCollection
  <2>2. Ended(c)
    BY <2>1, EndFrame DEF RegTypes
  <2> QED BY <1>1, <2>1, <2>2 DEF Reads
<1> QED BY <1>2, <1>3

\* A call writes.
LEMMA WriteSteps ==
    ASSUME RegTypes, NEW c \in RegCall
    PROVE  /\ PutToken(c) \/ Insert(c) \/ FreezeUnlogged(c) => Ended(c)
           /\ PutCollectionOwner(c) => WentTo(c, "classCheck")
           /\ PutSftClass(c) \/ PutRoyalty(c) \/ CacheFrozen(c) => WentTo(c, "insert")
           /\ RefreshKeyRotationState(c) \/ KeyListFails(c) => WentTo(c, "insert")
           /\ PutFrozen(c) => WentTo(c, "frozenRam")
           /\ RecordKeyRotation(c) => WentTo(c, "refresh")
           /\ ListKeyRotations(c) => WentTo(c, "cacheKeys") /\ regSnap'[c] = keyDb
<1>1. RegCallTypes
  BY DEF RegTypes
<1>2. End(c) => Ended(c)
  BY <1>1, EndFrame
<1>3. \A pc \in RegPc : Goto(c, pc) /\ UNCHANGED <<regReq, regRead>> => WentTo(c, pc)
  BY <1>1, GotoFrame
<1>4. PutToken(c) \/ Insert(c) \/ FreezeUnlogged(c) => End(c)
  BY DEF PutToken, Insert, FreezeUnlogged
<1>5. PutCollectionOwner(c) => Goto(c, "classCheck") /\ UNCHANGED <<regReq, regRead>>
  BY DEF PutCollectionOwner
<1>6. (\/ PutSftClass(c) \/ PutRoyalty(c) \/ CacheFrozen(c)
       \/ RefreshKeyRotationState(c) \/ KeyListFails(c))
        => Goto(c, "insert") /\ UNCHANGED <<regReq, regRead>>
  BY DEF PutSftClass, PutRoyalty, CacheFrozen, RefreshKeyRotationState, KeyListFails
<1>7. PutFrozen(c) => Goto(c, "frozenRam") /\ UNCHANGED <<regReq, regRead>>
  BY DEF PutFrozen
<1>8. RecordKeyRotation(c) => Goto(c, "refresh") /\ UNCHANGED <<regReq, regRead>>
  BY DEF RecordKeyRotation
<1>9. ListKeyRotations(c) => WentTo(c, "cacheKeys") /\ regSnap'[c] = keyDb
  <2> SUFFICES ASSUME ListKeyRotations(c) PROVE WentTo(c, "cacheKeys") /\ regSnap'[c] = keyDb
    OBVIOUS
  <2>1. /\ Goto(c, "cacheKeys") /\ UNCHANGED <<regReq, regAt>>
        /\ regSnap' = [regSnap EXCEPT ![c] = keyDb]
    BY DEF ListKeyRotations
  <2>2. WentTo(c, "cacheKeys")
    BY <1>1, <2>1, GotoFrame DEF RegPc
  <2> QED BY <1>1, <2>1, <2>2 DEF RegCallTypes
<1> QED BY <1>2, <1>3, <1>4, <1>5, <1>6, <1>7, <1>8, <1>9 DEF RegPc

Writes(c) ==
    \/ PutToken(c) \/ Insert(c) \/ PutCollectionOwner(c) \/ PutSftClass(c) \/ PutRoyalty(c)
    \/ PutFrozen(c) \/ CacheFrozen(c) \/ FreezeUnlogged(c)
    \/ RecordKeyRotation(c) \/ ListKeyRotations(c) \/ KeyListFails(c) \/ RefreshKeyRotationState(c)

LEMMA StepKinds ==
    ASSUME RegTypes, [RegNext]_regVars
    PROVE  Rests \/ Restart \/ \E c \in RegCall : Begins(c) \/ Reads(c) \/ Claims(c) \/ Writes(c)
<1>1. CASE UNCHANGED regVars
  <2>1. regNow \in Nat
    BY DEF RegTypes, RegStoreTypes
  <2> QED BY <1>1, <2>1 DEF Rests, regVars, regRam, regLocal, regGhost, regBound
<1>2. ASSUME NEW p \in regDag, PruneReg(p)
      PROVE  Rests
  <2>1. regNow \in Nat
    BY DEF RegTypes, RegStoreTypes
  <2>2. regDag' \cup regPruned' = regDag \cup regPruned
    BY <1>2 DEF PruneReg
  <2> QED BY <1>2, <2>1, <2>2 DEF PruneReg, Rests, regRam, regLocal, regBound
<1>3. CASE TickReg
  <2>1. regNow' \in Nat
    BY <1>3, RegAssumption DEF TickReg
  <2> QED BY <1>3, <2>1 DEF TickReg, Rests, regRam, regLocal, regGhost
<1>4. ASSUME NEW c \in RegCall, NEW r \in RegRequest,
             CreateToken(c, r) \/ CreateClass(c, r) \/ RoyaltyUpdate(c, r) \/ Freeze(c, r) \/ RotateKey(c, r)
      PROVE  Begins(c)
  BY <1>4, AskedBegins
<1>5. ASSUME NEW c \in RegCall, NEW p \in regPruned, Resubmit(c, p)
      PROVE  Begins(c)
  BY <1>5, ResubmitBegins
<1>6. ASSUME NEW c \in RegCall,
             \/ RegisterToken(c) \/ TakeComplianceLock(c) \/ PassGate(c) \/ CollectionOwner(c)
             \/ ClassIsNew(c) \/ ResolveRoyalty(c) \/ FrozenGuard(c) \/ CheckRotation(c) \/ AccessFails(c)
      PROVE  Reads(c)
  BY <1>6, ReadSteps
<1>7. ASSUME NEW c \in RegCall, TryClaimCollection(c)
      PROVE  Reads(c) \/ Claims(c)
  BY <1>7, ClaimSteps
<1>8. CASE RegNext
  BY <1>2, <1>3, <1>4, <1>5, <1>6, <1>7, <1>8 DEF RegNext, RegWorks, RegTrouble, Writes
<1> QED BY <1>1, <1>8

-----------------------------------------------------------------------------
(* Types.                                                                  *)

LEMMA CallFrame ==
    ASSUME RegCallTypes, NEW c \in RegCall, Moved(c),
           regPc'[c] # "idle" => regReq'[c] \in InBlock /\ regPc'[c] \in StepsOf[regReq'[c].op],
           regPc'[c] = "putRoyalty" => regSnap'[c] \in RegMeta,
           regPc'[c] = "cacheKeys" => regSnap'[c] \in Seq(KeyRecord)
    PROVE  RegCallTypes'
BY DEF RegCallTypes, Moved, RegInFlight

LEMMA CallTypesKept ==
    ASSUME RegTypes, NEW c \in RegCall, Begins(c) \/ Reads(c) \/ Claims(c) \/ Writes(c)
    PROVE  RegCallTypes' /\ Moved(c)
<1>0. RegCallTypes
  BY DEF RegTypes
<1>1. ASSUME Ended(c) PROVE RegCallTypes' /\ Moved(c)
  BY <1>0, <1>1, CallFrame DEF Ended
<1>2. ASSUME NEW pc \in StepsOf[regReq[c].op], regPc[c] # "idle", WentTo(c, pc), pc \notin {"putRoyalty", "cacheKeys"}
      PROVE  RegCallTypes' /\ Moved(c)
  BY <1>0, <1>2, CallFrame, StepRequest DEF WentTo
<1>3. CASE Begins(c)
  <2>1. PICK r \in InBlock : \E pc \in StepsOf[r.op] :
          pc \in {"register", "gate", "lock"} /\ Moved(c) /\ regPc'[c] = pc /\ regReq'[c] = r
    BY <1>3 DEF Begins
  <2> QED BY <1>0, <2>1, CallFrame
<1>4. CASE Reads(c)
  <2>1. regPc[c] # "idle" /\ regReq[c] \in InBlock
    BY <1>0, <1>4, StepRequest DEF Reads
  <2>2. CASE regPc[c] = "resolve" /\ WentTo(c, "putRoyalty") /\ regSnap'[c] = metaDb[regReq[c].asset]
             /\ metaDb[regReq[c].asset] # Absent
    <3>1. regReq[c].op = "royalty" /\ regReq[c].asset \in Asset
      BY <1>0, <2>1, <2>2, StepRequest, RequestFacts DEF SignedRoyalty
    <3>2. regSnap'[c] \in RegMeta
      BY <2>2, <3>1 DEF RegTypes, RegStoreTypes
    <3>3. "putRoyalty" \in StepsOf[regReq[c].op]
      BY <3>1, StepFacts
    <3> QED BY <1>0, <2>1, <2>2, <3>2, <3>3, CallFrame DEF WentTo
  <2>3. CASE regPc[c] = "register" /\ WentTo(c, "putToken")
    BY <1>0, <1>2, <2>1, <2>3, StepRequest, StepFacts
  <2>4. CASE regPc[c] = "lock" /\ WentTo(c, "gate")
    BY <1>0, <1>2, <2>1, <2>4, StepRequest, StepFacts
  <2>5. ASSUME NEW pc \in {"owner", "resolve", "guard", "rotate"}, WentTo(c, pc), pc \in StepsOf[regReq[c].op]
        PROVE  RegCallTypes' /\ Moved(c)
    BY <1>2, <2>1, <2>5
  <2>6. CASE regPc[c] = "owner" /\ (WentTo(c, "claim") \/ WentTo(c, "classCheck"))
    BY <1>0, <1>2, <2>1, <2>6, StepRequest, StepFacts
  <2>7. CASE regPc[c] = "classCheck" /\ WentTo(c, "putClass")
    BY <1>0, <1>2, <2>1, <2>7, StepRequest, StepFacts
  <2>8. CASE regPc[c] = "guard" /\ WentTo(c, "frozenDb")
    BY <1>0, <1>2, <2>1, <2>8, StepRequest, StepFacts
  <2>9. CASE regPc[c] = "rotate" /\ WentTo(c, "putRotation")
    BY <1>0, <1>2, <2>1, <2>9, StepRequest, StepFacts
  <2> QED BY <1>1, <1>4, <2>2, <2>3, <2>4, <2>5, <2>6, <2>7, <2>8, <2>9 DEF Reads
<1>5. CASE Claims(c)
  BY <1>0, <1>2, <1>5, StepRequest, StepFacts DEF Claims
<1>6. CASE PutToken(c) \/ Insert(c) \/ FreezeUnlogged(c)
  BY <1>1, <1>6, WriteSteps
<1>7. CASE PutCollectionOwner(c)
  <2>1. regPc[c] = "putOwner" /\ WentTo(c, "classCheck")
    BY <1>7, WriteSteps DEF PutCollectionOwner
  <2> QED BY <1>0, <1>2, <2>1, StepRequest, StepFacts
<1>8. CASE \/ PutSftClass(c) \/ PutRoyalty(c) \/ CacheFrozen(c)
           \/ RefreshKeyRotationState(c) \/ KeyListFails(c)
  <2>1. regPc[c] \in {"putClass", "putRoyalty", "frozenRam", "refresh", "cacheKeys"} /\ WentTo(c, "insert")
    BY <1>8, WriteSteps DEF PutSftClass, PutRoyalty, CacheFrozen, RefreshKeyRotationState, KeyListFails
  <2>2. regReq[c].op \in {"class", "royalty", "freeze", "unfreeze", "rotate"}
    BY <1>0, <2>1, StepRequest
  <2>3. "insert" \in StepsOf[regReq[c].op]
    BY <2>2, StepFacts
  <2> QED BY <1>2, <2>1, <2>3
<1>9. CASE PutFrozen(c)
  <2>1. regPc[c] = "frozenDb" /\ WentTo(c, "frozenRam")
    BY <1>9, WriteSteps DEF PutFrozen
  <2> QED BY <1>0, <1>2, <2>1, StepRequest, StepFacts
<1>10. CASE RecordKeyRotation(c)
  <2>1. regPc[c] = "putRotation" /\ WentTo(c, "refresh")
    BY <1>10, WriteSteps DEF RecordKeyRotation
  <2> QED BY <1>0, <1>2, <2>1, StepRequest, StepFacts
<1>11. CASE ListKeyRotations(c)
  <2>1. regPc[c] = "refresh" /\ WentTo(c, "cacheKeys") /\ regSnap'[c] = keyDb
    BY <1>11, WriteSteps DEF ListKeyRotations
  <2>2. keyDb \in Seq(KeyRecord)
    BY DEF RegTypes, RegStoreTypes
  <2>3. "cacheKeys" \in StepsOf[regReq[c].op] /\ regReq[c] \in InBlock
    BY <1>0, <2>1, StepRequest, StepFacts
  <2> QED BY <1>0, <2>1, <2>2, <2>3, CallFrame DEF WentTo
<1> QED BY <1>3, <1>4, <1>5, <1>6, <1>7, <1>8, <1>9, <1>10, <1>11 DEF Writes

\* The class, the collection and the creator of a creation, and the asset of
\* a royalty.
LEMMA ClassFacts ==
    ASSUME RegTypes, NEW c \in RegCall
    PROVE  /\ regPc[c] \in {"owner", "claim", "putOwner", "classCheck", "putClass"} =>
                /\ regReq[c].asset \in ClassId /\ regReq[c].asset \in Asset /\ regReq[c].meta \in RegMeta
                /\ Coll(c) \in Colls /\ Creator(c) \in Who
           /\ regPc[c] = "putToken" =>
                regReq[c].asset \in TokenId /\ regReq[c].asset \in Asset /\ regReq[c].meta \in RegMeta
           /\ regPc[c] = "putRoyalty" => /\ regReq[c] \in SignedRoyalty /\ regReq[c].asset \in Asset
                                         /\ regSnap[c] \in RegMeta
<1>1. RegCallTypes
  BY DEF RegTypes
<1>2. regPc[c] \in {"owner", "claim", "putOwner", "classCheck", "putClass"} =>
        regReq[c].asset \in ClassId /\ regReq[c].asset \in Asset /\ regReq[c].meta \in RegMeta
  BY <1>1, StepRequest, RequestFacts
<1>3. regPc[c] \in {"owner", "claim", "putOwner", "classCheck", "putClass"} => Coll(c) \in Colls /\ Creator(c) \in Who
  BY <1>2 DEF Coll, Creator, Colls, RegMeta
<1>4. regPc[c] = "putToken" => regReq[c].asset \in TokenId /\ regReq[c].asset \in Asset /\ regReq[c].meta \in RegMeta
  BY <1>1, StepRequest, RequestFacts
<1>5. regPc[c] = "putRoyalty" => regReq[c] \in SignedRoyalty /\ regReq[c].asset \in Asset /\ regSnap[c] \in RegMeta
  BY <1>1, StepRequest, RequestFacts DEF SignedRoyalty, RegCallTypes
<1> QED BY <1>2, <1>3, <1>4, <1>5

Updated(m, b, w, v) == [m EXCEPT !.bps = b, !.beneficiary = w, !.version = v]

LEMMA MetaUpdated ==
    ASSUME NEW m \in RegMeta, NEW b \in Nat, NEW w \in Who \cup {Nobody}, NEW v \in Nat
    PROVE  /\ Updated(m, b, w, v) \in RegMeta /\ Updated(m, b, w, v).creator = m.creator
           /\ Updated(m, b, w, v).version = v
BY DEF RegMeta, Updated

\* The metadata that a royalty update writes.
LEMMA RoyaltyWritten ==
    ASSUME RegTypes, OwnerInv, NEW c \in RegCall, PutRoyalty(c)
    PROVE  LET a == regReq[c].asset
           IN /\ a \in Asset /\ metaDb[a] \in RegMeta /\ regPc[c] = "putRoyalty"
              /\ metaDb'[a] \in RegMeta /\ metaDb'[a].creator = metaDb[a].creator
              /\ metaDb'[a].version = regSnap[c].version + 1
              /\ \A b \in Asset \ {a} : metaDb'[b] = metaDb[b]
              /\ DOMAIN metaDb' = Asset
<1> DEFINE a == regReq[c].asset
           m == metaDb[a]
           n == Updated(m, regReq[c].bps, regReq[c].beneficiary, regSnap[c].version + 1)
<1>1. regPc[c] = "putRoyalty" /\ metaDb' = [metaDb EXCEPT ![a] = n]
  BY DEF PutRoyalty, Updated
<1>2. regReq[c] \in SignedRoyalty /\ a \in Asset /\ regSnap[c] \in RegMeta
  BY <1>1, ClassFacts
<1>3. m # Absent
  BY <1>1 DEF OwnerInv, RoyaltyHasAsset
<1>4. metaDb \in [Asset -> RegMeta \cup {Absent}]
  BY DEF RegTypes, RegStoreTypes
<1>5. m \in RegMeta
  BY <1>2, <1>3, <1>4
<1>6. n \in RegMeta /\ n.creator = m.creator /\ n.version = regSnap[c].version + 1
  <2>1. regReq[c].bps \in Nat /\ regReq[c].beneficiary \in Who \cup {Nobody}
    BY <1>2 DEF SignedRoyalty
  <2>2. regSnap[c].version + 1 \in Nat
    BY <1>2 DEF RegMeta
  <2> QED BY <1>5, <2>1, <2>2, MetaUpdated
<1> HIDE DEF n
<1>7. metaDb'[a] = n /\ (\A b \in Asset \ {a} : metaDb'[b] = metaDb[b]) /\ DOMAIN metaDb' = Asset
  BY <1>1, <1>2, <1>4
<1> QED BY <1>1, <1>2, <1>5, <1>6, <1>7

\* The record of a rotation, and the history with one more.
LEMMA RecordTyped ==
    ASSUME RegCallTypes, NEW c \in RegCall, regPc[c] = "putRotation"
    PROVE  RotationRecord(c) \in KeyRecord
<1>1. regReq[c].old \in RegKey /\ regReq[c].new \in RegKey
  BY StepRequest, RequestFacts
<1>2. regAt[c] \in Nat
  BY DEF RegCallTypes
<1> QED BY <1>1, <1>2, RegAssumption DEF RotationRecord, KeyRecord

LEMMA Inserted ==
    ASSUME NEW h \in Seq(KeyRecord), NEW e \in KeyRecord, NEW i \in 1 .. Len(h) + 1
    PROVE  InsertAt(h, i, e) \in Seq(KeyRecord)
<1>1. SubSeq(h, 1, i - 1) \in Seq(KeyRecord) /\ SubSeq(h, i, Len(h)) \in Seq(KeyRecord)
  <2>1. \A k \in 1 .. i - 1 : k \in 1 .. Len(h)
    OBVIOUS
  <2>2. \A k \in i .. Len(h) : k \in 1 .. Len(h)
    OBVIOUS
  <2> QED BY <2>1, <2>2, SubSeqProperties
<1>2. <<e>> \in Seq(KeyRecord)
  OBVIOUS
<1> QED BY <1>1, <1>2, ConcatProperties DEF InsertAt

LEMMA StoreTypesKept ==
    ASSUME RegTypes, OwnerInv, [RegNext]_regVars
    PROVE  RegStoreTypes'
<1> USE DEF regDb, regGhost, regBound
<1>0. RegStoreTypes /\ RegCallTypes
  BY DEF RegTypes
<1>1. CASE Rests
  BY <1>0, <1>1 DEF Rests, RegStoreTypes
<1>2. CASE Restart
  <2>1. keyRam' = <<>> \/ keyRam' = keyDb
    BY <1>2 DEF Restart
  <2>2. keyRam' \in Seq(KeyRecord)
    <3>1. keyDb \in Seq(KeyRecord)
      BY <1>0 DEF RegStoreTypes
    <3>2. << >> \in Seq(KeyRecord)
      OBVIOUS
    <3> QED BY <2>1, <3>1, <3>2
  <2> QED BY <1>0, <1>2, <2>2 DEF Restart, RegStoreTypes
<1>3. ASSUME NEW c \in RegCall, Begins(c) PROVE RegStoreTypes'
  BY <1>0, <1>3 DEF Begins, RegStoreTypes
<1>4. ASSUME NEW c \in RegCall, Reads(c) PROVE RegStoreTypes'
  BY <1>0, <1>4 DEF Reads, RegStoreTypes
<1>5. ASSUME NEW c \in RegCall, Claims(c) PROVE RegStoreTypes'
  <2>1. Coll(c) \in Colls /\ Creator(c) \in Who
    BY <1>5, ClassFacts DEF Claims
  <2> QED BY <1>0, <1>5, <2>1 DEF Claims, RegStoreTypes
<1>6. ASSUME NEW c \in RegCall, PutToken(c) PROVE RegStoreTypes'
  <2>1. regPc[c] = "putToken" /\ regReq[c] \in InBlock
    BY <1>0, <1>6, StepRequest DEF PutToken
  <2>2. regReq[c].asset \in Asset /\ regReq[c].meta \in RegMeta
    BY <2>1, ClassFacts
  <2>3. /\ metaDb' = [metaDb EXCEPT ![regReq[c].asset] = regReq[c].meta]
        /\ answered' = answered \cup {<<regReq[c].asset, regReq[c].meta.creator>>}
        /\ regDag' \subseteq regDag \cup {<<regReq[c], regSig[c]>>}
        /\ UNCHANGED <<collDb, keyDb, collRam, keyRam, regPruned, royaltyUses, regNow>>
    BY <1>6 DEF PutToken
  <2> QED BY <1>0, <2>1, <2>2, <2>3 DEF RegStoreTypes
<1>7. ASSUME NEW c \in RegCall, Insert(c) PROVE RegStoreTypes'
  <2>1. regPc[c] = "insert" /\ regReq[c] \in InBlock
    BY <1>0, <1>7, StepRequest DEF Insert
  <2>2. regReq[c].op = "class" => regReq[c].asset \in Asset
    BY <2>1, RequestFacts
  <2>3. \A p \in answered' : p \in answered \/ (regReq[c].op = "class" /\ p[1] = regReq[c].asset)
    <3> DEFINE e == <<regReq[c].asset, regReq[c].meta.creator>>
    <3>1. answered' = answered \/ (regReq[c].op = "class" /\ answered' = answered \cup {e})
      BY <1>7 DEF Insert
    <3>2. e[1] = regReq[c].asset
      OBVIOUS
    <3> HIDE DEF e
    <3> QED BY <3>1, <3>2
  <2>4. /\ regDag' = regDag \cup {<<regReq[c], regSig[c]>>}
        /\ UNCHANGED <<metaDb, collDb, keyDb, collRam, keyRam, regPruned, royaltyUses, regNow>>
    BY <1>7 DEF Insert
  <2> QED BY <1>0, <2>1, <2>2, <2>3, <2>4 DEF RegStoreTypes
<1>8. ASSUME NEW c \in RegCall, PutCollectionOwner(c) PROVE RegStoreTypes'
  <2>1. Coll(c) \in Colls /\ Creator(c) \in Who
    BY <1>8, ClassFacts DEF PutCollectionOwner
  <2> QED BY <1>0, <1>8, <2>1 DEF PutCollectionOwner, RegStoreTypes, regRam
<1>9. ASSUME NEW c \in RegCall, PutSftClass(c) PROVE RegStoreTypes'
  <2>1. regReq[c].asset \in Asset /\ regReq[c].meta \in RegMeta
    BY <1>9, ClassFacts DEF PutSftClass
  <2> QED BY <1>0, <1>9, <2>1 DEF PutSftClass, RegStoreTypes, regRam
<1>10. ASSUME NEW c \in RegCall, PutRoyalty(c) PROVE RegStoreTypes'
  <2>1. metaDb' \in [Asset -> RegMeta \cup {Absent}]
    <3>1. \A b \in Asset : metaDb'[b] \in RegMeta \cup {Absent}
      BY <1>0, <1>10, RoyaltyWritten DEF RegStoreTypes
    <3>2. metaDb' = [b \in Asset |-> metaDb'[b]]
      BY <1>0, <1>10 DEF PutRoyalty, RegStoreTypes
    <3> QED BY <3>1, <3>2
  <2>2. DOMAIN royaltyUses' = DOMAIN royaltyUses \cup {regReq[c]}
    BY <1>10 DEF PutRoyalty
  <2>3. regReq[c] \in SignedRoyalty
    BY <1>10, ClassFacts DEF PutRoyalty
  <2>4. UNCHANGED <<collDb, keyDb, collRam, keyRam, regDag, regPruned, answered, regNow>>
    BY <1>10 DEF PutRoyalty, regRam
  <2> QED BY <1>0, <2>1, <2>2, <2>3, <2>4 DEF RegStoreTypes
<1>11. ASSUME NEW c \in RegCall,
              PutFrozen(c) \/ CacheFrozen(c) \/ FreezeUnlogged(c) \/ ListKeyRotations(c) \/ KeyListFails(c)
       PROVE  RegStoreTypes'
  BY <1>0, <1>11 DEF PutFrozen, CacheFrozen, FreezeUnlogged, ListKeyRotations, KeyListFails, RegStoreTypes, regRam
<1>12. ASSUME NEW c \in RegCall, RecordKeyRotation(c) PROVE RegStoreTypes'
  <2> DEFINE e == RotationRecord(c)
  <2>1. /\ regPc[c] = "putRotation"
        /\ keyDb' = keyDb \/ \E i \in 1 .. Len(keyDb) + 1 : keyDb' = InsertAt(keyDb, i, e)
    BY <1>12 DEF RecordKeyRotation
  <2>2. e \in KeyRecord
    BY <1>0, <2>1, RecordTyped
  <2> HIDE DEF e
  <2>3. keyDb' \in Seq(KeyRecord)
    BY <1>0, <2>1, <2>2, Inserted DEF RegStoreTypes
  <2>4. UNCHANGED <<metaDb, collDb, collRam, keyRam, regDag, regPruned, answered, royaltyUses, regNow>>
    BY <1>12 DEF RecordKeyRotation, regRam
  <2> QED BY <1>0, <2>3, <2>4 DEF RegStoreTypes
<1>13. ASSUME NEW c \in RegCall, RefreshKeyRotationState(c) PROVE RegStoreTypes'
  <2>1. regPc[c] = "cacheKeys" /\ keyRam' = regSnap[c]
    BY <1>13 DEF RefreshKeyRotationState
  <2>2. keyRam' \in Seq(KeyRecord)
    BY <1>0, <2>1 DEF RegCallTypes
  <2> QED BY <1>0, <1>13, <2>2 DEF RefreshKeyRotationState, RegStoreTypes
<1> QED BY <1>1, <1>2, <1>3, <1>4, <1>5, <1>6, <1>7, <1>8, <1>9, <1>10, <1>11, <1>12, <1>13, StepKinds
        DEF Writes

LEMMA RegTypesKept ==
    ASSUME RegTypes, OwnerInv, [RegNext]_regVars
    PROVE  RegTypes'
<1>1. RegCallTypes
  BY DEF RegTypes
<1>2. ASSUME Rests PROVE RegCallTypes'
  BY <1>1, <1>2 DEF Rests, RegCallTypes, RegInFlight
<1>3. ASSUME Restart PROVE RegCallTypes'
  <2>1. /\ regPc' = [c \in RegCall |-> "idle"] /\ regReq' = [c \in RegCall |-> Absent]
        /\ regSnap' = [c \in RegCall |-> Absent] /\ regAt' = [c \in RegCall |-> 0]
    BY <1>3 DEF Restart
  <2> QED BY <2>1 DEF RegCallTypes, RegInFlight, RegPc
<1>4. RegCallTypes'
  BY <1>2, <1>3, StepKinds, CallTypesKept
<1> QED BY <1>4, StoreTypesKept DEF RegTypes

-----------------------------------------------------------------------------
(* Collections.                                                            *)

\* A step of call c that leaves the collections alone and removes no asset.
LEMMA OwnerFrame ==
    ASSUME RegTypes, OwnerInv, NEW c \in RegCall, Moved(c), UNCHANGED <<collDb, collRam>>,
           \A a \in Asset : metaDb[a] # Absent => metaDb'[a] # Absent,
           CollectionHasOneOwner', OwnerKnown(c)', RoyaltyHasAsset(c)'
    PROVE  OwnerInv'
<1>1. ASSUME NEW d \in RegCall \ {c} PROVE OwnerKnown(d)' /\ RoyaltyHasAsset(d)'
  <2>1. regPc'[d] = regPc[d] /\ regReq'[d] = regReq[d]
    BY DEF Moved
  <2>2. OwnerKnown(d) /\ RoyaltyHasAsset(d)
    BY DEF OwnerInv
  <2>3. OwnerKnown(d)'
    BY <2>1, <2>2 DEF OwnerKnown, Coll, Creator
  <2>4. regPc[d] = "putRoyalty" => regReq[d].asset \in Asset
    BY ClassFacts
  <2>5. RoyaltyHasAsset(d)'
    BY <2>1, <2>2, <2>4 DEF RoyaltyHasAsset
  <2> QED BY <2>3, <2>5
<1> QED BY <1>1 DEF OwnerInv

\* Calls that touch neither collections nor classes.
LEMMA OwnerApart ==
    ASSUME RegTypes, OwnerInv, NEW c \in RegCall, Moved(c), UNCHANGED <<collDb, collRam, metaDb>>,
           regPc'[c] \notin {"claim", "putOwner", "classCheck", "putClass", "putRoyalty"}
    PROVE  OwnerInv'
<1>1. OwnerKnown(c)' /\ RoyaltyHasAsset(c)'
  BY DEF OwnerKnown, RoyaltyHasAsset
<1>2. CollectionHasOneOwner'
  BY DEF OwnerInv, CollectionHasOneOwner
<1> QED BY <1>1, <1>2, OwnerFrame

LEMMA OwnerStep ==
    ASSUME RegTypes, OwnerInv, [RegNext]_regVars
    PROVE  OwnerInv'
<1> USE DEF regDb
<1>0. RegStoreTypes /\ RegCallTypes /\ CollectionHasOneOwner
  BY DEF RegTypes, OwnerInv
<1>1. CASE Rests
  BY <1>1 DEF Rests, OwnerInv, CollectionHasOneOwner, OwnerKnown, RoyaltyHasAsset, Coll, Creator
<1>2. CASE Restart
  <2>1. \A c \in RegCall : OwnerKnown(c)' /\ RoyaltyHasAsset(c)'
    BY <1>2 DEF Restart, OwnerKnown, RoyaltyHasAsset
  <2>2. CollectionHasOneOwner'
    BY <1>0, <1>2 DEF Restart, CollectionHasOneOwner
  <2> QED BY <2>1, <2>2 DEF OwnerInv
<1>3. ASSUME NEW c \in RegCall, Begins(c) PROVE OwnerInv'
  <2>1. Moved(c) /\ regPc'[c] \in {"register", "gate", "lock"} /\ UNCHANGED <<collDb, collRam, metaDb>>
    BY <1>3 DEF Begins
  <2> QED BY <2>1, OwnerApart
<1>4. ASSUME NEW c \in RegCall, Reads(c) PROVE OwnerInv'
  <2>1. UNCHANGED <<collDb, collRam, metaDb>>
    BY <1>4 DEF Reads
  <2>2. Moved(c)
    BY <1>4, CallTypesKept
  <2>3. CollectionHasOneOwner'
    BY <1>0, <2>1 DEF CollectionHasOneOwner
  <2>4. OwnerKnown(c)' /\ RoyaltyHasAsset(c)'
    <3>1. CASE WentTo(c, "claim") /\ collDb[Coll(c)] = Nobody
      BY <2>1, <3>1 DEF WentTo, OwnerKnown, RoyaltyHasAsset, Coll, Creator
    <3>2. CASE WentTo(c, "classCheck") /\ collDb[Coll(c)] = Creator(c)
      BY <2>1, <3>2 DEF WentTo, OwnerKnown, RoyaltyHasAsset, Coll, Creator
    <3>3. CASE regPc[c] = "classCheck" /\ WentTo(c, "putClass")
      <4>1. OwnerKnown(c)
        BY DEF OwnerInv
      <4> QED BY <2>1, <3>3, <4>1 DEF WentTo, OwnerKnown, RoyaltyHasAsset, Coll, Creator
    <3>4. CASE WentTo(c, "putRoyalty") /\ metaDb[regReq[c].asset] # Absent
      BY <2>1, <3>4 DEF WentTo, OwnerKnown, RoyaltyHasAsset
    <3>5. CASE regPc'[c] \notin {"claim", "putOwner", "classCheck", "putClass", "putRoyalty"}
      BY <3>5 DEF OwnerKnown, RoyaltyHasAsset
    <3>6. \/ Ended(c)
          \/ \E pc \in {"putToken", "gate", "owner", "resolve", "guard", "rotate", "frozenDb", "putRotation"} : WentTo(c, pc)
          \/ WentTo(c, "claim") /\ collDb[Coll(c)] = Nobody
          \/ WentTo(c, "classCheck") /\ collDb[Coll(c)] = Creator(c)
          \/ regPc[c] = "classCheck" /\ WentTo(c, "putClass")
          \/ WentTo(c, "putRoyalty") /\ metaDb[regReq[c].asset] # Absent
      BY <1>4 DEF Reads
    <3>7. Ended(c) => regPc'[c] = "idle"
      BY DEF Ended
    <3>8. \A pc : WentTo(c, pc) => regPc'[c] = pc
      BY DEF WentTo
    <3> QED BY <3>1, <3>2, <3>3, <3>4, <3>5, <3>6, <3>7, <3>8
  <2> QED BY <2>1, <2>2, <2>3, <2>4, OwnerFrame
<1>5. ASSUME NEW c \in RegCall, Claims(c) PROVE OwnerInv'
  <2> DEFINE K == Coll(c)
             w == Creator(c)
  <2>1. /\ regPc[c] = "claim" /\ Moved(c) /\ regPc'[c] = "putOwner" /\ regReq'[c] = regReq[c]
        /\ collRam[K] \in {Nobody, w} /\ collRam' = [collRam EXCEPT ![K] = w] /\ UNCHANGED <<collDb, metaDb>>
    BY <1>5 DEF Claims, WentTo
  <2>2. K \in Colls /\ w \in Who
    BY <2>1, ClassFacts
  <2>3. collRam'[K] = w /\ (\A k \in Colls \ {K} : collRam'[k] = collRam[k]) /\ collDb[K] \in Who \cup {Nobody}
    BY <1>0, <2>1, <2>2 DEF RegStoreTypes
  <2>4. collDb[K] \in {Nobody, w}
    BY <2>1 DEF OwnerInv, OwnerKnown
  <2>5. ASSUME NEW d \in RegCall \ {c} PROVE OwnerKnown(d)' /\ RoyaltyHasAsset(d)'
    <3>1. regPc'[d] = regPc[d] /\ regReq'[d] = regReq[d] /\ Coll(d)' = Coll(d) /\ Creator(d)' = Creator(d)
      BY <2>1 DEF Moved, Coll, Creator
    <3>2. OwnerKnown(d) /\ RoyaltyHasAsset(d)
      BY DEF OwnerInv
    <3>3. regPc[d] \in {"claim", "putOwner", "classCheck", "putClass"} => Coll(d) \in Colls /\ Creator(d) \in Who
      BY ClassFacts
    <3>4. OwnerKnown(d)'
      <4>1. CASE Coll(d) = K
        BY <2>1, <2>3, <2>4, <3>1, <3>2, <3>3, <4>1, RegAssumption DEF OwnerKnown
      <4>2. CASE Coll(d) # K
        BY <2>1, <2>3, <3>1, <3>2, <3>3, <4>2 DEF OwnerKnown
      <4> QED BY <4>1, <4>2
    <3> QED BY <2>1, <3>1, <3>2, <3>4 DEF RoyaltyHasAsset
  <2>6. OwnerKnown(c)' /\ RoyaltyHasAsset(c)'
    <3>1. Coll(c)' = K /\ Creator(c)' = w
      BY <2>1 DEF Coll, Creator
    <3> QED BY <2>1, <2>3, <2>4, <3>1 DEF OwnerKnown, RoyaltyHasAsset
  <2>7. CollectionHasOneOwner'
    BY <1>0, <2>1 DEF CollectionHasOneOwner
  <2> QED BY <2>5, <2>6, <2>7 DEF OwnerInv
<1>6. ASSUME NEW c \in RegCall, PutToken(c) PROVE OwnerInv'
  <2>1. Ended(c) /\ regPc[c] = "putToken" /\ UNCHANGED <<collDb, collRam>>
        /\ metaDb' = [metaDb EXCEPT ![regReq[c].asset] = regReq[c].meta]
    BY <1>6, WriteSteps DEF PutToken
  <2>2. regReq[c].asset \in TokenId /\ regReq[c].asset \in Asset /\ regReq[c].meta \in RegMeta
    BY <2>1, ClassFacts
  <2>3. \A a \in Asset : metaDb[a] # Absent => metaDb'[a] # Absent
    BY <1>0, <2>1, <2>2, RegAssumption DEF RegStoreTypes
  <2>4. \A k \in ClassId : metaDb'[k] = metaDb[k]
    BY <1>0, <2>1, <2>2, RegAssumption DEF RegStoreTypes, Asset
  <2>5. CollectionHasOneOwner'
    BY <1>0, <2>1, <2>4 DEF CollectionHasOneOwner
  <2>6. OwnerKnown(c)' /\ RoyaltyHasAsset(c)' /\ Moved(c)
    BY <2>1 DEF Ended, OwnerKnown, RoyaltyHasAsset
  <2> QED BY <2>1, <2>3, <2>5, <2>6, OwnerFrame
<1>7. ASSUME NEW c \in RegCall,
             \/ Insert(c) \/ PutFrozen(c) \/ CacheFrozen(c) \/ FreezeUnlogged(c) \/ RecordKeyRotation(c)
             \/ ListKeyRotations(c) \/ KeyListFails(c) \/ RefreshKeyRotationState(c)
      PROVE  OwnerInv'
  <2>1. Moved(c) /\ regPc'[c] \in {"idle", "frozenRam", "insert", "refresh", "cacheKeys"}
    BY <1>7, WriteSteps DEF Ended, WentTo
  <2>2. UNCHANGED <<collDb, collRam, metaDb>>
    BY <1>7 DEF Insert, PutFrozen, CacheFrozen, FreezeUnlogged, RecordKeyRotation, ListKeyRotations,
                KeyListFails, RefreshKeyRotationState, regRam
  <2> QED BY <2>1, <2>2, OwnerApart
<1>8. ASSUME NEW c \in RegCall, PutCollectionOwner(c) PROVE OwnerInv'
  <2> DEFINE K == Coll(c)
             w == Creator(c)
  <2>1. /\ regPc[c] = "putOwner" /\ Moved(c) /\ regPc'[c] = "classCheck" /\ regReq'[c] = regReq[c]
        /\ collDb' = [collDb EXCEPT ![K] = w] /\ UNCHANGED <<collRam, metaDb>>
    BY <1>8, WriteSteps DEF PutCollectionOwner, WentTo, regRam
  <2>2. K \in Colls /\ w \in Who
    BY <2>1, ClassFacts
  <2>3. collDb'[K] = w /\ (\A k \in Colls \ {K} : collDb'[k] = collDb[k])
    BY <1>0, <2>1, <2>2 DEF RegStoreTypes
  <2>4. collRam[K] = w /\ collDb[K] \in {Nobody, w}
    BY <2>1 DEF OwnerInv, OwnerKnown
  <2>5. ASSUME NEW d \in RegCall \ {c} PROVE OwnerKnown(d)' /\ RoyaltyHasAsset(d)'
    <3>1. regPc'[d] = regPc[d] /\ regReq'[d] = regReq[d] /\ Coll(d)' = Coll(d) /\ Creator(d)' = Creator(d)
      BY <2>1 DEF Moved, Coll, Creator
    <3>2. OwnerKnown(d) /\ RoyaltyHasAsset(d)
      BY DEF OwnerInv
    <3>3. regPc[d] \in {"claim", "putOwner", "classCheck", "putClass"} => Coll(d) \in Colls /\ Creator(d) \in Who
      BY ClassFacts
    <3>4. OwnerKnown(d)'
      <4>1. CASE Coll(d) = K
        BY <2>1, <2>3, <2>4, <3>1, <3>2, <3>3, <4>1, RegAssumption DEF OwnerKnown
      <4>2. CASE Coll(d) # K
        BY <2>1, <2>3, <3>1, <3>2, <3>3, <4>2 DEF OwnerKnown
      <4> QED BY <4>1, <4>2
    <3> QED BY <2>1, <3>1, <3>2, <3>4 DEF RoyaltyHasAsset
  <2>6. OwnerKnown(c)' /\ RoyaltyHasAsset(c)'
    <3>1. Coll(c)' = K /\ Creator(c)' = w
      BY <2>1 DEF Coll, Creator
    <3> QED BY <2>1, <2>3, <3>1 DEF OwnerKnown, RoyaltyHasAsset
  <2>7. CollectionHasOneOwner'
    <3> SUFFICES ASSUME NEW k \in ClassId, metaDb[k] # Absent PROVE metaDb[k].creator = collDb'[CollOf[k]]
      BY <2>1 DEF CollectionHasOneOwner
    <3>1. CollOf[k] \in Colls /\ metaDb[k].creator = collDb[CollOf[k]]
      BY <1>0 DEF CollectionHasOneOwner, Colls
    <3>2. metaDb[k].creator \in Who
      BY <1>0 DEF RegStoreTypes, Asset, RegMeta
    <3> QED BY <2>3, <2>4, <3>1, <3>2, RegAssumption
  <2> QED BY <2>5, <2>6, <2>7 DEF OwnerInv
<1>9. ASSUME NEW c \in RegCall, PutSftClass(c) PROVE OwnerInv'
  <2> DEFINE a == regReq[c].asset
  <2>1. /\ regPc[c] = "putClass" /\ Moved(c) /\ regPc'[c] = "insert" /\ UNCHANGED <<collDb, collRam>>
        /\ metaDb' = [metaDb EXCEPT ![a] = regReq[c].meta]
    BY <1>9, WriteSteps DEF PutSftClass, WentTo, regRam
  <2>2. a \in ClassId /\ a \in Asset /\ regReq[c].meta \in RegMeta
    BY <2>1, ClassFacts
  <2>3. metaDb'[a] = regReq[c].meta /\ \A b \in Asset \ {a} : metaDb'[b] = metaDb[b]
    BY <1>0, <2>1, <2>2 DEF RegStoreTypes
  <2>4. \A b \in Asset : metaDb[b] # Absent => metaDb'[b] # Absent
    BY <2>2, <2>3, RegAssumption
  <2>5. regReq[c].meta.creator = collDb[CollOf[a]]
    BY <2>1 DEF OwnerInv, OwnerKnown, Coll, Creator
  <2>6. CollectionHasOneOwner'
    BY <1>0, <2>1, <2>3, <2>5 DEF CollectionHasOneOwner, Asset
  <2>7. OwnerKnown(c)' /\ RoyaltyHasAsset(c)'
    BY <2>1 DEF OwnerKnown, RoyaltyHasAsset
  <2> QED BY <2>1, <2>4, <2>6, <2>7, OwnerFrame
<1>10. ASSUME NEW c \in RegCall, PutRoyalty(c) PROVE OwnerInv'
  <2> DEFINE a == regReq[c].asset
  <2>1. Moved(c) /\ regPc'[c] = "insert" /\ UNCHANGED <<collDb, collRam>>
    BY <1>10, WriteSteps DEF PutRoyalty, WentTo, regRam
  <2>2. /\ a \in Asset /\ metaDb[a] \in RegMeta /\ metaDb'[a] \in RegMeta
        /\ metaDb'[a].creator = metaDb[a].creator /\ \A b \in Asset \ {a} : metaDb'[b] = metaDb[b]
    BY <1>10, RoyaltyWritten
  <2>3. \A b \in Asset : metaDb[b] # Absent => metaDb'[b] # Absent
    BY <2>2, RegAssumption
  <2>4. CollectionHasOneOwner'
    BY <1>0, <2>1, <2>2, RegAssumption DEF CollectionHasOneOwner, Asset
  <2>5. OwnerKnown(c)' /\ RoyaltyHasAsset(c)'
    BY <2>1 DEF OwnerKnown, RoyaltyHasAsset
  <2> QED BY <2>1, <2>3, <2>4, <2>5, OwnerFrame
<1> QED BY <1>1, <1>2, <1>3, <1>4, <1>5, <1>6, <1>7, <1>8, <1>9, <1>10, StepKinds DEF Writes

LEMMA RegInitTypes == RegInit => RegTypes /\ OwnerInv
<1> SUFFICES ASSUME RegInit PROVE RegTypes /\ OwnerInv
  OBVIOUS
<1>1. RegStoreTypes
  <2>1. DOMAIN royaltyUses = {}
    BY DEF RegInit
  <2>2. collDb \in [Colls -> Who \cup {Nobody}] /\ metaDb \in [Asset -> RegMeta \cup {Absent}] /\ collRam = collDb
    BY DEF RegInit, Colls
  <2>3. keyDb = <<>> /\ keyRam = <<>> /\ regNow = 0 /\ regDag = {} /\ regPruned = {} /\ answered = {}
    BY DEF RegInit
  <2> QED BY <2>1, <2>2, <2>3 DEF RegStoreTypes
<1>2. RegCallTypes
  BY DEF RegInit, RegCallTypes, RegInFlight, RegPc
<1>3. CollectionHasOneOwner
  BY DEF RegInit, CollectionHasOneOwner, Asset
<1>4. \A c \in RegCall : OwnerKnown(c) /\ RoyaltyHasAsset(c)
  BY DEF RegInit, OwnerKnown, RoyaltyHasAsset
<1> QED BY <1>1, <1>2, <1>3, <1>4 DEF RegTypes, OwnerInv

\* Whatever the number of creations that look a collection up, claim it and
\* write it at the same time, whatever blocks come back and wherever the
\* process ends: the classes of a collection have one creator, its owner (the
\* SftClassCreate arm of persist.rs, try_claim_collection).
THEOREM OneOwner == RegSpec => []CollectionHasOneOwner
<1>1. RegInit => RegTypes /\ OwnerInv
  BY RegInitTypes
<1>2. RegTypes /\ OwnerInv /\ [RegNext]_regVars => (RegTypes /\ OwnerInv)'
  BY RegTypesKept, OwnerStep
<1>3. RegTypes /\ OwnerInv => CollectionHasOneOwner
  BY DEF OwnerInv
<1> QED BY <1>1, <1>2, <1>3, PTL DEF RegSpec

-----------------------------------------------------------------------------
(* Calls that are alone on what they write.                                *)

\* A call goes on with its request, or ends.
GoesOn(c) ==
    /\ Moved(c) /\ regPc[c] # "idle" /\ regRaced' = regRaced
    /\ regPc'[c] = "idle" \/ regReq'[c] = regReq[c]

LEMMA CallGoesOn ==
    ASSUME RegTypes, NEW c \in RegCall, Reads(c) \/ Claims(c) \/ Writes(c)
    PROVE  GoesOn(c)
<1> USE DEF regGhost
<1>1. Moved(c)
  BY CallTypesKept
<1>2. CASE Reads(c)
  BY <1>1, <1>2 DEF Reads, GoesOn, Ended, WentTo
<1>3. CASE Claims(c)
  BY <1>1, <1>3 DEF Claims, GoesOn, WentTo
<1>4. CASE Writes(c)
  <2>1. regPc[c] # "idle" /\ regRaced' = regRaced
    BY <1>4 DEF Writes, PutToken, Insert, PutCollectionOwner, PutSftClass, PutRoyalty, PutFrozen,
                CacheFrozen, FreezeUnlogged, RecordKeyRotation, ListKeyRotations, KeyListFails,
                RefreshKeyRotationState
  <2>2. Ended(c) \/ \E pc : WentTo(c, pc)
    BY <1>4, WriteSteps DEF Writes
  <2> QED BY <1>1, <2>1, <2>2 DEF GoesOn, Ended, WentTo
<1> QED BY <1>2, <1>3, <1>4

LEMMA ApartStep ==
    ASSUME RegTypes, Apart, [RegNext]_regVars
    PROVE  Apart' /\ (Restart \/ regRaced \subseteq regRaced')
<1>1. CASE Rests
  BY <1>1 DEF Rests, Apart, RegInFlight
<1>2. CASE Restart
  BY <1>2 DEF Restart, Apart, RegInFlight
<1>3. ASSUME NEW c \in RegCall, Begins(c) PROVE Apart' /\ regRaced \subseteq regRaced'
  <2>1. PICK r \in InBlock : regPc[c] = "idle" /\ Moved(c) /\ regReq'[c] = r /\ Overlap(r)
    BY <1>3 DEF Begins
  <2>2. /\ regRaced \subseteq regRaced'
        /\ \A d \in RegInFlight : Scope(r) \cap Scope(regReq[d]) \subseteq regRaced'
    BY <2>1 DEF Overlap
  <2>3. \A d \in RegInFlight' : d = c \/ (d \in RegInFlight /\ regReq'[d] = regReq[d])
    BY <2>1 DEF Moved, RegInFlight
  <2>4. ASSUME NEW d \in RegInFlight', NEW e \in RegInFlight', d # e
        PROVE  Scope(regReq'[d]) \cap Scope(regReq'[e]) \subseteq regRaced'
    <3>1. CASE d = c
      <4>1. e \in RegInFlight /\ regReq'[e] = regReq[e] /\ regReq'[d] = r
        BY <2>1, <2>3, <2>4, <3>1
      <4>2. Scope(r) \cap Scope(regReq[e]) \subseteq regRaced'
        BY <2>2, <4>1
      <4> QED BY <4>1, <4>2
    <3>2. CASE e = c
      <4>1. d \in RegInFlight /\ regReq'[d] = regReq[d] /\ regReq'[e] = r
        BY <2>1, <2>3, <2>4, <3>2
      <4>2. Scope(r) \cap Scope(regReq[d]) \subseteq regRaced'
        BY <2>2, <4>1
      <4> QED BY <4>1, <4>2
    <3>3. CASE d # c /\ e # c
      <4>1. d \in RegInFlight /\ e \in RegInFlight /\ regReq'[d] = regReq[d] /\ regReq'[e] = regReq[e]
        BY <2>3, <3>3
      <4> QED BY <2>2, <2>4, <4>1 DEF Apart
    <3> QED BY <3>1, <3>2, <3>3
  <2> QED BY <2>2, <2>4 DEF Apart
<1>4. ASSUME NEW c \in RegCall, GoesOn(c) PROVE Apart' /\ regRaced \subseteq regRaced'
  <2>1. \A d \in RegInFlight' : d \in RegInFlight /\ regReq'[d] = regReq[d]
    BY <1>4 DEF GoesOn, Moved, RegInFlight
  <2> QED BY <1>4, <2>1 DEF Apart, GoesOn
<1> QED BY <1>1, <1>2, <1>3, <1>4, StepKinds, CallGoesOn DEF Rests

\* Two calls on one asset, on one address or on the keys make it raced.
LEMMA Overlapping ==
    ASSUME RegTypes, Apart, NEW c \in RegInFlight, NEW d \in RegInFlight, c # d
    PROVE  /\ regReq[c].op \in {"token", "class", "royalty"} /\ regReq[d].op \in {"token", "class", "royalty"}
                /\ regReq[c].asset = regReq[d].asset => regReq[c].asset \in regRaced
           /\ regReq[c].op \in {"freeze", "unfreeze"} /\ regReq[d].op \in {"freeze", "unfreeze"}
                /\ regReq[c].address = regReq[d].address => regReq[c].address \in regRaced
           /\ regReq[c].op = "rotate" /\ regReq[d].op = "rotate" => RegKey \cap regRaced # {}
<1>1. Scope(regReq[c]) \cap Scope(regReq[d]) \subseteq regRaced
  BY DEF Apart
<1>2. \A r : r.op \in {"token", "class", "royalty"} => Scope(r) = {r.asset}
  BY DEF Scope
<1>3. \A r : r.op \in {"freeze", "unfreeze"} => Scope(r) = {r.address}
  BY DEF Scope
<1>4. \A r : r.op = "rotate" => Scope(r) = RegKey
  BY DEF Scope
<1> HIDE DEF Scope
<1>5. regReq[c].op = "rotate" /\ regReq[d].op = "rotate" => RegKey \cap regRaced # {}
  BY <1>1, <1>4, RegAssumption
<1>6. regReq[c].op \in {"token", "class", "royalty"} /\ regReq[d].op \in {"token", "class", "royalty"}
                /\ regReq[c].asset = regReq[d].asset => regReq[c].asset \in regRaced
  BY <1>1, <1>2
<1>7. regReq[c].op \in {"freeze", "unfreeze"} /\ regReq[d].op \in {"freeze", "unfreeze"}
                /\ regReq[c].address = regReq[d].address => regReq[c].address \in regRaced
  BY <1>1, <1>3
<1> QED BY <1>5, <1>6, <1>7

-----------------------------------------------------------------------------
(* Answers and royalties.                                                  *)

Answers == \A p \in answered : p[1] \notin regRaced => metaDb[p[1]] # Absent /\ metaDb[p[1]].creator = p[2]
Uses == \A u \in DOMAIN royaltyUses : u.asset \notin regRaced =>
            metaDb[u.asset] # Absent /\ metaDb[u.asset].version > u.version /\ royaltyUses[u] = 1
OnAsset(c) == regPc[c] # "idle" /\ regReq[c].op \in {"token", "class", "royalty"}

LEMMA AnswerParts ==
    AnswerInv <=> (\A c \in RegCall : OnAsset(c) => AnswerKnown(c)) /\ Answers /\ Uses
BY DEF AnswerInv, Answers, Uses, OnAsset, RegInFlight

\* A call on an asset that is not raced keeps what it has found when another
\* writes.
LEMMA AnswerFrame ==
    ASSUME RegTypes, Apart, AnswerInv, NEW c \in RegCall, GoesOn(c),
           \/ UNCHANGED metaDb
           \/ OnAsset(c) /\ \A b \in Asset \ {regReq[c].asset} : metaDb'[b] = metaDb[b],
           AnswerKnown(c)' \/ ~OnAsset(c)', Answers', Uses'
    PROVE  AnswerInv'
<1>1. ASSUME NEW d \in RegCall \ {c}, OnAsset(d)' PROVE AnswerKnown(d)'
  <2>1. regPc'[d] = regPc[d] /\ regReq'[d] = regReq[d] /\ regSnap'[d] = regSnap[d] /\ regRaced' = regRaced
    BY DEF GoesOn, Moved
  <2>2. OnAsset(d) /\ d \in RegInFlight /\ c \in RegInFlight
    BY <1>1, <2>1 DEF OnAsset, RegInFlight, GoesOn
  <2>3. AnswerKnown(d)
    BY <2>2, AnswerParts
  <2>4. regReq[d].asset \in Asset
    BY <2>2, StepRequest, RequestFacts DEF OnAsset, RegTypes, SignedRoyalty
  <2>5. regReq[d].asset \notin regRaced => metaDb'[regReq[d].asset] = metaDb[regReq[d].asset]
    BY <2>2, <2>4, Overlapping DEF OnAsset
  <2> QED BY <2>1, <2>3, <2>5 DEF AnswerKnown, Creator
<1>2. \A d \in RegCall : OnAsset(d)' => AnswerKnown(d)'
  BY <1>1
<1>3. AnswerInv' <=> (\A d \in RegCall : OnAsset(d)' => AnswerKnown(d)') /\ Answers' /\ Uses'
  BY DEF AnswerInv, Answers, Uses, OnAsset, RegInFlight
<1> QED BY <1>2, <1>3

\* A call that is about to create an asset on which it is alone: no answer
\* and no royalty names it yet.
LEMMA CreationKept ==
    ASSUME RegTypes, AnswerInv, NEW c \in RegCall, regPc[c] \in {"putToken", "putClass"}, OnAsset(c),
           \A b \in Asset \ {regReq[c].asset} : metaDb'[b] = metaDb[b],
           regRaced' = regRaced
    PROVE  /\ \A p \in answered : p[1] \notin regRaced' => metaDb'[p[1]] # Absent /\ metaDb'[p[1]].creator = p[2]
           /\ royaltyUses' = royaltyUses => Uses'
<1>1. AnswerKnown(c) /\ Answers /\ Uses
  BY AnswerParts
<1>2. regReq[c].asset \notin regRaced => metaDb[regReq[c].asset] = Absent
  BY <1>1 DEF AnswerKnown
<1>3. \A p \in answered : p[1] \in Asset
  BY DEF RegTypes, RegStoreTypes
<1>4. \A u \in DOMAIN royaltyUses : u.asset \in Asset
  BY DEF RegTypes, RegStoreTypes, SignedRoyalty
<1>5. \A p \in answered : p[1] \notin regRaced' => metaDb'[p[1]] # Absent /\ metaDb'[p[1]].creator = p[2]
  BY <1>1, <1>2, <1>3 DEF Answers
<1>6. royaltyUses' = royaltyUses => Uses'
  BY <1>1, <1>2, <1>4 DEF Uses
<1> QED BY <1>5, <1>6

LEMMA RoyaltyOnce ==
    ASSUME RegTypes, OwnerInv, Apart, AnswerInv, NEW c \in RegCall, PutRoyalty(c)
    PROVE  AnswerInv'
<1> DEFINE a == regReq[c].asset
           r == regReq[c]
<1>1. /\ a \in Asset /\ metaDb[a] \in RegMeta /\ regPc[c] = "putRoyalty"
      /\ metaDb'[a] \in RegMeta /\ metaDb'[a].creator = metaDb[a].creator
      /\ metaDb'[a].version = regSnap[c].version + 1
      /\ \A b \in Asset \ {a} : metaDb'[b] = metaDb[b]
  BY RoyaltyWritten
<1>2. r \in SignedRoyalty /\ r.op = "royalty" /\ OnAsset(c) /\ r.version \in Nat
  BY <1>1, ClassFacts DEF SignedRoyalty, OnAsset
<1>3. AnswerKnown(c) /\ Answers /\ Uses
  BY <1>2, AnswerParts
<1>4. a \notin regRaced => regSnap[c] = metaDb[a] /\ metaDb[a].version = r.version
  BY <1>1, <1>3 DEF AnswerKnown
<1>5. metaDb[a].version \in Nat /\ metaDb'[a] # Absent
  BY <1>1, RegAssumption DEF RegMeta
<1>6. GoesOn(c) /\ regRaced' = regRaced /\ answered' = answered /\ WentTo(c, "insert")
  BY CallGoesOn, WriteSteps DEF Writes, PutRoyalty
<1>7. AnswerKnown(c)'
  BY <1>2, <1>6 DEF AnswerKnown, WentTo
<1>8. Answers'
  <2>1. \A p \in answered : p[1] \in Asset
    BY DEF RegTypes, RegStoreTypes
  <2> QED BY <1>1, <1>3, <1>5, <1>6, <2>1 DEF Answers
<1>9. Uses'
  <2>1. /\ DOMAIN royaltyUses' = DOMAIN royaltyUses \cup {r}
        /\ \A u \in DOMAIN royaltyUses \ {r} : royaltyUses'[u] = royaltyUses[u] + 0
        /\ r \notin DOMAIN royaltyUses => royaltyUses'[r] = 0 + 1
    BY DEF PutRoyalty
  <2>2. \A u \in DOMAIN royaltyUses : u.asset \in Asset /\ u.version \in Nat
    BY DEF RegTypes, RegStoreTypes, SignedRoyalty
  <2>3. ASSUME NEW u \in DOMAIN royaltyUses \ {r}, u.asset \notin regRaced
        PROVE  metaDb'[u.asset] # Absent /\ metaDb'[u.asset].version > u.version /\ royaltyUses'[u] = 1
    <3>1. metaDb[u.asset] # Absent /\ metaDb[u.asset].version > u.version /\ royaltyUses[u] = 1
      BY <1>3, <2>3 DEF Uses
    <3>2. royaltyUses'[u] = 1
      BY <2>1, <3>1
    <3>3. CASE u.asset = a
      BY <1>1, <1>4, <1>5, <2>2, <2>3, <3>1, <3>2, <3>3
    <3>4. CASE u.asset # a
      BY <1>1, <2>2, <3>1, <3>2, <3>4
    <3> QED BY <3>3, <3>4
  <2>4. a \notin regRaced => metaDb'[a] # Absent /\ metaDb'[a].version > r.version /\ royaltyUses'[r] = 1
    <3> SUFFICES ASSUME a \notin regRaced
                 PROVE  metaDb'[a].version > r.version /\ royaltyUses'[r] = 1
      BY <1>5
    <3>1. r \notin DOMAIN royaltyUses
      <4>1. r \in DOMAIN royaltyUses => metaDb[a].version > r.version
        BY <1>3 DEF Uses
      <4> QED BY <1>2, <1>4, <4>1
    <3>2. metaDb'[a].version = r.version + 1
      BY <1>1, <1>4
    <3> QED BY <1>2, <2>1, <3>1, <3>2
  <2> QED BY <1>6, <2>1, <2>3, <2>4 DEF Uses
<1> QED BY <1>1, <1>2, <1>6, <1>7, <1>8, <1>9, AnswerFrame

LEMMA AnswerStep ==
    ASSUME RegTypes, OwnerInv, Apart, AnswerInv, [RegNext]_regVars
    PROVE  AnswerInv'
<1> USE DEF regDb, regGhost
<1>0. /\ RegStoreTypes /\ RegCallTypes /\ Answers /\ Uses
      /\ \A d \in RegCall : OnAsset(d) => AnswerKnown(d)
  BY AnswerParts DEF RegTypes
<1>1. CASE Rests
  BY <1>1 DEF Rests, AnswerInv, AnswerKnown, RegInFlight, Creator
<1>2. CASE Restart
  BY <1>2 DEF Restart, AnswerInv, RegInFlight
<1>3. ASSUME NEW c \in RegCall, Begins(c) PROVE AnswerInv'
  <2>1. /\ regPc'[c] \in {"register", "gate", "lock"} /\ Moved(c) /\ regRaced \subseteq regRaced'
        /\ UNCHANGED <<metaDb, answered, royaltyUses>>
    BY <1>3 DEF Begins, Overlap
  <2>2. AnswerKnown(c)'
    BY <2>1 DEF AnswerKnown
  <2>3. ASSUME NEW d \in RegCall \ {c}, OnAsset(d)' PROVE AnswerKnown(d)'
    <3>1. regPc'[d] = regPc[d] /\ regReq'[d] = regReq[d] /\ regSnap'[d] = regSnap[d]
      BY <2>1 DEF Moved
    <3>2. AnswerKnown(d)
      BY <1>0, <2>3, <3>1 DEF OnAsset
    <3> QED BY <2>1, <3>1, <3>2 DEF AnswerKnown, Creator
  <2>4. Answers' /\ Uses'
    BY <1>0, <2>1 DEF Answers, Uses
  <2>5. AnswerInv' <=> (\A d \in RegCall : OnAsset(d)' => AnswerKnown(d)') /\ Answers' /\ Uses'
    BY DEF AnswerInv, Answers, Uses, OnAsset, RegInFlight
  <2> QED BY <2>2, <2>3, <2>4, <2>5
<1>4. ASSUME NEW c \in RegCall, GoesOn(c), UNCHANGED <<metaDb, answered, royaltyUses>>,
             AnswerKnown(c)' \/ ~OnAsset(c)'
      PROVE  AnswerInv'
  <2>1. Answers' /\ Uses'
    BY <1>0, <1>4 DEF Answers, Uses, GoesOn
  <2> QED BY <1>4, <2>1, AnswerFrame
<1>5. ASSUME NEW c \in RegCall, Reads(c) PROVE AnswerInv'
  <2>1. GoesOn(c) /\ UNCHANGED <<metaDb, answered, royaltyUses>>
    BY <1>5, CallGoesOn DEF Reads
  <2>2. AnswerKnown(c)' \/ ~OnAsset(c)'
    <3>1. CASE regPc[c] = "register" /\ WentTo(c, "putToken") /\ metaDb[regReq[c].asset] = Absent
      BY <2>1, <3>1 DEF WentTo, AnswerKnown
    <3>2. CASE regPc[c] = "classCheck" /\ WentTo(c, "putClass") /\ metaDb[regReq[c].asset] = Absent
      BY <2>1, <3>2 DEF WentTo, AnswerKnown
    <3>3. CASE /\ WentTo(c, "putRoyalty") /\ regSnap'[c] = metaDb[regReq[c].asset]
               /\ metaDb[regReq[c].asset].version = regReq[c].version
      BY <2>1, <3>3 DEF WentTo, AnswerKnown
    <3>4. CASE regPc'[c] \notin {"putToken", "putClass", "putRoyalty", "insert"}
      BY <3>4 DEF AnswerKnown
    <3>5. \/ Ended(c)
          \/ \E pc \in {"gate", "owner", "resolve", "guard", "rotate", "claim", "classCheck", "frozenDb", "putRotation"} : WentTo(c, pc)
          \/ regPc[c] = "register" /\ WentTo(c, "putToken") /\ metaDb[regReq[c].asset] = Absent
          \/ regPc[c] = "classCheck" /\ WentTo(c, "putClass") /\ metaDb[regReq[c].asset] = Absent
          \/ /\ WentTo(c, "putRoyalty") /\ regSnap'[c] = metaDb[regReq[c].asset]
             /\ metaDb[regReq[c].asset].version = regReq[c].version
      BY <1>5 DEF Reads
    <3>6. (Ended(c) => regPc'[c] = "idle") /\ \A pc : WentTo(c, pc) => regPc'[c] = pc
      BY DEF Ended, WentTo
    <3> QED BY <3>1, <3>2, <3>3, <3>4, <3>5, <3>6
  <2> QED BY <1>4, <2>1, <2>2
<1>6. ASSUME NEW c \in RegCall,
             \/ Claims(c) \/ PutCollectionOwner(c) \/ PutFrozen(c) \/ FreezeUnlogged(c)
             \/ RecordKeyRotation(c) \/ ListKeyRotations(c)
      PROVE  AnswerInv'
  <2>1. GoesOn(c) /\ UNCHANGED <<metaDb, answered, royaltyUses>>
    BY <1>6, CallGoesOn DEF Writes, Claims, PutCollectionOwner, PutFrozen, FreezeUnlogged, RecordKeyRotation,
                            ListKeyRotations
  <2>2. regPc'[c] \in {"putOwner", "classCheck", "frozenRam", "refresh", "cacheKeys", "idle"}
    BY <1>6, WriteSteps DEF Claims, WentTo, Ended
  <2> QED BY <1>4, <2>1, <2>2 DEF AnswerKnown
<1>7. ASSUME NEW c \in RegCall, CacheFrozen(c) \/ KeyListFails(c) \/ RefreshKeyRotationState(c)
      PROVE  AnswerInv'
  <2>1. GoesOn(c) /\ UNCHANGED <<metaDb, answered, royaltyUses>>
    BY <1>7, CallGoesOn DEF Writes, CacheFrozen, KeyListFails, RefreshKeyRotationState
  <2>2. regPc[c] \in {"frozenRam", "refresh", "cacheKeys"} /\ regReq'[c] = regReq[c]
    BY <1>7, WriteSteps DEF CacheFrozen, KeyListFails, RefreshKeyRotationState, WentTo
  <2>3. ~OnAsset(c)'
    BY <1>0, <2>2, StepRequest DEF OnAsset
  <2> QED BY <1>4, <2>1, <2>3
<1>8. ASSUME NEW c \in RegCall, PutToken(c) PROVE AnswerInv'
  <2> DEFINE a == regReq[c].asset
             e == <<a, regReq[c].meta.creator>>
  <2>1. /\ GoesOn(c) /\ regPc[c] = "putToken" /\ regPc'[c] = "idle" /\ UNCHANGED royaltyUses
        /\ metaDb' = [metaDb EXCEPT ![a] = regReq[c].meta] /\ answered' = answered \cup {e}
    BY <1>8, CallGoesOn, WriteSteps DEF Writes, PutToken, Ended
  <2>2. a \in Asset /\ regReq[c].meta \in RegMeta /\ OnAsset(c)
    BY <1>0, <2>1, ClassFacts, StepRequest DEF OnAsset
  <2>3. metaDb'[a] = regReq[c].meta /\ \A b \in Asset \ {a} : metaDb'[b] = metaDb[b]
    BY <1>0, <2>1, <2>2 DEF RegStoreTypes
  <2>4. Uses' /\ \A p \in answered : p[1] \notin regRaced' => metaDb'[p[1]] # Absent /\ metaDb'[p[1]].creator = p[2]
    BY <2>1, <2>2, <2>3, CreationKept DEF GoesOn
  <2>5. e[1] = a /\ e[2] = regReq[c].meta.creator
    OBVIOUS
  <2> HIDE DEF e
  <2>6. Answers'
    BY <2>1, <2>2, <2>3, <2>4, <2>5, RegAssumption DEF Answers
  <2>7. ~OnAsset(c)'
    BY <2>1 DEF OnAsset
  <2> QED BY <2>1, <2>2, <2>3, <2>4, <2>6, <2>7, AnswerFrame
<1>9. ASSUME NEW c \in RegCall, PutSftClass(c) PROVE AnswerInv'
  <2> DEFINE a == regReq[c].asset
  <2>1. /\ GoesOn(c) /\ regPc[c] = "putClass" /\ regPc'[c] = "insert" /\ regReq'[c] = regReq[c]
        /\ UNCHANGED <<royaltyUses, answered>> /\ metaDb' = [metaDb EXCEPT ![a] = regReq[c].meta]
    BY <1>9, CallGoesOn, WriteSteps DEF Writes, PutSftClass, WentTo
  <2>2. a \in Asset /\ regReq[c].meta \in RegMeta /\ OnAsset(c)
    BY <1>0, <2>1, ClassFacts, StepRequest DEF OnAsset
  <2>3. metaDb'[a] = regReq[c].meta /\ \A b \in Asset \ {a} : metaDb'[b] = metaDb[b]
    BY <1>0, <2>1, <2>2 DEF RegStoreTypes
  <2>4. Uses' /\ \A p \in answered : p[1] \notin regRaced' => metaDb'[p[1]] # Absent /\ metaDb'[p[1]].creator = p[2]
    BY <2>1, <2>2, <2>3, CreationKept DEF GoesOn
  <2>5. Answers'
    BY <2>1, <2>4 DEF Answers
  <2>6. AnswerKnown(c)'
    BY <2>1, <2>2, <2>3, RegAssumption DEF AnswerKnown, Creator
  <2> QED BY <2>1, <2>2, <2>3, <2>4, <2>5, <2>6, AnswerFrame
<1>10. ASSUME NEW c \in RegCall, Insert(c) PROVE AnswerInv'
  <2> DEFINE a == regReq[c].asset
             e == <<a, regReq[c].meta.creator>>
  <2>1. /\ GoesOn(c) /\ regPc[c] = "insert" /\ regPc'[c] = "idle" /\ UNCHANGED <<metaDb, royaltyUses>>
        /\ answered' = IF regReq[c].op = "class" THEN answered \cup {e} ELSE answered
    BY <1>10, CallGoesOn, WriteSteps DEF Writes, Insert, Ended
  <2>2. regReq[c].op = "class" => AnswerKnown(c)
    BY <1>0, <2>1 DEF OnAsset
  <2>3. regReq[c].op = "class" /\ a \notin regRaced => metaDb[a] # Absent /\ metaDb[a].creator = regReq[c].meta.creator
    BY <2>1, <2>2 DEF AnswerKnown, Creator
  <2>4. e[1] = a /\ e[2] = regReq[c].meta.creator
    OBVIOUS
  <2> HIDE DEF e
  <2>5. Answers' /\ Uses'
    BY <1>0, <2>1, <2>3, <2>4 DEF Answers, Uses, GoesOn
  <2>6. ~OnAsset(c)'
    BY <2>1 DEF OnAsset
  <2> QED BY <2>1, <2>5, <2>6, AnswerFrame
<1>11. ASSUME NEW c \in RegCall, PutRoyalty(c) PROVE AnswerInv'
  BY <1>11, RoyaltyOnce
<1> QED BY <1>1, <1>2, <1>3, <1>5, <1>6, <1>7, <1>8, <1>9, <1>10, <1>11, StepKinds DEF Writes

-----------------------------------------------------------------------------
(* Frozen addresses.                                                       *)

Caching(c, w) == regPc[c] = "frozenRam" /\ regReq[c].address = w
FrozenOn(w) ==
    /\ \A c \in RegCall : Caching(c, w) => (w \in frozenDb <=> regReq[c].op = "freeze")
    /\ (w \in frozenRam <=> w \in frozenDb) \/ \E c \in RegCall : Caching(c, w)

LEMMA FrozenParts == FrozenInv <=> \A w \in Who \ regRaced : FrozenOn(w)
BY DEF FrozenInv, FrozenOn, Caching, RegInFlight

\* The same in the next state.
LEMMA FrozenPartsNext == FrozenInv' <=> \A w \in Who \ regRaced' : FrozenOn(w)'
BY DEF FrozenInv, FrozenOn, Caching, RegInFlight

LEMMA FrozenStep ==
    ASSUME RegTypes, Apart, FrozenInv, [RegNext]_regVars
    PROVE  FrozenInv'
<1> USE DEF regDb, regGhost
<1>0. RegCallTypes /\ \A w \in Who \ regRaced : FrozenOn(w)
  BY FrozenParts DEF RegTypes
<1>1. CASE Rests
  BY <1>1 DEF Rests, FrozenInv, RegInFlight
<1>2. CASE Restart
  BY <1>2 DEF Restart, FrozenInv, RegInFlight
<1>3. ASSUME NEW c \in RegCall, Moved(c), regRaced \subseteq regRaced', UNCHANGED <<frozenDb, frozenRam>>,
             regPc[c] # "frozenRam", regPc'[c] # "frozenRam"
      PROVE  FrozenInv'
  <2>1. \A d \in RegCall : \A w : /\ Caching(d, w)' <=> Caching(d, w)
                                  /\ Caching(d, w) => regReq'[d] = regReq[d]
    BY <1>3 DEF Moved, Caching
  <2>2. \A w \in Who \ regRaced' : FrozenOn(w)'
    BY <1>0, <1>3, <2>1 DEF FrozenOn
  <2> QED BY <2>2, FrozenPartsNext
<1>4. ASSUME NEW c \in RegCall, Begins(c) PROVE FrozenInv'
  <2>1. /\ Moved(c) /\ UNCHANGED <<frozenDb, frozenRam>> /\ regRaced \subseteq regRaced'
        /\ regPc[c] # "frozenRam" /\ regPc'[c] # "frozenRam"
    BY <1>4 DEF Begins, Overlap
  <2> QED BY <1>3, <2>1
<1>5. ASSUME NEW c \in RegCall, Reads(c) \/ Claims(c) PROVE FrozenInv'
  <2>1. Moved(c) /\ regRaced' = regRaced
    BY <1>5, CallGoesOn DEF GoesOn
  <2>2. UNCHANGED <<frozenDb, frozenRam>> /\ regPc[c] # "frozenRam" /\ regPc'[c] # "frozenRam"
    BY <1>5 DEF Reads, Claims, Ended, WentTo
  <2> QED BY <1>3, <2>1, <2>2
<1>6. ASSUME NEW c \in RegCall,
             \/ PutToken(c) \/ Insert(c) \/ PutCollectionOwner(c) \/ PutSftClass(c) \/ PutRoyalty(c)
             \/ RecordKeyRotation(c) \/ ListKeyRotations(c) \/ KeyListFails(c) \/ RefreshKeyRotationState(c)
      PROVE  FrozenInv'
  <2>1. Moved(c) /\ regRaced' = regRaced
    BY <1>6, CallGoesOn DEF Writes, GoesOn
  <2>2. regPc'[c] # "frozenRam"
    BY <1>6, WriteSteps DEF Ended, WentTo
  <2>3. UNCHANGED <<frozenDb, frozenRam>> /\ regPc[c] # "frozenRam"
    BY <1>6 DEF PutToken, Insert, PutCollectionOwner, PutSftClass, PutRoyalty, RecordKeyRotation,
                ListKeyRotations, KeyListFails, RefreshKeyRotationState, regRam
  <2> QED BY <1>3, <2>1, <2>2, <2>3
<1>7. ASSUME NEW c \in RegCall, PutFrozen(c) PROVE FrozenInv'
  <2> DEFINE a == regReq[c].address
  <2>1. /\ Moved(c) /\ regRaced' = regRaced /\ regPc[c] = "frozenDb" /\ regPc'[c] = "frozenRam"
        /\ regReq'[c] = regReq[c] /\ frozenRam' = frozenRam
        /\ frozenDb' = IF regReq[c].op = "freeze" THEN frozenDb \cup {a} ELSE frozenDb \ {a}
    BY <1>7, CallGoesOn, WriteSteps DEF Writes, GoesOn, WentTo, PutFrozen, regRam
  <2>2. c \in RegInFlight /\ regReq[c].op \in {"freeze", "unfreeze"}
    BY <1>0, <2>1, StepRequest
  <2>3. \A d \in RegCall \ {c} : Caching(d, a) => a \in regRaced
    BY <1>0, <2>2, Overlapping, StepRequest DEF Caching
  <2>4. \A d \in RegCall \ {c} : \A w : /\ Caching(d, w)' <=> Caching(d, w)
                                        /\ regReq'[d] = regReq[d]
    BY <2>1 DEF Moved, Caching
  <2>5. ASSUME NEW w \in Who \ regRaced' PROVE FrozenOn(w)'
    <3>1. FrozenOn(w)
      BY <1>0, <2>1, <2>5
    <3>2. CASE w = a
      <4>1. Caching(c, w)' /\ (w \in frozenDb' <=> regReq'[c].op = "freeze")
        BY <2>1, <3>2 DEF Caching
      <4> QED BY <2>1, <2>3, <2>4, <2>5, <3>2, <4>1 DEF FrozenOn
    <3>3. CASE w # a
      <4>1. ~Caching(c, w) /\ ~Caching(c, w)' /\ (w \in frozenDb' <=> w \in frozenDb)
        BY <2>1, <3>3 DEF Caching
      <4> QED BY <2>1, <2>4, <3>1, <4>1 DEF FrozenOn
    <3> QED BY <3>2, <3>3
  <2> QED BY <2>5, FrozenPartsNext
<1>8. ASSUME NEW c \in RegCall, CacheFrozen(c) \/ FreezeUnlogged(c) PROVE FrozenInv'
  <2> DEFINE a == regReq[c].address
  <2>1. /\ Moved(c) /\ regRaced' = regRaced /\ regPc[c] = "frozenRam" /\ regPc'[c] \in {"insert", "idle"}
        /\ frozenDb' = frozenDb
        /\ frozenRam' = IF regReq[c].op = "freeze" THEN frozenRam \cup {a} ELSE frozenRam \ {a}
    BY <1>8, CallGoesOn, WriteSteps DEF Writes, GoesOn, WentTo, Ended, CacheFrozen, FreezeUnlogged
  <2>2. \A d \in RegCall \ {c} : \A w : /\ Caching(d, w)' <=> Caching(d, w)
                                        /\ regReq'[d] = regReq[d]
    BY <2>1 DEF Moved, Caching
  <2>3. \A w : ~Caching(c, w)'
    BY <2>1 DEF Caching
  <2>4. ASSUME NEW w \in Who \ regRaced' PROVE FrozenOn(w)'
    <3>1. FrozenOn(w)
      BY <1>0, <2>1, <2>4
    <3>2. \A d \in RegCall : Caching(d, w)' => (w \in frozenDb' <=> regReq'[d].op = "freeze")
      BY <2>1, <2>2, <2>3, <3>1 DEF FrozenOn
    <3>3. CASE w = a
      <4>1. Caching(c, w)
        BY <2>1, <3>3 DEF Caching
      <4>2. w \in frozenDb <=> regReq[c].op = "freeze"
        BY <3>1, <4>1 DEF FrozenOn
      <4>3. w \in frozenRam' <=> w \in frozenDb'
        BY <2>1, <3>3, <4>2
      <4> QED BY <3>2, <4>3 DEF FrozenOn
    <3>4. CASE w # a
      <4>1. ~Caching(c, w) /\ (w \in frozenRam' <=> w \in frozenRam)
        BY <2>1, <3>4 DEF Caching
      <4> QED BY <2>1, <2>2, <3>1, <3>2, <4>1 DEF FrozenOn
    <3> QED BY <3>3, <3>4
  <2> QED BY <2>4, FrozenPartsNext
<1> QED BY <1>1, <1>2, <1>4, <1>5, <1>6, <1>7, <1>8, StepKinds DEF Writes

-----------------------------------------------------------------------------
(* The key history.                                                        *)

\* The key before the i-th rotation.
KeyBefore(h, i) == IF i = 1 THEN BootKey ELSE h[i - 1].new

LEMMA PrefixKey ==
    ASSUME NEW h \in Seq(KeyRecord), NEW i \in 1 .. Len(h)
    PROVE  CurrentPk(SubSeq(h, 1, i - 1)) = KeyBefore(h, i)
<1> DEFINE p == SubSeq(h, 1, i - 1)
<1>1. p \in Seq(KeyRecord) /\ Len(p) = i - 1 /\ \A j \in 1 .. i - 1 : p[j] = h[j]
  OBVIOUS
<1> HIDE DEF p
<1>2. CASE i = 1
  BY <1>1, <1>2, EmptySeq DEF CurrentPk, KeyBefore, p
<1>3. CASE i # 1
  <2>1. p # <<>> /\ p[Len(p)] = h[i - 1]
    BY <1>1, <1>3
  <2> QED BY <1>3, <2>1 DEF CurrentPk, KeyBefore, Last, p
<1> QED BY <1>2, <1>3

Chain(h) == \A i \in 1 .. Len(h) : h[i].old = KeyBefore(h, i)
Chained == RegKey \cap regRaced = {} /\ ~keyLoose => Chain(keyDb)
Refreshing ==
    RegKey \cap regRaced = {} =>
        keyRam = keyDb \/ keyUnread \/ \E c \in RegCall : regPc[c] \in {"refresh", "cacheKeys"}
Proven ==
    RegKey \cap regRaced = {} => \A c \in RegCall :
        /\ regPc[c] = "putRotation" => regReq[c].old = CurrentPk(keyRam)
        /\ regPc[c] = "cacheKeys" => regSnap[c] = keyDb
KeyFacts == Chained /\ Refreshing /\ Proven

LEMMA KeyParts ==
    ASSUME RegTypes
    PROVE  KeyInv <=> KeyFacts
<1>1. keyDb \in Seq(KeyRecord)
  BY DEF RegTypes, RegStoreTypes
<1>2. \A i \in 1 .. Len(keyDb) : CurrentPk(SubSeq(keyDb, 1, i - 1)) = KeyBefore(keyDb, i)
  BY <1>1, PrefixKey
<1>3. KeyHistoryChains <=> Chained /\ Refreshing
  BY <1>2 DEF KeyHistoryChains, Chained, Chain, Refreshing, RegInFlight
<1> QED BY <1>3 DEF KeyInv, Proven, KeyFacts

LEMMA ChainExtended ==
    ASSUME NEW h \in Seq(KeyRecord), Chain(h), NEW e \in KeyRecord, e.old = CurrentPk(h)
    PROVE  Chain(Append(h, e))
<1> DEFINE g == Append(h, e)
           n == Len(h)
<1>1. n \in Nat /\ Len(g) = n + 1 /\ g[n + 1] = e /\ \A i \in 1 .. n : g[i] = h[i]
  OBVIOUS
<1> HIDE DEF g
<1>2. ASSUME NEW i \in 1 .. n PROVE g[i].old = KeyBefore(g, i)
  <2>1. h[i].old = KeyBefore(h, i)
    BY DEF Chain
  <2>2. KeyBefore(g, i) = KeyBefore(h, i)
    BY <1>1 DEF KeyBefore
  <2> QED BY <1>1, <2>1, <2>2
<1>3. e.old = KeyBefore(g, n + 1)
  <2>1. CASE n = 0
    <3>1. h = <<>>
      BY <2>1, EmptySeq
    <3> QED BY <2>1, <3>1 DEF CurrentPk, KeyBefore
  <2>2. CASE n # 0
    <3>1. h # <<>> /\ g[n] = h[n] /\ (n + 1) - 1 = n /\ n + 1 # 1
      BY <1>1, <2>2
    <3>2. CurrentPk(h) = h[n].new
      BY <3>1 DEF CurrentPk, Last
    <3> QED BY <3>1, <3>2 DEF KeyBefore
  <2> QED BY <2>1, <2>2
<1>4. \A i \in 1 .. n + 1 : g[i].old = KeyBefore(g, i)
  BY <1>1, <1>2, <1>3
<1> QED BY <1>1, <1>4 DEF Chain, g

\* A rotation later than all of the history goes to its end.
LEMMA LatestIsLast ==
    ASSUME NEW h \in Seq(KeyRecord), NEW e \in KeyRecord, Latest(h, e)
    PROVE  /\ \A i \in 1 .. Len(h) + 1 : InTimeOrder(h, i, e) => InsertAt(h, i, e) = Append(h, e)
           /\ \A j \in 1 .. Len(h) : h[j] # e
<1>1. \A j \in 1 .. Len(h) : h[j].at \in Nat /\ e.at \in Nat /\ h[j].at < e.at
  <2>1. \A j \in 1 .. Len(h) : h[j] \in KeyRecord
    OBVIOUS
  <2>2. \A r \in KeyRecord : r.at \in Nat
    BY DEF KeyRecord
  <2> QED BY <2>1, <2>2 DEF Latest
<1>2. ASSUME NEW i \in 1 .. Len(h) + 1, InTimeOrder(h, i, e) PROVE InsertAt(h, i, e) = Append(h, e)
  <2>1. i \notin 1 .. Len(h)
    BY <1>1, <1>2 DEF InTimeOrder
  <2>2. i = Len(h) + 1
    BY <2>1
  <2>3. SubSeq(h, 1, i - 1) = h
    BY <2>2
  <2>4. SubSeq(h, i, Len(h)) = << >>
    BY <2>2, SubSeqEmpty
  <2>5. h \o <<e>> \in Seq(KeyRecord) /\ h \o <<e>> = Append(h, e)
    OBVIOUS
  <2>6. (h \o <<e>>) \o << >> = h \o <<e>>
    BY <2>5, ConcatEmptySeq
  <2> QED BY <2>3, <2>4, <2>5, <2>6 DEF InsertAt
<1> QED BY <1>1, <1>2

LEMMA KeyStep ==
    ASSUME RegTypes, OwnerInv, Apart, KeyInv, [RegNext]_regVars
    PROVE  KeyInv'
<1> USE DEF regDb, regGhost
<1>0. /\ RegCallTypes /\ {keyDb, keyRam} \subseteq Seq(KeyRecord) /\ regNow \in Nat
      /\ Chained /\ Refreshing /\ Proven
  BY KeyParts DEF RegTypes, RegStoreTypes, KeyFacts
<1> SUFFICES KeyFacts'
  <2>1. keyDb' \in Seq(KeyRecord)
    BY RegTypesKept DEF RegTypes, RegStoreTypes
  <2>2. \A i \in 1 .. Len(keyDb') : CurrentPk(SubSeq(keyDb', 1, i - 1)) = KeyBefore(keyDb', i)
    BY <2>1, PrefixKey
  <2>3. KeyHistoryChains' <=> Chained' /\ Refreshing'
    BY <2>2 DEF KeyHistoryChains, Chained, Chain, Refreshing, RegInFlight
  <2> QED BY <2>3 DEF KeyInv, Proven, KeyFacts
<1> USE DEF KeyFacts
<1>1. CASE Rests
  BY <1>0, <1>1 DEF Rests, Chained, Refreshing, Proven
<1>2. CASE Restart
  <2>1. regPc' = [c \in RegCall |-> "idle"] /\ UNCHANGED <<keyDb, keyLoose, regRaced>>
        /\ keyUnread' \in BOOLEAN /\ (~keyUnread' => keyRam' = keyDb)
    BY <1>2 DEF Restart
  <2> QED BY <1>0, <2>1 DEF Chained, Refreshing, Proven
<1>3. ASSUME NEW c \in RegCall, Moved(c), regRaced \subseteq regRaced', UNCHANGED <<keyDb, keyCache>>,
             regPc[c] \notin {"refresh", "cacheKeys"}, regPc'[c] # "cacheKeys",
             regPc'[c] = "putRotation" => regReq'[c].old = CurrentPk(keyRam)
      PROVE  KeyFacts'
  <2>1. \A d \in RegCall \ {c} : regPc'[d] = regPc[d] /\ regReq'[d] = regReq[d] /\ regSnap'[d] = regSnap[d]
    BY <1>3 DEF Moved
  <2>2. Chained' /\ Refreshing'
    BY <1>0, <1>3, <2>1 DEF Chained, Refreshing
  <2>3. Proven'
    BY <1>0, <1>3, <2>1 DEF Proven
  <2> QED BY <2>2, <2>3
<1>4. ASSUME NEW c \in RegCall, Begins(c) PROVE KeyFacts'
  <2>1. /\ Moved(c) /\ UNCHANGED <<keyDb, keyCache>> /\ regRaced \subseteq regRaced'
        /\ regPc[c] = "idle" /\ regPc'[c] \notin {"putRotation", "cacheKeys"}
    BY <1>4 DEF Begins, Overlap
  <2> QED BY <1>3, <2>1
<1>5. ASSUME NEW c \in RegCall, Reads(c) \/ Claims(c) PROVE KeyFacts'
  <2>1. Moved(c) /\ regRaced' = regRaced
    BY <1>5, CallGoesOn DEF GoesOn
  <2>2. /\ UNCHANGED <<keyDb, keyCache>>
        /\ regPc[c] \notin {"refresh", "cacheKeys"} /\ regPc'[c] # "cacheKeys"
        /\ regPc'[c] = "putRotation" => regReq'[c].old = CurrentPk(keyRam)
    BY <1>5 DEF Reads, Claims, Ended, WentTo
  <2> QED BY <1>3, <2>1, <2>2
<1>6. ASSUME NEW c \in RegCall,
             \/ PutToken(c) \/ Insert(c) \/ PutCollectionOwner(c) \/ PutSftClass(c) \/ PutRoyalty(c)
             \/ PutFrozen(c) \/ CacheFrozen(c) \/ FreezeUnlogged(c)
      PROVE  KeyFacts'
  <2>1. Moved(c) /\ regRaced' = regRaced
    BY <1>6, CallGoesOn DEF Writes, GoesOn
  <2>2. regPc'[c] \notin {"putRotation", "cacheKeys"}
    BY <1>6, WriteSteps DEF Ended, WentTo
  <2>3. UNCHANGED <<keyDb, keyCache>> /\ regPc[c] \notin {"refresh", "cacheKeys"}
    BY <1>6 DEF PutToken, Insert, PutCollectionOwner, PutSftClass, PutRoyalty, PutFrozen, CacheFrozen,
                FreezeUnlogged, regRam
  <2> QED BY <1>3, <2>1, <2>2, <2>3
<1>7. ASSUME NEW c \in RegCall, regPc[c] \in {"putRotation", "refresh", "cacheKeys"},
             RegKey \cap regRaced = {}, NEW d \in RegCall \ {c}
      PROVE  regPc[d] \notin {"putRotation", "refresh", "cacheKeys"}
  <2>1. c \in RegInFlight /\ regReq[c].op = "rotate"
    BY <1>0, <1>7, StepRequest
  <2> QED BY <1>0, <1>7, <2>1, Overlapping, StepRequest
<1>8. ASSUME NEW c \in RegCall, RecordKeyRotation(c) PROVE KeyFacts'
  <2> DEFINE e == RotationRecord(c)
  <2>1. /\ Moved(c) /\ regRaced' = regRaced /\ regPc[c] = "putRotation" /\ regPc'[c] = "refresh"
        /\ keyRam' = keyRam
    BY <1>8, CallGoesOn, WriteSteps DEF Writes, GoesOn, WentTo, RecordKeyRotation
  <2>2. e \in KeyRecord
    BY <1>0, <2>1, RecordTyped
  <2>3. /\ \/ \E i \in 1 .. Len(keyDb) + 1 : InTimeOrder(keyDb, i, e) /\ keyDb' = InsertAt(keyDb, i, e)
           \/ \E j \in 1 .. Len(keyDb) : keyDb[j] = e
        /\ keyLoose' = (keyLoose \/ keyUnread \/ ~Latest(keyDb, e))
    BY <1>8 DEF RecordKeyRotation
  <2>4. e.old = regReq[c].old
    BY DEF RotationRecord
  <2> HIDE DEF e
  <2>5. Latest(keyDb, e) => keyDb' = Append(keyDb, e)
    BY <1>0, <2>2, <2>3, LatestIsLast
  <2>6. Refreshing'
    BY <2>1 DEF Refreshing
  <2>7. Proven'
    BY <1>7, <2>1 DEF Proven, Moved
  <2>8. Chained'
    <3> SUFFICES ASSUME RegKey \cap regRaced = {}, ~keyLoose' PROVE Chain(keyDb')
      BY <2>1 DEF Chained
    <3>1. ~keyLoose /\ ~keyUnread /\ Latest(keyDb, e)
      BY <2>3
    <3>2. keyRam = keyDb
      BY <1>0, <1>7, <2>1, <3>1 DEF Refreshing
    <3>3. regReq[c].old = CurrentPk(keyDb) /\ Chain(keyDb)
      BY <1>0, <2>1, <3>1, <3>2 DEF Proven, Chained
    <3> QED BY <1>0, <2>2, <2>4, <2>5, <3>1, <3>3, ChainExtended
  <2> QED BY <2>6, <2>7, <2>8
<1>9. ASSUME NEW c \in RegCall, ListKeyRotations(c) PROVE KeyFacts'
  <2>1. /\ Moved(c) /\ regRaced' = regRaced /\ regPc[c] = "refresh" /\ regPc'[c] = "cacheKeys"
        /\ UNCHANGED <<keyDb, keyCache>> /\ regSnap'[c] = keyDb
    BY <1>9, CallGoesOn, WriteSteps DEF Writes, GoesOn, WentTo, ListKeyRotations, regRam
  <2>2. Refreshing' /\ Chained'
    BY <1>0, <2>1 DEF Refreshing, Chained
  <2>3. Proven'
    BY <1>7, <2>1 DEF Proven, Moved
  <2> QED BY <2>2, <2>3
<1>10. ASSUME NEW c \in RegCall, KeyListFails(c) PROVE KeyFacts'
  <2>1. /\ Moved(c) /\ regRaced' = regRaced /\ regPc[c] = "refresh" /\ regPc'[c] = "insert"
        /\ UNCHANGED <<keyDb, keyRam, keyLoose>> /\ keyUnread'
    BY <1>10, CallGoesOn, WriteSteps DEF Writes, GoesOn, WentTo, KeyListFails
  <2>2. Refreshing' /\ Chained'
    BY <1>0, <2>1 DEF Refreshing, Chained
  <2>3. Proven'
    BY <1>7, <2>1 DEF Proven, Moved
  <2> QED BY <2>2, <2>3
<1>11. ASSUME NEW c \in RegCall, RefreshKeyRotationState(c) PROVE KeyFacts'
  <2>1. /\ Moved(c) /\ regRaced' = regRaced /\ regPc[c] = "cacheKeys" /\ regPc'[c] = "insert"
        /\ UNCHANGED <<keyDb, keyLoose>> /\ keyRam' = regSnap[c]
    BY <1>11, CallGoesOn, WriteSteps DEF Writes, GoesOn, WentTo, RefreshKeyRotationState
  <2>2. RegKey \cap regRaced = {} => regSnap[c] = keyDb
    BY <1>0, <2>1 DEF Proven
  <2>3. Refreshing' /\ Chained'
    BY <1>0, <2>1, <2>2 DEF Refreshing, Chained
  <2>4. Proven'
    BY <1>7, <2>1 DEF Proven, Moved
  <2> QED BY <2>3, <2>4
<1> QED BY <1>1, <1>2, <1>4, <1>5, <1>6, <1>8, <1>9, <1>10, <1>11, StepKinds DEF Writes

-----------------------------------------------------------------------------
LEMMA RegistryInitial == RegInit => RegistryInv
<1> SUFFICES ASSUME RegInit PROVE RegistryInv
  OBVIOUS
<1>1. RegInFlight = {}
  BY DEF RegInit, RegInFlight
<1>2. DOMAIN royaltyUses = {} /\ answered = {} /\ frozenRam = {} /\ frozenDb = {}
      /\ keyDb = <<>> /\ keyRam = <<>>
  BY DEF RegInit
<1>3. \A c \in RegCall : regPc[c] \notin {"putRotation", "cacheKeys"}
  BY DEF RegInit
<1>4. Apart /\ AnswerInv /\ FrozenInv
  BY <1>1, <1>2 DEF Apart, AnswerInv, FrozenInv
<1>5. KeyInv
  BY <1>1, <1>2, <1>3 DEF KeyInv, KeyHistoryChains
<1> QED BY <1>4, <1>5 DEF RegistryInv

LEMMA InvHolds ==
    ASSUME RegTypes, RegistryInv
    PROVE  RegistriesHold
<1>1. AssetAnswersHold
  BY DEF RegistryInv, AnswerInv, AssetAnswersHold
<1>2. FrozenMirrored
  <2> SUFFICES ASSUME NEW w \in Who, w \notin regRaced, ~(w \in frozenRam <=> w \in frozenDb)
               PROVE  \E c \in RegInFlight : w \in Scope(regReq[c])
    BY DEF FrozenMirrored
  <2>1. FrozenInv /\ RegCallTypes
    BY DEF RegistryInv, RegTypes
  <2>2. PICK c \in RegInFlight : regPc[c] = "frozenRam" /\ regReq[c].address = w
    BY <2>1 DEF FrozenInv
  <2>3. regReq[c].op \in {"freeze", "unfreeze"}
    BY <2>1, <2>2, StepRequest DEF RegInFlight
  <2> QED BY <2>2, <2>3 DEF Scope
<1>3. KeyHistoryChains
  BY DEF RegistryInv, KeyInv
<1> QED BY <1>1, <1>2, <1>3 DEF RegistriesHold

\* However creations, royalty updates, freezes and rotations interleave, with
\* blocks that come back after they were pruned, failed accesses to RocksDB, a
\* clock set back and ends of the process: on what no two calls met, an answer
\* stands, a royalty authorization counts once, the frozen addresses in memory
\* are the stored ones; and the keys form a chain that the gate asks, until a
\* list of them fails or one is recorded at a time that is not the latest (the
\* arms of persist.rs, compliance_lock, KeyRotationState).
THEOREM RegistriesAlwaysHold == RegSpec => []RegistriesHold
<1>1. RegInit => RegTypes /\ OwnerInv /\ RegistryInv
  BY RegInitTypes, RegistryInitial
<1>2. RegTypes /\ OwnerInv /\ RegistryInv /\ [RegNext]_regVars => (RegTypes /\ OwnerInv /\ RegistryInv)'
  <2> SUFFICES ASSUME RegTypes, OwnerInv, RegistryInv, [RegNext]_regVars
               PROVE  RegTypes' /\ OwnerInv' /\ RegistryInv'
    OBVIOUS
  <2>1. Apart /\ AnswerInv /\ FrozenInv /\ KeyInv
    BY DEF RegistryInv
  <2>2. RegTypes' /\ OwnerInv'
    BY RegTypesKept, OwnerStep
  <2>3. Apart' /\ AnswerInv' /\ FrozenInv' /\ KeyInv'
    BY <2>1, ApartStep, AnswerStep, FrozenStep, KeyStep
  <2> QED BY <2>2, <2>3 DEF RegistryInv
<1>3. RegTypes /\ OwnerInv /\ RegistryInv => RegistriesHold
  BY InvHolds
<1> QED BY <1>1, <1>2, <1>3, PTL DEF RegSpec

-----------------------------------------------------------------------------
(* The NFT registry.  The invariant follows every call through its         *)
(* accesses: what it read, the list it is about to write back, and for     *)
(* each of its tokens that no other call touched how far the three column  *)
(* families have got.  A call that shares a name with another one marks    *)
(* both footprints, so every other token and address has one writer.       *)

Deletes(c) == Act(c).kind \in {"Burn", "BatchBurn"}
Mints(c) == Act(c).kind \in {"Mint", "Sealed"}
Foot(c) == Footprint(nftBlk[c])
\* The names the work of c may meet in the store without a word from anyone:
\* its own, and those two overlapping calls touched.
Near(c) == {NoOne} \cup Foot(c) \cup nftRaced

NftSteps == {"done", "createOnly", "getOwner", "putOwner", "unlist", "putOldList", "enlist",
             "putNewList", "putPointer", "delPointer", "delOwner"}

\* The tokens left of the batch c deletes.
Left(c) == {nftTodo[c].left[i] : i \in DOMAIN nftTodo[c].left}

NftTyped ==
    /\ nftOwner \in [Nft -> Holder \cup {NoOne}]
    /\ nftIndex \in [Holder -> SUBSET Nft]
    /\ nftPointer \in [Nft -> NftBlock \cup {NoOne}]
    /\ nftPc \in [NftCall -> {"idle", "arm", "insert", "apply", "post"}]
    /\ nftBlk \in [NftCall -> NftBlock \cup {NoOne}]
    /\ nftVia \in [NftCall -> NftVias]
    /\ nftTodo \in [NftCall -> [at : NftSteps, nft : Nft \cup {NoOne},
                                to : Holder \cup {NoOne}, left : Seq(Nft)]]
    /\ nftRead \in [NftCall -> Holder \cup {NoOne}]
    /\ nftList \in [NftCall -> SUBSET Nft]
    /\ nftMinted \in [Nft -> Nat] /\ nftBurnt \in [Nft -> Nat]

\* What the progress of a call says of its block and of its work.
CallShape(c) ==
    /\ nftPc[c] = "idle" => nftRead[c] = NoOne
    /\ nftPc[c] # "idle" => nftBlk[c] \in NftBlock
    /\ nftPc[c] \in {"idle", "arm", "insert"} => At(c, "done")
    /\ nftPc[c] = "insert" => nftVia[c] = "mint_nft"
    /\ nftPc[c] \in {"arm", "apply"} => nftVia[c] # "mint_nft"
    /\ nftPc[c] = "post" => nftVia[c] # "submit"
    /\ nftPc[c] # "idle" =>
         /\ nftVia[c] = "mint_nft" <=> Act(c).kind = "Sealed"
         /\ nftVia[c] \in {"burn_nft", "burn_nft_simple"} => Deletes(c)

WorkShape(c) ==
    /\ At(c, "done") => nftTodo[c].left = <<>>
    /\ ~At(c, "done") =>
          /\ Token(c) \in Act(c).ids
          /\ NewOwner(c) = NoOne <=> Deletes(c)
          /\ Deletes(c) => Left(c) \subseteq Act(c).ids
          /\ ~Deletes(c) => nftTodo[c].left = <<>> /\ NewOwner(c) \in Foot(c)
          /\ At(c, "createOnly") => Mints(c)
          /\ nftTodo[c].at \in {"createOnly", "putOwner", "enlist", "putNewList", "putPointer"}
               => ~Deletes(c)
          /\ nftTodo[c].at \in {"delPointer", "delOwner"} => Deletes(c)
          /\ Act(c).kind # "Use"
          /\ At(c, "putOldList") => nftRead[c] \notin {NoOne, NewOwner(c)}
          /\ At(c, "putNewList") => nftRead[c] # NewOwner(c)

\* Two calls in flight share a name only when both are marked.
CallsApart(c, d) ==
    (c # d /\ Foot(c) \cap Foot(d) # {}) => Foot(c) \cup Foot(d) \subseteq nftRaced

\* The owner a call read, and the owners of its tokens once they are checked,
\* are no strangers: so no write goes to a list outside Near(c).
OwnersKnown(c) ==
    /\ nftRead[c] \in Near(c)
    /\ nftPc[c] # "arm" => \A n \in Act(c).ids : nftOwner[n] \in Near(c)

\* A list read and not yet written back is still the stored one, but for the
\* token, unless the address is marked.
ListsCurrent(c) ==
    /\ (At(c, "putOldList") /\ nftRead[c] \notin nftRaced)
         => nftList[c] = nftIndex[nftRead[c]] \ {Token(c)}
    /\ (At(c, "putNewList") /\ NewOwner(c) \notin nftRaced)
         => nftList[c] = nftIndex[NewOwner(c)] \cup {Token(c)}

\* Of the addresses without a mark, exactly p lists n; n has an owner exactly
\* when it has a pointer.  Nothing of the kind is said of a torn token.
Listed(n, p) == n \in nftTorn \/ \A h \in Holder \ nftRaced : n \in nftIndex[h] <=> h = p
Pointed(n) == n \in nftTorn \/ (nftOwner[n] # NoOne <=> nftPointer[n] # NoOne)
Sound(n) == Pointed(n) /\ Listed(n, nftOwner[n])

\* A token of c that c does not work on now; one in set_owner; one in delete.
Waiting(c, n) ==
    /\ Sound(n)
    /\ nftPc[c] = "insert" => nftOwner[n] = NoOne
    /\ (nftPc[c] = "post" \/ (nftPc[c] = "apply" /\ n \notin Left(c))) /\ Deletes(c)
         => nftOwner[n] = NoOne

Setting(c, n) ==
    /\ nftTodo[c].at \in {"createOnly", "getOwner"} =>
         Sound(n) /\ (nftOwner[n] = NoOne <=> Mints(c))
    /\ nftTodo[c].at \in {"putOwner", "unlist", "putOldList", "enlist", "putNewList"} =>
         /\ nftRead[c] = NoOne <=> Mints(c)
         /\ n \in nftTorn \/ (nftRead[c] # NoOne <=> nftPointer[n] # NoOne)
    /\ At(c, "putOwner") => nftOwner[n] = nftRead[c]
    /\ nftTodo[c].at \in {"putOwner", "unlist", "putOldList"} => Listed(n, nftRead[c])
    /\ nftTodo[c].at \in {"unlist", "putOldList", "enlist", "putNewList", "putPointer"} =>
         nftOwner[n] = NewOwner(c)
    /\ At(c, "enlist") =>
         Listed(n, IF nftRead[c] = NewOwner(c) THEN nftRead[c] ELSE NoOne)
    /\ At(c, "putNewList") => Listed(n, NoOne)
    /\ At(c, "putPointer") => Listed(n, NewOwner(c))

Deleting(c, n) ==
    /\ nftPc[c] = "post" => nftOwner[n] = NoOne
    /\ At(c, "delPointer") => Sound(n)
    /\ ~At(c, "delPointer") => nftPointer[n] = NoOne
    /\ At(c, "getOwner") => Listed(n, nftOwner[n])
    /\ nftTodo[c].at \in {"unlist", "putOldList"} =>
         nftOwner[n] = nftRead[c] /\ Listed(n, nftRead[c])
    /\ At(c, "delOwner") => Listed(n, NoOne)

TokenStage(c, n) ==
    /\ (Deletes(c) /\ nftPc[c] \in {"apply", "post"}) => nftBurnt[n] < nftMinted[n]
    /\ IF At(c, "done") \/ n # Token(c) THEN Waiting(c, n)
       ELSE IF Deletes(c) THEN Deleting(c, n) ELSE Setting(c, n)

CallInv(c) ==
    /\ OwnersKnown(c) /\ ListsCurrent(c)
    /\ \A n \in Act(c).ids \ nftRaced : TokenStage(c, n)

\* Of a token without a mark: its burns are covered by its mints, one more
\* while it has an owner, no pointer is without an owner, and out of every
\* call's hands it is sound.
TokenInv(n) ==
    /\ nftBurnt[n] <= nftMinted[n]
    /\ nftOwner[n] # NoOne => nftBurnt[n] < nftMinted[n]
    /\ nftPointer[n] # NoOne => nftOwner[n] # NoOne
    /\ (\A c \in InFlight : n \notin Act(c).ids) => Sound(n)

NftInv ==
    /\ NftTyped
    /\ \A c \in NftCall : CallShape(c) /\ WorkShape(c)
    /\ \A c, d \in InFlight : CallsApart(c, d)
    /\ \A c \in InFlight : CallInv(c)
    /\ \A n \in Nft \ nftRaced : TokenInv(n)

-----------------------------------------------------------------------------
(* A step of one call: what it leaves alone.                               *)

StepOf(c) ==
    /\ nftRaced' = nftRaced
    /\ \A d \in NftCall \ {c} :
         /\ nftPc'[d] = nftPc[d] /\ nftBlk'[d] = nftBlk[d] /\ nftVia'[d] = nftVia[d]
         /\ nftTodo'[d] = nftTodo[d] /\ nftRead'[d] = nftRead[d] /\ nftList'[d] = nftList[d]
    /\ nftPc'[c] # "idle" => nftBlk'[c] = nftBlk[c]
    /\ \A n \in Nft \ Act(c).ids :
         /\ nftOwner'[n] = nftOwner[n] /\ nftPointer'[n] = nftPointer[n]
         /\ nftMinted'[n] = nftMinted[n] /\ nftBurnt'[n] = nftBurnt[n]
         /\ n \in nftTorn' <=> n \in nftTorn
    /\ \A n \in Nft : nftOwner'[n] \in {nftOwner[n], NoOne} \cup Foot(c)
    /\ \A h \in Holder \ (nftRaced \cup Foot(c)) : nftIndex'[h] = nftIndex[h]
    /\ \A h \in Holder \ nftRaced, n \in Nft \ Act(c).ids :
         n \in nftIndex'[h] <=> n \in nftIndex[h]

LEMMA BlockFacts ==
    ASSUME NEW b \in NftBlock
    PROVE  /\ NftActionOf[b].ids \subseteq Nft /\ NftActionOf[b].ids # {}
           /\ NftActionOf[b].ids \subseteq Footprint(b)
           /\ NftActionOf[b].from \in Footprint(b) /\ NftActionOf[b].to \in Footprint(b)
           /\ NftActionOf[b].from \in Holder /\ NftActionOf[b].to \in Holder
           /\ NftActionOf[b].kind \in {"Mint", "Sealed", "Transfer", "Use", "Burn", "BatchBurn"}
           /\ Footprint(b) \subseteq Nft \cup Holder
<1>1. /\ NftActionOf[b].list \in Seq(Nft) /\ NftActionOf[b].list # <<>>
      /\ NftActionOf[b].ids = {NftActionOf[b].list[i] : i \in DOMAIN NftActionOf[b].list}
  BY NftAssumption DEF NftAssumption
<1>2. NftActionOf[b].ids \subseteq Nft /\ NftActionOf[b].ids # {}
  <2>1. PICK list : list = NftActionOf[b].list
    OBVIOUS
  <2>2. \A i \in DOMAIN list : list[i] \in Nft
    BY <2>1, <1>1
  <2>3. 1 \in DOMAIN list
    BY <2>1, <1>1
  <2> QED
    BY <2>1, <2>2, <2>3, <1>1
<1> QED
  BY <1>2, NftAssumption DEF NftAssumption, Footprint

LEMMA NoOneApart == NoOne \notin Holder /\ NoOne \notin NftBlock
BY NftAssumption DEF NftAssumption

LEMMA ChosenIn ==
    ASSUME NEW S, S # {}
    PROVE  (CHOOSE x \in S : TRUE) \in S
OBVIOUS

LEMMA OtherCallKept ==
    ASSUME NftInv, NEW c \in InFlight, StepOf(c), NEW d \in InFlight, d # c
    PROVE  CallInv(d)'
<1>1. /\ nftRaced' = nftRaced /\ nftPc'[d] = nftPc[d] /\ nftBlk'[d] = nftBlk[d]
      /\ nftVia'[d] = nftVia[d] /\ nftTodo'[d] = nftTodo[d] /\ nftRead'[d] = nftRead[d]
      /\ nftList'[d] = nftList[d]
  BY DEF StepOf, InFlight
<1>2. CallInv(d) /\ CallsApart(c, d) /\ CallShape(d) /\ WorkShape(d) /\ NftTyped
  BY DEF NftInv, InFlight
<1>3. nftBlk[c] \in NftBlock /\ nftBlk[d] \in NftBlock
  BY DEF NftInv, InFlight, CallShape
<1>4. Act(c).ids \subseteq Foot(c) /\ Act(d).ids \subseteq Foot(d) /\ Act(d).ids \subseteq Nft
  BY <1>3, BlockFacts DEF Act, Foot
<1>5. Act(d)' = Act(d) /\ Foot(d)' = Foot(d) /\ Near(d)' = Near(d)
  BY <1>1 DEF Act, Foot, Near
<1>6. ASSUME NEW x \in Foot(d), x \notin nftRaced PROVE x \notin Foot(c)
  BY <1>2, <1>6 DEF CallsApart
<1>7. OwnersKnown(d)'
  <2>1. OwnersKnown(d)
    BY <1>2 DEF CallInv
  <2>2. ASSUME nftPc[d] # "arm", NEW n \in Act(d).ids PROVE nftOwner'[n] \in Near(d)
    <3>1. nftOwner[n] \in Near(d)
      BY <2>1, <2>2 DEF OwnersKnown
    <3>2. CASE n \in Act(c).ids
      <4>1. Foot(c) \subseteq nftRaced
        BY <3>2, <1>4, <1>2 DEF CallsApart
      <4>2. nftOwner'[n] \in {nftOwner[n], NoOne} \cup Foot(c)
        BY <1>4 DEF StepOf
      <4> QED
        BY <3>1, <4>1, <4>2 DEF Near
    <3>3. CASE n \notin Act(c).ids
      BY <3>1, <3>3, <1>4 DEF StepOf
    <3> QED
      BY <3>2, <3>3
  <2> QED
    BY <2>1, <2>2, <1>1, <1>5 DEF OwnersKnown
<1>8. ListsCurrent(d)'
  <2>1. ListsCurrent(d) /\ OwnersKnown(d)
    BY <1>2 DEF CallInv
  <2>2. ASSUME At(d, "putOldList"), nftRead[d] \notin nftRaced
        PROVE  nftIndex'[nftRead[d]] = nftIndex[nftRead[d]]
    <3>1. nftRead[d] \in Foot(d) /\ nftRead[d] \in Holder
      BY <2>1, <2>2, <1>2 DEF OwnersKnown, Near, WorkShape, At, NftTyped, InFlight
    <3> QED
      BY <3>1, <2>2, <1>6 DEF StepOf
  <2>3. ASSUME At(d, "putNewList"), NewOwner(d) \notin nftRaced
        PROVE  nftIndex'[NewOwner(d)] = nftIndex[NewOwner(d)]
    <3>1. NewOwner(d) \in Foot(d) /\ NewOwner(d) # NoOne
      BY <2>3, <1>2 DEF WorkShape, At
    <3>2. NewOwner(d) \in Holder
      BY <3>1, <1>2 DEF NftTyped, NewOwner, InFlight
    <3> QED
      BY <3>1, <3>2, <2>3, <1>6 DEF StepOf
  <2> QED
    BY <2>1, <2>2, <2>3, <1>1 DEF ListsCurrent, At, Token, NewOwner
<1>9. ASSUME NEW n \in Act(d).ids, n \notin nftRaced PROVE TokenStage(d, n)'
  <2>1. n \notin Act(c).ids /\ n \in Nft
    BY <1>4, <1>6, <1>9
  <2>2. TokenStage(d, n)
    BY <1>2, <1>9 DEF CallInv
  <2>3. /\ nftOwner'[n] = nftOwner[n] /\ nftPointer'[n] = nftPointer[n]
        /\ nftMinted'[n] = nftMinted[n] /\ nftBurnt'[n] = nftBurnt[n]
        /\ n \in nftTorn' <=> n \in nftTorn
    BY <2>1 DEF StepOf
  <2>4. \A h \in Holder \ nftRaced : n \in nftIndex'[h] <=> n \in nftIndex[h]
    BY <2>1 DEF StepOf
  <2>6. Sound(n)' <=> Sound(n)
    BY <2>3, <2>4, <1>1 DEF Sound, Pointed, Listed
  <2>7. Waiting(d, n)' <=> Waiting(d, n)
    BY <2>6, <2>3, <1>1, <1>5 DEF Waiting, Deletes, Left
  <2>8. Deleting(d, n)' <=> Deleting(d, n)
    BY <2>6, <2>3, <2>4, <1>1 DEF Deleting, At, Listed
  <2>9. Setting(d, n)' <=> Setting(d, n)
    BY <2>6, <2>3, <2>4, <1>1, <1>5 DEF Setting, At, Listed, NewOwner, Mints
  <2> QED
    BY <2>2, <2>3, <2>7, <2>8, <2>9, <1>1, <1>5 DEF TokenStage, At, Token, Deletes
<1> QED
  BY <1>7, <1>8, <1>9, <1>1, <1>5 DEF CallInv

LEMMA OtherTokenKept ==
    ASSUME NftInv, NEW c \in InFlight, StepOf(c), NEW n \in Nft \ nftRaced, n \notin Act(c).ids
    PROVE  TokenInv(n)'
<1>1. TokenInv(n)
  BY DEF NftInv
<1>2. /\ nftOwner'[n] = nftOwner[n] /\ nftPointer'[n] = nftPointer[n]
      /\ nftMinted'[n] = nftMinted[n] /\ nftBurnt'[n] = nftBurnt[n]
      /\ \A h \in Holder \ nftRaced : n \in nftIndex'[h] <=> n \in nftIndex[h]
      /\ nftRaced' = nftRaced /\ (n \in nftTorn' <=> n \in nftTorn)
  BY DEF StepOf
<1>3. Sound(n)' <=> Sound(n)
  BY <1>2 DEF Sound, Pointed, Listed
<1>4. ASSUME \A d \in InFlight' : n \notin Act(d)'.ids
      PROVE  \A d \in InFlight : n \notin Act(d).ids
  <2> SUFFICES ASSUME NEW d \in InFlight, d # c PROVE n \notin Act(d).ids
    OBVIOUS
  <2>1. d \in InFlight' /\ Act(d)' = Act(d)
    BY DEF StepOf, InFlight, Act
  <2> QED
    BY <2>1, <1>4
<1> QED
  BY <1>1, <1>2, <1>3, <1>4 DEF TokenInv

LEMMA StepKept ==
    ASSUME NftInv, NEW c \in InFlight, StepOf(c), NftTyped',
           CallShape(c)', WorkShape(c)',
           nftPc'[c] # "idle" => CallInv(c)',
           \A n \in Act(c).ids \ nftRaced : TokenInv(n)'
    PROVE  NftInv'
<1>1. ASSUME NEW d \in NftCall PROVE CallShape(d)' /\ WorkShape(d)'
  <2>1. CASE d = c
    BY <2>1
  <2>2. CASE d # c
    <3>1. /\ nftPc'[d] = nftPc[d] /\ nftBlk'[d] = nftBlk[d] /\ nftVia'[d] = nftVia[d]
          /\ nftTodo'[d] = nftTodo[d] /\ nftRead'[d] = nftRead[d]
      BY <2>2 DEF StepOf
    <3>2. CallShape(d) /\ WorkShape(d)
      BY DEF NftInv
    <3> QED
      BY <3>1, <3>2 DEF CallShape, WorkShape, At, Token, NewOwner, Deletes, Mints, Act, Foot, Left
  <2> QED
    BY <2>1, <2>2
<1>2. ASSUME NEW d \in InFlight' PROVE d \in InFlight /\ Foot(d)' = Foot(d)
  BY DEF StepOf, InFlight, Foot
<1>3. ASSUME NEW d \in InFlight', NEW e \in InFlight' PROVE CallsApart(d, e)'
  <2>1. CallsApart(d, e) /\ nftRaced' = nftRaced
    BY <1>2 DEF NftInv, StepOf
  <2> QED
    BY <2>1, <1>2 DEF CallsApart
<1>4. ASSUME NEW d \in InFlight' PROVE CallInv(d)'
  <2>1. CASE d = c
    BY <2>1 DEF InFlight
  <2>2. CASE d # c
    BY <2>2, <1>2, OtherCallKept
  <2> QED
    BY <2>1, <2>2
<1>5. ASSUME NEW n \in Nft \ nftRaced' PROVE TokenInv(n)'
  BY OtherTokenKept DEF StepOf
<1> QED
  BY <1>1, <1>3, <1>4, <1>5 DEF NftInv

-----------------------------------------------------------------------------
(* A call at work: one access to the store, then the access named s.       *)

WorkOf(c, s) ==
    /\ s \in NftSteps
    /\ nftTodo' = [nftTodo EXCEPT ![c].at = s]
    /\ UNCHANGED <<nftPc, nftBlk, nftVia, nftBurnt, nftRaced, nftTorn>>
    /\ \A d \in NftCall \ {c} : nftRead'[d] = nftRead[d] /\ nftList'[d] = nftList[d]
    /\ \A n \in Nft \ {Token(c)} :
         /\ nftOwner'[n] = nftOwner[n] /\ nftPointer'[n] = nftPointer[n]
         /\ nftMinted'[n] = nftMinted[n]
    /\ nftOwner'[Token(c)] \in {nftOwner[Token(c)], NewOwner(c)}
    /\ \A h \in Holder \ (nftRaced \cup Foot(c)) : nftIndex'[h] = nftIndex[h]
    /\ \A h \in Holder \ nftRaced, n \in Nft \ {Token(c)} :
         n \in nftIndex'[h] <=> n \in nftIndex[h]

LEMMA AtWork ==
    ASSUME NftInv, NEW c \in NftCall, ~At(c, "done")
    PROVE  /\ c \in InFlight /\ nftPc[c] \in {"apply", "post"}
           /\ nftBlk[c] \in NftBlock
           /\ Token(c) \in Act(c).ids /\ Token(c) \in Nft /\ Token(c) \in Foot(c)
           /\ NewOwner(c) \in {NoOne} \cup Foot(c)
           /\ NewOwner(c) \in Holder \cup {NoOne}
           /\ nftRead[c] \in Holder \cup {NoOne}
<1>1. CallShape(c) /\ WorkShape(c) /\ NftTyped
  BY DEF NftInv
<1>2. nftPc[c] \in {"apply", "post"}
  BY <1>1 DEF CallShape, NftTyped
<1>3. c \in InFlight /\ nftBlk[c] \in NftBlock
  BY <1>1, <1>2 DEF CallShape, InFlight
<1>4. Act(c).ids \subseteq Foot(c) /\ Act(c).ids \subseteq Nft
  BY <1>3, BlockFacts DEF Act, Foot
<1>5. NewOwner(c) \in Holder \cup {NoOne} /\ nftRead[c] \in Holder \cup {NoOne}
  BY <1>1 DEF NftTyped, NewOwner
<1> QED
  BY <1>1, <1>2, <1>3, <1>4, <1>5 DEF WorkShape

LEMMA WorkTodo ==
    ASSUME NftInv, NEW c \in NftCall, NEW s, WorkOf(c, s)
    PROVE  /\ nftTodo'[c] = [nftTodo[c] EXCEPT !.at = s]
           /\ nftTodo'[c].at = s /\ nftTodo'[c].nft = nftTodo[c].nft
           /\ nftTodo'[c].to = nftTodo[c].to /\ nftTodo'[c].left = nftTodo[c].left
           /\ Token(c)' = Token(c) /\ NewOwner(c)' = NewOwner(c) /\ Left(c)' = Left(c)
           /\ Act(c)' = Act(c) /\ Foot(c)' = Foot(c) /\ Near(c)' = Near(c)
           /\ nftTodo' \in [NftCall -> [at : NftSteps, nft : Nft \cup {NoOne},
                                to : Holder \cup {NoOne}, left : Seq(Nft)]]
           /\ \A x : At(c, x)' <=> s = x
<1>1. nftTodo \in [NftCall -> [at : NftSteps, nft : Nft \cup {NoOne},
                               to : Holder \cup {NoOne}, left : Seq(Nft)]]
  BY DEF NftInv, NftTyped
<1>2. nftTodo'[c] = [nftTodo[c] EXCEPT !.at = s]
  BY <1>1 DEF WorkOf
<1>3. nftTodo'[c].at = s /\ nftTodo'[c].nft = nftTodo[c].nft
      /\ nftTodo'[c].to = nftTodo[c].to /\ nftTodo'[c].left = nftTodo[c].left
  BY <1>1, <1>2
<1>4. nftTodo' \in [NftCall -> [at : NftSteps, nft : Nft \cup {NoOne},
                                to : Holder \cup {NoOne}, left : Seq(Nft)]]
  BY <1>1 DEF WorkOf
<1> QED
  BY <1>2, <1>3, <1>4 DEF WorkOf, Token, NewOwner, Act, Foot, Near, At, Left

LEMMA WorkKept ==
    ASSUME NftInv, NEW c \in NftCall, ~At(c, "done"), NEW s, WorkOf(c, s),
           NftTyped', WorkShape(c)', OwnersKnown(c)', ListsCurrent(c)',
           NEW k, k = Token(c),
           k \notin nftRaced => TokenStage(c, k)' /\ TokenInv(k)'
    PROVE  NftInv'
<1>1. /\ c \in InFlight /\ nftPc[c] \in {"apply", "post"}
      /\ k \in Act(c).ids /\ k \in Nft /\ Act(c).ids \subseteq Nft
      /\ NewOwner(c) \in {NoOne} \cup Foot(c)
  BY AtWork, BlockFacts DEF Act
<1>2. /\ nftTodo'[c].at = s /\ nftTodo'[c].nft = nftTodo[c].nft
      /\ nftTodo'[c].to = nftTodo[c].to /\ nftTodo'[c].left = nftTodo[c].left
      /\ Act(c)' = Act(c) /\ Left(c)' = Left(c)
  BY WorkTodo
<1>3. \A d \in NftCall \ {c} : nftTodo'[d] = nftTodo[d]
  BY DEF WorkOf, NftInv, NftTyped
<1>4. StepOf(c)
  BY <1>1, <1>3 DEF StepOf, WorkOf
<1>5. CallShape(c)'
  <2>1. CallShape(c)
    BY DEF NftInv
  <2> QED
    BY <2>1, <1>1, <1>2 DEF CallShape, WorkOf, Deletes, At
<1>6. ASSUME NEW n \in Act(c).ids, n \notin nftRaced, n # k
      PROVE  TokenStage(c, n)' /\ TokenInv(n)'
  <2>1. TokenStage(c, n) /\ TokenInv(n)
    BY <1>1, <1>6 DEF NftInv, CallInv
  <2>2. /\ nftOwner'[n] = nftOwner[n] /\ nftPointer'[n] = nftPointer[n]
        /\ nftMinted'[n] = nftMinted[n] /\ nftBurnt'[n] = nftBurnt[n]
        /\ \A h \in Holder \ nftRaced : n \in nftIndex'[h] <=> n \in nftIndex[h]
        /\ nftRaced' = nftRaced /\ nftTorn' = nftTorn /\ nftPc'[c] = nftPc[c]
    BY <1>1, <1>6 DEF WorkOf
  <2>3. Sound(n)' <=> Sound(n)
    BY <2>2 DEF Sound, Pointed, Listed
  <2>4. Waiting(c, n)' <=> Waiting(c, n)
    BY <2>2, <2>3, <1>2 DEF Waiting, Deletes
  <2>5. Waiting(c, n)
    BY <2>1, <1>6 DEF TokenStage
  <2>6. n # Token(c)'
    BY <1>2, <1>6 DEF Token
  <2>7. TokenStage(c, n)'
    BY <2>1, <2>2, <2>4, <2>5, <2>6, <1>2 DEF TokenStage, Deletes
  <2>8. c \in InFlight' /\ n \in Act(c)'.ids
    BY <1>1, <1>2, <1>6, <2>2 DEF InFlight
  <2>9. TokenInv(n)'
    BY <2>1, <2>2, <2>8 DEF TokenInv
  <2> QED
    BY <2>7, <2>9
<1>7. CallInv(c)'
  BY <1>2, <1>6 DEF CallInv, WorkOf
<1>8. ASSUME NEW n \in Act(c).ids \ nftRaced PROVE TokenInv(n)'
  BY <1>6, <1>8
<1> QED
  BY <1>1, <1>4, <1>5, <1>7, <1>8, StepKept

LEMMA CurrentStage ==
    ASSUME NftInv, NEW c \in NftCall, ~At(c, "done"), NEW k, k = Token(c), k \notin nftRaced
    PROVE  /\ Deletes(c) => Deleting(c, k) /\ nftBurnt[k] < nftMinted[k]
           /\ ~Deletes(c) => Setting(c, k)
           /\ nftBurnt[k] <= nftMinted[k]
           /\ nftOwner[k] # NoOne => nftBurnt[k] < nftMinted[k]
           /\ nftPointer[k] # NoOne => nftOwner[k] # NoOne
<1>1. /\ c \in InFlight /\ nftPc[c] \in {"apply", "post"}
      /\ k \in Act(c).ids /\ k \in Nft
  BY AtWork
<1>2. TokenStage(c, k) /\ TokenInv(k)
  BY <1>1 DEF NftInv, CallInv
<1> QED
  BY <1>1, <1>2 DEF TokenStage, TokenInv

StageGoesOn(c, s, k) ==
    /\ nftMinted'[k] >= nftMinted[k]
    /\ nftOwner'[k] # NoOne => nftBurnt[k] < nftMinted'[k]
    /\ nftPointer'[k] # NoOne => nftOwner'[k] # NoOne
    /\ (s # "done" /\ Deletes(c)) => Deleting(c, k)'
    /\ (s # "done" /\ ~Deletes(c)) => Setting(c, k)'
    /\ s = "done" => ~Deletes(c) /\ Sound(k)'

LEMMA WorkStage ==
    ASSUME NftInv, NEW c \in NftCall, ~At(c, "done"), NEW s, WorkOf(c, s), NftTyped',
           NEW k, k = Token(c), k \notin nftRaced,
           StageGoesOn(c, s, k)
    PROVE  TokenStage(c, k)' /\ TokenInv(k)'
<1>1. /\ c \in InFlight /\ nftPc[c] \in {"apply", "post"}
      /\ k \in Act(c).ids /\ k \in Nft
  BY AtWork
<1>2. /\ nftBurnt[k] \in Nat /\ nftMinted[k] \in Nat /\ nftMinted'[k] \in Nat
      /\ nftBurnt'[k] = nftBurnt[k] /\ nftPc'[c] = nftPc[c] /\ nftRaced' = nftRaced
  BY <1>1 DEF NftInv, NftTyped, WorkOf
<1>3. /\ nftBurnt[k] <= nftMinted[k]
      /\ Deletes(c) => nftBurnt[k] < nftMinted[k]
  BY CurrentStage
<1>4. /\ Act(c)' = Act(c) /\ Token(c)' = Token(c)
      /\ At(c, "done")' <=> s = "done"
  BY WorkTodo
<1>5. c \in InFlight' /\ k \in Act(c)'.ids
  BY <1>1, <1>2, <1>4 DEF InFlight
<1>6. TokenInv(k)'
  BY <1>2, <1>3, <1>5 DEF TokenInv, StageGoesOn
<1>7. Deletes(c)' <=> Deletes(c)
  BY <1>4 DEF Deletes
<1>8. s = "done" => Waiting(c, k)'
  BY <1>1, <1>2, <1>7 DEF Waiting, StageGoesOn
<1> QED
  BY <1>1, <1>2, <1>3, <1>4, <1>6, <1>7, <1>8 DEF TokenStage, StageGoesOn

AccessAllowed(c, s) ==
    /\ s \notin {"createOnly", "delPointer"}
    /\ s \in {"putOwner", "enlist", "putNewList", "putPointer", "done"} => ~Deletes(c)
    /\ s = "delOwner" => Deletes(c)
    /\ nftRead'[c] \in Near(c)
    /\ s = "putOldList" =>
         /\ nftRead'[c] \notin {NoOne, NewOwner(c)}
         /\ nftRead'[c] \notin nftRaced => nftList'[c] = nftIndex'[nftRead'[c]] \ {Token(c)}
    /\ s = "putNewList" =>
         /\ nftRead'[c] # NewOwner(c)
         /\ NewOwner(c) \notin nftRaced => nftList'[c] = nftIndex'[NewOwner(c)] \cup {Token(c)}

LEMMA WorkGoesOn ==
    ASSUME NftInv, NEW c \in NftCall, ~At(c, "done"), NEW s, WorkOf(c, s),
           NftTyped', AccessAllowed(c, s),
           NEW k, k = Token(c), k \notin nftRaced => StageGoesOn(c, s, k)
    PROVE  NftInv'
<1>1. k \notin nftRaced => TokenStage(c, k)' /\ TokenInv(k)'
  BY WorkStage
<1>2. /\ nftTodo'[c].at = s /\ nftTodo'[c].left = nftTodo[c].left
      /\ Token(c)' = Token(c) /\ NewOwner(c)' = NewOwner(c) /\ Left(c)' = Left(c)
      /\ Act(c)' = Act(c) /\ Foot(c)' = Foot(c) /\ Near(c)' = Near(c)
      /\ \A x : At(c, x)' <=> s = x
  BY WorkTodo
<1>3. (Deletes(c)' <=> Deletes(c)) /\ (Mints(c)' <=> Mints(c))
  BY <1>2 DEF Deletes, Mints
<1>4. WorkShape(c)'
  <2>1. WorkShape(c)
    BY DEF NftInv
  <2> QED
    BY <2>1, <1>2, <1>3 DEF WorkShape, AccessAllowed
<1>5. ListsCurrent(c)'
  <2>1. nftRaced' = nftRaced
    BY DEF WorkOf
  <2> QED
    BY <2>1, <1>2 DEF ListsCurrent, AccessAllowed
<1>6. OwnersKnown(c)'
  <2>1. /\ OwnersKnown(c) /\ nftPc[c] \in {"apply", "post"}
        /\ NewOwner(c) \in Near(c) /\ Act(c).ids \subseteq Nft
    BY AtWork, BlockFacts DEF NftInv, CallInv, Near, Act
  <2>2. \A n \in Act(c).ids : nftOwner'[n] \in Near(c)
    BY <2>1 DEF WorkOf, OwnersKnown
  <2> QED
    BY <2>2, <1>2 DEF OwnersKnown, AccessAllowed
<1> QED
  BY <1>1, <1>4, <1>5, <1>6, WorkKept

LEMMA WorkParts ==
    ASSUME NftInv, NEW c \in NftCall, ~At(c, "done"), NEW k, k = Token(c)
    PROVE  /\ NftTyped /\ WorkShape(c) /\ OwnersKnown(c) /\ ListsCurrent(c)
           /\ c \in InFlight /\ k \in Act(c).ids /\ k \in Nft /\ k \in Foot(c)
           /\ NewOwner(c) \in Holder \cup {NoOne} /\ nftRead[c] \in Holder \cup {NoOne}
           /\ nftOwner[k] \in Holder \cup {NoOne}
           /\ nftRead[c] \in Near(c) /\ NewOwner(c) \in Near(c)
           /\ NewOwner(c) = NoOne <=> Deletes(c)
<1>1. /\ c \in InFlight /\ k \in Act(c).ids /\ k \in Nft /\ k \in Foot(c)
      /\ NewOwner(c) \in Holder \cup {NoOne} /\ nftRead[c] \in Holder \cup {NoOne}
      /\ NewOwner(c) \in Near(c)
  BY AtWork DEF Near
<1>2. NftTyped /\ WorkShape(c) /\ OwnersKnown(c) /\ ListsCurrent(c)
  BY <1>1 DEF NftInv, CallInv
<1> QED
  BY <1>1, <1>2 DEF WorkShape, OwnersKnown, NftTyped

LEMMA WorkNext ==
    ASSUME NftInv, NEW c \in NftCall, NEW s, WorkOf(c, s)
    PROVE  /\ \A x : At(c, x)' <=> s = x
           /\ nftTodo'[c].at = s /\ NewOwner(c)' = NewOwner(c)
           /\ (Deletes(c)' <=> Deletes(c)) /\ (Mints(c)' <=> Mints(c))
           /\ nftRaced' = nftRaced /\ nftTorn' = nftTorn /\ nftPc' = nftPc
<1>1. nftRaced' = nftRaced /\ nftTorn' = nftTorn /\ nftPc' = nftPc
  BY DEF WorkOf
<1> QED
  BY <1>1, WorkTodo DEF Deletes, Mints

LEMMA WorkTyped ==
    ASSUME NftInv, NEW c \in NftCall, NEW s, WorkOf(c, s)
    PROVE  nftTodo' \in [NftCall -> [at : NftSteps, nft : Nft \cup {NoOne},
                                to : Holder \cup {NoOne}, left : Seq(Nft)]]
BY WorkTodo

-----------------------------------------------------------------------------
(* The accesses, one by one.                                               *)

LEMMA GetOwnerKept ==
    ASSUME NftInv, NEW c \in NftCall, GetOwner(c)
    PROVE  NftInv'
<1>a. PICK k : k = Token(c)
  OBVIOUS
<1>b. PICK s : s = IF NewOwner(c) = NoOne THEN "unlist" ELSE "putOwner"
  OBVIOUS
<1>1. ~At(c, "done") /\ At(c, "getOwner")
  BY DEF GetOwner, At
<1>2. /\ nftRead' = [nftRead EXCEPT ![c] = nftOwner[k]]
      /\ UNCHANGED <<nftStore, nftList, nftPc, nftBlk, nftVia, nftGhost>>
  BY <1>a DEF GetOwner
<1>3. /\ NftTyped /\ WorkShape(c) /\ k \in Act(c).ids /\ k \in Nft /\ OwnersKnown(c)
      /\ NewOwner(c) = NoOne <=> Deletes(c)
      /\ nftPc[c] \in {"apply", "post"}
  BY <1>1, <1>a, WorkParts, AtWork
<1>4. WorkOf(c, s)
  BY <1>3, <1>a, <1>b DEF GetOwner, WorkOf, NextAccess, NftSteps, nftStore, nftGhost, nftPay, NftTyped
<1>5. nftRead'[c] = nftOwner[k] /\ nftRead' \in [NftCall -> Holder \cup {NoOne}]
  BY <1>2, <1>3 DEF NftTyped
<1>6. NftTyped'
  BY <1>2, <1>3, <1>4, <1>5, WorkTyped DEF NftTyped, nftStore, nftGhost, nftPay
<1>7. AccessAllowed(c, s)
  BY <1>3, <1>5, <1>b DEF AccessAllowed, OwnersKnown
<1>8. ASSUME k \notin nftRaced PROVE StageGoesOn(c, s, k)
  <2>1. /\ Deletes(c) => Deleting(c, k)
        /\ ~Deletes(c) => Setting(c, k)
        /\ nftOwner[k] # NoOne => nftBurnt[k] < nftMinted[k]
        /\ nftPointer[k] # NoOne => nftOwner[k] # NoOne
    BY <1>1, <1>a, <1>8, CurrentStage
  <2>2. /\ \A x : At(c, x)' <=> s = x
        /\ nftTodo'[c].at = s /\ NewOwner(c)' = NewOwner(c) /\ (Mints(c)' <=> Mints(c))
    BY <1>4, WorkNext
  <2>3. Deletes(c) => Deleting(c, k)'
    BY <2>1, <2>2, <1>1, <1>2, <1>3, <1>5, <1>b DEF Deleting, Listed, At, nftStore, nftGhost, nftPay
  <2>4. ~Deletes(c) => Setting(c, k)'
    BY <2>1, <2>2, <1>1, <1>2, <1>3, <1>5, <1>b
       DEF Setting, Listed, At, nftStore, Sound, Pointed, nftGhost, nftPay
  <2>5. /\ nftMinted'[k] >= nftMinted[k] /\ nftOwner'[k] = nftOwner[k]
        /\ nftMinted'[k] = nftMinted[k] /\ nftPointer'[k] = nftPointer[k]
    BY <1>2, <1>3 DEF nftStore, NftTyped, nftGhost, nftPay
  <2> QED
    BY <1>b, <2>1, <2>3, <2>4, <2>5 DEF StageGoesOn
<1> QED
  BY ONLY NftInv, c \in NftCall, <1>1, <1>a, <1>4, <1>6, <1>7, <1>8, WorkGoesOn

LEMMA PutOwnerKept ==
    ASSUME NftInv, NEW c \in NftCall, PutOwner(c)
    PROVE  NftInv'
<1>a. PICK k : k = Token(c)
  OBVIOUS
<1>b. PICK s : s = "unlist"
  OBVIOUS
<1>1. ~At(c, "done") /\ At(c, "putOwner")
  BY DEF PutOwner, At
<1>2. /\ nftOwner' = [nftOwner EXCEPT ![k] = NewOwner(c)]
      /\ nftMinted' = [nftMinted EXCEPT ![k] = @ + IF Mints(c) THEN 1 ELSE 0]
      /\ UNCHANGED <<nftIndex, nftPointer, nftRead, nftList, nftPc, nftBlk, nftVia,
                     nftBurnt, nftRaced, nftTorn>>
  BY <1>a DEF PutOwner, WriteOwner, Mints
<1>3. /\ NftTyped /\ WorkShape(c) /\ k \in Act(c).ids /\ k \in Nft
      /\ NewOwner(c) = NoOne <=> Deletes(c)
      /\ NewOwner(c) \in Holder \cup {NoOne} /\ nftRead[c] \in Near(c)
  BY <1>1, <1>a, WorkParts
<1>4. ~Deletes(c)
  BY <1>1, <1>3 DEF WorkShape, At
<1>5. /\ nftOwner'[k] = NewOwner(c)
      /\ nftMinted'[k] = nftMinted[k] + IF Mints(c) THEN 1 ELSE 0
      /\ nftMinted' \in [Nft -> Nat] /\ nftOwner' \in [Nft -> Holder \cup {NoOne}]
      /\ \A n \in Nft \ {k} : nftOwner'[n] = nftOwner[n] /\ nftMinted'[n] = nftMinted[n]
  BY <1>2, <1>3 DEF NftTyped
<1>6. WorkOf(c, s)
  BY <1>2, <1>3, <1>5, <1>a, <1>b DEF PutOwner, WorkOf, NextAccess, NftSteps
<1>7. NftTyped'
  BY <1>2, <1>3, <1>5, <1>6, WorkTyped DEF NftTyped
<1>8. AccessAllowed(c, s)
  BY <1>2, <1>3, <1>4, <1>b DEF AccessAllowed
<1>9. ASSUME k \notin nftRaced PROVE StageGoesOn(c, s, k)
  <2>1. /\ Setting(c, k) /\ nftBurnt[k] <= nftMinted[k]
        /\ nftOwner[k] # NoOne => nftBurnt[k] < nftMinted[k]
        /\ nftPointer[k] # NoOne => nftOwner[k] # NoOne
    BY <1>1, <1>a, <1>4, <1>9, CurrentStage
  <2>2. /\ \A x : At(c, x)' <=> s = x
        /\ nftTodo'[c].at = s /\ NewOwner(c)' = NewOwner(c) /\ (Mints(c)' <=> Mints(c))
    BY <1>6, WorkNext
  <2>3. Setting(c, k)'
    BY <2>1, <2>2, <1>1, <1>2, <1>5, <1>b DEF Setting, Listed, At
  <2>4. /\ nftMinted[k] \in Nat /\ nftBurnt[k] \in Nat
        /\ ~Mints(c) => nftOwner[k] # NoOne
    BY <2>1, <1>1, <1>3 DEF NftTyped, Setting, At
  <2>5. nftMinted'[k] >= nftMinted[k] /\ nftBurnt[k] < nftMinted'[k] /\ nftOwner'[k] # NoOne
    BY <2>1, <2>4, <1>3, <1>4, <1>5
  <2> QED
    BY <1>b, <1>4, <2>3, <2>5 DEF StageGoesOn
<1> QED
  BY ONLY NftInv, c \in NftCall, <1>1, <1>a, <1>6, <1>7, <1>8, <1>9, WorkGoesOn

LEMMA UnlistKept ==
    ASSUME NftInv, NEW c \in NftCall, Unlist(c)
    PROVE  NftInv'
<1>a. PICK k : k = Token(c)
  OBVIOUS
<1>b. PICK s : s = IF nftRead[c] \in {NoOne, NewOwner(c)} THEN AfterUnlist(c) ELSE "putOldList"
  OBVIOUS
<1>1. ~At(c, "done") /\ At(c, "unlist")
  BY DEF Unlist, At
<1>2. /\ nftList' = IF s = "putOldList"
                    THEN [nftList EXCEPT ![c] = nftIndex[nftRead[c]] \ {k}] ELSE nftList
      /\ s = "putOldList" <=> nftRead[c] \notin {NoOne, NewOwner(c)}
      /\ UNCHANGED <<nftStore, nftRead, nftPc, nftBlk, nftVia, nftGhost>>
  BY <1>a, <1>b DEF Unlist, AfterUnlist
<1>3. /\ NftTyped /\ WorkShape(c) /\ k \in Act(c).ids /\ k \in Nft
      /\ NewOwner(c) = NoOne <=> Deletes(c)
      /\ NewOwner(c) \in Holder \cup {NoOne} /\ nftRead[c] \in Near(c)
      /\ nftRead[c] \in Holder \cup {NoOne}
  BY <1>1, <1>a, WorkParts
<1>4. s = "putOldList" => nftList'[c] = nftIndex[nftRead[c]] \ {k}
  BY <1>2, <1>3 DEF NftTyped
<1>5. nftList' \in [NftCall -> SUBSET Nft]
  <2>1. CASE s = "putOldList"
    <3>1. nftIndex[nftRead[c]] \ {k} \in SUBSET Nft
      BY <1>2, <1>3, <2>1 DEF NftTyped
    <3> QED
      BY <3>1, <2>1, <1>2, <1>3 DEF NftTyped
  <2>2. CASE s # "putOldList"
    BY <2>2, <1>2, <1>3 DEF NftTyped
  <2> QED
    BY <2>1, <2>2
<1>6. WorkOf(c, s)
  <2>1. s \in NftSteps
    BY <1>b DEF AfterUnlist, NftSteps
  <2>2. nftTodo' = [nftTodo EXCEPT ![c].at = s]
    BY <1>b DEF Unlist, NextAccess
  <2>3. \A d \in NftCall \ {c} : nftList'[d] = nftList[d]
    BY <1>2, <1>3 DEF NftTyped
  <2> QED
    BY <1>2, <2>1, <2>2, <2>3 DEF WorkOf, nftStore, nftGhost, nftPay
<1>7. NftTyped'
  BY <1>2, <1>3, <1>5, <1>6, WorkTyped DEF NftTyped, nftStore, nftGhost, nftPay
<1>8. AccessAllowed(c, s)
  BY <1>2, <1>3, <1>4, <1>a, <1>b DEF AccessAllowed, AfterUnlist, nftStore
<1>9. ASSUME k \notin nftRaced PROVE StageGoesOn(c, s, k)
  <2>1. /\ Deletes(c) => Deleting(c, k)
        /\ ~Deletes(c) => Setting(c, k)
        /\ nftOwner[k] # NoOne => nftBurnt[k] < nftMinted[k]
        /\ nftPointer[k] # NoOne => nftOwner[k] # NoOne
    BY <1>1, <1>a, <1>9, CurrentStage
  <2>2. /\ \A x : At(c, x)' <=> s = x
        /\ nftTodo'[c].at = s /\ NewOwner(c)' = NewOwner(c) /\ (Mints(c)' <=> Mints(c))
    BY <1>6, WorkNext
  <2>3. Deletes(c) => Deleting(c, k)'
    BY <2>1, <2>2, <1>1, <1>2, <1>3, <1>b
       DEF Deleting, Listed, At, nftStore, nftGhost, nftPay, AfterUnlist
  <2>4. ~Deletes(c) => Setting(c, k)'
    BY <2>1, <2>2, <1>1, <1>2, <1>3, <1>b, NoOneApart
       DEF Setting, Listed, At, nftStore, nftGhost, nftPay, AfterUnlist
  <2>5. nftMinted'[k] >= nftMinted[k] /\ nftOwner'[k] = nftOwner[k]
        /\ nftMinted'[k] = nftMinted[k] /\ nftPointer'[k] = nftPointer[k] /\ s # "done"
    BY <1>2, <1>3, <1>b DEF nftStore, NftTyped, nftGhost, nftPay, AfterUnlist
  <2> QED
    BY <2>1, <2>3, <2>4, <2>5 DEF StageGoesOn
<1> QED
  BY ONLY NftInv, c \in NftCall, <1>1, <1>a, <1>6, <1>7, <1>8, <1>9, WorkGoesOn

LEMMA ListPut ==
    ASSUME NftInv, NEW c \in NftCall, NEW k \in Nft, NEW h \in Holder, h \in Near(c),
           nftIndex' = [nftIndex EXCEPT ![h] = nftList[c]],
           h \notin nftRaced => \A n \in Nft \ {k} : n \in nftList[c] <=> n \in nftIndex[h]
    PROVE  /\ nftIndex' \in [Holder -> SUBSET Nft]
           /\ nftIndex'[h] = nftList[c]
           /\ \A g \in Holder \ {h} : nftIndex'[g] = nftIndex[g]
           /\ \A g \in Holder \ (nftRaced \cup Foot(c)) : nftIndex'[g] = nftIndex[g]
           /\ \A g \in Holder \ nftRaced, n \in Nft \ {k} :
                n \in nftIndex'[g] <=> n \in nftIndex[g]
<1>1. NftTyped
  BY DEF NftInv
<1>2. nftIndex' \in [Holder -> SUBSET Nft] /\ nftIndex'[h] = nftList[c]
      /\ \A g \in Holder \ {h} : nftIndex'[g] = nftIndex[g]
  BY <1>1 DEF NftTyped
<1>3. h \in nftRaced \cup Foot(c)
  BY NoOneApart DEF Near
<1> QED
  BY <1>2, <1>3

LEMMA PutOldListKept ==
    ASSUME NftInv, NEW c \in NftCall, PutOldList(c)
    PROVE  NftInv'
<1>a. PICK k : k = Token(c)
  OBVIOUS
<1>b. PICK s : s = AfterUnlist(c)
  OBVIOUS
<1>c. PICK h : h = nftRead[c]
  OBVIOUS
<1>1. ~At(c, "done") /\ At(c, "putOldList")
  BY DEF PutOldList, At
<1>2. /\ nftIndex' = [nftIndex EXCEPT ![h] = nftList[c]]
      /\ UNCHANGED <<nftOwner, nftPointer, nftRead, nftList, nftPc, nftBlk, nftVia, nftGhost>>
  BY <1>c DEF PutOldList
<1>3. /\ NftTyped /\ WorkShape(c) /\ ListsCurrent(c) /\ k \in Act(c).ids /\ k \in Nft
      /\ NewOwner(c) = NoOne <=> Deletes(c)
      /\ h \in Near(c) /\ h \in Holder \cup {NoOne}
  BY <1>1, <1>a, <1>c, WorkParts
<1>4. h \in Holder /\ h # NewOwner(c)
  BY <1>1, <1>3, <1>c DEF WorkShape
<1>5. h \notin nftRaced => nftList[c] = nftIndex[h] \ {k}
  BY <1>1, <1>3, <1>a, <1>c DEF ListsCurrent
<1>6. /\ nftIndex' \in [Holder -> SUBSET Nft]
      /\ nftIndex'[h] = nftList[c]
      /\ \A g \in Holder \ {h} : nftIndex'[g] = nftIndex[g]
      /\ \A g \in Holder \ (nftRaced \cup Foot(c)) : nftIndex'[g] = nftIndex[g]
      /\ \A g \in Holder \ nftRaced, n \in Nft \ {k} :
           n \in nftIndex'[g] <=> n \in nftIndex[g]
  <2>1. h \notin nftRaced => \A n \in Nft \ {k} : n \in nftList[c] <=> n \in nftIndex[h]
    BY <1>5
  <2> QED
    BY ONLY NftInv, c \in NftCall, <1>2, <1>3, <1>4, <2>1, ListPut
<1>7. WorkOf(c, s)
  <2>1. s \in NftSteps
    BY <1>b DEF AfterUnlist, NftSteps
  <2>2. nftTodo' = [nftTodo EXCEPT ![c].at = s]
    BY <1>b DEF PutOldList, NextAccess
  <2> QED
    BY <1>2, <1>6, <1>a, <2>1, <2>2 DEF WorkOf, nftGhost, nftPay
<1>8. NftTyped'
  BY <1>2, <1>3, <1>6, <1>7, WorkTyped DEF NftTyped, nftGhost, nftPay
<1>9. AccessAllowed(c, s)
  BY <1>2, <1>3, <1>c, <1>b DEF AccessAllowed, AfterUnlist
<1>10. ASSUME k \notin nftRaced PROVE StageGoesOn(c, s, k)
  <2>1. /\ Deletes(c) => Deleting(c, k)
        /\ ~Deletes(c) => Setting(c, k)
        /\ nftOwner[k] # NoOne => nftBurnt[k] < nftMinted[k]
        /\ nftPointer[k] # NoOne => nftOwner[k] # NoOne
    BY <1>1, <1>a, <1>10, CurrentStage
  <2>2. /\ \A x : At(c, x)' <=> s = x
        /\ nftTodo'[c].at = s /\ NewOwner(c)' = NewOwner(c) /\ (Mints(c)' <=> Mints(c))
    BY <1>7, WorkNext
  <2>3. Listed(k, h)
    BY <2>1, <1>1, <1>c DEF Deleting, Setting, At
  <2>4. Listed(k, NoOne)'
    BY <2>3, <1>2, <1>4, <1>5, <1>6, NoOneApart DEF Listed, nftGhost, nftPay
  <2>5. Deletes(c) => Deleting(c, k)'
    BY <2>1, <2>2, <2>4, <1>1, <1>2, <1>3, <1>b DEF Deleting, At, AfterUnlist
  <2>6. ~Deletes(c) => Setting(c, k)'
    <3>1. SUFFICES ASSUME ~Deletes(c) PROVE Setting(c, k)'
      OBVIOUS
    <3>2. s = "enlist"
      BY <3>1, <1>3, <1>b DEF AfterUnlist
    <3>3. /\ nftRead[c] = NoOne <=> Mints(c)
          /\ k \in nftTorn \/ (nftRead[c] # NoOne <=> nftPointer[k] # NoOne)
          /\ nftOwner[k] = NewOwner(c) /\ nftRead[c] # NewOwner(c)
      BY <3>1, <2>1, <1>1, <1>4, <1>c DEF Setting, At
    <3>4. /\ nftRead' = nftRead /\ nftOwner' = nftOwner /\ nftPointer' = nftPointer
          /\ nftTorn' = nftTorn
      BY <1>2 DEF nftGhost
    <3> QED
      BY <2>2, <2>4, <3>2, <3>3, <3>4 DEF Setting
  <2>7. nftMinted'[k] >= nftMinted[k] /\ nftOwner'[k] = nftOwner[k]
        /\ nftMinted'[k] = nftMinted[k] /\ nftPointer'[k] = nftPointer[k] /\ s # "done"
    BY <1>2, <1>3, <1>b DEF NftTyped, nftGhost, nftPay, AfterUnlist
  <2> QED
    BY <2>1, <2>5, <2>6, <2>7 DEF StageGoesOn
<1> QED
  BY ONLY NftInv, c \in NftCall, <1>1, <1>a, <1>7, <1>8, <1>9, <1>10, WorkGoesOn

LEMMA EnlistKept ==
    ASSUME NftInv, NEW c \in NftCall, Enlist(c)
    PROVE  NftInv'
<1>a. PICK k : k = Token(c)
  OBVIOUS
<1>b. PICK s : s = IF nftRead[c] = NewOwner(c) THEN AfterEnlist(c) ELSE "putNewList"
  OBVIOUS
<1>c. PICK p : p = IF nftRead[c] = NewOwner(c) THEN nftRead[c] ELSE NoOne
  OBVIOUS
<1>1. ~At(c, "done") /\ At(c, "enlist")
  BY DEF Enlist, At
<1>2. /\ nftList' = IF s = "putNewList"
                    THEN [nftList EXCEPT ![c] = nftIndex[NewOwner(c)] \cup {k}] ELSE nftList
      /\ s = "putNewList" <=> nftRead[c] # NewOwner(c)
      /\ UNCHANGED <<nftStore, nftRead, nftPc, nftBlk, nftVia, nftGhost>>
  BY <1>a, <1>b DEF Enlist, AfterEnlist
<1>3. /\ NftTyped /\ WorkShape(c) /\ k \in Act(c).ids /\ k \in Nft
      /\ NewOwner(c) = NoOne <=> Deletes(c)
      /\ NewOwner(c) \in Holder \cup {NoOne} /\ nftRead[c] \in Near(c)
  BY <1>1, <1>a, WorkParts
<1>4. ~Deletes(c) /\ NewOwner(c) \in Holder /\ NewOwner(c) # NoOne
  BY <1>1, <1>3 DEF WorkShape, At
<1>5. /\ nftList' \in [NftCall -> SUBSET Nft]
      /\ s = "putNewList" => nftList'[c] = nftIndex[NewOwner(c)] \cup {k}
      /\ \A d \in NftCall \ {c} : nftList'[d] = nftList[d]
  <2>1. nftIndex[NewOwner(c)] \cup {k} \in SUBSET Nft
    BY <1>3, <1>4 DEF NftTyped
  <2> QED
    BY <2>1, <1>2, <1>3 DEF NftTyped
<1>6. WorkOf(c, s)
  <2>1. s \in NftSteps
    BY <1>b DEF AfterEnlist, NftSteps
  <2>2. nftTodo' = [nftTodo EXCEPT ![c].at = s]
    BY <1>b DEF Enlist, NextAccess
  <2> QED
    BY <1>2, <1>5, <2>1, <2>2 DEF WorkOf, nftStore, nftGhost, nftPay
<1>7. NftTyped'
  BY <1>2, <1>3, <1>5, <1>6, WorkTyped DEF NftTyped, nftStore, nftGhost, nftPay
<1>8. AccessAllowed(c, s)
  BY <1>2, <1>3, <1>4, <1>5, <1>a, <1>b DEF AccessAllowed, AfterEnlist, nftStore
<1>9. ASSUME k \notin nftRaced PROVE StageGoesOn(c, s, k)
  <2>1. /\ Setting(c, k)
        /\ nftOwner[k] # NoOne => nftBurnt[k] < nftMinted[k]
        /\ nftPointer[k] # NoOne => nftOwner[k] # NoOne
    BY <1>1, <1>4, <1>a, <1>9, CurrentStage
  <2>2. /\ \A x : At(c, x)' <=> s = x
        /\ nftTodo'[c].at = s /\ NewOwner(c)' = NewOwner(c) /\ (Mints(c)' <=> Mints(c))
    BY <1>6, WorkNext
  <2>3. Listed(k, p)'
    <3>1. Listed(k, p)
      BY <2>1, <1>1, <1>c DEF Setting, At
    <3> QED
      BY <3>1, <1>2 DEF Listed, nftStore, nftGhost
  <2>a. /\ nftRead' = nftRead /\ nftOwner' = nftOwner /\ nftPointer' = nftPointer
        /\ nftTorn' = nftTorn /\ s \in {"putNewList", "putPointer", "done"}
    BY <1>2, <1>b DEF nftStore, nftGhost, AfterEnlist
  <2>b. /\ nftRead[c] = NoOne <=> Mints(c)
        /\ k \in nftTorn \/ (nftRead[c] # NoOne <=> nftPointer[k] # NoOne)
        /\ nftOwner[k] = NewOwner(c)
    BY <2>1, <1>1 DEF Setting, At
  <2>c. s = "putPointer" => nftRead[c] = NewOwner(c)
    BY <1>b
  <2>4. s # "done" => Setting(c, k)'
    <3>1. s = "putNewList" => Listed(k, NoOne)'
      BY <2>3, <1>2, <1>c
    <3>2. s = "putPointer" => Listed(k, NewOwner(c))'
      BY <2>2, <2>3, <2>c, <1>c
    <3> QED
      BY <2>2, <2>a, <2>b, <3>1, <3>2 DEF Setting
  <2>5. s = "done" => Sound(k)'
    <3>1. SUFFICES ASSUME s = "done" PROVE Sound(k)'
      OBVIOUS
    <3>2. nftRead[c] = NewOwner(c) /\ ~Mints(c)
      BY <3>1, <1>b DEF AfterEnlist, SetsPointer, Mints
    <3>3. Pointed(k)'
      BY <3>2, <2>a, <2>b, <1>4 DEF Pointed
    <3>4. p = nftOwner'[k]
      BY <3>2, <2>a, <2>b, <1>c
    <3> QED
      BY <3>3, <3>4, <2>3 DEF Sound
  <2>6. nftMinted'[k] >= nftMinted[k] /\ nftOwner'[k] = nftOwner[k]
        /\ nftMinted'[k] = nftMinted[k] /\ nftPointer'[k] = nftPointer[k]
    BY <1>2, <1>3, <1>b DEF nftStore, NftTyped, nftGhost, nftPay
  <2> QED
    BY <1>4, <2>1, <2>4, <2>5, <2>6 DEF StageGoesOn
<1> QED
  BY ONLY NftInv, c \in NftCall, <1>1, <1>a, <1>6, <1>7, <1>8, <1>9, WorkGoesOn

LEMMA PutNewListKept ==
    ASSUME NftInv, NEW c \in NftCall, PutNewList(c)
    PROVE  NftInv'
<1>a. PICK k : k = Token(c)
  OBVIOUS
<1>b. PICK s : s = AfterEnlist(c)
  OBVIOUS
<1>c. PICK h : h = NewOwner(c)
  OBVIOUS
<1>1. ~At(c, "done") /\ At(c, "putNewList")
  BY DEF PutNewList, At
<1>2. /\ nftIndex' = [nftIndex EXCEPT ![h] = nftList[c]]
      /\ UNCHANGED <<nftOwner, nftPointer, nftRead, nftList, nftPc, nftBlk, nftVia, nftGhost>>
  BY <1>c DEF PutNewList
<1>3. /\ NftTyped /\ WorkShape(c) /\ ListsCurrent(c) /\ k \in Act(c).ids /\ k \in Nft
      /\ h = NoOne <=> Deletes(c)
      /\ h \in Near(c) /\ h \in Holder \cup {NoOne} /\ nftRead[c] \in Near(c)
  BY <1>1, <1>a, <1>c, WorkParts
<1>4. h \in Holder /\ h # nftRead[c] /\ ~Deletes(c)
  BY <1>1, <1>3, <1>c DEF WorkShape, At
<1>5. h \notin nftRaced => nftList[c] = nftIndex[h] \cup {k}
  BY <1>1, <1>3, <1>a, <1>c DEF ListsCurrent
<1>6. /\ nftIndex' \in [Holder -> SUBSET Nft]
      /\ nftIndex'[h] = nftList[c]
      /\ \A g \in Holder \ {h} : nftIndex'[g] = nftIndex[g]
      /\ \A g \in Holder \ (nftRaced \cup Foot(c)) : nftIndex'[g] = nftIndex[g]
      /\ \A g \in Holder \ nftRaced, n \in Nft \ {k} :
           n \in nftIndex'[g] <=> n \in nftIndex[g]
  <2>1. h \notin nftRaced => \A n \in Nft \ {k} : n \in nftList[c] <=> n \in nftIndex[h]
    BY <1>5
  <2> QED
    BY ONLY NftInv, c \in NftCall, <1>2, <1>3, <1>4, <2>1, ListPut
<1>7. WorkOf(c, s)
  <2>1. s \in NftSteps
    BY <1>b DEF AfterEnlist, NftSteps
  <2>2. nftTodo' = [nftTodo EXCEPT ![c].at = s]
    BY <1>b DEF PutNewList, NextAccess
  <2> QED
    BY <1>2, <1>6, <1>a, <2>1, <2>2 DEF WorkOf, nftGhost, nftPay
<1>8. NftTyped'
  BY <1>2, <1>3, <1>6, <1>7, WorkTyped DEF NftTyped, nftGhost, nftPay
<1>9. AccessAllowed(c, s)
  BY <1>2, <1>3, <1>4, <1>b DEF AccessAllowed, AfterEnlist
<1>10. ASSUME k \notin nftRaced PROVE StageGoesOn(c, s, k)
  <2>1. /\ Setting(c, k)
        /\ nftOwner[k] # NoOne => nftBurnt[k] < nftMinted[k]
        /\ nftPointer[k] # NoOne => nftOwner[k] # NoOne
    BY <1>1, <1>4, <1>a, <1>10, CurrentStage
  <2>2. /\ \A x : At(c, x)' <=> s = x
        /\ nftTodo'[c].at = s /\ NewOwner(c)' = NewOwner(c) /\ (Mints(c)' <=> Mints(c))
    BY <1>7, WorkNext
  <2>3. Listed(k, NoOne) /\ nftOwner[k] = h
    BY <2>1, <1>1, <1>c DEF Setting, At
  <2>4. Listed(k, h)'
    BY <2>3, <1>2, <1>4, <1>5, <1>6, NoOneApart DEF Listed, nftGhost, nftPay
  <2>5. s # "done" => Setting(c, k)'
    BY <2>1, <2>2, <2>3, <2>4, <1>2, <1>b, <1>c DEF Setting, At, AfterEnlist, Listed
  <2>6. s = "done" => Sound(k)'
    <3>1. SUFFICES ASSUME s = "done" PROVE Sound(k)'
      OBVIOUS
    <3>2. ~Mints(c)
      BY <3>1, <1>b DEF AfterEnlist, SetsPointer, Mints
    <3>3. k \in nftTorn \/ nftPointer[k] # NoOne
      BY <3>2, <2>1, <1>1 DEF Setting, At
    <3>4. Pointed(k)'
      BY <3>3, <2>3, <1>2, <1>4, NoOneApart DEF Pointed, nftGhost
    <3> QED
      BY <3>4, <2>3, <2>4, <1>2 DEF Sound
  <2>7. nftMinted'[k] >= nftMinted[k] /\ nftOwner'[k] = nftOwner[k]
        /\ nftMinted'[k] = nftMinted[k] /\ nftPointer'[k] = nftPointer[k]
    BY <1>2, <1>3 DEF NftTyped, nftGhost, nftPay
  <2> QED
    BY <1>4, <2>1, <2>5, <2>6, <2>7 DEF StageGoesOn
<1> QED
  BY ONLY NftInv, c \in NftCall, <1>1, <1>a, <1>7, <1>8, <1>9, <1>10, WorkGoesOn

LEMMA PutPointerKept ==
    ASSUME NftInv, NEW c \in NftCall, PutPointer(c)
    PROVE  NftInv'
<1>a. PICK k : k = Token(c)
  OBVIOUS
<1>b. PICK s : s = "done"
  OBVIOUS
<1>1. ~At(c, "done") /\ At(c, "putPointer")
  BY DEF PutPointer, At
<1>2. /\ nftPointer' = [nftPointer EXCEPT ![k] = nftBlk[c]]
      /\ UNCHANGED <<nftOwner, nftIndex, nftRead, nftList, nftPc, nftBlk, nftVia, nftGhost>>
  BY <1>a DEF PutPointer
<1>3. /\ NftTyped /\ WorkShape(c) /\ k \in Act(c).ids /\ k \in Nft
      /\ NewOwner(c) = NoOne <=> Deletes(c)
      /\ nftRead[c] \in Near(c) /\ nftBlk[c] \in NftBlock
  BY <1>1, <1>a, WorkParts, AtWork
<1>4. ~Deletes(c)
  BY <1>1, <1>3 DEF WorkShape, At
<1>5. /\ nftPointer' \in [Nft -> NftBlock \cup {NoOne}] /\ nftPointer'[k] = nftBlk[c]
      /\ \A n \in Nft \ {k} : nftPointer'[n] = nftPointer[n]
  BY <1>2, <1>3 DEF NftTyped
<1>6. WorkOf(c, s)
  BY <1>2, <1>5, <1>a, <1>b DEF WorkOf, PutPointer, NextAccess, NftSteps, nftGhost, nftPay
<1>7. NftTyped'
  BY <1>2, <1>3, <1>5, <1>6, WorkTyped DEF NftTyped, nftGhost, nftPay
<1>8. AccessAllowed(c, s)
  BY <1>2, <1>3, <1>4, <1>b DEF AccessAllowed
<1>9. ASSUME k \notin nftRaced PROVE StageGoesOn(c, s, k)
  <2>1. /\ Setting(c, k)
        /\ nftOwner[k] # NoOne => nftBurnt[k] < nftMinted[k]
        /\ nftPointer[k] # NoOne => nftOwner[k] # NoOne
    BY <1>1, <1>4, <1>a, <1>9, CurrentStage
  <2>2. nftOwner[k] = NewOwner(c) /\ Listed(k, NewOwner(c))
    BY <2>1, <1>1 DEF Setting, At
  <2>3. Sound(k)'
    BY <2>2, <1>2, <1>3, <1>4, <1>5, NoOneApart DEF Sound, Pointed, Listed, nftGhost, nftPay
  <2>4. nftMinted'[k] >= nftMinted[k] /\ nftOwner'[k] = nftOwner[k]
        /\ nftMinted'[k] = nftMinted[k] /\ nftOwner'[k] # NoOne
    BY <2>2, <1>2, <1>3, <1>4 DEF NftTyped, nftGhost, nftPay
  <2> QED
    BY <1>4, <1>b, <2>1, <2>3, <2>4 DEF StageGoesOn
<1> QED
  BY ONLY NftInv, c \in NftCall, <1>1, <1>a, <1>6, <1>7, <1>8, <1>9, WorkGoesOn

LEMMA DelPointerKept ==
    ASSUME NftInv, NEW c \in NftCall, DelPointer(c)
    PROVE  NftInv'
<1>a. PICK k : k = Token(c)
  OBVIOUS
<1>b. PICK s : s = "getOwner"
  OBVIOUS
<1>1. ~At(c, "done") /\ At(c, "delPointer")
  BY DEF DelPointer, At
<1>2. /\ nftPointer' = [nftPointer EXCEPT ![k] = NoOne]
      /\ UNCHANGED <<nftOwner, nftIndex, nftRead, nftList, nftPc, nftBlk, nftVia, nftGhost>>
  BY <1>a DEF DelPointer
<1>3. /\ NftTyped /\ WorkShape(c) /\ k \in Act(c).ids /\ k \in Nft /\ nftRead[c] \in Near(c)
  BY <1>1, <1>a, WorkParts
<1>4. Deletes(c)
  BY <1>1, <1>3 DEF WorkShape, At
<1>5. /\ nftPointer' \in [Nft -> NftBlock \cup {NoOne}] /\ nftPointer'[k] = NoOne
      /\ \A n \in Nft \ {k} : nftPointer'[n] = nftPointer[n]
  BY <1>2, <1>3 DEF NftTyped
<1>6. WorkOf(c, s)
  BY <1>2, <1>5, <1>a, <1>b DEF WorkOf, DelPointer, NextAccess, NftSteps, nftGhost, nftPay
<1>7. NftTyped'
  BY <1>2, <1>3, <1>5, <1>6, WorkTyped DEF NftTyped, nftGhost, nftPay
<1>8. AccessAllowed(c, s)
  BY <1>2, <1>3, <1>b DEF AccessAllowed
<1>9. ASSUME k \notin nftRaced PROVE StageGoesOn(c, s, k)
  <2>1. /\ Deleting(c, k)
        /\ nftOwner[k] # NoOne => nftBurnt[k] < nftMinted[k]
        /\ nftPointer[k] # NoOne => nftOwner[k] # NoOne
    BY <1>1, <1>4, <1>a, <1>9, CurrentStage
  <2>2. /\ \A x : At(c, x)' <=> s = x
        /\ nftTodo'[c].at = s
    BY <1>6, WorkNext
  <2>3. Deleting(c, k)'
    BY <2>1, <2>2, <1>1, <1>2, <1>5, <1>b DEF Deleting, Sound, Listed, At, nftGhost, nftPay
  <2>4. nftMinted'[k] >= nftMinted[k] /\ nftOwner'[k] = nftOwner[k]
        /\ nftMinted'[k] = nftMinted[k] /\ nftPointer'[k] = NoOne
    BY <1>2, <1>3, <1>5 DEF NftTyped, nftGhost, nftPay
  <2> QED
    BY <1>4, <1>b, <2>1, <2>3, <2>4 DEF StageGoesOn
<1> QED
  BY ONLY NftInv, c \in NftCall, <1>1, <1>a, <1>6, <1>7, <1>8, <1>9, WorkGoesOn

LEMMA CreateKept ==
    ASSUME NftInv, NEW c \in NftCall, CreateOnly(c), nftOwner[Token(c)] = NoOne
    PROVE  NftInv'
<1>a. PICK k : k = Token(c)
  OBVIOUS
<1>b. PICK s : s = "getOwner"
  OBVIOUS
<1>1. ~At(c, "done") /\ At(c, "createOnly")
  BY DEF CreateOnly, At
<1>2. /\ nftOwner[k] = NoOne
      /\ UNCHANGED <<nftStore, nftRead, nftList, nftPc, nftBlk, nftVia, nftGhost>>
  BY <1>a DEF CreateOnly
<1>3. /\ NftTyped /\ WorkShape(c) /\ k \in Act(c).ids /\ k \in Nft /\ nftRead[c] \in Near(c)
  BY <1>1, <1>a, WorkParts
<1>4. ~Deletes(c)
  BY <1>1, <1>3 DEF WorkShape, At
<1>5. WorkOf(c, s)
  BY <1>2, <1>a, <1>b DEF WorkOf, CreateOnly, NextAccess, NftSteps, nftStore, nftGhost, nftPay
<1>6. NftTyped'
  BY <1>2, <1>3, <1>5, WorkTyped DEF NftTyped, nftStore, nftGhost, nftPay
<1>7. AccessAllowed(c, s)
  BY <1>2, <1>3, <1>b DEF AccessAllowed
<1>8. ASSUME k \notin nftRaced PROVE StageGoesOn(c, s, k)
  <2>1. Setting(c, k) /\ (nftPointer[k] # NoOne => nftOwner[k] # NoOne)
    BY <1>1, <1>4, <1>a, <1>8, CurrentStage
  <2>2. /\ \A x : At(c, x)' <=> s = x
        /\ nftTodo'[c].at = s /\ (Mints(c)' <=> Mints(c))
    BY <1>5, WorkNext
  <2>3. Setting(c, k)'
    BY <2>1, <2>2, <1>1, <1>2, <1>b
       DEF Setting, Sound, Pointed, Listed, At, nftStore, nftGhost, nftPay
  <2>4. nftMinted'[k] >= nftMinted[k] /\ nftOwner'[k] = NoOne /\ nftPointer'[k] = NoOne
    BY <2>1, <1>2, <1>3 DEF NftTyped, nftStore, nftGhost, nftPay
  <2> QED
    BY <1>4, <1>b, <2>3, <2>4 DEF StageGoesOn
<1> QED
  BY ONLY NftInv, c \in NftCall, <1>1, <1>a, <1>5, <1>6, <1>7, <1>8, WorkGoesOn

LEMMA SeqParts ==
    ASSUME NEW list \in Seq(Nft), list # <<>>
    PROVE  /\ Head(list) \in Nft /\ Tail(list) \in Seq(Nft)
           /\ {list[i] : i \in DOMAIN list}
                = {Head(list)} \cup {Tail(list)[i] : i \in DOMAIN Tail(list)}
<1>1. /\ Len(list) \in Nat /\ Len(list) > 0 /\ DOMAIN list = 1..Len(list)
      /\ Head(list) = list[1] /\ list[1] \in Nft /\ Tail(list) \in Seq(Nft)
      /\ Len(Tail(list)) = Len(list) - 1 /\ DOMAIN Tail(list) = 1..(Len(list) - 1)
  OBVIOUS
<1>2. \A i \in 1..(Len(list) - 1) : Tail(list)[i] = list[i + 1]
  BY <1>1
<1>3. ASSUME NEW i \in DOMAIN list
      PROVE  list[i] \in {Head(list)} \cup {Tail(list)[j] : j \in DOMAIN Tail(list)}
  <2>1. CASE i = 1
    BY <2>1, <1>1
  <2>2. CASE i # 1
    <3>1. i - 1 \in DOMAIN Tail(list) /\ Tail(list)[i - 1] = list[i]
      BY <2>2, <1>1, <1>2
    <3> QED
      BY <3>1
  <2> QED
    BY <2>1, <2>2
<1>4. ASSUME NEW i \in DOMAIN Tail(list)
      PROVE  Tail(list)[i] \in {list[j] : j \in DOMAIN list}
  <2>1. i + 1 \in DOMAIN list /\ Tail(list)[i] = list[i + 1]
    BY <1>1, <1>2
  <2> QED
    BY <2>1
<1>5. Head(list) \in {list[j] : j \in DOMAIN list}
  BY <1>1
<1> QED
  BY <1>1, <1>3, <1>4, <1>5

\* The tokens of a work on a list: its own and those left.
WorkIds(t) == {t.left[i] : i \in DOMAIN t.left} \cup IF t.at = "done" THEN {} ELSE {t.nft}

LEMMA BurnWork ==
    ASSUME NEW list \in Seq(Nft), NEW t, t = ApplyBurn(list)
    PROVE  /\ t \in [at : NftSteps, nft : Nft \cup {NoOne},
                     to : Holder \cup {NoOne}, left : Seq(Nft)]
           /\ t.to = NoOne /\ t.at \in {"done", "delPointer"}
           /\ t.at = "done" <=> list = <<>>
           /\ t.at = "done" => t.left = <<>>
           /\ WorkIds(t) = {list[i] : i \in DOMAIN list}
<1>1. CASE list = <<>>
  <2>1. t = [at |-> "done", nft |-> NoOne, to |-> NoOne, left |-> <<>>]
    BY <1>1 DEF ApplyBurn, NoWork
  <2>2. <<>> \in Seq(Nft) /\ DOMAIN <<>> = {}
    OBVIOUS
  <2>3. t.at = "done" /\ t.nft = NoOne /\ t.to = NoOne /\ t.left = <<>>
    BY <2>1
  <2>4. {list[i] : i \in DOMAIN list} = {} /\ WorkIds(t) = {}
    BY <1>1, <2>2, <2>3 DEF WorkIds
  <2>5. t \in [at : NftSteps, nft : Nft \cup {NoOne}, to : Holder \cup {NoOne}, left : Seq(Nft)]
    BY <2>1, <2>2 DEF NftSteps
  <2> QED
    BY <1>1, <2>3, <2>4, <2>5
<1>2. CASE list # <<>>
  <2>1. t = [at |-> "delPointer", nft |-> Head(list), to |-> NoOne, left |-> Tail(list)]
    BY <1>2 DEF ApplyBurn
  <2>2. /\ Head(list) \in Nft /\ Tail(list) \in Seq(Nft)
        /\ {list[i] : i \in DOMAIN list}
             = {Head(list)} \cup {Tail(list)[i] : i \in DOMAIN Tail(list)}
    BY <1>2, SeqParts
  <2>3. t.at = "delPointer" /\ t.nft = Head(list) /\ t.to = NoOne /\ t.left = Tail(list)
    BY <2>1
  <2>4. WorkIds(t) = {list[i] : i \in DOMAIN list}
    BY <2>2, <2>3 DEF WorkIds
  <2>5. t \in [at : NftSteps, nft : Nft \cup {NoOne}, to : Holder \cup {NoOne}, left : Seq(Nft)]
    BY <2>1, <2>2 DEF NftSteps
  <2> QED
    BY <1>2, <2>3, <2>4, <2>5
<1> QED
  BY <1>1, <1>2

LEMMA DelOwnerKept ==
    ASSUME NftInv, NEW c \in NftCall, DelOwner(c)
    PROVE  NftInv'
<1>a. PICK k : k = Token(c)
  OBVIOUS
<1>b. PICK t : t = ApplyBurn(nftTodo[c].left)
  OBVIOUS
<1>1. ~At(c, "done") /\ At(c, "delOwner")
  BY DEF DelOwner, At
<1>2. /\ NftTyped /\ WorkShape(c) /\ OwnersKnown(c) /\ k \in Act(c).ids /\ k \in Nft
      /\ c \in InFlight /\ nftPc[c] \in {"apply", "post"}
      /\ CallShape(c) /\ CallInv(c) /\ Act(c).ids \subseteq Nft
  BY <1>1, <1>a, WorkParts, AtWork, BlockFacts DEF NftInv, Act
<1>3. Deletes(c) /\ Left(c) \subseteq Act(c).ids
  BY <1>1, <1>2, <1>a DEF WorkShape, At
<1>4. /\ nftOwner' = [nftOwner EXCEPT ![k] = NoOne]
      /\ nftTodo' = [nftTodo EXCEPT ![c] = t]
      /\ UNCHANGED <<nftPointer, nftIndex, nftRead, nftList, nftPc, nftBlk, nftVia, nftGhost>>
  BY <1>a, <1>b DEF DelOwner
<1>5. /\ t \in [at : NftSteps, nft : Nft \cup {NoOne},
                to : Holder \cup {NoOne}, left : Seq(Nft)]
      /\ t.at \in {"done", "delPointer"} /\ t.to = NoOne
      /\ t.at = "done" => t.left = <<>>
      /\ WorkIds(t) = Left(c)
  <2>1. nftTodo[c].left \in Seq(Nft)
    BY <1>2 DEF NftTyped
  <2> QED
    BY <2>1, <1>b, BurnWork DEF Left
<1>6. /\ nftTodo' \in [NftCall -> [at : NftSteps, nft : Nft \cup {NoOne},
                                to : Holder \cup {NoOne}, left : Seq(Nft)]]
      /\ nftTodo'[c] = t /\ \A d \in NftCall \ {c} : nftTodo'[d] = nftTodo[d]
      /\ nftOwner' \in [Nft -> Holder \cup {NoOne}] /\ nftOwner'[k] = NoOne
      /\ \A n \in Nft \ {k} : nftOwner'[n] = nftOwner[n]
  BY <1>2, <1>4, <1>5 DEF NftTyped
<1>7. NftTyped'
  BY <1>2, <1>4, <1>6 DEF NftTyped, nftGhost, nftPay
<1>8. StepOf(c)
  BY <1>2, <1>4, <1>6 DEF StepOf, nftGhost, nftPay
<1>9. /\ Act(c)' = Act(c) /\ Foot(c)' = Foot(c) /\ Near(c)' = Near(c) /\ Deletes(c)'
      /\ Token(c)' = t.nft /\ NewOwner(c)' = t.to
      /\ \A x : At(c, x)' <=> t.at = x
      /\ Left(c)' = {t.left[i] : i \in DOMAIN t.left}
      /\ Left(c) = Left(c)' \cup IF t.at = "done" THEN {} ELSE {t.nft}
  <2>1. /\ Act(c)' = Act(c) /\ Foot(c)' = Foot(c)
        /\ Token(c)' = t.nft /\ NewOwner(c)' = t.to
        /\ \A x : At(c, x)' <=> t.at = x
    BY <1>4, <1>6 DEF Act, Foot, Token, NewOwner, At
  <2>2. Near(c)' = Near(c) /\ Deletes(c)'
    BY <2>1, <1>3, <1>4 DEF Near, Deletes, nftGhost
  <2>3. Left(c)' = {t.left[i] : i \in DOMAIN t.left}
    BY <1>6 DEF Left
  <2>4. Left(c) = Left(c)' \cup IF t.at = "done" THEN {} ELSE {t.nft}
    BY <2>3, <1>5 DEF WorkIds
  <2> QED
    BY <2>1, <2>2, <2>3, <2>4
<1>10. CallShape(c)'
  BY <1>2, <1>4, <1>9 DEF CallShape
<1>11. WorkShape(c)'
  <2>1. Act(c).kind # "Use"
    BY <1>3 DEF Deletes
  <2> QED
    BY <2>1, <1>3, <1>5, <1>6, <1>9 DEF WorkShape
<1>12. OwnersKnown(c)'
  BY <1>2, <1>4, <1>6, <1>9 DEF OwnersKnown, Near
<1>13. ListsCurrent(c)'
  BY <1>5, <1>9 DEF ListsCurrent
<1>14. ASSUME NEW n \in Act(c).ids, n \notin nftRaced
       PROVE  TokenStage(c, n)' /\ TokenInv(n)'
  <2>1. TokenStage(c, n) /\ TokenInv(n)
    BY <1>2, <1>14 DEF NftInv, CallInv
  <2>2. nftBurnt[n] < nftMinted[n]
    BY <2>1, <1>2, <1>3 DEF TokenStage
  <2>3. Sound(n)'
    <3>1. CASE n = k
      <4>1. Deleting(c, n)
        BY <3>1, <2>1, <1>1, <1>3, <1>a DEF TokenStage
      <4>2. nftPointer[n] = NoOne /\ Listed(n, NoOne)
        BY <4>1, <1>1 DEF Deleting, At
      <4> QED
        BY <4>2, <3>1, <1>4, <1>6 DEF Sound, Pointed, Listed, nftGhost, nftPay
    <3>2. CASE n # k
      <4>1. Sound(n)
        BY <3>2, <2>1, <1>a DEF TokenStage, Waiting
      <4> QED
        BY <4>1, <3>2, <1>2, <1>4, <1>6 DEF Sound, Pointed, Listed, nftGhost, nftPay
    <3> QED
      BY <3>1, <3>2
  <2>4. (nftPc[c] = "post" \/ n \notin Left(c)) => nftOwner'[n] = NoOne
    <3>1. CASE n = k
      BY <3>1, <1>6
    <3>2. CASE n # k
      <4>1. Waiting(c, n)
        BY <3>2, <2>1, <1>a DEF TokenStage
      <4> QED
        BY <4>1, <3>2, <1>2, <1>3, <1>6 DEF Waiting
    <3> QED
      BY <3>1, <3>2
  <2>5. TokenStage(c, n)'
    <3>1. CASE t.at # "done" /\ n = t.nft
      BY <3>1, <2>2, <2>3, <2>4, <1>4, <1>5, <1>6, <1>9 DEF TokenStage, Deleting, nftGhost, nftPay
    <3>2. CASE t.at = "done" \/ n # t.nft
      <4>1. n \notin Left(c)' => n \notin Left(c)
        BY <3>2, <1>9
      <4>2. Waiting(c, n)'
        BY <4>1, <2>3, <2>4, <1>2, <1>4, <1>6 DEF Waiting
      <4> QED
        BY <4>2, <3>2, <2>2, <1>4, <1>9 DEF TokenStage, nftGhost, nftPay
    <3> QED
      BY <3>1, <3>2
  <2>6. TokenInv(n)'
    <3>1. c \in InFlight' /\ n \in Act(c)'.ids
      BY <1>2, <1>4, <1>9, <1>14 DEF InFlight
    <3>2. nftBurnt' = nftBurnt /\ nftMinted' = nftMinted
      BY <1>4 DEF nftGhost, nftPay
    <3>3. nftPointer'[n] # NoOne => nftOwner'[n] # NoOne
      <4>1. n = k => nftPointer[n] = NoOne
        BY <2>1, <1>1, <1>3, <1>a DEF TokenStage, Deleting, At
      <4> QED
        BY <4>1, <2>1, <1>2, <1>4, <1>6 DEF TokenInv
    <3> QED
      BY <3>1, <3>2, <3>3, <2>1, <2>2 DEF TokenInv
  <2> QED
    BY <2>5, <2>6
<1>15. CallInv(c)'
  BY <1>4, <1>9, <1>12, <1>13, <1>14 DEF CallInv, nftGhost, nftPay
<1>16. \A n \in Act(c).ids \ nftRaced : TokenInv(n)'
  BY <1>14
<1> QED
  BY <1>2, <1>7, <1>8, <1>10, <1>11, <1>15, <1>16, StepKept

-----------------------------------------------------------------------------
(* Work begins and ends: the arm, the insertion, the answer, a new call.   *)

\* What the token is, or the step leaves it torn.
SoundOrTorn(n) == n \in nftTorn' \/ Sound(n)

\* The work t suits the block of c and what is known of its tokens.
WorkFits(c, p, t) ==
    /\ t \in [at : NftSteps, nft : Nft \cup {NoOne}, to : Holder \cup {NoOne}, left : Seq(Nft)]
    /\ p = "apply" => nftVia[c] # "mint_nft"
    /\ p = "post" => nftVia[c] # "submit"
    /\ t.at \in {"done", "createOnly", "getOwner", "delPointer"}
    /\ t.at # "done" => t.nft \in Act(c).ids /\ Act(c).kind # "Use"
    /\ t.at = "done" => t.left = <<>>
    /\ Deletes(c) => t.at \in {"done", "delPointer"} /\ t.to = NoOne
    /\ (Deletes(c) /\ p = "apply") => WorkIds(t) = Act(c).ids
    /\ Deletes(c) => WorkIds(t) \subseteq Act(c).ids
    /\ ~Deletes(c) => t.at # "delPointer" /\ t.left = <<>>
    /\ (~Deletes(c) /\ t.at # "done") => t.to \in Foot(c) /\ t.to # NoOne
    /\ t.at = "createOnly" => Mints(c)
    /\ \A n \in Act(c).ids : nftOwner[n] \in Near(c)
    /\ \A n \in Act(c).ids \ nftRaced :
         /\ SoundOrTorn(n)
         /\ Deletes(c) => nftBurnt[n] < nftMinted[n]
         /\ (Deletes(c) /\ p = "post") => nftOwner[n] = NoOne
         /\ (~Deletes(c) /\ t.at # "done" /\ n = t.nft) => (nftOwner[n] = NoOne <=> Mints(c))

LEMMA WorkStarts ==
    ASSUME NftInv, NEW c \in InFlight, NEW p \in {"apply", "post"}, NEW t, WorkFits(c, p, t),
           nftPc' = [nftPc EXCEPT ![c] = p], nftTodo' = [nftTodo EXCEPT ![c] = t],
           UNCHANGED <<nftStore, nftBlk, nftVia, nftRead, nftList, nftMinted, nftBurnt, nftRaced>>,
           nftTorn \subseteq nftTorn', nftTorn' \subseteq nftTorn \cup Act(c).ids
    PROVE  NftInv'
<1>1. /\ NftTyped /\ CallShape(c) /\ CallInv(c) /\ c \in NftCall
      /\ nftBlk[c] \in NftBlock /\ Act(c).ids \subseteq Nft
  BY BlockFacts DEF NftInv, InFlight, CallShape, Act
<1>2. /\ nftTodo'[c] = t /\ nftPc'[c] = p
      /\ \A d \in NftCall \ {c} : nftTodo'[d] = nftTodo[d] /\ nftPc'[d] = nftPc[d]
  BY <1>1 DEF NftTyped
<1>3. NftTyped'
  <2>1. nftPc' \in [NftCall -> {"idle", "arm", "insert", "apply", "post"}]
    BY <1>1 DEF NftTyped
  <2>2. nftTodo' \in [NftCall -> [at : NftSteps, nft : Nft \cup {NoOne},
                                to : Holder \cup {NoOne}, left : Seq(Nft)]]
    BY <1>1 DEF NftTyped, WorkFits
  <2> QED
    BY <1>1, <2>1, <2>2 DEF NftTyped, nftStore
<1>4. /\ Act(c)' = Act(c) /\ Foot(c)' = Foot(c) /\ Near(c)' = Near(c)
      /\ (Deletes(c)' <=> Deletes(c)) /\ (Mints(c)' <=> Mints(c))
      /\ Token(c)' = t.nft /\ NewOwner(c)' = t.to
      /\ \A x : At(c, x)' <=> t.at = x
      /\ Left(c)' = {t.left[i] : i \in DOMAIN t.left}
  BY <1>2 DEF Act, Foot, Near, Deletes, Mints, Token, NewOwner, At, Left
<1>5. StepOf(c)
  BY <1>1, <1>2 DEF StepOf, nftStore
<1>6. CallShape(c)'
  BY <1>1, <1>2, <1>4 DEF CallShape, WorkFits, InFlight
<1>7. WorkShape(c)'
  BY <1>2, <1>4 DEF WorkShape, WorkFits, WorkIds
<1>8. OwnersKnown(c)' /\ ListsCurrent(c)'
  BY <1>1, <1>4 DEF OwnersKnown, ListsCurrent, CallInv, WorkFits, nftStore
<1>9. ASSUME NEW n \in Act(c).ids, n \notin nftRaced
      PROVE  TokenStage(c, n)' /\ TokenInv(n)'
  <2>1. TokenInv(n) /\ SoundOrTorn(n)
    BY <1>1, <1>9 DEF NftInv, WorkFits
  <2>2. Sound(n)' /\ nftOwner'[n] = nftOwner[n]
    BY <2>1 DEF SoundOrTorn, Sound, Pointed, Listed, nftStore
  <2>3. TokenInv(n)'
    BY <2>1, <2>2 DEF TokenInv, nftStore
  <2>4. Deletes(c) => nftBurnt'[n] < nftMinted'[n]
    BY <1>9 DEF WorkFits
  <2>5. CASE t.at = "done" \/ n # t.nft
    <3>1. Waiting(c, n)'
      BY <2>2, <2>5, <1>2, <1>4, <1>9 DEF Waiting, WorkFits, WorkIds
    <3> QED
      BY <3>1, <2>3, <2>4, <2>5, <1>4 DEF TokenStage
  <2>6. CASE t.at # "done" /\ n = t.nft
    <3>1. Deletes(c) => Deleting(c, n)'
      BY <2>2, <2>6, <1>2, <1>4, <1>9 DEF Deleting, WorkFits
    <3>2. ~Deletes(c) => Setting(c, n)'
      <4>1. SUFFICES ASSUME ~Deletes(c) PROVE Setting(c, n)'
        OBVIOUS
      <4>2. t.at \in {"createOnly", "getOwner"} /\ (nftOwner[n] = NoOne <=> Mints(c))
        BY <4>1, <2>6, <1>9 DEF WorkFits
      <4> QED
        BY <4>2, <2>2, <1>2, <1>4 DEF Setting
    <3> QED
      BY <3>1, <3>2, <2>3, <2>4, <2>6, <1>4 DEF TokenStage
  <2> QED
    BY <2>5, <2>6
<1>10. CallInv(c)'
  BY <1>4, <1>8, <1>9 DEF CallInv
<1>11. \A n \in Act(c).ids \ nftRaced : TokenInv(n)'
  BY <1>9
<1> QED
  BY <1>3, <1>5, <1>6, <1>7, <1>10, <1>11, StepKept

LEMMA FinishKept ==
    ASSUME NftInv, NEW c \in InFlight, Finish(c), UNCHANGED <<nftStore, nftMinted, nftRaced>>,
           nftTorn \subseteq nftTorn', nftTorn' \subseteq nftTorn \cup Act(c).ids,
           nftBurnt' \in [Nft -> Nat],
           \A n \in Nft \ Act(c).ids : nftBurnt'[n] = nftBurnt[n],
           \A n \in Act(c).ids \ nftRaced :
              /\ SoundOrTorn(n) /\ nftBurnt'[n] <= nftMinted[n]
              /\ nftOwner[n] # NoOne => nftBurnt'[n] < nftMinted[n]
    PROVE  NftInv'
<1>1. NftTyped /\ CallShape(c) /\ c \in NftCall
  BY DEF NftInv, InFlight
<1>2. /\ nftPc'[c] = "idle" /\ nftTodo'[c] = NoWork /\ nftRead'[c] = NoOne
      /\ \A d \in NftCall \ {c} :
         /\ nftPc'[d] = nftPc[d] /\ nftBlk'[d] = nftBlk[d] /\ nftVia'[d] = nftVia[d]
         /\ nftTodo'[d] = nftTodo[d] /\ nftRead'[d] = nftRead[d] /\ nftList'[d] = nftList[d]
  BY <1>1 DEF Finish, NftTyped
<1>3. NftTyped'
  <2>1. /\ nftPc' \in [NftCall -> {"idle", "arm", "insert", "apply", "post"}]
        /\ nftBlk' \in [NftCall -> NftBlock \cup {NoOne}]
        /\ nftVia' \in [NftCall -> NftVias]
    BY <1>1 DEF Finish, NftTyped
  <2>2. NoWork \in [at : NftSteps, nft : Nft \cup {NoOne},
                    to : Holder \cup {NoOne}, left : Seq(Nft)]
    BY DEF NoWork, NftSteps
  <2>3. nftTodo' \in [NftCall -> [at : NftSteps, nft : Nft \cup {NoOne},
                                to : Holder \cup {NoOne}, left : Seq(Nft)]]
    BY <1>1, <2>2 DEF Finish, NftTyped
  <2>4. /\ nftRead' \in [NftCall -> Holder \cup {NoOne}]
        /\ nftList' \in [NftCall -> SUBSET Nft]
    BY <1>1 DEF Finish, NftTyped
  <2> QED
    BY <1>1, <2>1, <2>3, <2>4 DEF NftTyped, nftStore
<1>4. StepOf(c)
  BY <1>1, <1>2 DEF StepOf, nftStore
<1>5. CallShape(c)' /\ WorkShape(c)'
  BY <1>2 DEF CallShape, WorkShape, At, NoWork
<1>6. ASSUME NEW n \in Act(c).ids \ nftRaced PROVE TokenInv(n)'
  <2>1. Sound(n)'
    BY <1>6 DEF SoundOrTorn, Sound, Pointed, Listed, nftStore
  <2>2. TokenInv(n)
    BY <1>6, BlockFacts DEF NftInv, InFlight, CallShape, Act
  <2> QED
    BY <2>1, <2>2, <1>6 DEF TokenInv, nftStore
<1> QED
  BY <1>2, <1>3, <1>4, <1>5, <1>6, StepKept

\* What a call without work left knows of its tokens.
LEMMA RestingTokens ==
    ASSUME NftInv, NEW c \in InFlight, At(c, "done"), NEW n \in Act(c).ids, n \notin nftRaced
    PROVE  /\ Sound(n) /\ SoundOrTorn(n) /\ n \in Nft /\ nftBurnt[n] <= nftMinted[n]
           /\ nftOwner[n] # NoOne => nftBurnt[n] < nftMinted[n]
           /\ nftPc[c] = "insert" => nftOwner[n] = NoOne
           /\ (Deletes(c) /\ nftPc[c] \in {"apply", "post"}) =>
                nftOwner[n] = NoOne /\ nftBurnt[n] < nftMinted[n]
<1>1. n \in Nft /\ c \in NftCall /\ CallInv(c) /\ WorkShape(c)
  BY BlockFacts DEF NftInv, InFlight, CallShape, Act
<1>2. TokenStage(c, n) /\ TokenInv(n)
  BY <1>1 DEF NftInv, CallInv
<1>3. Waiting(c, n)
  BY <1>2 DEF TokenStage
<1> QED
  BY <1>1, <1>2, <1>3 DEF Waiting, TokenStage, TokenInv, WorkShape, Left, SoundOrTorn

LEMMA RejectKept ==
    ASSUME NftInv, NEW c \in NftCall, NftReject(c)
    PROVE  NftInv'
<1>1. c \in InFlight /\ At(c, "done") /\ nftBurnt \in [Nft -> Nat]
  BY DEF NftReject, InFlight, NftInv, CallShape, NftTyped
<1>2. UNCHANGED <<nftStore, nftMinted, nftBurnt, nftRaced, nftTorn>> /\ Finish(c)
  BY DEF NftReject, nftGhost, nftPay
<1> QED
  BY <1>1, <1>2, RestingTokens, FinishKept

LEMMA AnswerKept ==
    ASSUME NftInv, NEW c \in NftCall, NftAnswer(c)
    PROVE  NftInv'
<1>1. /\ c \in InFlight /\ At(c, "done") /\ nftPc[c] = "post"
      /\ nftBurnt \in [Nft -> Nat] /\ nftMinted \in [Nft -> Nat]
      /\ CallShape(c) /\ Act(c).ids \subseteq Nft /\ nftVia[c] \in NftVias
  BY BlockFacts DEF NftAnswer, Answered, InFlight, NftInv, CallShape, NftTyped, At, Act
<1>2. /\ UNCHANGED <<nftStore, nftMinted, nftRaced, nftTorn>> /\ Finish(c)
      /\ nftBurnt' = [n \in Nft |->
           nftBurnt[n] + IF n \in Act(c).ids /\ nftVia[c] # "mint_nft" THEN 1 ELSE 0]
  <2>1. UNCHANGED <<nftStore, nftMinted, nftRaced, nftTorn>> /\ Finish(c)
    BY DEF NftAnswer, Answered, EmitBurn, nftPay
  <2>2. CASE nftVia[c] = "mint_nft"
    BY <2>1, <2>2, <1>1 DEF NftAnswer, nftPay
  <2>3. CASE nftVia[c] # "mint_nft"
    BY <2>1, <2>3 DEF NftAnswer, EmitBurn
  <2> QED
    BY <2>1, <2>2, <2>3
<1>3. nftBurnt' \in [Nft -> Nat] /\ \A n \in Nft \ Act(c).ids : nftBurnt'[n] = nftBurnt[n]
  BY <1>1, <1>2
<1>4. ASSUME NEW n \in Act(c).ids, n \notin nftRaced
      PROVE  /\ SoundOrTorn(n) /\ nftBurnt'[n] <= nftMinted[n]
             /\ nftOwner[n] # NoOne => nftBurnt'[n] < nftMinted[n]
  <2>1. /\ SoundOrTorn(n) /\ n \in Nft /\ nftBurnt[n] <= nftMinted[n]
        /\ nftOwner[n] # NoOne => nftBurnt[n] < nftMinted[n]
        /\ Deletes(c) => nftOwner[n] = NoOne /\ nftBurnt[n] < nftMinted[n]
    BY <1>1, <1>4, RestingTokens
  <2>2. nftBurnt[n] \in Nat /\ nftMinted[n] \in Nat
    BY <1>1, <2>1
  <2>3. CASE nftVia[c] = "mint_nft"
    BY <2>1, <2>2, <2>3, <1>2
  <2>4. CASE nftVia[c] # "mint_nft"
    <3>1. Deletes(c)
      BY <2>4, <1>1 DEF CallShape, NftVias
    <3>2. nftBurnt'[n] = nftBurnt[n] + 1
      BY <2>1, <2>4, <1>2, <1>4
    <3> QED
      BY <3>1, <3>2, <2>1, <2>2
  <2> QED
    BY <2>3, <2>4
<1> QED
  BY <1>1, <1>2, <1>3, <1>4, FinishKept

\* The list of a block and its tokens.
LEMMA HeadOfList ==
    ASSUME NEW c, nftBlk[c] \in NftBlock
    PROVE  Head(Act(c).list) \in Act(c).ids
BY SeqParts, NftAssumption DEF NftAssumption, Act

LEMMA BurnOfBlock ==
    ASSUME NEW c, nftBlk[c] \in NftBlock, NEW t, t = ApplyBurn(Act(c).list)
    PROVE  /\ t \in [at : NftSteps, nft : Nft \cup {NoOne}, to : Holder \cup {NoOne}, left : Seq(Nft)]
           /\ t.at = "delPointer" /\ t.to = NoOne /\ WorkIds(t) = Act(c).ids
           /\ t.nft \in Act(c).ids
<1>1. /\ Act(c).list \in Seq(Nft) /\ Act(c).list # <<>>
      /\ Act(c).ids = {Act(c).list[i] : i \in DOMAIN Act(c).list}
  BY NftAssumption DEF NftAssumption, Act
<1>2. /\ t \in [at : NftSteps, nft : Nft \cup {NoOne}, to : Holder \cup {NoOne}, left : Seq(Nft)]
      /\ t.at = "delPointer" /\ t.to = NoOne /\ WorkIds(t) = Act(c).ids
  BY <1>1, BurnWork
<1> QED
  BY <1>2 DEF WorkIds

LEMMA ArmKept ==
    ASSUME NftInv, NEW c \in NftCall, NftArm(c)
    PROVE  NftInv'
<1>a. PICK t : t = ApplyAction(Act(c))
  OBVIOUS
<1>1. /\ c \in InFlight /\ At(c, "done") /\ NftTyped /\ CallShape(c) /\ CallInv(c)
      /\ nftPc[c] = "arm" /\ nftBlk[c] \in NftBlock /\ ValidNftAction(Act(c))
  BY DEF NftArm, InFlight, NftInv, CallShape
<1>2. /\ Act(c).ids \subseteq Nft /\ Act(c).ids # {} /\ Act(c).ids \subseteq Foot(c)
      /\ Act(c).from \in Foot(c) /\ Act(c).to \in Foot(c)
      /\ Act(c).from \in Holder /\ Act(c).to \in Holder
      /\ Act(c).kind \in {"Mint", "Sealed", "Transfer", "Use", "Burn", "BatchBurn"}
  BY <1>1, BlockFacts DEF Act, Foot
<1>3. Act(c).kind # "Sealed" /\ nftVia[c] # "mint_nft"
  BY <1>1 DEF CallShape
<1>4. /\ nftPc' = [nftPc EXCEPT ![c] = "apply"] /\ nftTodo' = [nftTodo EXCEPT ![c] = t]
      /\ UNCHANGED <<nftStore, nftBlk, nftVia, nftRead, nftList, nftMinted, nftBurnt, nftRaced,
                     nftTorn>>
  BY <1>a DEF NftArm, nftGhost, nftPay
<1>5. \A n \in Act(c).ids : nftOwner[n] = IF Mints(c) THEN NoOne ELSE Act(c).from
  BY <1>1, <1>3 DEF ValidNftAction, Mints
<1>6. PICK m : m = Head(Act(c).list)
  OBVIOUS
<1>7. m \in Act(c).ids
  BY <1>1, <1>6, HeadOfList
<1>8. CASE Act(c).kind = "Mint"
  <2>1. t = ApplyMint(m, Act(c).from) /\ ~Deletes(c) /\ Mints(c)
    BY <1>8, <1>a, <1>6 DEF ApplyAction, Deletes, Mints
  <2>2. t = [at |-> "createOnly", nft |-> m, to |-> Act(c).from, left |-> <<>>]
    BY <2>1 DEF ApplyMint
  <2>3. WorkFits(c, "apply", t)
    BY <2>1, <2>2, <1>1, <1>2, <1>3, <1>5, <1>7, <1>8, NoOneApart, RestingTokens
       DEF WorkFits, NftSteps, Near
  <2> QED
    BY <2>3, <1>1, <1>4, WorkStarts
<1>9. CASE Act(c).kind = "Transfer"
  <2>1. t = SetOwner(m, Act(c).to) /\ ~Deletes(c) /\ ~Mints(c)
    BY <1>9, <1>a, <1>6 DEF ApplyAction, Deletes, Mints
  <2>2. t = [at |-> "getOwner", nft |-> m, to |-> Act(c).to, left |-> <<>>]
    BY <2>1 DEF SetOwner
  <2>3. WorkFits(c, "apply", t)
    BY <2>1, <2>2, <1>1, <1>2, <1>3, <1>5, <1>7, <1>9, NoOneApart, RestingTokens
       DEF WorkFits, NftSteps, Near
  <2> QED
    BY <2>3, <1>1, <1>4, WorkStarts
<1>10. CASE Act(c).kind \in {"Burn", "BatchBurn"}
  <2>1. t = ApplyBurn(Act(c).list) /\ Deletes(c) /\ ~Mints(c)
    BY <1>10, <1>a DEF ApplyAction, Deletes, Mints
  <2>2. /\ t \in [at : NftSteps, nft : Nft \cup {NoOne}, to : Holder \cup {NoOne}, left : Seq(Nft)]
        /\ t.at = "delPointer" /\ t.to = NoOne /\ WorkIds(t) = Act(c).ids
        /\ t.nft \in Act(c).ids
    BY <2>1, <1>1, BurnOfBlock
  <2>3. WorkFits(c, "apply", t)
    BY <2>1, <2>2, <1>1, <1>2, <1>3, <1>5, <1>10, NoOneApart, RestingTokens
       DEF WorkFits, NftSteps, Near
  <2> QED
    BY <2>3, <1>1, <1>4, WorkStarts
<1>11. CASE Act(c).kind = "Use"
  <2>1. t = NoWork /\ ~Deletes(c) /\ ~Mints(c)
    BY <1>11, <1>a DEF ApplyAction, Deletes, Mints
  <2>2. WorkFits(c, "apply", t)
    BY <2>1, <1>1, <1>2, <1>3, <1>5, <1>11, NoOneApart, RestingTokens
       DEF WorkFits, NftSteps, Near, NoWork
  <2> QED
    BY <2>2, <1>1, <1>4, WorkStarts
<1> QED
  BY <1>2, <1>3, <1>8, <1>9, <1>10, <1>11

LEMMA InsertKept ==
    ASSUME NftInv, NEW c \in NftCall, NftInsert(c)
    PROVE  NftInv'
<1>1. /\ c \in InFlight /\ At(c, "done") /\ nftPc[c] \in {"insert", "apply"}
      /\ NftTyped /\ CallShape(c) /\ CallInv(c) /\ nftBlk[c] \in NftBlock
  BY DEF NftInsert, ArmDone, InFlight, NftInv, CallShape, At
<1>2. UNCHANGED <<nftStore, nftMinted, nftBurnt, nftRaced, nftTorn>>
  BY DEF NftInsert, nftGhost, nftPay
<1>3. CASE nftBlk[c] \in nftDag \/ nftVia[c] = "submit"
  <2>1. Finish(c)
    BY <1>3 DEF NftInsert
  <2> QED
    BY <2>1, <1>1, <1>2, RestingTokens, FinishKept DEF NftTyped
<1>4. CASE ~(nftBlk[c] \in nftDag \/ nftVia[c] = "submit")
  <2>a. PICK t : t = LateAction(c)
    OBVIOUS
  <2>1. /\ nftPc' = [nftPc EXCEPT ![c] = "post"] /\ nftTodo' = [nftTodo EXCEPT ![c] = t]
        /\ UNCHANGED <<nftStore, nftBlk, nftVia, nftRead, nftList, nftMinted, nftBurnt, nftRaced,
                       nftTorn>>
    BY <1>2, <1>4, <2>a DEF NftInsert
  <2>2. /\ Act(c).ids \subseteq Nft /\ Act(c).ids # {} /\ Act(c).ids \subseteq Foot(c)
        /\ Act(c).to \in Foot(c) /\ Act(c).to \in Holder
    BY <1>1, BlockFacts DEF Act, Foot
  <2>3. \A n \in Act(c).ids : nftOwner[n] \in Near(c)
    BY <1>1 DEF CallInv, OwnersKnown
  <2>4. CASE nftVia[c] = "mint_nft"
    <3>1. PICK m : m = Head(Act(c).list)
      OBVIOUS
    <3>2. m \in Act(c).ids
      BY <3>1, <1>1, HeadOfList
    <3>3. t = [at |-> "createOnly", nft |-> m, to |-> Act(c).to, left |-> <<>>]
      BY <2>4, <2>a, <3>1 DEF ApplyMint, LateAction
    <3>4. /\ Act(c).kind = "Sealed" /\ ~Deletes(c) /\ Mints(c) /\ nftPc[c] = "insert"
      BY <2>4, <1>1 DEF CallShape, Deletes, Mints
    <3>5. WorkFits(c, "post", t)
      BY <2>2, <2>3, <2>4, <3>2, <3>3, <3>4, <1>1, NoOneApart, RestingTokens
         DEF WorkFits, NftSteps
    <3> QED
      BY <3>5, <1>1, <2>1, WorkStarts
  <2>5. CASE nftVia[c] # "mint_nft"
    <3>1. Deletes(c) /\ ~Mints(c) /\ Act(c).kind # "Use" /\ nftPc[c] = "apply"
      BY <2>5, <1>1, <1>4 DEF CallShape, NftVias, NftTyped, Deletes, Mints
    <3>2. t = ApplyBurn(Act(c).list)
      BY <2>5, <2>a DEF LateAction
    <3>3. /\ t \in [at : NftSteps, nft : Nft \cup {NoOne}, to : Holder \cup {NoOne}, left : Seq(Nft)]
          /\ t.at = "delPointer" /\ t.to = NoOne /\ WorkIds(t) = Act(c).ids
          /\ t.nft \in Act(c).ids
      BY <3>2, <1>1, BurnOfBlock
    <3>4. WorkFits(c, "post", t)
      BY <2>2, <2>3, <3>1, <3>3, <1>1, <1>4, RestingTokens DEF WorkFits, NftSteps
    <3> QED
      BY <3>4, <1>1, <2>1, WorkStarts
  <2> QED
    BY <2>4, <2>5
<1> QED
  BY <1>3, <1>4

LEMMA CreateOnlyKept ==
    ASSUME NftInv, NEW c \in NftCall, CreateOnly(c)
    PROVE  NftInv'
<1>a. PICK k : k = Token(c)
  OBVIOUS
<1>1. ~At(c, "done") /\ At(c, "createOnly")
  BY DEF CreateOnly, At
<1>2. /\ NftTyped /\ WorkShape(c) /\ k \in Act(c).ids /\ k \in Nft
      /\ c \in InFlight /\ nftPc[c] \in {"apply", "post"}
      /\ CallShape(c) /\ CallInv(c) /\ Act(c).ids \subseteq Nft /\ Act(c).ids # {}
  BY <1>1, <1>a, WorkParts, AtWork, BlockFacts DEF NftInv, Act
<1>3. ~Deletes(c) /\ Mints(c)
  BY <1>1, <1>2 DEF WorkShape, At
<1>4. CASE nftOwner[Token(c)] = NoOne
  BY <1>4, CreateKept
<1>5. CASE nftOwner[Token(c)] # NoOne
  <2>1. \A n \in Act(c).ids \ nftRaced :
          /\ SoundOrTorn(n) /\ nftBurnt[n] <= nftMinted[n]
          /\ nftOwner[n] # NoOne => nftBurnt[n] < nftMinted[n]
    <3> SUFFICES ASSUME NEW n \in Act(c).ids \ nftRaced
                 PROVE  /\ SoundOrTorn(n) /\ nftBurnt[n] <= nftMinted[n]
                        /\ nftOwner[n] # NoOne => nftBurnt[n] < nftMinted[n]
      OBVIOUS
    <3>1. TokenStage(c, n) /\ TokenInv(n)
      BY <1>2 DEF NftInv, CallInv
    <3>2. CASE n = Token(c)
      BY <3>1, <3>2, <1>1, <1>3 DEF TokenStage, TokenInv, Setting, At, SoundOrTorn
    <3>3. CASE n # Token(c)
      BY <3>1, <3>3 DEF TokenStage, TokenInv, Waiting, SoundOrTorn
    <3> QED
      BY <3>2, <3>3
  <2>2. k \in nftRaced
    <3>1. SUFFICES ASSUME k \notin nftRaced PROVE FALSE
      OBVIOUS
    <3>2. Setting(c, k)
      BY <3>1, <1>1, <1>3, <1>a, CurrentStage
    <3> QED
      BY <3>2, <1>1, <1>3, <1>5, <1>a DEF Setting, At
  <2>3. UNCHANGED <<nftStore, nftMinted, nftBurnt, nftRaced, nftTorn>>
    BY DEF CreateOnly, nftGhost, nftPay
  <2>4. CASE nftPc[c] = "apply"
    <3>1. Finish(c)
      BY <1>5, <2>4 DEF CreateOnly
    <3> QED
      BY <3>1, <2>1, <2>3, <1>2, FinishKept DEF NftTyped
  <2>5. CASE nftPc[c] # "apply"
    <3>1. /\ nftTodo' = [nftTodo EXCEPT ![c] = NoWork]
          /\ UNCHANGED <<nftPc, nftBlk, nftVia, nftRead, nftList>>
      BY <1>5, <2>5 DEF CreateOnly
    <3>2. nftPc' = [nftPc EXCEPT ![c] = "post"] /\ nftPc[c] = "post"
      BY <3>1, <2>5, <1>2 DEF NftTyped
    <3>3. \A n \in Act(c).ids : nftOwner[n] \in Near(c)
      BY <1>2 DEF CallInv, OwnersKnown
    <3>4. WorkFits(c, "post", NoWork)
      BY <3>2, <3>3, <2>1, <1>2, <1>3 DEF WorkFits, NoWork, NftSteps, CallShape, WorkIds
    <3> QED
      BY <3>1, <3>2, <3>4, <2>3, <1>2, WorkStarts
  <2> QED
    BY <2>4, <2>5
<1> QED
  BY <1>4, <1>5

LEMMA BeginKept ==
    ASSUME NftInv, NEW c \in NftCall, NEW b \in NftBlock, NEW via \in NftVias,
           NEW pc \in {"arm", "insert"}, Begin(c, b, via, pc),
           via = "mint_nft" <=> NftActionOf[b].kind = "Sealed",
           via = "mint_nft" <=> pc = "insert",
           via \in {"burn_nft", "burn_nft_simple"} =>
             NftActionOf[b].kind \in {"Burn", "BatchBurn"},
           pc = "insert" => \A n \in NftActionOf[b].ids : nftOwner[n] = NoOne
    PROVE  NftInv'
<1>1. /\ NftTyped /\ CallShape(c) /\ WorkShape(c) /\ nftPc[c] = "idle"
      /\ At(c, "done") /\ nftRead[c] = NoOne /\ nftTodo[c].left = <<>>
  BY DEF NftInv, Begin, CallShape, WorkShape
<1>2. /\ nftPc' = [nftPc EXCEPT ![c] = pc]
      /\ nftBlk' = [nftBlk EXCEPT ![c] = b]
      /\ nftVia' = [nftVia EXCEPT ![c] = via]
      /\ UNCHANGED <<nftStore, nftTodo, nftRead, nftList, nftMinted, nftBurnt, nftTorn>>
  BY DEF Begin, nftPay
<1>3. /\ nftPc'[c] = pc /\ nftBlk'[c] = b /\ nftVia'[c] = via
      /\ \A d \in NftCall \ {c} :
           nftPc'[d] = nftPc[d] /\ nftBlk'[d] = nftBlk[d] /\ nftVia'[d] = nftVia[d]
  BY <1>1, <1>2 DEF NftTyped
<1>4. NftTyped'
  <2>1. /\ nftPc' \in [NftCall -> {"idle", "arm", "insert", "apply", "post"}]
        /\ nftBlk' \in [NftCall -> NftBlock \cup {NoOne}]
        /\ nftVia' \in [NftCall -> NftVias]
    BY <1>1, <1>2 DEF NftTyped
  <2> QED
    BY <1>1, <1>2, <2>1 DEF NftTyped, nftStore
<1>5. /\ nftRaced \subseteq nftRaced'
      /\ \A d \in InFlight : Footprint(b) \cap Footprint(nftBlk[d]) # {} =>
           Footprint(b) \cup Footprint(nftBlk[d]) \subseteq nftRaced'
  BY DEF Begin
<1>6. /\ Act(c)' = NftActionOf[b] /\ Foot(c)' = Footprint(b)
      /\ \A d \in NftCall \ {c} : Act(d)' = Act(d) /\ Foot(d)' = Foot(d)
  BY <1>3 DEF Act, Foot
<1>7. InFlight' = InFlight \cup {c} /\ c \notin InFlight
  BY <1>1, <1>3 DEF InFlight
<1>8. ASSUME NEW d \in NftCall PROVE CallShape(d)' /\ WorkShape(d)'
  <2>1. CASE d = c
    BY <2>1, <1>1, <1>2, <1>3, <1>6 DEF CallShape, WorkShape, At, Deletes
  <2>2. CASE d # c
    <3>1. CallShape(d) /\ WorkShape(d)
      BY DEF NftInv
    <3> QED
      BY <3>1, <2>2, <1>2, <1>3, <1>6
         DEF CallShape, WorkShape, At, Deletes, Mints, Token, NewOwner, Left
  <2> QED
    BY <2>1, <2>2
<1>9. ASSUME NEW d \in InFlight', NEW e \in InFlight' PROVE CallsApart(d, e)'
  <2>1. CASE d # c /\ e # c
    <3>1. CallsApart(d, e)
      BY <2>1, <1>7 DEF NftInv
    <3>2. d \in NftCall /\ e \in NftCall
      BY <1>7 DEF InFlight
    <3> QED
      BY <3>1, <3>2, <2>1, <1>5, <1>6 DEF CallsApart
  <2>2. CASE d = c /\ e # c
    <3>1. e \in InFlight /\ e \in NftCall /\ Foot(e) = Footprint(nftBlk[e])
      BY <2>2, <1>7 DEF InFlight, Foot
    <3> QED
      BY <3>1, <2>2, <1>5, <1>6 DEF CallsApart
  <2>3. CASE d # c /\ e = c
    <3>1. d \in InFlight /\ d \in NftCall /\ Foot(d) = Footprint(nftBlk[d])
      BY <2>3, <1>7 DEF InFlight, Foot
    <3> QED
      BY <3>1, <2>3, <1>5, <1>6 DEF CallsApart
  <2>4. CASE d = c /\ e = c
    BY <2>4 DEF CallsApart
  <2> QED
    BY <2>1, <2>2, <2>3, <2>4
<1>10. ASSUME NEW n, Sound(n) PROVE Sound(n)'
  BY <1>10, <1>2, <1>5 DEF Sound, Pointed, Listed, nftStore
<1>11. ASSUME NEW d \in InFlight PROVE CallInv(d)'
  <2>1. CallInv(d) /\ d \in NftCall /\ d # c
    BY <1>7 DEF NftInv, InFlight
  <2>2. /\ nftPc'[d] = nftPc[d] /\ Act(d)' = Act(d) /\ Foot(d)' = Foot(d)
        /\ Near(d) \subseteq Near(d)'
    BY <2>1, <1>3, <1>5, <1>6 DEF Near
  <2>3. OwnersKnown(d)'
    BY <2>1, <2>2, <1>2 DEF OwnersKnown, CallInv, nftStore
  <2>4. ListsCurrent(d)'
    BY <2>1, <1>2, <1>5 DEF ListsCurrent, CallInv, nftStore, At, Token, NewOwner
  <2>5. ASSUME NEW n \in Act(d).ids, n \notin nftRaced' PROVE TokenStage(d, n)'
    <3>1. TokenStage(d, n)
      BY <2>1, <2>5, <1>5 DEF CallInv
    <3>2. (Deletes(d)' <=> Deletes(d)) /\ (Mints(d)' <=> Mints(d))
      BY <2>2 DEF Deletes, Mints
    <3>3. ASSUME NEW p, Listed(n, p) PROVE n \in nftTorn' \/ \A h \in Holder \ nftRaced' : n \in nftIndex'[h] <=> h = p
      BY <3>3, <1>2, <1>5 DEF Listed, nftStore
    <3>4. Waiting(d, n) => Waiting(d, n)'
      BY <2>2, <3>2, <1>2, <1>10 DEF Waiting, nftStore, Left
    <3>5. Deleting(d, n) => Deleting(d, n)'
      BY <2>2, <3>2, <3>3, <1>2, <1>10 DEF Deleting, nftStore, At, Listed
    <3>6. Setting(d, n) => Setting(d, n)'
      <4>1. SUFFICES ASSUME Setting(d, n) PROVE Setting(d, n)'
        OBVIOUS
      <4>2. /\ nftTodo' = nftTodo /\ nftRead' = nftRead /\ nftOwner' = nftOwner
            /\ nftPointer' = nftPointer /\ NewOwner(d)' = NewOwner(d)
            /\ \A x : At(d, x)' <=> At(d, x)
        BY <1>2 DEF nftStore, NewOwner, At
      <4>3. nftTodo[d].at \in {"createOnly", "getOwner"} =>
              Sound(n)' /\ (nftOwner[n] = NoOne <=> Mints(d))
        BY <4>1, <1>10 DEF Setting
      <4>4. /\ nftTodo[d].at \in {"putOwner", "unlist", "putOldList"} => Listed(n, nftRead[d])'
            /\ At(d, "putNewList") => Listed(n, NoOne)'
            /\ At(d, "putPointer") => Listed(n, NewOwner(d))'
        BY <4>1, <4>2, <3>3 DEF Setting, Listed
      <4>5. At(d, "enlist") =>
              Listed(n, IF nftRead[d] = NewOwner(d) THEN nftRead[d] ELSE NoOne)'
        BY <4>1, <4>2, <3>3 DEF Setting, Listed
      <4>6. nftTodo[d].at \in {"putOwner", "unlist", "putOldList", "enlist", "putNewList"} =>
              /\ nftRead[d] = NoOne <=> Mints(d)
              /\ n \in nftTorn' \/ (nftRead[d] # NoOne <=> nftPointer[n] # NoOne)
        BY <4>1, <1>2 DEF Setting
      <4> QED
        BY <4>1, <4>2, <4>3, <4>4, <4>5, <4>6, <3>2 DEF Setting
    <3> QED
      BY <3>1, <3>2, <3>4, <3>5, <3>6, <2>2, <1>2 DEF TokenStage, At, Token
  <2> QED
    BY <2>2, <2>3, <2>4, <2>5 DEF CallInv
<1>12. NftActionOf[b].ids \subseteq Nft /\ NftActionOf[b].ids \subseteq Footprint(b)
  BY BlockFacts
<1>13. CallInv(c)'
  <2>1. OwnersKnown(c)' /\ ListsCurrent(c)'
    BY <1>1, <1>2, <1>3, <1>6 DEF OwnersKnown, ListsCurrent, Near, At, nftStore
  <2>2. ASSUME NEW n \in NftActionOf[b].ids, n \notin nftRaced' PROVE TokenStage(c, n)'
    <3>1. \A d \in InFlight : n \notin Act(d).ids
      <4> SUFFICES ASSUME NEW d \in InFlight, n \in Act(d).ids PROVE FALSE
        OBVIOUS
      <4>1. nftBlk[d] \in NftBlock
        BY DEF NftInv, InFlight, CallShape
      <4>2. n \in Footprint(nftBlk[d])
        BY <4>1, BlockFacts DEF Act
      <4> QED
        BY <4>2, <2>2, <1>5, <1>12
    <3>2. Sound(n)
      BY <3>1, <2>2, <1>5, <1>12 DEF NftInv, TokenInv
    <3>3. Sound(n)'
      BY <3>2, <1>10
    <3>4. Waiting(c, n)'
      BY <3>3, <2>2, <1>2, <1>3 DEF Waiting, nftStore
    <3>5. At(c, "done")' /\ nftPc'[c] \notin {"apply", "post"}
      BY <1>1, <1>2, <1>3 DEF At
    <3> QED
      BY <3>4, <3>5 DEF TokenStage
  <2> QED
    BY <2>1, <2>2, <1>6 DEF CallInv
<1>14. ASSUME NEW n \in Nft, n \notin nftRaced' PROVE TokenInv(n)'
  <2>1. TokenInv(n)
    BY <1>5, <1>14 DEF NftInv
  <2>2. (\A d \in InFlight' : n \notin Act(d)'.ids) => \A d \in InFlight : n \notin Act(d).ids
    BY <1>6, <1>7 DEF InFlight
  <2> QED
    BY <2>1, <2>2, <1>2, <1>10 DEF TokenInv, nftStore
<1> QED
  BY <1>4, <1>7, <1>8, <1>9, <1>11, <1>13, <1>14 DEF NftInv

LEMMA BeginsKept ==
    ASSUME NftInv, NEW c \in NftCall, NEW b \in NftBlock,
           \/ SubmitNftBlock(c, b) \/ TransferNft(c, b) \/ MintNft(c, b)
           \/ BurnNft(c, b) \/ BurnNftSimple(c, b) \/ BurnNftBatchSimple(c, b)
    PROVE  NftInv'
<1>1. CASE SubmitNftBlock(c, b)
  <2>1. NftActionOf[b].kind # "Sealed" /\ Begin(c, b, "submit", "arm")
    BY <1>1 DEF SubmitNftBlock
  <2> QED
    BY <2>1, BeginKept DEF NftVias
<1>2. CASE TransferNft(c, b)
  <2>1. NftActionOf[b].kind = "Transfer" /\ Begin(c, b, "submit", "arm")
    BY <1>2 DEF TransferNft
  <2> QED
    BY <2>1, BeginKept DEF NftVias
<1>3. CASE MintNft(c, b)
  <2>1. /\ NftActionOf[b].kind = "Sealed" /\ Begin(c, b, "mint_nft", "insert")
        /\ \A n \in NftActionOf[b].ids : nftOwner[n] = NoOne
    BY <1>3 DEF MintNft
  <2> QED
    BY <2>1, BeginKept DEF NftVias
<1>4. CASE BurnNft(c, b)
  <2>1. /\ NftActionOf[b].kind \in {"Burn", "BatchBurn"} /\ Begin(c, b, "burn_nft", "arm")
    BY <1>4 DEF BurnNft
  <2> QED
    BY <2>1, BeginKept DEF NftVias
<1>5. CASE BurnNftSimple(c, b) \/ BurnNftBatchSimple(c, b)
  <2>1. /\ NftActionOf[b].kind \in {"Burn", "BatchBurn"}
        /\ Begin(c, b, "burn_nft_simple", "arm")
    BY <1>5 DEF BurnNftSimple, BurnNftBatchSimple
  <2> QED
    BY <2>1, BeginKept DEF NftVias
<1> QED
  BY <1>1, <1>2, <1>3, <1>4, <1>5

-----------------------------------------------------------------------------
(* Work is cut: an access fails, the channel is closed, the process exits. *)

\* What a call is cut at: a token the invariant is not broken for, or the one
\* whose writes have started.
LEMMA CutSound ==
    ASSUME NftInv, NEW c \in InFlight, NEW n \in Act(c).ids, n \notin nftRaced
    PROVE  /\ Sound(n) \/ n \in Torn(c)
           /\ (Deletes(c) /\ nftPc[c] = "post") => nftOwner[n] = NoOne
           /\ (Deletes(c) /\ nftPc[c] = "post") => nftBurnt[n] < nftMinted[n]
           /\ n \in Nft /\ nftBurnt[n] <= nftMinted[n]
           /\ nftOwner[n] # NoOne => nftBurnt[n] < nftMinted[n]
<1>1. n \in Nft /\ c \in NftCall /\ CallInv(c) /\ WorkShape(c) /\ nftTodo[c].at \in NftSteps
  BY BlockFacts DEF NftInv, InFlight, CallShape, Act, NftTyped
<1>2. TokenStage(c, n) /\ TokenInv(n)
  BY <1>1 DEF NftInv, CallInv
<1>3. CASE At(c, "done") \/ n # Token(c)
  <2>1. Waiting(c, n)
    BY <1>2, <1>3 DEF TokenStage
  <2> QED
    BY <2>1, <1>1, <1>2 DEF Waiting, TokenStage, TokenInv
<1>4. CASE ~At(c, "done") /\ n = Token(c) /\ Deletes(c)
  <2>1. Deleting(c, n) /\ NewOwner(c) = NoOne
    BY <1>1, <1>2, <1>4 DEF TokenStage, WorkShape
  <2>2. Sound(n) \/ Started(c)
    <3>1. SUFFICES ASSUME ~At(c, "delPointer"), nftOwner[n] = NoOne PROVE Sound(n)
      BY <2>1, <1>4 DEF Deleting, Started
    <3>2. nftPointer[n] = NoOne /\ Listed(n, NoOne)
      BY <3>1, <2>1, <1>1, <1>4 DEF Deleting, WorkShape, At, NftSteps
    <3> QED
      BY <3>1, <3>2 DEF Sound, Pointed
  <2> QED
    BY <2>1, <2>2, <1>1, <1>2, <1>4 DEF Torn, Deleting, TokenStage, TokenInv
<1>5. CASE ~At(c, "done") /\ n = Token(c) /\ ~Deletes(c)
  <2>1. Setting(c, n) /\ NewOwner(c) # NoOne
    BY <1>1, <1>2, <1>5 DEF TokenStage, WorkShape
  <2>2. Sound(n) \/ Started(c)
    BY <2>1 DEF Setting, Started, Sound, Pointed, At
  <2> QED
    BY <2>2, <1>1, <1>2, <1>5 DEF Torn, TokenInv
<1> QED
  BY <1>3, <1>4, <1>5

LEMMA TornOwn ==
    ASSUME NftInv, NEW c \in NftCall
    PROVE  Torn(c) # {} => c \in InFlight /\ Torn(c) \subseteq Act(c).ids
BY AtWork DEF Torn

LEMMA FailKept ==
    ASSUME NftInv, NEW c \in NftCall, NftFails(c)
    PROVE  NftInv'
<1>1. /\ NftTyped /\ CallShape(c) /\ WorkShape(c) /\ c \in InFlight
      /\ nftBlk[c] \in NftBlock
  BY DEF NftFails, NftInv, CallShape, InFlight
<1>2. /\ UNCHANGED <<nftStore, nftMinted, nftBurnt, nftRaced>>
      /\ nftTorn' = nftTorn \cup Torn(c)
  BY DEF NftFails, nftPay
<1>3. nftTorn \subseteq nftTorn' /\ nftTorn' \subseteq nftTorn \cup Act(c).ids
  BY <1>2, TornOwn
<1>4. \A n \in Act(c).ids \ nftRaced :
        /\ SoundOrTorn(n) /\ nftBurnt[n] <= nftMinted[n]
        /\ nftOwner[n] # NoOne => nftBurnt[n] < nftMinted[n]
  BY <1>1, <1>2, CutSound DEF SoundOrTorn
<1>5. CASE nftPc[c] # "post"
  <2>1. Finish(c)
    BY <1>5 DEF NftFails
  <2> QED
    BY <2>1, <1>1, <1>2, <1>3, <1>4, FinishKept DEF NftTyped
<1>6. CASE nftPc[c] = "post"
  <2>1. /\ nftTodo' = [nftTodo EXCEPT ![c] = NoWork]
        /\ UNCHANGED <<nftPc, nftBlk, nftVia, nftRead, nftList>>
    BY <1>6 DEF NftFails
  <2>2. nftPc' = [nftPc EXCEPT ![c] = "post"]
    BY <2>1, <1>1, <1>6 DEF NftTyped
  <2>3. \A n \in Act(c).ids : nftOwner[n] \in Near(c)
    BY <1>1, <1>6 DEF NftInv, CallInv, OwnersKnown
  <2>4. NoWork \in [at : NftSteps, nft : Nft \cup {NoOne}, to : Holder \cup {NoOne}, left : Seq(Nft)]
    <3>1. <<>> \in Seq(Nft)
      OBVIOUS
    <3> QED
      BY <3>1 DEF NoWork, NftSteps
  <2>5. \A n \in Act(c).ids \ nftRaced :
          Deletes(c) => nftOwner[n] = NoOne /\ nftBurnt[n] < nftMinted[n]
    BY <1>1, <1>6, CutSound
  <2>6. nftVia[c] # "submit"
    BY <1>1, <1>6 DEF CallShape
  <2>7. NoWork.at = "done" /\ NoWork.to = NoOne /\ NoWork.left = <<>> /\ WorkIds(NoWork) = {}
    BY DEF NoWork, WorkIds
  <2>8. WorkFits(c, "post", NoWork)
    BY <2>3, <2>4, <2>5, <2>6, <2>7, <1>4 DEF WorkFits
  <2> QED
    BY <2>1, <2>2, <2>8, <1>1, <1>2, <1>3, WorkStarts
<1> QED
  BY <1>5, <1>6

LEMMA UnsentKept ==
    ASSUME NftInv, NEW c \in NftCall, NftUnsent(c)
    PROVE  NftInv'
<1>1. /\ c \in InFlight /\ At(c, "done") /\ NftTyped
  BY DEF NftUnsent, ArmDone, InFlight, NftInv, CallShape, At
<1>2. UNCHANGED <<nftStore, nftMinted, nftBurnt, nftRaced, nftTorn>> /\ Finish(c)
  BY DEF NftUnsent, nftPay
<1> QED
  BY <1>1, <1>2, RestingTokens, FinishKept DEF NftTyped

LEMMA ExitKept ==
    ASSUME NftInv, NftExit
    PROVE  NftInv'
<1>1. /\ \A c \in NftCall :
           /\ nftPc'[c] = "idle" /\ nftBlk'[c] = NoOne /\ nftTodo'[c] = NoWork
           /\ nftRead'[c] = NoOne /\ nftList'[c] = {}
      /\ UNCHANGED <<nftStore, nftVia, nftMinted, nftBurnt, nftRaced>>
      /\ nftTorn' = nftTorn \cup UNION {Torn(c) : c \in NftCall}
  BY DEF NftExit, nftPay
<1>2. InFlight' = {}
  BY <1>1 DEF InFlight
<1>3. NftTyped'
  <2>1. NoWork \in [at : NftSteps, nft : Nft \cup {NoOne}, to : Holder \cup {NoOne}, left : Seq(Nft)]
    <3>1. <<>> \in Seq(Nft)
      OBVIOUS
    <3> QED
      BY <3>1 DEF NoWork, NftSteps
  <2>2. /\ nftPc' \in [NftCall -> {"idle", "arm", "insert", "apply", "post"}]
        /\ nftBlk' \in [NftCall -> NftBlock \cup {NoOne}]
        /\ nftRead' \in [NftCall -> Holder \cup {NoOne}]
        /\ nftList' \in [NftCall -> SUBSET Nft]
    BY DEF NftExit
  <2>3. nftTodo' \in [NftCall -> [at : NftSteps, nft : Nft \cup {NoOne},
                                 to : Holder \cup {NoOne}, left : Seq(Nft)]]
    BY <2>1 DEF NftExit
  <2> QED
    BY <2>2, <2>3, <1>1 DEF NftInv, NftTyped, nftStore
<1>4. ASSUME NEW c \in NftCall PROVE CallShape(c)' /\ WorkShape(c)'
  BY <1>1 DEF CallShape, WorkShape, At, NoWork
<1>5. ASSUME NEW n \in Nft, n \notin nftRaced PROVE TokenInv(n)'
  <2>1. TokenInv(n)
    BY <1>5 DEF NftInv
  <2>2. n \in nftTorn' \/ Sound(n)
    <3>1. CASE \E c \in InFlight : n \in Act(c).ids
      <4>1. PICK c \in InFlight : n \in Act(c).ids
        BY <3>1
      <4>2. Sound(n) \/ n \in Torn(c)
        BY <4>1, <1>5, CutSound
      <4>3. c \in NftCall
        BY DEF InFlight
      <4> QED
        BY <4>2, <4>3, <1>1
    <3>2. CASE \A c \in InFlight : n \notin Act(c).ids
      BY <3>2, <2>1 DEF TokenInv
    <3> QED
      BY <3>1, <3>2
  <2>3. Sound(n)'
    BY <2>2, <1>1 DEF Sound, Pointed, Listed, nftStore
  <2> QED
    BY <2>1, <2>3, <1>1 DEF TokenInv, nftStore
<1> QED
  BY <1>1, <1>2, <1>3, <1>4, <1>5 DEF NftInv

\* Pruning, and a step that changes nothing, touch nothing the invariant names.
LEMMA NftUntouched ==
    ASSUME NftInv,
           UNCHANGED <<nftStore, nftLocal, nftMinted, nftBurnt, nftRaced, nftTorn>>
    PROVE  NftInv'
<1>1. /\ nftOwner' = nftOwner /\ nftIndex' = nftIndex /\ nftPointer' = nftPointer
      /\ nftPc' = nftPc /\ nftBlk' = nftBlk /\ nftVia' = nftVia /\ nftTodo' = nftTodo
      /\ nftRead' = nftRead /\ nftList' = nftList /\ nftMinted' = nftMinted
      /\ nftBurnt' = nftBurnt /\ nftRaced' = nftRaced /\ nftTorn' = nftTorn
  BY DEF nftStore, nftLocal
<1>2. InFlight' = InFlight
  BY <1>1 DEF InFlight
<1>3. ASSUME NEW c \in NftCall
      PROVE  /\ Act(c)' = Act(c) /\ Foot(c)' = Foot(c) /\ Near(c)' = Near(c)
             /\ Token(c)' = Token(c) /\ NewOwner(c)' = NewOwner(c) /\ Left(c)' = Left(c)
             /\ (Deletes(c)' <=> Deletes(c)) /\ (Mints(c)' <=> Mints(c))
             /\ \A x : At(c, x)' <=> At(c, x)
  BY <1>1 DEF Act, Foot, Near, Token, NewOwner, Deletes, Mints, At, Left
<1>4. ASSUME NEW n PROVE Sound(n)' <=> Sound(n)
  BY <1>1 DEF Sound, Pointed, Listed
<1>5. NftTyped'
  BY <1>1 DEF NftInv, NftTyped
<1>6. ASSUME NEW c \in NftCall PROVE CallShape(c)' /\ WorkShape(c)'
  BY <1>1, <1>3 DEF NftInv, CallShape, WorkShape
<1>7. ASSUME NEW c \in InFlight, NEW d \in InFlight PROVE CallsApart(c, d)'
  BY <1>1, <1>3 DEF NftInv, InFlight, CallsApart
<1>8. ASSUME NEW c \in InFlight PROVE CallInv(c)'
  <2>1. CallInv(c) /\ c \in NftCall
    BY DEF NftInv, InFlight
  <2>2. OwnersKnown(c)' /\ ListsCurrent(c)'
    BY <2>1, <1>1, <1>3 DEF CallInv, OwnersKnown, ListsCurrent
  <2>3. ASSUME NEW n \in Act(c).ids, n \notin nftRaced PROVE TokenStage(c, n)'
    <3>1. TokenStage(c, n)
      BY <2>1, <2>3 DEF CallInv
    <3>2. Waiting(c, n)' <=> Waiting(c, n)
      BY <2>1, <1>1, <1>3, <1>4 DEF Waiting
    <3>3. Deleting(c, n)' <=> Deleting(c, n)
      BY <2>1, <1>1, <1>3, <1>4 DEF Deleting, Listed
    <3>4. Setting(c, n)' <=> Setting(c, n)
      BY <2>1, <1>1, <1>3, <1>4 DEF Setting, Listed
    <3> QED
      BY <3>1, <3>2, <3>3, <3>4, <2>1, <1>1, <1>3 DEF TokenStage
  <2> QED
    BY <2>1, <2>2, <2>3, <1>1, <1>3 DEF CallInv
<1>9. ASSUME NEW n \in Nft, n \notin nftRaced PROVE TokenInv(n)'
  <2>1. TokenInv(n) /\ \A c \in InFlight : Act(c)' = Act(c)
    BY <1>3, <1>9 DEF NftInv, InFlight
  <2> QED
    BY <2>1, <1>1, <1>2, <1>4 DEF TokenInv
<1> QED
  BY <1>1, <1>2, <1>5, <1>6, <1>7, <1>8, <1>9 DEF NftInv

-----------------------------------------------------------------------------
LEMMA NftInitial == NftInit => NftInv
<1> SUFFICES ASSUME NftInit PROVE NftInv
  OBVIOUS
<1>1. InFlight = {}
  BY DEF NftInit, InFlight
<1>2. NftTyped
  <2>1. NoWork \in [at : NftSteps, nft : Nft \cup {NoOne},
                    to : Holder \cup {NoOne}, left : Seq(Nft)]
    <3>1. <<>> \in Seq(Nft)
      OBVIOUS
    <3> QED
      BY <3>1 DEF NoWork, NftSteps
  <2> QED
    BY <2>1 DEF NftInit, NftTyped, NftVias
<1>3. ASSUME NEW c \in NftCall PROVE CallShape(c) /\ WorkShape(c)
  BY DEF NftInit, CallShape, WorkShape, At, NoWork
<1>4. ASSUME NEW n \in Nft PROVE TokenInv(n)
  BY NoOneApart DEF NftInit, TokenInv, Sound, Pointed, Listed
<1> QED
  BY <1>1, <1>2, <1>3, <1>4 DEF NftInv

LEMMA NftKept == NftInv /\ [NftNext]_nftVars => NftInv'
<1> SUFFICES ASSUME NftInv, [NftNext]_nftVars PROVE NftInv'
  OBVIOUS
<1>1. CASE UNCHANGED nftVars
  <2>1. UNCHANGED <<nftStore, nftLocal, nftMinted, nftBurnt, nftRaced, nftTorn>>
    BY <1>1 DEF nftVars, nftGhost, nftPay
  <2> QED
    BY <2>1, NftUntouched
<1>2. ASSUME NEW b \in nftDag, NftPrune(b) PROVE NftInv'
  <2>1. UNCHANGED <<nftStore, nftLocal, nftMinted, nftBurnt, nftRaced, nftTorn>>
    BY <1>2 DEF NftPrune, nftPay
  <2> QED
    BY <2>1, NftUntouched
<1>3. ASSUME NEW c \in NftCall, NEW b \in NftBlock,
             \/ SubmitNftBlock(c, b) \/ TransferNft(c, b) \/ MintNft(c, b)
             \/ BurnNft(c, b) \/ BurnNftSimple(c, b) \/ BurnNftBatchSimple(c, b)
      PROVE  NftInv'
  BY <1>3, BeginsKept
<1>4. ASSUME NEW c \in NftCall,
             NftArm(c) \/ NftReject(c) \/ NftInsert(c) \/ NftAnswer(c)
      PROVE  NftInv'
  BY <1>4, ArmKept, RejectKept, InsertKept, AnswerKept
<1>5. ASSUME NEW c \in NftCall,
             \/ CreateOnly(c) \/ GetOwner(c) \/ PutOwner(c) \/ DelOwner(c)
             \/ Unlist(c) \/ PutOldList(c) \/ Enlist(c) \/ PutNewList(c)
             \/ PutPointer(c) \/ DelPointer(c)
      PROVE  NftInv'
  BY <1>5, CreateOnlyKept, GetOwnerKept, PutOwnerKept, DelOwnerKept, UnlistKept,
     PutOldListKept, EnlistKept, PutNewListKept, PutPointerKept, DelPointerKept
<1>6. CASE NftTrouble
  BY <1>6, FailKept, UnsentKept, ExitKept DEF NftTrouble
<1> QED
  BY <1>1, <1>2, <1>3, <1>4, <1>5, <1>6 DEF NftNext, NftWorks

\* A token a call is at work on is nobody's business but the call's: whoever
\* lists it or owns it is in the footprint of the call.
LEMMA TokenListed ==
    ASSUME NftInv, NEW h \in Holder \cap Settled, NEW n \in Nft \ (nftRaced \cup nftTorn)
    PROVE  n \in nftIndex[h] <=> nftOwner[n] = h
<1>1. h \in Holder \ nftRaced /\ h # NoOne /\ \A c \in InFlight : h \notin Foot(c)
  BY NoOneApart DEF Settled, Busy, Foot
<1>2. CASE \A c \in InFlight : n \notin Act(c).ids
  <2>1. Sound(n)
    BY <1>2 DEF NftInv, TokenInv
  <2> QED
    BY <2>1, <1>1 DEF Sound, Listed
<1>3. ASSUME NEW c \in InFlight, n \in Act(c).ids
      PROVE  n \in nftIndex[h] <=> nftOwner[n] = h
  <2>1. /\ CallInv(c) /\ WorkShape(c) /\ CallShape(c) /\ TokenStage(c, n) /\ c \in NftCall
    BY <1>3 DEF NftInv, CallInv, InFlight
  <2>2. h \notin Near(c)
    BY <1>1 DEF Near
  <2>3. CASE At(c, "done") \/ n # Token(c)
    <3>1. Sound(n)
      BY <2>1, <2>3 DEF TokenStage, Waiting
    <3> QED
      BY <3>1, <1>1 DEF Sound, Listed
  <2>4. CASE ~At(c, "done") /\ n = Token(c)
    <3>1. nftPc[c] # "arm" /\ nftRead[c] # h /\ nftOwner[n] # h /\ NewOwner(c) # h
      BY <2>1, <2>2, <2>4, <1>1, <1>3, AtWork DEF CallInv, OwnersKnown, Near
    <3>2. nftTodo[c].at \in NftSteps
      BY <2>1 DEF NftInv, NftTyped
    <3>3. CASE Deletes(c)
      <4>1. Deleting(c, n)
        BY <3>3, <2>1, <2>4 DEF TokenStage
      <4> QED
        BY <4>1, <3>1, <3>2, <3>3, <2>1, <2>4, <1>1
           DEF Deleting, Sound, Listed, At, NftSteps, WorkShape
    <3>4. CASE ~Deletes(c)
      <4>1. Setting(c, n)
        BY <3>4, <2>1, <2>4 DEF TokenStage
      <4> QED
        BY <4>1, <3>1, <3>2, <3>4, <2>1, <2>4, <1>1
           DEF Setting, Sound, Listed, At, NftSteps, WorkShape
    <3> QED
      BY <3>3, <3>4
  <2> QED
    BY <2>3, <2>4
<1> QED
  BY <1>2, <1>3

-----------------------------------------------------------------------------
(* The refunds.                                                            *)

\* A token that no burn named twice was refunded once for each of its events.
PaidInv == \A n \in Nft \ nftTwice : nftPaid[n] = nftBurnt[n]

LEMMA EmitPays ==
    ASSUME PaidInv, NEW c, nftBlk[c] \in NftBlock, EmitBurn(c)
    PROVE  PaidInv'
<1>1. Act(c).ids = {Act(c).list[i] : i \in DOMAIN Act(c).list}
  BY NftAssumption DEF NftAssumption, Act
<1>2. ASSUME NEW n \in Nft, n \notin nftTwice' PROVE nftPaid'[n] = nftBurnt'[n]
  <2>1. nftPaid[n] = nftBurnt[n]
    BY <1>2 DEF PaidInv, EmitBurn
  <2>2. /\ nftPaid'[n] = nftPaid[n] + Cardinality(Named(c, n))
        /\ nftBurnt'[n] = nftBurnt[n] + IF n \in Act(c).ids THEN 1 ELSE 0
    BY DEF EmitBurn
  <2>3. Cardinality(Named(c, n)) = IF n \in Act(c).ids THEN 1 ELSE 0
    <3>1. CASE n \in Act(c).ids
      <4>1. PICK i \in DOMAIN Act(c).list : Act(c).list[i] = n
        BY <3>1, <1>1
      <4>2. i \in Named(c, n)
        BY <4>1 DEF Named
      <4>3. ASSUME NEW j \in Named(c, n) PROVE j = i
        <5>1. j \in DOMAIN Act(c).list
          BY <4>3 DEF Named
        <5> QED
          BY <5>1, <4>2, <4>3, <1>2 DEF EmitBurn
      <4>4. Named(c, n) = {i}
        BY <4>2, <4>3
      <4> QED
        BY <4>4, <3>1, FS_Singleton
    <3>2. CASE n \notin Act(c).ids
      <4>1. Named(c, n) = {}
        BY <3>2, <1>1 DEF Named
      <4> QED
        BY <4>1, <3>2, FS_EmptySet
    <3> QED
      BY <3>1, <3>2
  <2> QED
    BY <2>1, <2>2, <2>3
<1> QED
  BY <1>2 DEF PaidInv

LEMMA PaidStep == NftInv /\ PaidInv /\ [NftNext]_nftVars => PaidInv'
<1> SUFFICES ASSUME NftInv, PaidInv, [NftNext]_nftVars PROVE PaidInv'
  OBVIOUS
<1>1. ASSUME UNCHANGED <<nftBurnt, nftPaid, nftTwice>> PROVE PaidInv'
  BY <1>1 DEF PaidInv
<1>2. CASE UNCHANGED nftVars
  BY <1>1, <1>2 DEF nftVars, nftGhost, nftPay
<1>3. ASSUME NEW c \in NftCall, NftAnswer(c) PROVE PaidInv'
  <2>1. nftBlk[c] \in NftBlock
    BY <1>3 DEF NftAnswer, Answered, NftInv, CallShape
  <2>2. CASE nftVia[c] = "mint_nft"
    BY <1>1, <1>3, <2>2 DEF NftAnswer, nftPay
  <2>3. CASE nftVia[c] # "mint_nft"
    <3>1. EmitBurn(c)
      BY <1>3, <2>3 DEF NftAnswer
    <3> QED
      BY <3>1, <2>1, EmitPays
  <2> QED
    BY <2>2, <2>3
<1>4. ASSUME NEW c \in NftCall, NEW b \in NftBlock,
             \/ SubmitNftBlock(c, b) \/ TransferNft(c, b) \/ MintNft(c, b)
             \/ BurnNft(c, b) \/ BurnNftSimple(c, b) \/ BurnNftBatchSimple(c, b)
      PROVE  PaidInv'
  <2>1. UNCHANGED nftPay
    BY <1>4 DEF SubmitNftBlock, TransferNft, MintNft, BurnNft, BurnNftSimple,
                BurnNftBatchSimple, Begin
  <2> QED
    BY <2>1, <1>1 DEF nftPay
<1>5. ASSUME NEW c \in NftCall,
             \/ NftArm(c) \/ NftReject(c) \/ NftInsert(c) \/ CreateOnly(c) \/ GetOwner(c)
             \/ DelOwner(c) \/ Unlist(c) \/ PutOldList(c) \/ Enlist(c) \/ PutNewList(c)
             \/ PutPointer(c) \/ DelPointer(c)
      PROVE  PaidInv'
  <2>1. UNCHANGED nftGhost
    BY <1>5 DEF NftArm, NftReject, NftInsert, CreateOnly, GetOwner, DelOwner, Unlist,
                PutOldList, Enlist, PutNewList, PutPointer, DelPointer
  <2> QED
    BY <2>1, <1>1 DEF nftGhost, nftPay
<1>6. ASSUME NEW c \in NftCall, PutOwner(c) PROVE PaidInv'
  BY <1>1, <1>6 DEF PutOwner, WriteOwner
<1>7. ASSUME NEW b, NftPrune(b) PROVE PaidInv'
  BY <1>1, <1>7 DEF NftPrune, nftPay
<1>8. CASE NftTrouble
  <2>1. UNCHANGED nftPay
    BY <1>8 DEF NftTrouble, NftFails, NftUnsent, NftExit
  <2> QED
    BY <2>1, <1>1 DEF nftPay
<1> QED
  BY <1>2, <1>3, <1>4, <1>5, <1>6, <1>7, <1>8 DEF NftNext, NftWorks

LEMMA NftInvHolds == NftInv /\ PaidInv => NftsExact
<1> SUFFICES ASSUME NftInv, PaidInv PROVE NftsExact
  OBVIOUS
<1>1. ASSUME NEW h \in Holder \cap Settled
      PROVE  NftsByOwner(h) \ (nftRaced \cup nftTorn)
               = {n \in Nft : GetNft(n).owner = h} \ (nftRaced \cup nftTorn)
  <2>1. nftIndex[h] \subseteq Nft
    BY DEF NftInv, NftTyped
  <2> QED
    BY <2>1, TokenListed DEF NftsByOwner, GetNft
<1>2. ASSUME NEW n \in Nft \cap Settled
      PROVE  /\ GetNft(n).block # NoOne => GetNft(n).owner # NoOne
             /\ GetNft(n).owner # NoOne => GetNft(n).block # NoOne \/ n \in nftTorn
  <2>1. n \notin nftRaced /\ n \in Nft /\ \A c \in InFlight : n \notin Footprint(nftBlk[c])
    BY DEF Settled, Busy
  <2>2. \A c \in InFlight : n \notin Act(c).ids
    BY <2>1, BlockFacts DEF Act, NftInv, InFlight, CallShape
  <2>3. Sound(n) /\ (nftPointer[n] # NoOne => nftOwner[n] # NoOne)
    BY <2>1, <2>2 DEF NftInv, TokenInv
  <2> QED
    BY <2>3 DEF Sound, Pointed, GetNft
<1>3. \A n \in Nft \ nftRaced : nftBurnt[n] <= nftMinted[n]
  BY DEF NftInv, TokenInv
<1>4. \A n \in Nft \ nftRaced : n \notin nftTwice => nftPaid[n] <= nftMinted[n]
  BY <1>3 DEF PaidInv
<1> QED
  BY <1>1, <1>2, <1>3, <1>4 DEF NftsExact, NftIndexExact, NftBurnsPaidOnce

\* get_nft and get_nfts_by_owner agree on every token and address that no two
\* overlapping calls touched and no failure or exit left half written, no
\* pointer outlives its owner even then, and the burns of a token are paid at
\* most once per mint, unless a batch names it twice: whatever the blocks are,
\* whoever replays them, wherever an access fails or the process exits, and
\* however set_owner and delete interleave with the work on other tokens and
\* other addresses.
THEOREM NftsAlwaysExact == NftSpec => []NftsExact
<1>1. NftInit => NftInv /\ PaidInv
  BY NftInitial DEF NftInit, PaidInv
<1>2. (NftInv /\ PaidInv) /\ [NftNext]_nftVars => (NftInv /\ PaidInv)'
  BY NftKept, PaidStep
<1>3. NftInv /\ PaidInv => NftsExact
  BY NftInvHolds
<1> QED
  BY <1>1, <1>2, <1>3, PTL DEF NftSpec
=============================================================================
