---------------------------- MODULE LedgersProofs ----------------------------
(***************************************************************************)
(* Theorems about Governance, for every set of updates and calls, every    *)
(* table of delays that grows with the tier and every bound; about Bridge, *)
(* for every set of ledgers, coins, transfers and operations; and about    *)
(* Maintenance, for every store an older binary left and number of boots.  *)
(***************************************************************************)
EXTENDS Governance, Bridge, Maintenance, FiniteSetFacts, SequenceTheorems, TLAPS

-----------------------------------------------------------------------------
(* Type correctness.                                                       *)

\* The setting that wins is one of the settings of the update.
LEMMA LastOfDomain ==
    ASSUME NEW u \in Update, NEW S \in SUBSET DOMAIN Settings[u], S # {}
    PROVE  LastOf(S) \in S
<1>1. Settings[u] \in Seq(Setting)
  BY UpdateAssumption
<1>2. DOMAIN Settings[u] = 1 .. Len(Settings[u]) /\ Len(Settings[u]) \in Nat
  BY <1>1
<1>3. IsFiniteSet(S)
  <2>1. IsFiniteSet(1 .. Len(Settings[u]))
    BY <1>2, FS_Interval
  <2>2. S \subseteq 1 .. Len(Settings[u])
    BY <1>2
  <2> QED BY <2>1, <2>2, FS_Subset
<1>4. S \in SUBSET Int
  BY <1>2
<1>5. HasMax(S)
  BY <1>3, <1>4, FiniteMax
<1> QED BY <1>5 DEF HasMax, LastOf

\* apply_update maps a config to a config.
LEMMA ApplyUpdateType ==
    ASSUME NEW u \in Update, NEW c \in Config
    PROVE  ApplyUpdate(u, c) \in Config
<1>1. Settings[u] \in Seq(Setting)
  BY UpdateAssumption
<1>2. ASSUME NEW i \in DOMAIN Settings[u] PROVE Settings[u][i].value \in Value
  <2>1. Settings[u][i] \in Setting
    BY <1>1
  <2> QED BY <2>1 DEF Setting
<1>3. ASSUME NEW p \in Param,
             {i \in DOMAIN Settings[u] : Settings[u][i].param = p} # {}
      PROVE  Settings[u][LastOf({i \in DOMAIN Settings[u] :
                                   Settings[u][i].param = p})].value \in Value
  <2> DEFINE sets == {i \in DOMAIN Settings[u] : Settings[u][i].param = p}
  <2>1. sets \in SUBSET DOMAIN Settings[u]
    OBVIOUS
  <2>2. LastOf(sets) \in sets
    <3> HIDE DEF sets
    <3> QED BY <1>3, <2>1, LastOfDomain DEF sets
  <2> QED BY <1>2, <2>1, <2>2
<1>4. \A p \in Param : c[p] \in Value
  BY DEF Config
<1> QED BY <1>3, <1>4 DEF ApplyUpdate, Config

\* The config a call reads is a config.
LEMMA CurrentCfgType == TypeOK => CurrentCfg \in Config
BY DEF TypeOK, CurrentCfg

\* A required timelock is a natural number.
LEMMA TimelockType ==
    ASSUME NEW u, NEW c, NEW tier \in Tier, NEW at \in Nat
    PROVE  EnactAfter(at, RequiredTimelock(u, c, tier)) \in Nat
BY TierAssumption DEF EnactAfter, RequiredTimelock

\* A step of a call leaves the state well typed.
LEMMA CallStepType ==
    ASSUME TypeOK, NEW t \in Task, CallStep(t)
    PROVE  TypeOK'
<1>0. /\ NoUpdate \in Update
      /\ NoId \in Id \cup {NoId}
      /\ InitialCfg \in Config
      /\ CurrentCfg \in Config
  BY UpdateAssumption, ConfigAssumption, CurrentCfgType DEF NoUpdate
<1> USE DEF TypeOK, props, cfgs, call, bounds, Steps, Statuses, Goto, Return
<1>1. CASE ProposeLookup(t) BY <1>0, <1>1 DEF ProposeLookup
<1>2. CASE ProposeDerive(t) BY <1>0, <1>2 DEF ProposeDerive
<1>3. CASE ProposePut(t) BY <1>0, <1>3 DEF ProposePut
<1>4. CASE ReadConfig(t)
  <2>1. ApplyUpdate(upd[t], CurrentCfg) \in Config
    BY <1>0, ApplyUpdateType
  <2> QED BY <1>0, <1>4, <2>1 DEF ReadConfig, Refused
<1>5. CASE WriteDb(t)
  <2>1. [id : {id[t]} \ {NoId}, at : {now}] \subseteq [id : Id, at : Time]
    OBVIOUS
  <2> QED BY <1>0, <1>5, <2>1 DEF WriteDb
<1>6. CASE WriteCache(t) BY <1>0, <1>6 DEF WriteCache
<1>7. CASE AppendHistory(t) BY <1>0, <1>7 DEF AppendHistory
<1>8. CASE MarkEnacted(t) BY <1>0, <1>8 DEF MarkEnacted
<1>9. CASE MarkCancelled(t) BY <1>0, <1>9 DEF MarkCancelled
<1> QED BY <1>1, <1>2, <1>3, <1>4, <1>5, <1>6, <1>7, <1>8, <1>9 DEF CallStep

\* Every step leaves the state well typed.
LEMMA NextType == TypeOK /\ [Next]_vars => TypeOK'
<1> SUFFICES ASSUME TypeOK, [Next]_vars PROVE TypeOK'
  OBVIOUS
<1>0. NoUpdate \in Update /\ InitialCfg \in Config /\ CurrentCfg \in Config
  BY UpdateAssumption, ConfigAssumption, CurrentCfgType DEF NoUpdate
<1>00. Time \subseteq Nat /\ Direct \subseteq Update
  BY GovernanceBounds, UpdateAssumption DEF Time
<1>1. ASSUME NEW t \in Task, NEW u \in Update, NEW tier \in Tier, Propose(t, u, tier)
      PROVE  TypeOK'
  <2>1. [update |-> u, tier |-> tier, at |-> now] \in Id
    BY DEF TypeOK, Id
  <2>2. EnactAfter(now, RequiredTimelock(u, CurrentCfg, tier)) \in Nat
    BY <1>00, TimelockType DEF TypeOK
  <2> QED BY <1>0, <1>1, <2>1, <2>2
          DEF Propose, Begin, Goto, TypeOK, props, Steps
<1>2. ASSUME NEW t \in Task, NEW u \in Direct, ConfigUpdate(t, u) PROVE TypeOK'
  BY <1>00, <1>2 DEF ConfigUpdate, Begin, Goto, TypeOK, props, cfgs, Steps
<1>3. ASSUME NEW t \in Task, NEW p \in Id, Enact(t, p) PROVE TypeOK'
  <2>1. p.update \in Update
    BY DEF Id
  <2> QED BY <1>3, <2>1 DEF Enact, Begin, Goto, TypeOK, props, cfgs, Steps
<1>4. ASSUME NEW t \in Task, NEW p \in Id, Cancel(t, p) PROVE TypeOK'
  BY <1>4 DEF Cancel, Begin, Goto, TypeOK, props, cfgs, Steps
<1>5. ASSUME NEW t \in Task, CallStep(t) PROVE TypeOK'
  BY <1>5, CallStepType
<1>6. CASE ReaderMiss \/ ReaderFill \/ Expire
  BY <1>6 DEF ReaderMiss, ReaderFill, Expire, TypeOK, props, call, bounds
<1>7. CASE Tick
  BY <1>7, GovernanceBounds DEF Tick, TypeOK, Time, props, call, bounds
<1>8. CASE Crash
  BY <1>0, <1>8 DEF Crash, TypeOK, props, Steps
<1>9. CASE UNCHANGED vars
  BY <1>9 DEF vars, TypeOK, props, cfgs, call, bounds
<1> QED BY <1>1, <1>2, <1>3, <1>4, <1>5, <1>6, <1>7, <1>8, <1>9 DEF Next

\* The initial state is well typed.
LEMMA InitTypeOK == Init => TypeOK
<1>1. NoUpdate \in Update
  BY UpdateAssumption DEF NoUpdate
<1> QED BY <1>1, ConfigAssumption, GovernanceBounds
        DEF Init, TypeOK, Time, Steps, Statuses

\* The records, the configs and the calls keep their types.
THEOREM GovernanceTypes == Spec => []TypeOK
BY InitTypeOK, NextType, PTL DEF Spec

-----------------------------------------------------------------------------
(* The timelock.                                                           *)

\* min_tier returns a tier.
LEMMA MinTierType == \A p : MinTier(p) \in Tier
BY DEF MinTier, Tier, Operator, Policy, Constitution

\* A delay that is over stays over.
LEMMA WaitedLonger ==
    ASSUME NEW p \in Id, NEW d \in Int, NEW e \in Int, d <= e, Waited(p, d)
    PROVE  Waited(p, e)
<1>1. p.at \in Nat
  BY GovernanceBounds DEF Id, Time
<1>2. \A q : Duration[MinTier(q)] \in Nat
  BY MinTierType, TierAssumption
<1> QED BY <1>1, <1>2 DEF Waited

\* An update with a setting that never tightens is a loosening.
LEMMA LooseningFound ==
    ASSUME NEW u, NEW c, NEW i \in DOMAIN Settings[u], NeverTightens(Settings[u][i])
    PROVE  ~Tighten(u, c)
<1>1. ~Tightens(Settings[u][i], c)
  BY DEF NeverTightens, Tightens
<1> QED BY <1>1 DEF Tighten

\* The enact_after that do_propose and persist derive keeps every loosening
\* waiting for the delay of its own tier.
LEMMA DerivedDelay ==
    ASSUME NEW p \in Id, TierAllowed(p.update, p.tier), NEW c
    PROVE  Waited(p, EnactAfter(p.at, RequiredTimelock(p.update, c, p.tier)))
<1>1. p.at \in Nat /\ p.tier \in Tier
  BY GovernanceBounds DEF Id, Time
<1>2. ASSUME NEW i \in DOMAIN Settings[p.update], NeverTightens(Settings[p.update][i])
      PROVE  EnactAfter(p.at, RequiredTimelock(p.update, c, p.tier))
               >= p.at + Duration[MinTier(Settings[p.update][i].param)]
  <2>1. RequiredTimelock(p.update, c, p.tier) = Duration[p.tier]
    BY <1>2, LooseningFound DEF RequiredTimelock
  <2> DEFINE m == MinTier(Settings[p.update][i].param)
  <2>2. m \in Tier /\ m <= p.tier
    BY <1>1, MinTierType DEF TierAllowed, Tier, Operator, Constitution
  <2>3. Duration[m] <= Duration[p.tier] /\ Duration[m] \in Nat /\ Duration[p.tier] \in Nat
    <3> HIDE DEF m
    <3> QED BY <1>1, <2>2, TierAssumption
  <2> QED BY <1>1, <2>1, <2>3 DEF EnactAfter
<1> QED BY <1>2 DEF Waited

\* What DelayInv says of one call.
CallWaited(t) ==
    /\ pc[t] \in Proposing => id[t] # NoId /\ Waited(id[t], due[t])
    /\ pc[t] \in Enacting /\ id[t] # NoId => Waited(id[t], now)
    /\ pc[t] \in Enacting \cup {"cancel"} /\ id[t] # NoId => IsKnown(id[t])

\* DelayInv survives a step that touches one call, keeps the clock, and lets
\* into the records and the log only proposals that waited.
LEMMA DelayFrame ==
    ASSUME TypeOK, DelayInv, NEW t \in Task,
           now' = now,
           \A p \in Id : IsKnown(p) => IsKnown(p)',
           \A u \in Task \ {t} : pc'[u] = pc[u] /\ id'[u] = id[u] /\ due'[u] = due[u],
           CallWaited(t)',
           \A p \in Id : status'[p] # "Unknown" => Waited(p, after'[p]),
           \A e \in applied' : Waited(e.id, e.at)
    PROVE  DelayInv'
<1>1. \A u \in Task : CallWaited(u)'
  <2> TAKE u \in Task
  <2>1. CASE u = t BY <2>1
  <2>2. CASE u # t
    <3>1. CallWaited(u) BY DEF DelayInv, CallWaited
    <3>2. id[u] # NoId => id[u] \in Id BY DEF TypeOK
    <3> QED BY <2>2, <3>1, <3>2 DEF CallWaited, Waited
  <2> QED BY <2>1, <2>2
<1> QED BY <1>1 DEF DelayInv, CallWaited, IsKnown, Waited

\* Every step of a call keeps the delays.
LEMMA DelayCallStep ==
    ASSUME TypeOK, TypeOK', DelayInv, NEW t \in Task, CallStep(t)
    PROVE  DelayInv'
<1>1. /\ now' = now
      /\ \A u \in Task \ {t} : pc'[u] = pc[u] /\ id'[u] = id[u] /\ due'[u] = due[u]
  BY DEF TypeOK, CallStep, ProposeLookup, ProposeDerive, ProposePut, ReadConfig, Refused,
         WriteDb, WriteCache, AppendHistory, MarkEnacted, MarkCancelled, Goto, Return
<1>2. CallWaited(t)
  BY DEF DelayInv, CallWaited
<1>3. \A p \in Id : IsKnown(p) => IsKnown(p)'
  BY DEF TypeOK, IsKnown, CallStep, ProposeLookup, ProposeDerive, ProposePut, ReadConfig,
         WriteDb, WriteCache, AppendHistory, MarkEnacted, MarkCancelled, props
<1>4. CallWaited(t)'
  BY <1>2, <1>3 DEF TypeOK, CallWaited, Proposing, Enacting, Waited, CallStep, ProposeLookup,
              ProposeDerive, ProposePut, ReadConfig, Refused, WriteDb, WriteCache,
              AppendHistory, MarkEnacted, MarkCancelled, Goto, Return
<1>5. \A p \in Id : status'[p] # "Unknown" => Waited(p, after'[p])
  <2>1. CASE ProposePut(t)
    <3>1. id[t] \in Id /\ Waited(id[t], due[t])
      BY <1>2, <2>1 DEF TypeOK, CallWaited, ProposePut, Proposing
    <3> QED BY <2>1, <3>1 DEF TypeOK, DelayInv, IsKnown, ProposePut, props
  <2>2. CASE MarkEnacted(t) \/ MarkCancelled(t)
    <3>1. id[t] \in Id \cup {NoId} /\ after' = after
      BY <2>2 DEF TypeOK, MarkEnacted, MarkCancelled
    <3>2. \A p \in Id : status'[p] # "Unknown" => status[p] # "Unknown" \/ p = id[t]
      BY <2>2 DEF TypeOK, MarkEnacted, MarkCancelled
    <3>3. status[id[t]] # "Unknown" \/ id[t] \notin Id
      BY <1>2, <2>2, <3>1, GovernanceBounds
         DEF CallWaited, IsKnown, MarkEnacted, MarkCancelled, Enacting
    <3> QED BY <3>1, <3>2, <3>3 DEF DelayInv, IsKnown
  <2>3. CASE UNCHANGED props
    BY <2>3 DEF DelayInv, IsKnown, props
  <2> QED BY <2>1, <2>2, <2>3
          DEF CallStep, ProposeLookup, ProposeDerive, ReadConfig, WriteDb, WriteCache,
              AppendHistory
<1>6. \A e \in applied' : Waited(e.id, e.at)
  <2>1. CASE WriteDb(t)
    <3>1. \A e \in applied' : e \in applied \/ (id[t] # NoId /\ e.id = id[t] /\ e.at = now)
      BY <2>1 DEF WriteDb
    <3>2. id[t] # NoId => Waited(id[t], now)
      BY <1>2, <2>1 DEF CallWaited, WriteDb, Enacting
    <3> QED BY <3>1, <3>2 DEF DelayInv
  <2>2. CASE applied' = applied
    BY <2>2 DEF DelayInv
  <2> QED BY <2>1, <2>2
          DEF CallStep, ProposeLookup, ProposeDerive, ProposePut, ReadConfig, WriteCache,
              AppendHistory, MarkEnacted, MarkCancelled
<1> QED BY <1>1, <1>4, <1>5, <1>6, <1>3, DelayFrame

\* The initial state keeps the delays.
LEMMA DelayInit == Init => DelayInv
BY DEF Init, DelayInv, Proposing, Enacting, IsKnown

\* Every step keeps the delays.
LEMMA DelayNext == TypeOK /\ TypeOK' /\ DelayInv /\ [Next]_vars => DelayInv'
<1> SUFFICES ASSUME TypeOK, TypeOK', DelayInv, [Next]_vars PROVE DelayInv'
  OBVIOUS
<1>0. /\ \A p \in Id : IsKnown(p) => Waited(p, after[p])
      /\ \A e \in applied : Waited(e.id, e.at)
      /\ now \in Int
      /\ \A p \in Id : after[p] \in Int
  BY GovernanceBounds DEF DelayInv, TypeOK, Time
<1>1. ASSUME NEW t \in Task, NEW u \in Update, NEW tier \in Tier, Propose(t, u, tier)
      PROVE  DelayInv'
  <2> DEFINE p == [update |-> u, tier |-> tier, at |-> now]
  <2>1. p \in Id /\ p # NoId /\ TierAllowed(p.update, p.tier)
    BY <1>1, GovernanceBounds DEF Propose, TypeOK, Id
  <2>2. Waited(p, EnactAfter(p.at, RequiredTimelock(p.update, CurrentCfg, p.tier)))
    <3> HIDE DEF p
    <3> QED BY <2>1, DerivedDelay
  <2>3. pc'[t] = "lookup" /\ id'[t] = p
    BY <1>1 DEF Propose, Goto, TypeOK
  <2>4. due'[t] = EnactAfter(p.at, RequiredTimelock(p.update, CurrentCfg, p.tier))
    BY <1>1 DEF Propose, TypeOK
  <2>5. Waited(p, due'[t])
    <3> HIDE DEF p
    <3> QED BY <2>2, <2>4
  <2>6. CallWaited(t)'
    <3> HIDE DEF p
    <3> QED BY <2>1, <2>3, <2>5 DEF CallWaited, Enacting, Waited
  <2> HIDE DEF p
  <2> QED BY <1>0, <1>1, <2>6, DelayFrame DEF Propose, Goto, TypeOK, IsKnown, props
<1>2. ASSUME NEW t \in Task, NEW u \in Direct, ConfigUpdate(t, u) PROVE DelayInv'
  <2>1. CallWaited(t)'
    BY <1>2 DEF ConfigUpdate, Goto, TypeOK, CallWaited, Proposing
  <2> QED BY <1>0, <1>2, <2>1, DelayFrame DEF ConfigUpdate, Goto, TypeOK, IsKnown, props
<1>3. ASSUME NEW t \in Task, NEW p \in Id, Enact(t, p) PROVE DelayInv'
  <2>1. IsKnown(p) /\ after[p] <= now
    BY <1>0, <1>3 DEF Enact, IsPending, IsKnown
  <2>2. Waited(p, now)
    BY <1>0, <2>1, WaitedLonger
  <2>3. CallWaited(t)'
    BY <1>3, <2>1, <2>2
       DEF Enact, Goto, TypeOK, CallWaited, Proposing, Waited, IsKnown, props
  <2> QED BY <1>0, <1>3, <2>3, DelayFrame DEF Enact, Goto, TypeOK, IsKnown, props
<1>4. ASSUME NEW t \in Task, NEW p \in Id, Cancel(t, p) PROVE DelayInv'
  <2>1. CallWaited(t)'
    BY <1>4 DEF Cancel, Goto, TypeOK, CallWaited, Proposing, Enacting, IsPending, IsKnown,
                props
  <2> QED BY <1>0, <1>4, <2>1, DelayFrame DEF Cancel, Goto, TypeOK, IsKnown, props
<1>5. ASSUME NEW t \in Task, CallStep(t) PROVE DelayInv'
  BY <1>5, DelayCallStep
<1>6. CASE ReaderMiss \/ ReaderFill \/ Expire \/ UNCHANGED vars
  BY <1>6 DEF ReaderMiss, ReaderFill, Expire, vars, DelayInv, IsKnown, Waited, props, call
<1>7. CASE Tick
  <2>1. now' \in Int /\ now <= now'
    BY <1>0, <1>7 DEF Tick
  <2>2. \A t \in Task : pc[t] \in Enacting /\ id[t] # NoId => Waited(id[t], now')
    BY <1>0, <2>1, WaitedLonger DEF TypeOK, DelayInv
  <2> QED BY <1>7, <2>2 DEF Tick, DelayInv, IsKnown, Waited, props, call
<1>8. CASE Crash
  BY <1>0, <1>8 DEF Crash, DelayInv, IsKnown, Proposing, Enacting, Waited, props
<1> QED BY <1>1, <1>2, <1>3, <1>4, <1>5, <1>6, <1>7, <1>8 DEF Next

\* No loosening takes effect through a proposal before the delay of its tier:
\* the checks of the Proposal and Enact arms are enough, whatever the
\* interleaving of the calls, the failed writes and the restarts.
THEOREM LooseningsWait == Spec => []TimelockRespected
<1>1. DelayInv => TimelockRespected
  BY DEF DelayInv, TimelockRespected, Waited
<1> QED BY <1>1, DelayInit, DelayNext, GovernanceTypes, PTL DEF Spec

-----------------------------------------------------------------------------
(* The status of a proposal.                                               *)

\* Every step of a call marks only what was applied.
LEMMA MarkCallStep ==
    ASSUME TypeOK, MarkInv, NEW t \in Task, CallStep(t)
    PROVE  MarkInv'
<1>1. applied \subseteq applied'
  BY DEF CallStep, ProposeLookup, ProposeDerive, ProposePut, ReadConfig, WriteDb,
         WriteCache, AppendHistory, MarkEnacted, MarkCancelled
<1>2. \A u \in Task \ {t} : pc'[u] = pc[u] /\ id'[u] = id[u]
  BY DEF TypeOK, CallStep, ProposeLookup, ProposeDerive, ProposePut, ReadConfig, Refused,
         WriteDb, WriteCache, AppendHistory, MarkEnacted, MarkCancelled, Goto, Return
<1>3. pc'[t] \in {"mark", "cancel"} => id'[t] # NoId
  BY DEF TypeOK, CallStep, ProposeLookup, ProposeDerive, ProposePut, ReadConfig, Refused,
         WriteDb, WriteCache, AppendHistory, MarkEnacted, MarkCancelled, Goto, Return
<1>4. pc'[t] \in Written /\ id'[t] # NoId => \E e \in applied' : e.id = id'[t]
  <2>1. CASE WriteDb(t)
    <3>1. CASE applied' = applied \cup [id : {id[t]} \ {NoId}, at : {now}]
      <4>1. id[t] # NoId => [id |-> id[t], at |-> now] \in applied'
        BY <3>1
      <4> QED BY <2>1, <4>1 DEF WriteDb, TypeOK, Return
    <3>2. CASE Return(t)
      BY <3>2 DEF Return, Goto, TypeOK, Written
    <3> QED BY <2>1, <3>1, <3>2 DEF WriteDb
  <2>2. CASE pc[t] \in Written /\ id'[t] \in {id[t], NoId}
    BY <1>1, <2>2 DEF MarkInv
  <2>3. CASE pc'[t] \notin Written
    BY <2>3
  <2> QED BY <2>1, <2>2, <2>3
          DEF TypeOK, Written, CallStep, ProposeLookup, ProposeDerive, ProposePut,
              ReadConfig, Refused, WriteCache, AppendHistory, MarkEnacted, MarkCancelled,
              Goto, Return
<1>5. ASSUME NEW p \in Id, status'[p] = "Enacted"
      PROVE  \E e \in applied' : e.id = p
  <2>1. status[p] = "Enacted" \/ (MarkEnacted(t) /\ id[t] = p)
    BY <1>5 DEF TypeOK, CallStep, ProposeLookup, ProposeDerive, ProposePut, ReadConfig,
                WriteDb, WriteCache, AppendHistory, MarkEnacted, MarkCancelled, props
  <2>2. CASE status[p] = "Enacted"
    BY <1>1, <2>2 DEF MarkInv, EnactedWasApplied
  <2>3. CASE MarkEnacted(t) /\ id[t] = p
    BY <1>1, <2>3 DEF MarkInv, MarkEnacted, Written
  <2> QED BY <2>1, <2>2, <2>3
<1>6. EnactedWasApplied'
  BY <1>5 DEF EnactedWasApplied
<1>7. \A u \in Task :
        /\ pc'[u] \in {"mark", "cancel"} => id'[u] # NoId
        /\ pc'[u] \in Written /\ id'[u] # NoId => \E e \in applied' : e.id = id'[u]
  BY <1>1, <1>2, <1>3, <1>4 DEF MarkInv
<1> QED BY <1>6, <1>7 DEF MarkInv

\* Every step marks only what was applied.
LEMMA MarkNext == TypeOK /\ MarkInv /\ [Next]_vars => MarkInv'
<1> SUFFICES ASSUME TypeOK, MarkInv, [Next]_vars PROVE MarkInv'
  OBVIOUS
<1>1. ASSUME NEW t \in Task, NEW u \in Update, NEW tier \in Tier, Propose(t, u, tier)
      PROVE  MarkInv'
  BY <1>1 DEF Propose, Goto, TypeOK, MarkInv, EnactedWasApplied, Written, props
<1>2. ASSUME NEW t \in Task, NEW u \in Direct, ConfigUpdate(t, u) PROVE MarkInv'
  BY <1>2 DEF ConfigUpdate, Goto, TypeOK, MarkInv, EnactedWasApplied, Written, props
<1>3. ASSUME NEW t \in Task, NEW p \in Id, Enact(t, p) PROVE MarkInv'
  BY <1>3 DEF Enact, Goto, TypeOK, MarkInv, EnactedWasApplied, Written, props
<1>4. ASSUME NEW t \in Task, NEW p \in Id, Cancel(t, p) PROVE MarkInv'
  <2>1. p # NoId
    BY GovernanceBounds
  <2> QED BY <1>4, <2>1 DEF Cancel, Goto, TypeOK, MarkInv, EnactedWasApplied, Written, props
<1>5. ASSUME NEW t \in Task, CallStep(t) PROVE MarkInv'
  BY <1>5, MarkCallStep
<1>6. CASE ReaderMiss \/ ReaderFill \/ Expire \/ Tick \/ UNCHANGED vars
  BY <1>6 DEF ReaderMiss, ReaderFill, Expire, Tick, vars, MarkInv, EnactedWasApplied,
              props, call
<1>7. CASE Crash
  BY <1>7 DEF Crash, MarkInv, EnactedWasApplied, Written, props
<1> QED BY <1>1, <1>2, <1>3, <1>4, <1>5, <1>6, <1>7 DEF Next

\* What the history shows as Enacted was written to the config.
THEOREM EnactedApplied == Spec => []EnactedWasApplied
<1>1. Init => MarkInv
  BY DEF Init, MarkInv, EnactedWasApplied, Written
<1>2. MarkInv => EnactedWasApplied
  BY DEF MarkInv
<1> QED BY <1>1, <1>2, MarkNext, GovernanceTypes, PTL DEF Spec

\* A step of a call does not reopen a closed proposal: the call is on another
\* one, or in the lookup that is about to turn it away.
LEMMA ClosedCallStep ==
    ASSUME TypeOK, NEW p \in Id, Closed(p), NEW t \in Task, CallStep(t)
    PROVE  Closed(p)'
<1>1. pc[t] # "idle"
  BY DEF CallStep, ProposeLookup, ProposeDerive, ProposePut, ReadConfig,
         WriteDb, WriteCache, AppendHistory, MarkEnacted, MarkCancelled
<1>2. \A u \in Task \ {t} : pc'[u] = pc[u] /\ id'[u] = id[u]
  BY DEF TypeOK, CallStep, ProposeLookup, ProposeDerive, ProposePut, ReadConfig, Refused,
         WriteDb, WriteCache, AppendHistory, MarkEnacted, MarkCancelled, Goto, Return
<1>3. p # NoId
  BY GovernanceBounds
<1>4. CASE id[t] = p
  <2>1. pc[t] = "lookup"
    BY <1>1, <1>4 DEF Closed, Working, TypeOK, Steps
  <2>2. ProposeLookup(t)
    BY <2>1 DEF CallStep, ProposeDerive, ProposePut, ReadConfig,
                WriteDb, WriteCache, AppendHistory, MarkEnacted, MarkCancelled
  <2>3. pc'[t] = "idle" /\ status' = status
    BY <1>4, <2>2 DEF ProposeLookup, Closed, Return, Goto, TypeOK, props
  <2> QED BY <1>2, <2>3 DEF Closed, Working
<1>5. CASE id[t] # p
  <2>1. id'[t] \in {id[t], NoId}
    BY DEF TypeOK, CallStep, ProposeLookup, ProposeDerive, ProposePut, ReadConfig, Refused,
           WriteDb, WriteCache, AppendHistory, MarkEnacted, MarkCancelled, Goto, Return
  <2>2. status'[p] = status[p]
    BY <1>5 DEF TypeOK, CallStep, ProposeLookup, ProposeDerive, ProposePut, ReadConfig,
                WriteDb, WriteCache, AppendHistory, MarkEnacted, MarkCancelled, props
  <2> QED BY <1>2, <1>3, <1>5, <2>1, <2>2 DEF Closed, Working
<1> QED BY <1>4, <1>5

\* An enacted or cancelled proposal with no call at work on it stays closed.
THEOREM ClosedStaysClosed == Spec => ClosedForGood
<1>1. TypeOK /\ [Next]_vars => [\A p \in Id : Closed(p) => Closed(p)']_vars
  <2> SUFFICES ASSUME TypeOK, [Next]_vars, NEW p \in Id, Closed(p) PROVE Closed(p)'
    OBVIOUS
  <2>0. p # NoId
    BY GovernanceBounds
  <2>1. ASSUME NEW t \in Task, NEW u \in Update, NEW tier \in Tier, Propose(t, u, tier)
        PROVE  Closed(p)'
    BY <2>1 DEF Propose, Goto, TypeOK, Closed, Working, props
  <2>2. ASSUME NEW t \in Task, NEW u \in Direct, ConfigUpdate(t, u) PROVE Closed(p)'
    BY <2>0, <2>2 DEF ConfigUpdate, Goto, TypeOK, Closed, Working, props
  <2>3. ASSUME NEW t \in Task, NEW q \in Id, Enact(t, q) \/ Cancel(t, q) PROVE Closed(p)'
    <3>1. q # p
      BY <2>3 DEF Enact, Cancel, IsPending, Closed
    <3> QED BY <2>3, <3>1 DEF Enact, Cancel, Goto, TypeOK, Closed, Working, props
  <2>4. ASSUME NEW t \in Task, CallStep(t) PROVE Closed(p)'
    BY <2>4, ClosedCallStep
  <2>5. CASE ReaderMiss \/ ReaderFill \/ Expire \/ Tick \/ UNCHANGED vars
    BY <2>5 DEF ReaderMiss, ReaderFill, Expire, Tick, vars, Closed, Working, props, call
  <2>6. CASE Crash
    BY <2>6 DEF Crash, Closed, Working, props
  <2> QED BY <2>1, <2>2, <2>3, <2>4, <2>5, <2>6 DEF Next
<1> QED BY <1>1, GovernanceTypes, PTL DEF Spec, ClosedForGood

-----------------------------------------------------------------------------
(* Ledger definitions.                                                     *)

LEMMA LoadedDef ==
    ASSUME NEW stored, NEW l \in BLedger
    PROVE  LoadDefs(stored)[l] =
             IF stored[l] # NoDef THEN stored[l] ELSE IF l \in Configured THEN CfgOwner[l] ELSE NoDef
BY DEF LoadDefs

\* An owner that is stored is the owner that is loaded.
LEMMA OwnerLoaded ==
    ASSUME NEW stored, NEW l \in BLedger, stored[l] \in BOwner \cup {NoOwner}
    PROVE  LoadDefs(stored)[l] = stored[l]
BY LoadedDef, BridgeAssumption

LEMMA LoadTypes ==
    ASSUME brSavedDefs \in [BLedger -> BOwner \cup {NoOwner, NoDef}]
    PROVE  LoadDefs(brSavedDefs) \in [BLedger -> BOwner \cup {NoOwner, NoDef}]
BY BridgeAssumption DEF LoadDefs

\* What an operation changes of the definitions and of the operations.
LEMMA DefFrame ==
    ASSUME DefTypes, DefInv, NEW t \in LedgerOp, NEW l \in BLedger,
           brLoose \subseteq brLoose', DefTypes',
           \A u \in LedgerOp \ {t} : brOpPc'[u] = brOpPc[u] /\ brOp'[u] = brOp[u],
           brOpPc'[t] # "idle" => brOp'[t].ledger = l,
           brOpPc[t] # "idle" => brOp[t].ledger = l,
           \A m \in BLedger \ {l} : brDefs'[m] = brDefs[m] /\ brSavedDefs'[m] = brSavedDefs[m],
           l \in brLoose' \/
             /\ \A u \in LedgerOp \ {t} : ~Busy(u, l)
             /\ brOpPc'[t] = "save" => brDefs'[l] = brOp'[t].owner
             /\ brOpPc'[t] = "update" => brSavedDefs'[l] = brOp'[t].owner
             /\ brOpPc'[t] \in {"idle", "added", "handed"} => brDefs'[l] = LoadDefs(brSavedDefs')[l]
    PROVE  DefInv'
<1>1. \A m \in BLedger \ {l} : \A u \in LedgerOp : Busy(u, m)' <=> Busy(u, m) /\ u # t
  BY DEF Busy
<1>2. \A m \in BLedger \ {l} : LoadDefs(brSavedDefs')[m] = LoadDefs(brSavedDefs)[m]
  BY LoadedDef
<1>3. \A u \in LedgerOp : Busy(u, l)' => u = t \/ Busy(u, l)
  BY DEF Busy
<1>4. ASSUME NEW m \in BLedger \ brLoose', NEW u \in LedgerOp, Busy(u, m)'
      PROVE  /\ \A v \in LedgerOp : Busy(v, m)' => v = u
             /\ brOpPc'[u] = "save" => brDefs'[m] = brOp'[u].owner
             /\ brOpPc'[u] = "update" => brSavedDefs'[m] = brOp'[u].owner
             /\ brOpPc'[u] \in {"added", "handed"} => brDefs'[m] = LoadDefs(brSavedDefs')[m]
  <2>1. CASE m # l
    BY <1>1, <1>2, <1>4, <2>1 DEF DefInv
  <2>2. CASE m = l
    BY <1>3, <1>4, <2>2
  <2> QED BY <2>1, <2>2
<1>5. ASSUME NEW m \in BLedger \ brLoose', \A u \in LedgerOp : ~Busy(u, m)'
      PROVE  brDefs'[m] = LoadDefs(brSavedDefs')[m]
  <2>1. CASE m # l
    <3>1. \A u \in LedgerOp : ~Busy(u, m)
      BY <1>1, <1>5, <2>1 DEF Busy
    <3> QED BY <1>2, <2>1, <3>1 DEF DefInv, LedgersSurvive, Busy
  <2>2. CASE m = l
    BY <1>5, <2>2 DEF Busy
  <2> QED BY <2>1, <2>2
<1>6. LedgersSurvive'
  BY <1>5 DEF LedgersSurvive, Busy
<1> QED BY <1>4, <1>6 DEF DefInv

LEMMA DefTypesKept ==
    ASSUME DefTypes, [TransferNext \/ DefNext]_brVars
    PROVE  DefTypes'
<1> USE DEF DefTypes
<1>1. ASSUME NEW t \in LedgerOp, NEW l \in BLedger, NEW o \in BOwner \cup {NoOwner},
             CreateLedger(t, l, o) \/ TransferOwnership(t, l, o)
      PROVE  DefTypes'
  BY <1>1 DEF CreateLedger, TransferOwnership
<1>2. ASSUME NEW t \in LedgerOp, LedgerAdded(t) \/ UpdateDef(t)
      PROVE  DefTypes'
  BY <1>2 DEF LedgerAdded, UpdateDef, DefGoto
<1>3. ASSUME NEW t \in LedgerOp, LedgerSaved(t) \/ OwnershipSaved(t) \/ AbandonDef(t)
      PROVE  DefTypes'
  BY <1>3 DEF LedgerSaved, OwnershipSaved, AbandonDef, PutLedgerDef, DefGoto
<1>4. CASE BridgeCrash
  BY <1>4, LoadTypes DEF BridgeCrash
<1>5. CASE UNCHANGED brDefVars
  BY <1>5 DEF brDefVars
<1> QED BY <1>1, <1>2, <1>3, <1>4, <1>5
        DEF DefNext, TransferNext, brVars, EnableBridge, DisableBridge, SwitchMint, StartTransfer,
            PersistLock, PersistMint, MarkConsumed, AbandonTransfer, ResubmitMint, StoreJob

LEMMA DefStep ==
    ASSUME DefTypes, DefInv, [TransferNext \/ DefNext]_brVars
    PROVE  DefInv'
<1>0. DefTypes'
  BY DefTypesKept
<1> USE DEF DefTypes
<1>1. ASSUME NEW t \in LedgerOp, NEW l \in BLedger, NEW o \in BOwner \cup {NoOwner},
             CreateLedger(t, l, o) \/ TransferOwnership(t, l, o)
      PROVE  DefInv'
  <2>1. /\ brOpPc[t] = "idle" /\ brOpPc'[t] \in {"added", "handed"} /\ brOp'[t].ledger = l
        /\ brLoose' = brLoose \cup Contended(t, l) /\ UNCHANGED <<brDefs, brSavedDefs>>
        /\ \A u \in LedgerOp \ {t} : brOpPc'[u] = brOpPc[u] /\ brOp'[u] = brOp[u]
    BY <1>1 DEF CreateLedger, TransferOwnership
  <2>2. l \notin brLoose' => l \notin brLoose /\ \A u \in LedgerOp \ {t} : ~Busy(u, l)
    BY <2>1 DEF Contended, Busy
  <2>3. l \notin brLoose' => brDefs'[l] = LoadDefs(brSavedDefs')[l]
    BY <2>1, <2>2 DEF DefInv, LedgersSurvive, Busy
  <2> QED BY <1>0, <2>1, <2>2, <2>3, DefFrame
<1>2. ASSUME NEW t \in LedgerOp, LedgerAdded(t) \/ UpdateDef(t)
      PROVE  DefInv'
  <2> DEFINE l == brOp[t].ledger
  <2>1. /\ l \in BLedger /\ brOp[t].owner \in BOwner \cup {NoOwner} /\ Busy(t, l)
        /\ UNCHANGED <<brSavedDefs, brOp, brLoose>>
        /\ \A m \in BLedger \ {l} : brDefs'[m] = brDefs[m]
        /\ brDefs'[l] = brOp[t].owner
        /\ \A u \in LedgerOp \ {t} : brOpPc'[u] = brOpPc[u]
        /\ \/ brOpPc[t] = "added" /\ brOpPc'[t] = "save"
           \/ brOpPc[t] = "update" /\ brOpPc'[t] = "idle"
    BY <1>2 DEF LedgerAdded, UpdateDef, DefGoto, Busy
  <2> HIDE DEF l
  <2>2. l \notin brLoose => \A u \in LedgerOp \ {t} : ~Busy(u, l)
    BY <2>1 DEF DefInv
  <2>3. l \notin brLoose /\ brOpPc'[t] = "idle" => brDefs'[l] = LoadDefs(brSavedDefs')[l]
    BY <2>1, OwnerLoaded DEF DefInv
  <2> QED BY <1>0, <2>1, <2>2, <2>3, DefFrame DEF l
<1>3. ASSUME NEW t \in LedgerOp, LedgerSaved(t) \/ OwnershipSaved(t) \/ AbandonDef(t)
      PROVE  DefInv'
  <2> DEFINE l == brOp[t].ledger
  <2>1. /\ l \in BLedger /\ brOp[t].owner \in BOwner \cup {NoOwner} /\ Busy(t, l)
        /\ UNCHANGED <<brDefs, brOp>> /\ brLoose \subseteq brLoose'
        /\ \A m \in BLedger \ {l} : brSavedDefs'[m] = brSavedDefs[m]
        /\ \A u \in LedgerOp \ {t} : brOpPc'[u] = brOpPc[u]
    BY <1>3 DEF LedgerSaved, OwnershipSaved, AbandonDef, PutLedgerDef, DefGoto, Busy
  <2>2. \/ /\ brOpPc[t] = "save" /\ brOpPc'[t] = "idle"
           /\ l \in brLoose' \/ (brSavedDefs'[l] = brOp[t].owner /\ brLoose' = brLoose)
        \/ /\ brOpPc[t] = "handed" /\ brOpPc'[t] = "update" /\ brLoose' = brLoose
           /\ brSavedDefs'[l] = brOp[t].owner
        \/ /\ brOpPc[t] \in {"added", "handed"} /\ brOpPc'[t] = "idle" /\ brLoose' = brLoose
           /\ brSavedDefs' = brSavedDefs
    BY <1>3 DEF LedgerSaved, OwnershipSaved, AbandonDef, PutLedgerDef, DefGoto
  <2> HIDE DEF l
  <2>3. l \notin brLoose => \A u \in LedgerOp \ {t} : ~Busy(u, l)
    BY <2>1 DEF DefInv
  <2>4. l \notin brLoose' /\ brOpPc'[t] = "idle" => brDefs'[l] = LoadDefs(brSavedDefs')[l]
    BY <2>1, <2>2, OwnerLoaded DEF DefInv
  <2> QED BY <1>0, <2>1, <2>2, <2>3, <2>4, DefFrame DEF l
<1>4. CASE BridgeCrash
  <2>1. /\ brDefs' = LoadDefs(brSavedDefs) /\ brSavedDefs' = brSavedDefs
        /\ brOpPc' = [t \in LedgerOp |-> "idle"]
    BY <1>4 DEF BridgeCrash
  <2> QED BY <2>1 DEF DefInv, LedgersSurvive, Busy
<1>5. CASE UNCHANGED brDefVars
  BY <1>5 DEF brDefVars, DefInv, LedgersSurvive, Busy, LoadDefs
<1> QED BY <1>1, <1>2, <1>3, <1>4, <1>5
        DEF DefNext, TransferNext, brVars, EnableBridge, DisableBridge, SwitchMint, StartTransfer,
            PersistLock, PersistMint, MarkConsumed, AbandonTransfer, ResubmitMint, StoreJob

\* A ledger and its owner survive the end of the process, whatever operations
\* are under way on the other ledgers: add_ledger and the transfer of ownership
\* leave the memory and CF ledger_defs with the same definition, also when the
\* store refuses the write of a transfer, unless two operations overlapped on the
\* ledger or the store refused to write a new one.
THEOREM DefinitionsSurvive == BridgeSpec => []LedgersSurvive
<1>1. BridgeInit => DefTypes /\ DefInv
  <2> SUFFICES ASSUME BridgeInit PROVE DefTypes /\ DefInv
    OBVIOUS
  <2>1. brSavedDefs \in [BLedger -> BOwner \cup {NoOwner, NoDef}]
    BY DEF BridgeInit
  <2>2. DefTypes
    BY <2>1, LoadTypes DEF BridgeInit, DefTypes
  <2> QED BY <2>2 DEF BridgeInit, DefInv, LedgersSurvive, Busy
<1>2. DefTypes /\ DefInv /\ [TransferNext \/ DefNext]_brVars => (DefTypes /\ DefInv)'
  BY DefTypesKept, DefStep
<1>3. DefInv => LedgersSurvive
  BY DEF DefInv
<1> QED BY <1>1, <1>2, <1>3, PTL DEF BridgeSpec

-----------------------------------------------------------------------------
(* The books of one ledger, as facts about sets.                           *)

\* A transfer keeps the plan it started with.
Extends(plan, plan2) == \A c \in Transfer : plan[c] # NoPlan => plan2[c] = plan[c]

LEMMA BooksExtended ==
    ASSUME NEW plan, NEW plan2, Extends(plan, plan2), NEW l, NEW coins,
           NEW locks \in SUBSET BLock, NEW keys, LedgerBooks(plan, l, coins, locks, keys)
    PROVE  LedgerBooks(plan2, l, coins, locks, keys)
<1>1. \A k \in locks : k.id \in Transfer /\ plan2[k.id] = plan[k.id]
  BY DEF LedgerBooks, Extends, BLock
<1>2. \A m \in keys : m.id \in Transfer /\ plan2[m.id] = plan[m.id]
  BY DEF LedgerBooks, Extends
<1>3. Taken(plan2, locks) = Taken(plan, locks)
  BY <1>1 DEF Taken
<1> QED BY <1>1, <1>2, <1>3 DEF LedgerBooks

LEMMA QueueExtended ==
    ASSUME NEW plan, NEW plan2, Extends(plan, plan2), NEW l, NEW q, NEW coins,
           NEW locks \in SUBSET BLock, NEW keys, NEW savedLocks, NEW savedKeys,
           LedgerBooks(plan, l, coins, locks, keys),
           QueueBooks(plan, l, q, locks, keys, savedLocks, savedKeys)
    PROVE  QueueBooks(plan2, l, q, locks, keys, savedLocks, savedKeys)
<1>1. \A k \in locks : plan2[k.id] = plan[k.id]
  BY DEF LedgerBooks, Extends, BLock
<1>2. \A i \in DOMAIN q : q[i].lock \subseteq locks
  BY DEF QueueBooks
<1>3. \A i \in DOMAIN q : Taken(plan2, q[i].lock) = Taken(plan, q[i].lock)
  BY <1>1, <1>2 DEF Taken
<1> QED BY <1>3 DEF QueueBooks

\* What the locks of a ledger took was there.
LEMMA TakenIsThere ==
    ASSUME NEW plan, NEW l, NEW coins, NEW locks, NEW keys, LedgerBooks(plan, l, coins, locks, keys)
    PROVE  Taken(plan, locks) \subseteq BStart[l] \cup keys
BY DEF LedgerBooks, Taken

LEMMA MintFresh ==
    ASSUME NEW plan, NEW l \in BLedger, NEW coins, NEW locks, NEW keys,
           LedgerBooks(plan, l, coins, locks, keys),
           NEW c \in Transfer, \A m \in keys : m.id # c
    PROVE  MintOf(c, plan[c]) \notin BStart[l] \cup keys
BY BridgeAssumption DEF MintOf

\* A lock spends coins that are there, which no other lock took.
LEMMA BooksLock ==
    ASSUME NEW plan, NEW l, NEW coins, NEW locks, NEW keys, LedgerBooks(plan, l, coins, locks, keys),
           NEW c \in Transfer, plan[c] # NoPlan, plan[c].from = l, plan[c].coins \subseteq coins
    PROVE  LedgerBooks(plan, l, (coins \ plan[c].coins) \cup {}, locks \cup {LockOf(c, plan[c])}, keys \cup {})
<1> DEFINE k == LockOf(c, plan[c])
<1>1. k.id = c
  BY DEF LockOf
<1> HIDE DEF k
<1>2. Taken(plan, locks \cup {k}) = Taken(plan, locks) \cup plan[c].coins
  BY <1>1 DEF Taken
<1>3. \A j \in locks : plan[j.id].coins \cap plan[c].coins = {}
  BY DEF LedgerBooks, Taken
<1>4. plan[c].coins \subseteq BStart[l] \cup keys
  BY DEF LedgerBooks
<1>5. (coins \ plan[c].coins) \cup {} = (BStart[l] \cup keys) \ Taken(plan, locks \cup {k})
  BY <1>2 DEF LedgerBooks
<1>6. \A j \in locks \cup {k} : /\ plan[j.id] # NoPlan /\ plan[j.id].from = l /\ j = LockOf(j.id, plan[j.id])
                                /\ plan[j.id].coins \subseteq BStart[l] \cup keys
  BY <1>1, <1>4 DEF LedgerBooks, k
<1>7. \A i, j \in locks \cup {k} : i # j => plan[i.id].coins \cap plan[j.id].coins = {}
  BY <1>1, <1>3 DEF LedgerBooks
<1> QED BY <1>5, <1>6, <1>7 DEF LedgerBooks, k

\* A mint creates a coin that never was there.
LEMMA BooksMint ==
    ASSUME NEW plan, NEW l \in BLedger, NEW coins, NEW locks, NEW keys,
           LedgerBooks(plan, l, coins, locks, keys),
           NEW c \in Transfer, plan[c] # NoPlan, plan[c].to = l, \A m \in keys : m.id # c
    PROVE  LedgerBooks(plan, l, (coins \ {}) \cup {MintOf(c, plan[c])}, locks \cup {}, keys \cup {MintOf(c, plan[c])})
<1> DEFINE m == MintOf(c, plan[c])
<1>1. m.id = c /\ m \notin BStart[l] \cup keys
  BY MintFresh DEF MintOf
<1>2. m \notin Taken(plan, locks)
  BY <1>1, TakenIsThere
<1> HIDE DEF m
<1>3. (coins \ {}) \cup {m} = (BStart[l] \cup (keys \cup {m})) \ Taken(plan, locks)
  BY <1>2 DEF LedgerBooks
<1>4. \A n \in keys \cup {m} : /\ n.id \in Transfer /\ plan[n.id] # NoPlan
                               /\ plan[n.id].to = l /\ n = MintOf(n.id, plan[n.id])
  BY <1>1 DEF LedgerBooks, m
<1>5. locks \cup {} = locks
  OBVIOUS
<1> QED BY <1>3, <1>4, <1>5 DEF LedgerBooks, m

-----------------------------------------------------------------------------
(* The queue of one ledger.                                                *)

LEMMA QueueAppend ==
    ASSUME NEW plan, NEW l, NEW q \in Seq(BJob), NEW locks, NEW keys, NEW savedLocks, NEW savedKeys,
           QueueBooks(plan, l, q, locks, keys, savedLocks, savedKeys),
           NEW job \in BJob, job.spent = Taken(plan, job.lock), job.made = job.key,
           job.spent \subseteq BStart[l] \cup keys, job.key \cap keys = {}
    PROVE  QueueBooks(plan, l, Append(q, job), locks \cup job.lock, keys \cup job.key, savedLocks, savedKeys)
<1> DEFINE r == Append(q, job)
           n == Len(q) + 1
<1>1. /\ n \in Nat \ {0} /\ DOMAIN q = 1 .. n - 1 /\ DOMAIN r = 1 .. n
      /\ r[n] = job /\ \A i \in 1 .. n - 1 : r[i] = q[i]
  OBVIOUS
<1> HIDE DEF r, n
<1>2. DOMAIN r = DOMAIN q \cup {n} /\ n \notin DOMAIN q /\ \A i \in DOMAIN q : r[i] = q[i]
  BY <1>1
<1>3. UNION {r[i].lock : i \in DOMAIN r} = (UNION {q[i].lock : i \in DOMAIN q}) \cup job.lock
  <2>1. {r[i].lock : i \in DOMAIN r} = {q[i].lock : i \in DOMAIN q} \cup {job.lock}
    BY <1>1, <1>2
  <2> QED BY <2>1
<1>4. UNION {r[i].key : i \in DOMAIN r} = (UNION {q[i].key : i \in DOMAIN q}) \cup job.key
  <2>1. {r[i].key : i \in DOMAIN r} = {q[i].key : i \in DOMAIN q} \cup {job.key}
    BY <1>1, <1>2
  <2> QED BY <2>1
<1>5. \A i \in DOMAIN q : JobsBefore(r, i) = JobsBefore(q, i)
  <2> SUFFICES ASSUME NEW i \in DOMAIN q PROVE JobsBefore(r, i) = JobsBefore(q, i)
    OBVIOUS
  <2>1. \A j \in 1 .. i - 1 : r[j] = q[j]
    BY <1>1
  <2> QED BY <2>1 DEF JobsBefore
<1>6. JobsBefore(r, n) = UNION {q[i].key : i \in DOMAIN q}
  BY <1>1 DEF JobsBefore
<1>7. ASSUME NEW i \in DOMAIN r
      PROVE  /\ r[i].spent = Taken(plan, r[i].lock) /\ r[i].made = r[i].key
             /\ r[i].spent \subseteq BStart[l] \cup savedKeys \cup JobsBefore(r, i)
             /\ r[i].key \cap savedKeys = {}
             /\ \A j \in DOMAIN r : j # i => r[i].key \cap r[j].key = {}
  <2>0. \A j \in DOMAIN q : q[j].key \subseteq keys
    BY DEF QueueBooks
  <2>1. CASE i = n
    <3>1. keys = savedKeys \cup JobsBefore(r, n)
      BY <1>6 DEF QueueBooks
    <3>2. \A j \in DOMAIN r : j # i => r[i].key \cap r[j].key = {}
      BY <1>1, <1>2, <2>0, <2>1
    <3> QED BY <1>1, <2>1, <3>1, <3>2
  <2>2. CASE i \in DOMAIN q
    <3>1. /\ q[i].spent = Taken(plan, q[i].lock) /\ q[i].made = q[i].key
          /\ q[i].spent \subseteq BStart[l] \cup savedKeys \cup JobsBefore(q, i)
          /\ q[i].key \cap savedKeys = {}
          /\ \A j \in DOMAIN q : j # i => q[i].key \cap q[j].key = {}
      BY <2>2 DEF QueueBooks
    <3>2. r[i] = q[i] /\ JobsBefore(r, i) = JobsBefore(q, i)
      BY <1>2, <1>5, <2>2
    <3>3. \A j \in DOMAIN r : j # i => q[i].key \cap r[j].key = {}
      BY <1>1, <1>2, <2>0, <2>2, <3>1
    <3> QED BY <3>1, <3>2, <3>3
  <2> QED BY <1>2, <1>7, <2>1, <2>2
<1>8. /\ locks \cup job.lock = savedLocks \cup UNION {r[i].lock : i \in DOMAIN r}
      /\ keys \cup job.key = savedKeys \cup UNION {r[i].key : i \in DOMAIN r}
  BY <1>3, <1>4 DEF QueueBooks
<1>9. QueueBooks(plan, l, r, locks \cup job.lock, keys \cup job.key, savedLocks, savedKeys)
  BY <1>7, <1>8 DEF QueueBooks
<1> QED BY <1>9 DEF r

\* The oldest job is stored.
LEMMA QueueStored ==
    ASSUME NEW plan, NEW l \in BLedger, NEW q \in Seq(BJob), q # <<>>, NEW locks, NEW keys, NEW coins,
           NEW saved, NEW savedLocks, NEW savedKeys,
           LedgerBooks(plan, l, coins, locks, keys),
           LedgerBooks(plan, l, saved, savedLocks, savedKeys),
           QueueBooks(plan, l, q, locks, keys, savedLocks, savedKeys)
    PROVE  LET job == Head(q) IN
           /\ LedgerBooks(plan, l, (saved \ job.spent) \cup job.made, savedLocks \cup job.lock, savedKeys \cup job.key)
           /\ QueueBooks(plan, l, Tail(q), locks, keys, savedLocks \cup job.lock, savedKeys \cup job.key)
<1> DEFINE job == Head(q)
           r == Tail(q)
           n == Len(q)
<1>1. /\ n \in Nat \ {0} /\ DOMAIN q = 1 .. n /\ DOMAIN r = 1 .. n - 1
      /\ job = q[1] /\ \A i \in 1 .. n - 1 : r[i] = q[i + 1]
  OBVIOUS
<1> HIDE DEF job, r, n
<1>2. \A i \in DOMAIN r : i + 1 \in DOMAIN q /\ i + 1 # 1 /\ r[i] = q[i + 1] /\ i \in Nat \ {0}
  BY <1>1
<1>3. \A i \in DOMAIN q : i # 1 => i - 1 \in DOMAIN r /\ r[i - 1] = q[i]
  BY <1>1
<1>4. 1 \in DOMAIN q
  BY <1>1
<1>5. UNION {q[i].lock : i \in DOMAIN q} = job.lock \cup UNION {r[i].lock : i \in DOMAIN r}
  <2>1. {q[i].lock : i \in DOMAIN q} \subseteq {job.lock} \cup {r[i].lock : i \in DOMAIN r}
    BY <1>1, <1>3
  <2>2. {r[i].lock : i \in DOMAIN r} \subseteq {q[i].lock : i \in DOMAIN q}
    BY <1>2
  <2>3. job.lock \in {q[i].lock : i \in DOMAIN q}
    BY <1>1, <1>4
  <2> QED BY <2>1, <2>2, <2>3
<1>6. UNION {q[i].key : i \in DOMAIN q} = job.key \cup UNION {r[i].key : i \in DOMAIN r}
  <2>1. {q[i].key : i \in DOMAIN q} \subseteq {job.key} \cup {r[i].key : i \in DOMAIN r}
    BY <1>1, <1>3
  <2>2. {r[i].key : i \in DOMAIN r} \subseteq {q[i].key : i \in DOMAIN q}
    BY <1>2
  <2>3. job.key \in {q[i].key : i \in DOMAIN q}
    BY <1>1, <1>4
  <2> QED BY <2>1, <2>2, <2>3
<1>7. /\ job.spent = Taken(plan, job.lock) /\ job.made = job.key
      /\ job.spent \subseteq BStart[l] \cup savedKeys /\ job.key \cap savedKeys = {}
  <2>1. JobsBefore(q, 1) = {}
    BY DEF JobsBefore
  <2> QED BY <1>1, <1>4, <2>1 DEF QueueBooks
<1>8. ASSUME NEW i \in DOMAIN r
      PROVE  /\ r[i].spent = Taken(plan, r[i].lock) /\ r[i].made = r[i].key
             /\ r[i].spent \subseteq BStart[l] \cup (savedKeys \cup job.key) \cup JobsBefore(r, i)
             /\ r[i].key \cap (savedKeys \cup job.key) = {}
             /\ \A j \in DOMAIN r : j # i => r[i].key \cap r[j].key = {}
  <2>1. /\ r[i].spent = Taken(plan, r[i].lock) /\ r[i].made = r[i].key
        /\ r[i].spent \subseteq BStart[l] \cup savedKeys \cup JobsBefore(q, i + 1)
        /\ r[i].key \cap savedKeys = {}
        /\ \A j \in DOMAIN q : j # i + 1 => r[i].key \cap q[j].key = {}
    BY <1>2 DEF QueueBooks
  <2>2. JobsBefore(q, i + 1) \subseteq job.key \cup JobsBefore(r, i)
    <3> SUFFICES ASSUME NEW j \in 1 .. (i + 1) - 1, j # 1 PROVE q[j].key \subseteq JobsBefore(r, i)
      BY <1>1 DEF JobsBefore
    <3>1. j - 1 \in 1 .. i - 1 /\ j \in DOMAIN q
      BY <1>1, <1>2
    <3>2. r[j - 1] = q[j]
      BY <1>3, <3>1
    <3>3. r[j - 1].key \subseteq JobsBefore(r, i)
      BY <3>1 DEF JobsBefore
    <3> QED BY <3>2, <3>3
  <2>3. \A j \in DOMAIN r : j # i => r[i].key \cap r[j].key = {}
    <3> SUFFICES ASSUME NEW j \in DOMAIN r, j # i PROVE r[i].key \cap r[j].key = {}
      OBVIOUS
    <3>1. j + 1 \in DOMAIN q /\ j + 1 # i + 1 /\ r[j] = q[j + 1]
      BY <1>2
    <3> QED BY <2>1, <3>1
  <2>4. r[i].key \cap job.key = {}
    BY <1>1, <1>2, <1>4, <2>1
  <2> QED BY <2>1, <2>2, <2>3, <2>4
<1>9. QueueBooks(plan, l, r, locks, keys, savedLocks \cup job.lock, savedKeys \cup job.key)
  <2>1. /\ locks = (savedLocks \cup job.lock) \cup UNION {r[i].lock : i \in DOMAIN r}
        /\ keys = (savedKeys \cup job.key) \cup UNION {r[i].key : i \in DOMAIN r}
    BY <1>5, <1>6 DEF QueueBooks
  <2> QED BY <1>8, <2>1 DEF QueueBooks
<1>10. job.lock \subseteq locks /\ savedLocks \subseteq locks /\ job.key \subseteq keys
  BY <1>1, <1>4 DEF QueueBooks
<1>11. job.key \cap (BStart[l] \cup savedKeys) = {}
  <2>1. \A m \in job.key : m.id \in Transfer
    BY <1>10 DEF LedgerBooks
  <2> QED BY <1>7, <2>1, BridgeAssumption
<1>12. Taken(plan, savedLocks \cup job.lock) = Taken(plan, savedLocks) \cup job.spent
  BY <1>7 DEF Taken
<1>13. (saved \ job.spent) \cup job.made
         = (BStart[l] \cup (savedKeys \cup job.key)) \ Taken(plan, savedLocks \cup job.lock)
  <2>1. Taken(plan, savedLocks) \subseteq BStart[l] \cup savedKeys
    BY TakenIsThere
  <2>2. saved = (BStart[l] \cup savedKeys) \ Taken(plan, savedLocks)
    BY DEF LedgerBooks
  <2> QED BY <1>7, <1>11, <1>12, <2>1, <2>2
<1>14. \A k \in savedLocks \cup job.lock :
         /\ plan[k.id] # NoPlan /\ plan[k.id].from = l /\ k = LockOf(k.id, plan[k.id])
         /\ plan[k.id].coins \subseteq BStart[l] \cup (savedKeys \cup job.key)
  <2>1. \A k \in job.lock : plan[k.id].coins \subseteq job.spent
    BY <1>7 DEF Taken
  <2>2. \A k \in savedLocks : plan[k.id].coins \subseteq BStart[l] \cup savedKeys
    BY DEF LedgerBooks
  <2>3. \A k \in locks : plan[k.id] # NoPlan /\ plan[k.id].from = l /\ k = LockOf(k.id, plan[k.id])
    BY DEF LedgerBooks
  <2> QED BY <1>7, <1>10, <2>1, <2>2, <2>3
<1>15. \A j, k \in savedLocks \cup job.lock : j # k => plan[j.id].coins \cap plan[k.id].coins = {}
  BY <1>10 DEF LedgerBooks
<1>16. \A m \in savedKeys \cup job.key :
         m.id \in Transfer /\ plan[m.id] # NoPlan /\ plan[m.id].to = l /\ m = MintOf(m.id, plan[m.id])
  BY <1>10 DEF LedgerBooks
<1>17. LedgerBooks(plan, l, (saved \ job.spent) \cup job.made, savedLocks \cup job.lock, savedKeys \cup job.key)
  BY <1>13, <1>14, <1>15, <1>16 DEF LedgerBooks
<1> QED BY <1>9, <1>17 DEF job, r

LEMMA QueueEmpty ==
    ASSUME NEW plan, NEW l, NEW locks, NEW keys
    PROVE  QueueBooks(plan, l, <<>>, locks, keys, locks, keys)
BY DEF QueueBooks

-----------------------------------------------------------------------------
(* Sums over coins.                                                        *)

Amounts == [x \in BCoin |-> x.amt]

LEMMA WorthSum ==
    ASSUME NEW S \in SUBSET BCoin, IsFiniteSet(S)
    PROVE  Worth(S) = SumFunctionOnSet(Amounts, S) /\ Worth(S) \in Nat
<1> DEFINE f == [x \in S |-> x.amt]
<1>1. Worth(S) = SumFunctionOnSet(f, S)
  BY DEF Worth, SumFunction
<1>2. \A x \in S : f[x] = Amounts[x] /\ Amounts[x] \in Nat
  BY DEF Amounts, BCoin
<1> HIDE DEF f
<1>3. SumFunctionOnSet(f, S) = SumFunctionOnSet(Amounts, S)
  BY <1>2, SumSame
<1>4. SumFunctionOnSet(Amounts, S) \in Nat
  BY <1>2, SumNat
<1> QED BY <1>1, <1>3, <1>4

LEMMA FiniteBooks ==
    ASSUME NEW plan, NEW l \in BLedger, NEW coins, NEW locks \in SUBSET BLock, NEW keys,
           LedgerBooks(plan, l, coins, locks, keys)
    PROVE  IsFiniteSet(coins) /\ IsFiniteSet(locks) /\ IsFiniteSet(keys)
<1> DEFINE f == [c \in Transfer |-> LockOf(c, plan[c])]
           g == [c \in Transfer |-> MintOf(c, plan[c])]
<1>1. locks \subseteq {f[c] : c \in Transfer} /\ keys \subseteq {g[c] : c \in Transfer}
  BY DEF LedgerBooks, BLock
<1> HIDE DEF f, g
<1>2. IsFiniteSet({f[c] : c \in Transfer}) /\ IsFiniteSet({g[c] : c \in Transfer})
  BY ImageFinite, BridgeAssumption
<1>3. IsFiniteSet(locks) /\ IsFiniteSet(keys) /\ IsFiniteSet(BStart[l])
  BY <1>1, <1>2, FS_Subset, BridgeAssumption
<1>4. IsFiniteSet(BStart[l] \cup keys)
  BY <1>3, FS_Union
<1>5. coins \subseteq BStart[l] \cup keys
  BY DEF LedgerBooks
<1> QED BY <1>3, <1>4, <1>5, FS_Subset

LEMMA LockTyped ==
    ASSUME NEW c \in Transfer, NEW p \in BPlan, IsFiniteSet(p.coins)
    PROVE  LockOf(c, p) \in BLock
<1>1. p.coins \in SUBSET BCoin /\ p.amt \in Nat /\ p.to \in BLedger /\ p.addr \in BAddr
  BY DEF BPlan
<1>2. Worth(p.coins) - p.amt \in Int
  BY <1>1, WorthSum
<1> QED BY <1>1, <1>2 DEF LockOf, BLock

-----------------------------------------------------------------------------
(* The steps of the transfers.                                             *)

\* The books of the other ledgers do not change.
LEMMA BooksFrame ==
    ASSUME BooksInv, NEW l \in BLedger, UNCHANGED <<brPlan, brCrashes>>,
           \A m \in BLedger \ {l} :
              /\ brCoins'[m] = brCoins[m] /\ brLocks'[m] = brLocks[m] /\ brKeys'[m] = brKeys[m]
              /\ brSaved'[m] = brSaved[m] /\ brSavedLocks'[m] = brSavedLocks[m]
              /\ brSavedKeys'[m] = brSavedKeys[m] /\ brQueue'[m] = brQueue[m],
           LedgerBooks(brPlan, l, brCoins'[l], brLocks'[l], brKeys'[l]),
           LedgerBooks(brPlan, l, brSaved'[l], brSavedLocks'[l], brSavedKeys'[l]),
           QueueBooks(brPlan, l, brQueue'[l], brLocks'[l], brKeys'[l], brSavedLocks'[l], brSavedKeys'[l]),
           brLocks[l] \subseteq brLocks'[l],
           \A m \in brKeys'[l] : m \in brKeys[l] \/ \E k \in AllLocks : k.id = m.id
    PROVE  BooksInv'
<1>1. AllLocks \subseteq AllLocks'
  BY DEF AllLocks
<1>2. ASSUME NEW m \in BLedger
      PROVE  /\ LedgerBooks(brPlan, m, brCoins'[m], brLocks'[m], brKeys'[m])
             /\ LedgerBooks(brPlan, m, brSaved'[m], brSavedLocks'[m], brSavedKeys'[m])
             /\ QueueBooks(brPlan, m, brQueue'[m], brLocks'[m], brKeys'[m], brSavedLocks'[m], brSavedKeys'[m])
  <2>1. CASE m = l
    BY <2>1
  <2>2. CASE m # l
    BY <2>2 DEF BooksInv
  <2> QED BY <2>1, <2>2
<1>3. ASSUME brCrashes = 0, NEW n \in BLedger, NEW m \in brKeys'[n]
      PROVE  \E k \in AllLocks' : k.id = m.id
  <2>1. m \in brKeys[n] \/ \E k \in AllLocks : k.id = m.id
    BY <1>3
  <2> QED BY <1>1, <1>3, <2>1 DEF BooksInv
<1>4. brPlan' = brPlan /\ brCrashes' = brCrashes
  OBVIOUS
<1> QED BY <1>2, <1>3, <1>4 DEF BooksInv

\* What Apply changes, ledger by ledger.
JobFor(spent, made, lock, key) == [spent |-> spent, made |-> made, lock |-> lock, key |-> key]
Applied(l, spent, made, lock, key) ==
    /\ BridgeLedgerTypes'
    /\ JobFor(spent, made, lock, key) \in BJob
    /\ \A m \in BLedger \ {l} :
         /\ brCoins'[m] = brCoins[m] /\ brLocks'[m] = brLocks[m] /\ brKeys'[m] = brKeys[m]
         /\ brSaved'[m] = brSaved[m] /\ brSavedLocks'[m] = brSavedLocks[m]
         /\ brSavedKeys'[m] = brSavedKeys[m] /\ brQueue'[m] = brQueue[m]
    /\ brCoins'[l] = (brCoins[l] \ spent) \cup made
    /\ brLocks'[l] = brLocks[l] \cup lock /\ brKeys'[l] = brKeys[l] \cup key
    /\ brQueue'[l] = Append(brQueue[l], JobFor(spent, made, lock, key))
    /\ brSaved'[l] = brSaved[l] /\ brSavedLocks'[l] = brSavedLocks[l]
    /\ brSavedKeys'[l] = brSavedKeys[l]

LEMMA ApplyFrame ==
    ASSUME BridgeLedgerTypes, NEW l \in BLedger, NEW spent \in SUBSET BCoin, NEW made \in SUBSET BCoin,
           NEW lock \in SUBSET BLock, NEW key \in SUBSET BCoin, Apply(l, spent, made, lock, key)
    PROVE  Applied(l, spent, made, lock, key)
<1> DEFINE job == JobFor(spent, made, lock, key)
<1>1. job \in BJob
  BY DEF BJob, JobFor
<1>2. /\ brCoins' = [brCoins EXCEPT ![l] = (@ \ spent) \cup made]
      /\ brLocks' = [brLocks EXCEPT ![l] = @ \cup lock]
      /\ brKeys' = [brKeys EXCEPT ![l] = @ \cup key]
      /\ brQueue' = [brQueue EXCEPT ![l] = Append(@, job)]
      /\ UNCHANGED <<brSaved, brSavedLocks, brSavedKeys>>
  BY DEF Apply, JobFor
<1> HIDE DEF job
<1>3. /\ brCoins \in [BLedger -> SUBSET BCoin] /\ brSaved \in [BLedger -> SUBSET BCoin]
      /\ brKeys \in [BLedger -> SUBSET BCoin] /\ brSavedKeys \in [BLedger -> SUBSET BCoin]
      /\ brLocks \in [BLedger -> SUBSET BLock] /\ brSavedLocks \in [BLedger -> SUBSET BLock]
      /\ brQueue \in [BLedger -> Seq(BJob)]
  BY DEF BridgeLedgerTypes
<1>4. brCoins' \in [BLedger -> SUBSET BCoin] /\ brKeys' \in [BLedger -> SUBSET BCoin]
  BY <1>2, <1>3
<1>5. brLocks' \in [BLedger -> SUBSET BLock]
  BY <1>2, <1>3
<1>6. brQueue' \in [BLedger -> Seq(BJob)]
  BY <1>1, <1>2, <1>3
<1>7. BridgeLedgerTypes'
  BY <1>2, <1>3, <1>4, <1>5, <1>6 DEF BridgeLedgerTypes
<1>8. /\ \A m \in BLedger \ {l} :
           /\ brCoins'[m] = brCoins[m] /\ brLocks'[m] = brLocks[m] /\ brKeys'[m] = brKeys[m]
           /\ brSaved'[m] = brSaved[m] /\ brSavedLocks'[m] = brSavedLocks[m]
           /\ brSavedKeys'[m] = brSavedKeys[m] /\ brQueue'[m] = brQueue[m]
      /\ brCoins'[l] = (brCoins[l] \ spent) \cup made
      /\ brLocks'[l] = brLocks[l] \cup lock /\ brKeys'[l] = brKeys[l] \cup key
      /\ brQueue'[l] = Append(brQueue[l], job)
      /\ brSaved'[l] = brSaved[l] /\ brSavedLocks'[l] = brSavedLocks[l]
      /\ brSavedKeys'[l] = brSavedKeys[l]
  BY <1>2, <1>3
<1> QED BY <1>1, <1>7, <1>8 DEF job, Applied

\* The lock of a transfer, with coins that are there.
LEMMA LockApplied ==
    ASSUME BridgeTypes, BooksInv, NEW c \in Transfer, brPlan[c] # NoPlan,
           brPlan[c].coins \subseteq brCoins[brPlan[c].from],
           Apply(brPlan[c].from, brPlan[c].coins, {}, {LockOf(c, brPlan[c])}, {}),
           UNCHANGED <<brPlan, brCrashes>>
    PROVE  BridgeLedgerTypes' /\ BooksInv'
<1> DEFINE p == brPlan[c]
           l == p.from
           lock == LockOf(c, p)
           job == JobFor(p.coins, {}, {lock}, {})
<1>0. BridgeLedgerTypes /\ BridgeCallTypes
  BY DEF BridgeTypes
<1>1. p \in BPlan /\ l \in BLedger /\ p.coins \in SUBSET BCoin
  BY <1>0 DEF BridgeCallTypes, BPlan
<1>2. /\ LedgerBooks(brPlan, l, brCoins[l], brLocks[l], brKeys[l])
      /\ LedgerBooks(brPlan, l, brSaved[l], brSavedLocks[l], brSavedKeys[l])
      /\ QueueBooks(brPlan, l, brQueue[l], brLocks[l], brKeys[l], brSavedLocks[l], brSavedKeys[l])
  BY <1>1 DEF BooksInv
<1>3. brLocks[l] \in SUBSET BLock /\ brQueue[l] \in Seq(BJob)
  BY <1>0, <1>1 DEF BridgeLedgerTypes
<1>4. IsFiniteSet(p.coins)
  BY <1>1, <1>2, <1>3, FiniteBooks, FS_Subset
<1>5. lock \in BLock
  BY <1>1, <1>4, LockTyped
<1>6. /\ BridgeLedgerTypes' /\ job \in BJob
      /\ \A m \in BLedger \ {l} :
           /\ brCoins'[m] = brCoins[m] /\ brLocks'[m] = brLocks[m] /\ brKeys'[m] = brKeys[m]
           /\ brSaved'[m] = brSaved[m] /\ brSavedLocks'[m] = brSavedLocks[m]
           /\ brSavedKeys'[m] = brSavedKeys[m] /\ brQueue'[m] = brQueue[m]
      /\ brCoins'[l] = (brCoins[l] \ p.coins) \cup {}
      /\ brLocks'[l] = brLocks[l] \cup {lock} /\ brKeys'[l] = brKeys[l] \cup {}
      /\ brQueue'[l] = Append(brQueue[l], job)
      /\ brSaved'[l] = brSaved[l] /\ brSavedLocks'[l] = brSavedLocks[l]
      /\ brSavedKeys'[l] = brSavedKeys[l]
  <2>1. {} \in SUBSET BCoin /\ {lock} \in SUBSET BLock
    BY <1>5
  <2> HIDE DEF lock
  <2>2. Apply(l, p.coins, {}, {lock}, {})
    BY DEF lock
  <2> HIDE DEF p, l
  <2>3. Applied(l, p.coins, {}, {lock}, {})
    BY <1>0, <1>1, <2>1, <2>2, ApplyFrame, Zenon
  <2> QED BY <2>3 DEF Applied
<1>7. LedgerBooks(brPlan, l, brCoins'[l], brLocks'[l], brKeys'[l])
  <2>1. LedgerBooks(brPlan, l, (brCoins[l] \ p.coins) \cup {}, brLocks[l] \cup {lock}, brKeys[l] \cup {})
    BY <1>2, BooksLock
  <2> QED BY <1>6, <2>1
<1>8. QueueBooks(brPlan, l, brQueue'[l], brLocks'[l], brKeys'[l], brSavedLocks'[l], brSavedKeys'[l])
  <2>1. /\ job.spent = p.coins /\ job.lock = {lock} /\ job.made = {} /\ job.key = {} /\ lock.id = c
    BY DEF LockOf, JobFor
  <2>2. p.coins \subseteq BStart[l] \cup brKeys[l]
    BY <1>2 DEF LedgerBooks
  <2>3. Taken(brPlan, {lock}) = p.coins
    BY <2>1 DEF Taken
  <2> HIDE DEF job, lock, l, p
  <2>5. /\ job.spent = Taken(brPlan, job.lock) /\ job.made = job.key
        /\ job.spent \subseteq BStart[l] \cup brKeys[l] /\ job.key \cap brKeys[l] = {}
    BY <2>1, <2>2, <2>3
  <2>4. QueueBooks(brPlan, l, Append(brQueue[l], job), brLocks[l] \cup job.lock, brKeys[l] \cup job.key,
                   brSavedLocks[l], brSavedKeys[l])
    BY <1>2, <1>3, <1>6, <2>5, QueueAppend
  <2> QED BY <1>6, <2>1, <2>4
<1> HIDE DEF p, l, lock, job
<1>9. BooksInv'
  BY <1>1, <1>2, <1>6, <1>7, <1>8, BooksFrame
<1> QED BY <1>6, <1>9

\* The mint of a lock that the source ledger holds.
LEMMA MintApplied ==
    ASSUME BridgeTypes, BooksInv, NEW c \in Transfer, NEW l \in BLedger, NEW from \in BLedger, NEW amt,
           NEW addr, MintAccepted(l, from, c, amt, addr), ApplyMint(l, c, amt),
           UNCHANGED <<brPlan, brCrashes>>
    PROVE  BridgeLedgerTypes' /\ BooksInv'
<1> DEFINE p == brPlan[c]
           mint == MintOf(c, p)
           job == JobFor({}, {mint}, {}, {mint})
<1>0. BridgeLedgerTypes /\ BridgeCallTypes
  BY DEF BridgeTypes
<1>1. PICK k \in brLocks[from] : k.id = c /\ k.dest = l /\ k.amt = amt
  BY DEF MintAccepted, ResolveBridgeLock, Reconcile
<1>2. p # NoPlan /\ k = LockOf(c, p)
  BY <1>1 DEF BooksInv, LedgerBooks
<1>3. p \in BPlan /\ p.to = l /\ p.amt = amt
  BY <1>0, <1>1, <1>2 DEF BridgeCallTypes, LockOf
<1>4. mint = [id |-> c, amt |-> amt] /\ mint \in BCoin /\ mint.id = c
  BY <1>3 DEF MintOf, BCoin, BPlan
<1>5. /\ LedgerBooks(brPlan, l, brCoins[l], brLocks[l], brKeys[l])
      /\ LedgerBooks(brPlan, l, brSaved[l], brSavedLocks[l], brSavedKeys[l])
      /\ QueueBooks(brPlan, l, brQueue[l], brLocks[l], brKeys[l], brSavedLocks[l], brSavedKeys[l])
  BY DEF BooksInv
<1>6. brQueue[l] \in Seq(BJob) /\ \A m \in brKeys[l] : m.id # c
  BY <1>0 DEF BridgeLedgerTypes, MintAccepted
<1>7. k \in AllLocks
  BY DEF AllLocks
<1>8. /\ BridgeLedgerTypes' /\ job \in BJob
      /\ \A m \in BLedger \ {l} :
           /\ brCoins'[m] = brCoins[m] /\ brLocks'[m] = brLocks[m] /\ brKeys'[m] = brKeys[m]
           /\ brSaved'[m] = brSaved[m] /\ brSavedLocks'[m] = brSavedLocks[m]
           /\ brSavedKeys'[m] = brSavedKeys[m] /\ brQueue'[m] = brQueue[m]
      /\ brCoins'[l] = (brCoins[l] \ {}) \cup {mint}
      /\ brLocks'[l] = brLocks[l] \cup {} /\ brKeys'[l] = brKeys[l] \cup {mint}
      /\ brQueue'[l] = Append(brQueue[l], job)
      /\ brSaved'[l] = brSaved[l] /\ brSavedLocks'[l] = brSavedLocks[l]
      /\ brSavedKeys'[l] = brSavedKeys[l]
  <2>1. {} \in SUBSET BCoin /\ {} \in SUBSET BLock /\ {mint} \in SUBSET BCoin
    BY <1>4
  <2>2. Apply(l, {}, {mint}, {}, {mint})
    BY <1>4 DEF ApplyMint
  <2> HIDE DEF mint
  <2>3. Applied(l, {}, {mint}, {}, {mint})
    BY <1>0, <2>1, <2>2, ApplyFrame, Zenon
  <2> QED BY <2>3 DEF Applied
<1>9. LedgerBooks(brPlan, l, brCoins'[l], brLocks'[l], brKeys'[l])
  <2>1. LedgerBooks(brPlan, l, (brCoins[l] \ {}) \cup {mint}, brLocks[l] \cup {}, brKeys[l] \cup {mint})
    BY <1>2, <1>3, <1>5, <1>6, BooksMint
  <2> QED BY <1>8, <2>1
<1>10. QueueBooks(brPlan, l, brQueue'[l], brLocks'[l], brKeys'[l], brSavedLocks'[l], brSavedKeys'[l])
  <2>1. /\ job.spent = {} /\ job.lock = {} /\ job.made = {mint} /\ job.key = {mint}
    BY DEF JobFor
  <2>2. {mint} \cap brKeys[l] = {}
    BY <1>4, <1>6
  <2>3. Taken(brPlan, {}) = {}
    BY DEF Taken
  <2> HIDE DEF job, mint
  <2>4. QueueBooks(brPlan, l, Append(brQueue[l], job), brLocks[l] \cup job.lock, brKeys[l] \cup job.key,
                   brSavedLocks[l], brSavedKeys[l])
    BY <1>5, <1>6, <1>8, <2>1, <2>2, <2>3, QueueAppend
  <2> QED BY <1>8, <2>1, <2>4
<1>11. \A m \in brKeys'[l] : m \in brKeys[l] \/ \E j \in AllLocks : j.id = m.id
  BY <1>1, <1>4, <1>7, <1>8
<1> HIDE DEF p, mint, job
<1>12. BooksInv'
  BY <1>5, <1>8, <1>9, <1>10, <1>11, BooksFrame
<1> QED BY <1>8, <1>12

LEMMA JobStored ==
    ASSUME BridgeTypes, BooksInv, NEW l \in BLedger, StoreJob(l)
    PROVE  BridgeTypes' /\ BooksInv'
<1> DEFINE job == Head(brQueue[l])
<1>0. BridgeLedgerTypes /\ BridgeCallTypes
  BY DEF BridgeTypes
<1>1. /\ brQueue[l] # <<>>
      /\ brSaved' = [brSaved EXCEPT ![l] = (@ \ job.spent) \cup job.made]
      /\ brSavedLocks' = [brSavedLocks EXCEPT ![l] = @ \cup job.lock]
      /\ brSavedKeys' = [brSavedKeys EXCEPT ![l] = @ \cup job.key]
      /\ brQueue' = [brQueue EXCEPT ![l] = Tail(@)]
      /\ UNCHANGED <<brCoins, brLocks, brKeys, brPc, brPlan, brCrashes>>
  BY DEF StoreJob, brCallVars, brCtlVars
<1>2. /\ brCoins \in [BLedger -> SUBSET BCoin] /\ brSaved \in [BLedger -> SUBSET BCoin]
      /\ brKeys \in [BLedger -> SUBSET BCoin] /\ brSavedKeys \in [BLedger -> SUBSET BCoin]
      /\ brLocks \in [BLedger -> SUBSET BLock] /\ brSavedLocks \in [BLedger -> SUBSET BLock]
      /\ brQueue \in [BLedger -> Seq(BJob)]
  BY <1>0 DEF BridgeLedgerTypes
<1>3. brQueue[l] \in Seq(BJob) /\ job \in BJob /\ Tail(brQueue[l]) \in Seq(BJob)
  BY <1>1, <1>2
<1> HIDE DEF job
<1>4. /\ job.spent \in SUBSET BCoin /\ job.made \in SUBSET BCoin
      /\ job.lock \in SUBSET BLock /\ job.key \in SUBSET BCoin
  BY <1>3 DEF BJob
<1>5. brSaved' \in [BLedger -> SUBSET BCoin] /\ brSavedKeys' \in [BLedger -> SUBSET BCoin]
  BY <1>1, <1>2, <1>4
<1>6. brSavedLocks' \in [BLedger -> SUBSET BLock] /\ brQueue' \in [BLedger -> Seq(BJob)]
  BY <1>1, <1>2, <1>3, <1>4
<1>7. BridgeLedgerTypes'
  BY <1>1, <1>2, <1>5, <1>6 DEF BridgeLedgerTypes
<1>8. BridgeCallTypes'
  BY <1>0, <1>1 DEF BridgeCallTypes
<1>9. /\ LedgerBooks(brPlan, l, brCoins[l], brLocks[l], brKeys[l])
      /\ LedgerBooks(brPlan, l, brSaved[l], brSavedLocks[l], brSavedKeys[l])
      /\ QueueBooks(brPlan, l, brQueue[l], brLocks[l], brKeys[l], brSavedLocks[l], brSavedKeys[l])
  BY DEF BooksInv
<1>10. /\ LedgerBooks(brPlan, l, (brSaved[l] \ job.spent) \cup job.made, brSavedLocks[l] \cup job.lock,
                      brSavedKeys[l] \cup job.key)
       /\ QueueBooks(brPlan, l, Tail(brQueue[l]), brLocks[l], brKeys[l], brSavedLocks[l] \cup job.lock,
                     brSavedKeys[l] \cup job.key)
  BY <1>1, <1>3, <1>9, QueueStored DEF job
<1>11. /\ brSaved'[l] = (brSaved[l] \ job.spent) \cup job.made
       /\ brSavedLocks'[l] = brSavedLocks[l] \cup job.lock /\ brSavedKeys'[l] = brSavedKeys[l] \cup job.key
       /\ brQueue'[l] = Tail(brQueue[l])
       /\ \A m \in BLedger \ {l} : /\ brSaved'[m] = brSaved[m] /\ brSavedLocks'[m] = brSavedLocks[m]
                                   /\ brSavedKeys'[m] = brSavedKeys[m] /\ brQueue'[m] = brQueue[m]
  BY <1>1, <1>2
<1>12. BooksInv'
  BY <1>1, <1>9, <1>10, <1>11, BooksFrame
<1> QED BY <1>7, <1>8, <1>12 DEF BridgeTypes

LEMMA BooksStep ==
    ASSUME BridgeTypes, BooksInv, [TransferNext \/ DefNext]_brVars
    PROVE  BridgeTypes' /\ BooksInv'
<1>0. BridgeLedgerTypes /\ BridgeCallTypes
  BY DEF BridgeTypes
<1>1. ASSUME UNCHANGED <<brLedgerVars, brPlan, brCrashes>>, BridgeCallTypes'
      PROVE  BridgeTypes' /\ BooksInv'
  <2>1. UNCHANGED <<brCoins, brSaved, brLocks, brSavedLocks, brKeys, brSavedKeys, brQueue, brPlan, brCrashes>>
    BY <1>1 DEF brLedgerVars
  <2>2. BridgeLedgerTypes'
    BY <1>0, <2>1 DEF BridgeLedgerTypes
  <2>3. AllLocks' = AllLocks
    BY <2>1 DEF AllLocks
  <2>4. BooksInv'
    BY <2>1, <2>3 DEF BooksInv
  <2> QED BY <1>1, <2>2, <2>4 DEF BridgeTypes
<1>2. CASE UNCHANGED <<brLedgerVars, brCallVars, brCrashes>>
  <2>1. BridgeCallTypes'
    BY <1>0, <1>2 DEF BridgeCallTypes, brCallVars
  <2> QED BY <1>1, <1>2, <2>1 DEF brCallVars
<1>3. ASSUME NEW c \in Transfer, NEW from \in BLedger, NEW to \in BLedger, NEW amt \in BAmount, NEW addr \in BAddr,
             StartTransfer(c, from, to, amt, addr)
      PROVE  BridgeTypes' /\ BooksInv'
  <2>1. PICK S \in Largest(brCoins[from], amt) :
          brPlan' = [brPlan EXCEPT ![c] = [from |-> from, to |-> to, amt |-> amt, addr |-> addr, coins |-> S]]
    BY <1>3 DEF StartTransfer
  <2> DEFINE p == [from |-> from, to |-> to, amt |-> amt, addr |-> addr, coins |-> S]
  <2>2. /\ brPlan[c] = NoPlan /\ brPc' = [brPc EXCEPT ![c] = "lock"]
        /\ UNCHANGED <<brCoins, brSaved, brLocks, brSavedLocks, brKeys, brSavedKeys, brQueue, brCrashes>>
    BY <1>3 DEF StartTransfer, brLedgerVars, brCtlVars
  <2>3. S \in SUBSET BCoin
    <3>1. S \subseteq brCoins[from]
      BY DEF Largest
    <3> QED BY <1>0, <3>1 DEF BridgeLedgerTypes
  <2>4. p \in BPlan /\ p # NoPlan
    <3>1. p \in BPlan
      BY <2>3, BridgeAssumption DEF BPlan
    <3>2. "to" \in DOMAIN p /\ "to" \notin DOMAIN NoPlan
      BY DEF NoPlan
    <3> QED BY <3>1, <3>2
  <2>5. /\ brPlan' = [brPlan EXCEPT ![c] = p] /\ brPlan \in [Transfer -> BPlan \cup {NoPlan}]
        /\ brPc \in [Transfer -> {"idle", "lock", "mint", "mark", "done"}]
    BY <1>0, <2>1 DEF BridgeCallTypes
  <2> HIDE DEF p
  <2>6. BridgeCallTypes'
    BY <1>0, <2>2, <2>4, <2>5 DEF BridgeCallTypes
  <2>7. Extends(brPlan, brPlan')
    BY <2>2, <2>5 DEF Extends
  <2>8. BridgeLedgerTypes' /\ AllLocks' = AllLocks
    BY <1>0, <2>2 DEF BridgeLedgerTypes, AllLocks
  <2>9. ASSUME NEW l \in BLedger
        PROVE  /\ LedgerBooks(brPlan', l, brCoins[l], brLocks[l], brKeys[l])
               /\ LedgerBooks(brPlan', l, brSaved[l], brSavedLocks[l], brSavedKeys[l])
               /\ QueueBooks(brPlan', l, brQueue[l], brLocks[l], brKeys[l], brSavedLocks[l], brSavedKeys[l])
    <3>1. brLocks[l] \in SUBSET BLock /\ brSavedLocks[l] \in SUBSET BLock
      BY <1>0 DEF BridgeLedgerTypes
    <3>2. /\ LedgerBooks(brPlan, l, brCoins[l], brLocks[l], brKeys[l])
          /\ LedgerBooks(brPlan, l, brSaved[l], brSavedLocks[l], brSavedKeys[l])
          /\ QueueBooks(brPlan, l, brQueue[l], brLocks[l], brKeys[l], brSavedLocks[l], brSavedKeys[l])
      BY DEF BooksInv
    <3>3. LedgerBooks(brPlan', l, brCoins[l], brLocks[l], brKeys[l])
      BY <2>7, <3>1, <3>2, BooksExtended
    <3>4. LedgerBooks(brPlan', l, brSaved[l], brSavedLocks[l], brSavedKeys[l])
      BY <2>7, <3>1, <3>2, BooksExtended
    <3>5. QueueBooks(brPlan', l, brQueue[l], brLocks[l], brKeys[l], brSavedLocks[l], brSavedKeys[l])
      BY <2>7, <3>1, <3>2, QueueExtended
    <3> QED BY <3>3, <3>4, <3>5
  <2>10. BooksInv'
    BY <2>2, <2>8, <2>9 DEF BooksInv
  <2> QED BY <2>6, <2>8, <2>10 DEF BridgeTypes
<1>4. ASSUME NEW c \in Transfer, PersistLock(c)
      PROVE  BridgeTypes' /\ BooksInv'
  <2>1. /\ brPc[c] = "lock" /\ brPc' = [brPc EXCEPT ![c] = "mint"] /\ UNCHANGED <<brPlan, brCrashes>>
        /\ brPlan[c].coins \subseteq brCoins[brPlan[c].from]
        /\ Apply(brPlan[c].from, brPlan[c].coins, {}, {LockOf(c, brPlan[c])}, {})
    BY <1>4 DEF PersistLock, brCtlVars
  <2>2. brPlan[c] # NoPlan /\ BridgeCallTypes'
    BY <1>0, <2>1 DEF BridgeCallTypes
  <2> QED BY <2>1, <2>2, LockApplied DEF BridgeTypes
<1>5. ASSUME NEW c \in Transfer, PersistMint(c)
      PROVE  BridgeTypes' /\ BooksInv'
  <2> DEFINE p == brPlan[c]
  <2>1. /\ brPc[c] = "mint" /\ brPc' = [brPc EXCEPT ![c] = "mark"] /\ UNCHANGED <<brPlan, brCrashes>>
        /\ MintAccepted(p.to, p.from, c, p.amt, p.addr) /\ ApplyMint(p.to, c, p.amt)
    BY <1>5 DEF PersistMint, brCtlVars
  <2>2. p # NoPlan /\ BridgeCallTypes'
    BY <1>0, <2>1 DEF BridgeCallTypes
  <2>3. p.to \in BLedger /\ p.from \in BLedger
    BY <1>0, <2>2 DEF BridgeCallTypes, BPlan
  <2>4. BridgeLedgerTypes' /\ BooksInv'
    <3> HIDE DEF p
    <3> QED BY <2>1, <2>3, MintApplied
  <2> QED BY <2>2, <2>4 DEF BridgeTypes
<1>6. ASSUME NEW c \in Transfer, MarkConsumed(c) \/ AbandonTransfer(c)
      PROVE  BridgeTypes' /\ BooksInv'
  <2>1. /\ brPc' = [brPc EXCEPT ![c] = "done"] /\ brPc[c] # "idle"
        /\ UNCHANGED <<brLedgerVars, brPlan, brCrashes>>
    BY <1>6 DEF MarkConsumed, AbandonTransfer, brCtlVars
  <2>2. BridgeCallTypes'
    BY <1>0, <2>1 DEF BridgeCallTypes
  <2> QED BY <1>1, <2>1, <2>2
<1>7. ASSUME NEW l \in BLedger, NEW from \in BLedger, NEW c \in Transfer, NEW amt \in BAmount, NEW addr \in BAddr,
             ResubmitMint(l, from, c, amt, addr)
      PROVE  BridgeTypes' /\ BooksInv'
  <2>1. /\ UNCHANGED <<brPc, brPlan, brCrashes>>
        /\ MintAccepted(l, from, c, amt, addr) /\ ApplyMint(l, c, amt)
    BY <1>7 DEF ResubmitMint, brCallVars
  <2>2. BridgeCallTypes'
    BY <1>0, <2>1 DEF BridgeCallTypes
  <2>3. BridgeLedgerTypes' /\ BooksInv'
    BY <2>1, MintApplied
  <2> QED BY <2>2, <2>3 DEF BridgeTypes
<1>8. ASSUME NEW l \in BLedger, StoreJob(l)
      PROVE  BridgeTypes' /\ BooksInv'
  BY <1>8, JobStored
<1>9. CASE BridgeCrash
  <2>1. /\ brCoins' = brSaved /\ brLocks' = brSavedLocks /\ brKeys' = brSavedKeys
        /\ brQueue' = [l \in BLedger |-> <<>>]
        /\ brPc' = [c \in Transfer |-> IF brPlan[c] = NoPlan THEN "idle" ELSE "done"]
        /\ UNCHANGED <<brSaved, brSavedLocks, brSavedKeys, brPlan>> /\ brCrashes' = brCrashes + 1
    BY <1>9 DEF BridgeCrash
  <2>2. BridgeLedgerTypes'
    BY <1>0, <2>1 DEF BridgeLedgerTypes
  <2>3. BridgeCallTypes'
    BY <1>0, <2>1 DEF BridgeCallTypes
  <2>4. brCrashes' # 0
    BY <1>0, <2>1 DEF BridgeCallTypes
  <2>5. \A l \in BLedger : brQueue'[l] = <<>>
    BY <2>1
  <2>6. \A l \in BLedger : /\ LedgerBooks(brPlan, l, brSaved[l], brSavedLocks[l], brSavedKeys[l])
                           /\ QueueBooks(brPlan, l, <<>>, brSavedLocks[l], brSavedKeys[l], brSavedLocks[l], brSavedKeys[l])
    BY QueueEmpty DEF BooksInv
  <2>7. BooksInv'
    BY <2>1, <2>4, <2>5, <2>6 DEF BooksInv
  <2> QED BY <2>2, <2>3, <2>7 DEF BridgeTypes
<1>10. CASE TransferNext
  <2>1. ASSUME NEW q \in Pairs, NEW dir, EnableBridge(q, dir) \/ DisableBridge(q)
        PROVE  UNCHANGED <<brLedgerVars, brCallVars, brCrashes>>
    BY <2>1 DEF EnableBridge, DisableBridge
  <2>2. CASE SwitchMint
    BY <1>2, <2>2 DEF SwitchMint
  <2> QED BY <1>2, <1>3, <1>4, <1>5, <1>6, <1>7, <1>8, <1>9, <1>10, <2>1, <2>2 DEF TransferNext
<1>11. CASE DefNext
  BY <1>2, <1>9, <1>11 DEF DefNext, CreateLedger, TransferOwnership, LedgerAdded, LedgerSaved,
                           OwnershipSaved, AbandonDef, UpdateDef, brCtlVars
<1>12. CASE UNCHANGED brVars
  BY <1>2, <1>12 DEF brVars, brCtlVars
<1> QED BY <1>10, <1>11, <1>12

LEMMA BooksInit == BridgeInit => BridgeTypes /\ BooksInv
<1> SUFFICES ASSUME BridgeInit PROVE BridgeTypes /\ BooksInv
  OBVIOUS
<1>1. BridgeLedgerTypes
  BY BridgeAssumption DEF BridgeInit, BridgeLedgerTypes
<1>2. BridgeCallTypes
  BY DEF BridgeInit, BridgeCallTypes
<1>3. ASSUME NEW l \in BLedger
      PROVE  LedgerBooks(brPlan, l, BStart[l], {}, {})
  BY DEF LedgerBooks, Taken
<1>4. \A l \in BLedger : /\ brCoins[l] = BStart[l] /\ brSaved[l] = BStart[l] /\ brQueue[l] = <<>>
                         /\ brLocks[l] = {} /\ brSavedLocks[l] = {} /\ brKeys[l] = {} /\ brSavedKeys[l] = {}
  BY DEF BridgeInit
<1>5. BooksInv
  BY <1>3, <1>4, QueueEmpty DEF BooksInv
<1> QED BY <1>1, <1>2, <1>5 DEF BridgeTypes

-----------------------------------------------------------------------------
(* From the books of each ledger to the total.                             *)

Cost == [k \in BLock |-> k.amt + k.surplus]
Locked == [k \in BLock |-> k.amt]
Beyond == [k \in BLock |-> k.surplus]

\* What a ledger holds and what its locks took is what it started with and
\* what was minted on it.
LEMMA LedgerBalance ==
    ASSUME BridgeCallTypes, NEW l \in BLedger, NEW coins \in SUBSET BCoin, NEW locks \in SUBSET BLock,
           NEW keys \in SUBSET BCoin, LedgerBooks(brPlan, l, coins, locks, keys)
    PROVE  Worth(coins) + SumFunctionOnSet(Cost, locks) = Worth(BStart[l]) + SumFunctionOnSet(Amounts, keys)
<1> DEFINE T == Taken(brPlan, locks)
           start == BStart[l]
           part == [k \in locks |-> brPlan[k.id].coins]
           v(S) == SumFunctionOnSet(Amounts, S)
<1>1. IsFiniteSet(coins) /\ IsFiniteSet(locks) /\ IsFiniteSet(keys) /\ IsFiniteSet(start)
  BY FiniteBooks, BridgeAssumption
<1>2. start \in SUBSET BCoin /\ start \cap keys = {}
  BY BridgeAssumption DEF LedgerBooks
<1>3. T \subseteq start \cup keys /\ coins \cap T = {} /\ coins \cup T = start \cup keys
  <2>1. T \subseteq start \cup keys
    BY TakenIsThere
  <2>2. coins = (start \cup keys) \ T
    BY DEF LedgerBooks
  <2> HIDE DEF T, start
  <2> QED BY <2>1, <2>2
<1>4. IsFiniteSet(start \cup keys) /\ IsFiniteSet(T) /\ T \in SUBSET BCoin
  <2>1. IsFiniteSet(start \cup keys)
    BY <1>1, FS_Union
  <2> QED BY <1>2, <1>3, <2>1, FS_Subset
<1>5. \A x \in BCoin : Amounts[x] \in Int
  BY DEF Amounts, BCoin
<1>6. v(start \cup keys) = v(start) + v(keys)
  BY <1>1, <1>2, <1>5, SumUnion
<1>7. v(coins \cup T) = v(coins) + v(T)
  BY <1>1, <1>3, <1>4, <1>5, SumUnion
<1>8. v(T) = SumFunctionOnSet(Cost, locks)
  <2>1. T = UNION {part[k] : k \in locks}
    BY DEF Taken
  <2>2. ASSUME NEW k \in locks
        PROVE  IsFiniteSet(part[k]) /\ part[k] \in SUBSET BCoin /\ Cost[k] = SumFunctionOnSet(Amounts, part[k])
    <3> DEFINE p == brPlan[k.id]
    <3>1. k \in BLock /\ k.id \in Transfer /\ p # NoPlan /\ k = LockOf(k.id, p) /\ part[k] = p.coins
      BY DEF LedgerBooks, BLock
    <3>2. p \in BPlan
      BY <3>1 DEF BridgeCallTypes
    <3>3. p.coins \in SUBSET BCoin /\ p.amt \in Nat
      BY <3>2 DEF BPlan
    <3>4. p.coins \subseteq T
      BY DEF Taken
    <3>5. IsFiniteSet(p.coins)
      BY <1>4, <3>4, FS_Subset
    <3>6. Worth(p.coins) = SumFunctionOnSet(Amounts, p.coins) /\ Worth(p.coins) \in Nat
      BY <3>3, <3>5, WorthSum
    <3>7. k.amt = p.amt /\ k.surplus = Worth(p.coins) - p.amt
      BY <3>1 DEF LockOf
    <3>8. Cost[k] = Worth(p.coins)
      BY <3>1, <3>3, <3>6, <3>7 DEF Cost
    <3> QED BY <3>1, <3>3, <3>5, <3>6, <3>8
  <2>3. \A j, k \in locks : j # k => part[j] \cap part[k] = {}
    BY DEF LedgerBooks
  <2> HIDE DEF T, part
  <2>4. \A k \in locks : IsFiniteSet(part[k]) /\ Cost[k] = SumFunctionOnSet(Amounts, part[k])
    BY <2>2
  <2>5. \A k \in locks : \A x \in part[k] : Amounts[x] \in Int
    BY <1>5, <2>2
  <2>6. SumFunctionOnSet(Cost, locks) = SumFunctionOnSet(Amounts, UNION {part[k] : k \in locks})
    BY <1>1, <2>3, <2>4, <2>5, SumFamily
  <2> QED BY <2>1, <2>6
<1>9. Worth(coins) = v(coins) /\ Worth(start) = v(start)
  BY <1>1, <1>2, WorthSum
<1> HIDE DEF T, v, start
<1>10. v(coins) + v(T) = v(start) + v(keys)
  BY <1>3, <1>6, <1>7
<1> QED BY <1>8, <1>9, <1>10 DEF v, start

AllKeys == UNION {brKeys[l] : l \in BLedger}

LEMMA LockFacts ==
    ASSUME BridgeTypes, BooksInv, NEW k \in AllLocks
    PROVE  /\ k \in BLock /\ k.id \in Transfer /\ k = LockOf(k.id, brPlan[k.id])
           /\ brPlan[k.id].from \in BLedger /\ k \in brLocks[brPlan[k.id].from]
           /\ k.dest = brPlan[k.id].to /\ k.amt = brPlan[k.id].amt /\ k.dest \in BLedger
<1>1. PICK l \in BLedger : k \in brLocks[l]
  BY DEF AllLocks
<1>2. k \in BLock
  BY <1>1 DEF BridgeTypes, BridgeLedgerTypes
<1>3. LedgerBooks(brPlan, l, brCoins[l], brLocks[l], brKeys[l])
  BY DEF BooksInv
<1>4. brPlan[k.id].from = l /\ k = LockOf(k.id, brPlan[k.id])
  BY <1>1, <1>3 DEF LedgerBooks
<1>5. k.dest = brPlan[k.id].to /\ k.amt = brPlan[k.id].amt
  BY <1>4 DEF LockOf
<1> QED BY <1>1, <1>2, <1>4, <1>5 DEF BLock

LEMMA KeyFacts ==
    ASSUME BridgeTypes, BooksInv, NEW m \in AllKeys
    PROVE  /\ m \in BCoin /\ m.id \in Transfer /\ m = MintOf(m.id, brPlan[m.id])
           /\ brPlan[m.id].to \in BLedger /\ m \in brKeys[brPlan[m.id].to]
<1>1. PICK l \in BLedger : m \in brKeys[l]
  BY DEF AllKeys
<1>2. m \in BCoin
  BY <1>1 DEF BridgeTypes, BridgeLedgerTypes
<1>3. LedgerBooks(brPlan, l, brCoins[l], brLocks[l], brKeys[l])
  BY DEF BooksInv
<1> QED BY <1>1, <1>2, <1>3 DEF LedgerBooks

\* The locks that were minted and the mints whose lock is there are the same
\* transfers, for the same amounts.
LEMMA MetIsMinted ==
    ASSUME BridgeTypes, BooksInv, IsFiniteSet(AllLocks)
    PROVE  SumFunctionOnSet(Amounts, AllKeys \ Torn) = SumFunctionOnSet(Locked, AllLocks \ Stranded)
<1> DEFINE Met == AllLocks \ Stranded
           h == [k \in BLock |-> MintOf(k.id, brPlan[k.id])]
<1>1. ASSUME NEW k \in Met
      PROVE  /\ h[k] \in AllKeys /\ h[k].id = k.id /\ h[k] \notin Torn
             /\ Locked[k] \in Int /\ Amounts[h[k]] = Locked[k]
  <2>1. PICK m \in brKeys[k.dest] : m.id = k.id
    BY DEF Stranded
  <2>2. k \in BLock /\ k.dest \in BLedger /\ k.amt = brPlan[k.id].amt
    BY LockFacts
  <2>3. m \in AllKeys
    BY <2>1, <2>2 DEF AllKeys
  <2>4. m = MintOf(m.id, brPlan[m.id]) /\ m \in BCoin
    BY <2>3, KeyFacts
  <2>5. h[k] = m
    BY <2>1, <2>2, <2>4
  <2>6. m.amt = k.amt
    BY <2>1, <2>2, <2>4 DEF MintOf
  <2>7. k.amt \in Int
    BY <2>2 DEF BLock
  <2> QED BY <2>1, <2>2, <2>3, <2>4, <2>5, <2>6, <2>7 DEF Torn, Amounts, Locked
<1>2. ASSUME NEW m \in AllKeys \ Torn
      PROVE  \E k \in Met : h[k] = m
  <2>1. PICK k \in AllLocks : k.id = m.id
    BY DEF Torn, AllKeys
  <2>2. k \in BLock /\ k.dest = brPlan[k.id].to
    BY LockFacts
  <2>3. m = MintOf(m.id, brPlan[m.id]) /\ m \in brKeys[brPlan[m.id].to]
    BY KeyFacts
  <2>4. k \in Met
    BY <2>1, <2>2, <2>3 DEF Stranded
  <2>5. h[k] = m
    BY <2>1, <2>2, <2>3
  <2> QED BY <2>4, <2>5
<1>3. \A j, k \in Met : h[j] = h[k] => j = k
  <2>1. \A k \in Met : k = LockOf(k.id, brPlan[k.id])
    BY LockFacts
  <2> QED BY <1>1, <2>1
<1> HIDE DEF Met, h
<1>4. AllKeys \ Torn = {h[k] : k \in Met}
  BY <1>1, <1>2
<1>5. IsFiniteSet(Met)
  BY FS_Subset DEF Met
<1>6. \A k \in Met : Locked[k] \in Int /\ Amounts[h[k]] = Locked[k]
  BY <1>1
<1>7. SumFunctionOnSet(Amounts, {h[k] : k \in Met}) = SumFunctionOnSet(Locked, Met)
  BY <1>3, <1>5, <1>6, SumImage
<1> QED BY <1>4, <1>7 DEF Met

\* The locks of all ledgers, and the mints, are summed ledger by ledger.
LEMMA LocksAndKeys ==
    ASSUME BridgeTypes, BooksInv
    PROVE  /\ IsFiniteSet(AllLocks) /\ IsFiniteSet(AllKeys)
           /\ SumFunctionOnSet([l \in BLedger |-> SumFunctionOnSet(Cost, brLocks[l])], BLedger)
                = SumFunctionOnSet(Cost, AllLocks)
           /\ SumFunctionOnSet([l \in BLedger |-> SumFunctionOnSet(Amounts, brKeys[l])], BLedger)
                = SumFunctionOnSet(Amounts, AllKeys)
<1> DEFINE B == [l \in BLedger |-> SumFunctionOnSet(Cost, brLocks[l])]
           D == [l \in BLedger |-> SumFunctionOnSet(Amounts, brKeys[l])]
<1>1. ASSUME NEW l \in BLedger
      PROVE  IsFiniteSet(brLocks[l]) /\ IsFiniteSet(brKeys[l])
  <2>1. LedgerBooks(brPlan, l, brCoins[l], brLocks[l], brKeys[l])
    BY DEF BooksInv
  <2>2. brLocks[l] \in SUBSET BLock
    BY DEF BridgeTypes, BridgeLedgerTypes
  <2> QED BY <2>1, <2>2, FiniteBooks
<1>2. IsFiniteSet(BLedger)
  BY BridgeAssumption
<1>3. IsFiniteSet(AllLocks) /\ IsFiniteSet(AllKeys)
  BY <1>1, <1>2, FamilyFinite DEF AllLocks, AllKeys
<1>4. \A l \in BLedger : B[l] = SumFunctionOnSet(Cost, brLocks[l]) /\ D[l] = SumFunctionOnSet(Amounts, brKeys[l])
  OBVIOUS
<1>5. \A i, j \in BLedger : i # j => brLocks[i] \cap brLocks[j] = {}
  BY DEF BooksInv, LedgerBooks
<1>6. \A i, j \in BLedger : i # j => brKeys[i] \cap brKeys[j] = {}
  BY DEF BooksInv, LedgerBooks
<1>7. \A l \in BLedger : \A k \in brLocks[l] : Cost[k] \in Int
  BY DEF Cost, BridgeTypes, BridgeLedgerTypes, BLock
<1>8. \A l \in BLedger : \A m \in brKeys[l] : Amounts[m] \in Int
  BY DEF Amounts, BridgeTypes, BridgeLedgerTypes, BCoin
<1> HIDE DEF B, D
<1>9. SumFunctionOnSet(B, BLedger) = SumFunctionOnSet(Cost, AllLocks)
  BY <1>1, <1>2, <1>4, <1>5, <1>7, SumFamily DEF AllLocks
<1>10. SumFunctionOnSet(D, BLedger) = SumFunctionOnSet(Amounts, AllKeys)
  BY <1>1, <1>2, <1>4, <1>6, <1>8, SumFamily DEF AllKeys
<1> QED BY <1>3, <1>9, <1>10 DEF B, D

\* The balances of all ledgers, added up.
LEMMA TotalBalance ==
    ASSUME BridgeTypes, BooksInv
    PROVE  /\ Total(brCoins) + SumFunctionOnSet(Cost, AllLocks) = Total(BStart) + SumFunctionOnSet(Amounts, AllKeys)
           /\ Total(brCoins) \in Int /\ Total(BStart) \in Int
<1> DEFINE A == [l \in BLedger |-> Worth(brCoins[l])]
           B == [l \in BLedger |-> SumFunctionOnSet(Cost, brLocks[l])]
           C == [l \in BLedger |-> Worth(BStart[l])]
           D == [l \in BLedger |-> SumFunctionOnSet(Amounts, brKeys[l])]
           E == [l \in BLedger |-> A[l] + B[l]]
<1>1. ASSUME NEW l \in BLedger
      PROVE  A[l] \in Int /\ B[l] \in Int /\ C[l] \in Int /\ D[l] \in Int /\ A[l] + B[l] = C[l] + D[l]
  <2>1. LedgerBooks(brPlan, l, brCoins[l], brLocks[l], brKeys[l])
    BY DEF BooksInv
  <2>2. brLocks[l] \in SUBSET BLock /\ brCoins[l] \in SUBSET BCoin /\ brKeys[l] \in SUBSET BCoin
    BY DEF BridgeTypes, BridgeLedgerTypes
  <2>3. IsFiniteSet(brLocks[l]) /\ IsFiniteSet(brKeys[l]) /\ IsFiniteSet(brCoins[l])
    BY <2>1, <2>2, FiniteBooks
  <2>4. BStart[l] \in SUBSET BCoin /\ IsFiniteSet(BStart[l])
    BY BridgeAssumption
  <2>5. Worth(brCoins[l]) \in Nat /\ Worth(BStart[l]) \in Nat
    BY <2>2, <2>3, <2>4, WorthSum
  <2>6. (\A k \in brLocks[l] : Cost[k] \in Int) /\ \A m \in brKeys[l] : Amounts[m] \in Int
    BY <2>2 DEF Cost, Amounts, BLock, BCoin
  <2>7. SumFunctionOnSet(Cost, brLocks[l]) \in Int /\ SumFunctionOnSet(Amounts, brKeys[l]) \in Int
    BY <2>3, <2>6, SumInt
  <2>8. Worth(brCoins[l]) + SumFunctionOnSet(Cost, brLocks[l])
          = Worth(BStart[l]) + SumFunctionOnSet(Amounts, brKeys[l])
    BY <2>1, <2>2, LedgerBalance DEF BridgeTypes
  <2> QED BY <2>5, <2>7, <2>8
<1>2. \A l \in BLedger : E[l] = A[l] + B[l]
  OBVIOUS
<1>3. Total(brCoins) = SumFunctionOnSet(A, BLedger) /\ Total(BStart) = SumFunctionOnSet(C, BLedger)
  BY DEF Total, SumFunction
<1>4. SumFunctionOnSet(B, BLedger) = SumFunctionOnSet(Cost, AllLocks)
  BY LocksAndKeys
<1>5. SumFunctionOnSet(D, BLedger) = SumFunctionOnSet(Amounts, AllKeys)
  BY LocksAndKeys
<1>6. IsFiniteSet(BLedger)
  BY BridgeAssumption
<1> HIDE DEF A, B, C, D, E
<1>7. SumFunctionOnSet(E, BLedger) = SumFunctionOnSet(A, BLedger) + SumFunctionOnSet(B, BLedger)
  BY <1>1, <1>2, <1>6, SumPlus
<1>8. \A l \in BLedger : C[l] \in Int /\ D[l] \in Int /\ E[l] = C[l] + D[l]
  BY <1>1, <1>2
<1>9. SumFunctionOnSet(E, BLedger) = SumFunctionOnSet(C, BLedger) + SumFunctionOnSet(D, BLedger)
  BY <1>6, <1>8, SumPlus
<1>10. SumFunctionOnSet(A, BLedger) \in Int /\ SumFunctionOnSet(C, BLedger) \in Int
  BY <1>1, <1>6, SumInt
<1> QED BY <1>3, <1>4, <1>5, <1>7, <1>9, <1>10

\* What is not minted, what is minted and what the locks took beyond it.
LEMMA LocksSplit ==
    ASSUME BridgeTypes, BooksInv
    PROVE  /\ SumFunctionOnSet(Cost, AllLocks)
                = Worth(Stranded) + SumFunctionOnSet(Locked, AllLocks \ Stranded) + Surplus(AllLocks)
           /\ SumFunctionOnSet(Amounts, AllKeys) = SumFunctionOnSet(Amounts, AllKeys \ Torn) + Worth(Torn)
           /\ SumFunctionOnSet(Locked, AllLocks \ Stranded) \in Int
           /\ Worth(Stranded) \in Int /\ Surplus(AllLocks) \in Int /\ Worth(Torn) \in Int
<1> DEFINE L == AllLocks
           N == Stranded
           M == AllLocks \ Stranded
           K == AllKeys
           T == Torn
           R == AllKeys \ Torn
           strand == [k \in N |-> k.amt]
           extra == [k \in L |-> k.surplus]
<1>1. N \subseteq L /\ T \subseteq K /\ L = N \cup M /\ N \cap M = {} /\ K = R \cup T /\ R \cap T = {}
  BY DEF Stranded, Torn, AllKeys
<1>2. IsFiniteSet(L) /\ IsFiniteSet(K)
  BY LocksAndKeys
<1>3. IsFiniteSet(N) /\ IsFiniteSet(M) /\ IsFiniteSet(R) /\ IsFiniteSet(T)
  BY <1>1, <1>2, FS_Subset
<1>4. ASSUME NEW k \in L
      PROVE  /\ Locked[k] \in Int /\ Beyond[k] \in Int /\ Cost[k] = Locked[k] + Beyond[k]
             /\ Locked[k] = k.amt /\ Beyond[k] = k.surplus
  BY LockFacts DEF Locked, Beyond, Cost, BLock
<1>5. \A m \in K : m \in BCoin /\ Amounts[m] \in Int
  BY KeyFacts DEF Amounts, BCoin
<1>6. Worth(N) = SumFunctionOnSet(strand, N) /\ Surplus(L) = SumFunctionOnSet(extra, L)
  BY DEF Worth, Surplus, SumFunction
<1>7. (\A k \in N : strand[k] = Locked[k]) /\ \A k \in L : extra[k] = Beyond[k]
  BY <1>1, <1>4
<1>8. Worth(T) = SumFunctionOnSet(Amounts, T) /\ Worth(T) \in Int
  BY <1>1, <1>3, <1>5, WorthSum
<1> HIDE DEF L, N, M, K, T, R, strand, extra
<1>9. (\A k \in N : Locked[k] \in Int) /\ \A k \in M : Locked[k] \in Int
  BY <1>1, <1>4
<1>10. SumFunctionOnSet(strand, N) = SumFunctionOnSet(Locked, N)
  BY <1>3, <1>7, <1>9, SumSame
<1>11. SumFunctionOnSet(extra, L) = SumFunctionOnSet(Beyond, L)
  BY <1>2, <1>4, <1>7, SumSame
<1>12. SumFunctionOnSet(Cost, L) = SumFunctionOnSet(Locked, L) + SumFunctionOnSet(Beyond, L)
  BY <1>2, <1>4, SumPlus
<1>13. SumFunctionOnSet(Locked, N \cup M) = SumFunctionOnSet(Locked, N) + SumFunctionOnSet(Locked, M)
  BY <1>1, <1>3, <1>9, SumUnion
<1>14. SumFunctionOnSet(Amounts, R \cup T) = SumFunctionOnSet(Amounts, R) + SumFunctionOnSet(Amounts, T)
  <2>1. \A m \in R \cup T : Amounts[m] \in Int
    BY <1>1, <1>5
  <2> QED BY <1>1, <1>3, <2>1, SumUnion
<1>15. SumFunctionOnSet(Locked, N) \in Int /\ SumFunctionOnSet(Locked, M) \in Int
  BY <1>3, <1>9, SumInt
<1>16. SumFunctionOnSet(Beyond, L) \in Int
  BY <1>2, <1>4, SumInt
<1>17. SumFunctionOnSet(Cost, L) = Worth(N) + SumFunctionOnSet(Locked, M) + Surplus(L)
  BY <1>1, <1>6, <1>10, <1>11, <1>12, <1>13, <1>15, <1>16
<1>18. SumFunctionOnSet(Amounts, K) = SumFunctionOnSet(Amounts, R) + Worth(T)
  BY <1>1, <1>8, <1>14
<1> QED BY <1>6, <1>8, <1>10, <1>11, <1>15, <1>16, <1>17, <1>18 DEF L, N, M, K, T, R

LEMMA Conserved ==
    ASSUME BridgeTypes, BooksInv
    PROVE  BridgeConserves
<1>1. SumFunctionOnSet(Amounts, AllKeys \ Torn) = SumFunctionOnSet(Locked, AllLocks \ Stranded)
  BY MetIsMinted, LocksAndKeys
<1>2. Total(brCoins) + Worth(Stranded) + Surplus(AllLocks) = Total(BStart) + Worth(Torn)
  BY <1>1, TotalBalance, LocksSplit
<1>3. brCrashes = 0 => Torn = {}
  BY DEF BooksInv, Torn
<1> QED BY <1>2, <1>3 DEF BridgeConserves

\* Whatever coins the transfers select and however they interleave, are
\* abandoned, submitted again, stored or cut by the end of the process: the
\* ledgers together hold what they held at the start, less what is locked and
\* not minted and what locks took beyond their amount; the end of the process
\* alone adds to it, by a mint stored before its lock (execute_transfer,
\* reconcile_bridge_mint, the claim of a lock in persist.rs).
THEOREM BridgeKeepsValue == BridgeSpec => []BridgeConserves
<1>1. BridgeInit => BridgeTypes /\ BooksInv
  BY BooksInit
<1>2. BridgeTypes /\ BooksInv /\ [TransferNext \/ DefNext]_brVars => (BridgeTypes /\ BooksInv)'
  BY BooksStep
<1>3. BridgeTypes /\ BooksInv => BridgeConserves
  BY Conserved
<1> QED BY <1>1, <1>2, <1>3, PTL DEF BridgeSpec

-----------------------------------------------------------------------------
(* Scans and tips.                                                         *)

Precedes(e, f) == e[1] < f[1] \/ (e[1] = f[1] /\ e[2] <= f[2])
HasLeast(T) == \E e \in T : \A f \in T : Precedes(e, f)

\* A scan that is not over has a next key.
LEMMA LeastKey ==
    ASSUME NEW S \in SUBSET (Int \X Int), S # {}, IsFiniteSet(S)
    PROVE  HasLeast(S)
<1> DEFINE Good == {T \in SUBSET S : T # {} => HasLeast(T)}
<1>0. \A e, f, g \in S : /\ Precedes(e, e) /\ (Precedes(e, f) \/ Precedes(f, e))
                         /\ Precedes(e, f) /\ Precedes(f, g) => Precedes(e, g)
  <2> SUFFICES ASSUME NEW e \in S, NEW f \in S, NEW g \in S
               PROVE  /\ Precedes(e, e) /\ (Precedes(e, f) \/ Precedes(f, e))
                      /\ Precedes(e, f) /\ Precedes(f, g) => Precedes(e, g)
    OBVIOUS
  <2>1. e[1] \in Int /\ e[2] \in Int /\ f[1] \in Int /\ f[2] \in Int /\ g[1] \in Int /\ g[2] \in Int
    OBVIOUS
  <2> QED BY <2>1 DEF Precedes
<1>1. ASSUME NEW T \in SUBSET S, T # {}, \A x \in T : T \ {x} \in Good
      PROVE  HasLeast(T)
  <2>1. PICK x \in T : TRUE
    BY <1>1
  <2>2. CASE T \ {x} = {}
    <3>1. \A n \in T : Precedes(x, n)
      BY <1>0, <2>2
    <3> QED BY <3>1 DEF HasLeast
  <2>3. CASE T \ {x} # {}
    <3>1. PICK m \in T \ {x} : \A n \in T \ {x} : Precedes(m, n)
      BY <1>1, <2>3 DEF HasLeast
    <3>2. CASE Precedes(m, x)
      <4>1. m \in T /\ \A n \in T : Precedes(m, n)
        BY <3>1, <3>2
      <4> QED BY <4>1 DEF HasLeast
    <3>3. CASE Precedes(x, m)
      <4>1. ASSUME NEW n \in T PROVE Precedes(x, n)
        <5>1. CASE n = x
          BY <1>0, <5>1
        <5>2. CASE n # x
          BY <1>0, <3>1, <3>3, <5>2
        <5> QED BY <5>1, <5>2
      <4> QED BY <4>1 DEF HasLeast
    <3> QED BY <1>0, <3>1, <3>2, <3>3
  <2> QED BY <2>2, <2>3
<1>2. {} \in Good
  OBVIOUS
<1>3. \A T \in SUBSET S : T # {} /\ (\A x \in T : T \ {x} \in Good) => T \in Good
  BY <1>1
<1> HIDE DEF Good
<1>4. \A T \in SUBSET S : T \in Good
  BY <1>2, <1>3, SubsetInduction, Zenon
<1> QED BY <1>4 DEF Good

LEMMA StoredFacts ==
    ASSUME StoreTypes
    PROVE  /\ disk.blocks \subseteq Int /\ IsFiniteSet(disk.blocks)
           /\ \A b \in disk.blocks : IsFiniteSet(ParentsOf[b]) /\ b \notin ParentsOf[b]
<1>1. disk.blocks \subseteq Stored
  BY DEF StoreTypes, Stored
<1>2. IsFiniteSet(disk.blocks)
  BY <1>1, StoreAssumption, FS_Subset
<1> QED BY <1>1, <1>2, StoreAssumption

\* The next key of a scan.
LEMMA HereFact ==
    ASSUME StoreTypes, BootTypes, boot.todo # {}
    PROVE  /\ Here \in boot.todo /\ Here[1] \in Int /\ Here[2] \in disk.blocks
           /\ \A f \in boot.todo : Precedes(Here, f)
<1>1. boot.todo \in SUBSET (Int \X Int) /\ IsFiniteSet(boot.todo) /\ boot.todo \subseteq Int \X disk.blocks
  BY StoredFacts DEF BootTypes
<1>2. PICK e \in boot.todo : \A f \in boot.todo : Precedes(e, f)
  BY <1>1, LeastKey DEF HasLeast
<1>3. Here \in boot.todo /\ \A f \in boot.todo : Precedes(Here, f)
  BY <1>2 DEF Here, Precedes
<1> QED BY <1>1, <1>3

-----------------------------------------------------------------------------
\* g is a table of the tips T without the members of the subsets of P, in the
\* order the fold takes them.
TipTable(T, P, g) ==
    g = [s \in SUBSET P |-> IF s = {} THEN T ELSE RemoveTip(g[s \ {Pick(s)}], Pick(s))]

LEMMA TipsUnfold ==
    ASSUME NEW T, NEW P
    PROVE  RemoveTips(T, P) = (CHOOSE g : TipTable(T, P, g))[P]
BY DEF RemoveTips, FoldSet, MapThenFoldSet, TipTable, Pick

\* With a tip that stays, or none that goes, removing the parents of a block one by
\* one removes them.
LEMMA TipsRemoved ==
    ASSUME NEW T, NEW P, IsFiniteSet(P), T \cap P = {} \/ \E b \in T : b \notin P
    PROVE  RemoveTips(T, P) = T \ P
<1> DEFINE h == [s \in SUBSET P |-> T \ s]
<1>1. \A s \in SUBSET P : s # {} => Pick(s) \in s /\ s \ {Pick(s)} \in SUBSET P
  BY DEF Pick
<1>2. ASSUME NEW s \in SUBSET P, s # {}
      PROVE  RemoveTip(T \ (s \ {Pick(s)}), Pick(s)) = T \ s
  <2>1. Pick(s) \in s /\ s \subseteq P
    BY <1>1, <1>2
  <2>2. CASE T \cap P = {}
    <3>1. T \ (s \ {Pick(s)}) = T /\ Pick(s) \notin T /\ T \ s = T /\ T # {Pick(s)}
      BY <2>1, <2>2
    <3> QED BY <3>1 DEF RemoveTip
  <2>3. CASE \E b \in T : b \notin P
    <3>1. PICK b \in T : b \notin P
      BY <2>3
    <3>2. b \in T \ (s \ {Pick(s)}) /\ b # Pick(s)
      BY <2>1, <3>1
    <3> QED BY <2>1, <3>2 DEF RemoveTip
  <2> QED BY <2>2, <2>3
<1>3. TipTable(T, P, h)
  <2>1. \A s \in SUBSET P : s # {} => h[s \ {Pick(s)}] = T \ (s \ {Pick(s)})
    BY <1>1
  <2>2. \A s \in SUBSET P : h[s] = IF s = {} THEN T ELSE RemoveTip(h[s \ {Pick(s)}], Pick(s))
    BY <1>2, <2>1
  <2>3. h = [s \in SUBSET P |-> h[s]]
    OBVIOUS
  <2> HIDE DEF h
  <2>4. h = [s \in SUBSET P |-> IF s = {} THEN T ELSE RemoveTip(h[s \ {Pick(s)}], Pick(s))]
    BY <2>2, <2>3
  <2> QED BY <2>4 DEF TipTable
<1> DEFINE g == CHOOSE k : TipTable(T, P, k)
<1>4. TipTable(T, P, g)
  <2> HIDE DEF h
  <2> QED BY <1>3
<1>5. RemoveTips(T, P) = g[P]
  BY TipsUnfold
<1> HIDE DEF g
<1>6. \A s \in SUBSET P : g[s] = IF s = {} THEN T ELSE RemoveTip(g[s \ {Pick(s)}], Pick(s))
  BY <1>4 DEF TipTable
<1> DEFINE Same == {s \in SUBSET P : g[s] = T \ s}
<1>7. {} \in Same
  BY <1>6
<1>8. ASSUME NEW s \in SUBSET P, s # {}, \A x \in s : s \ {x} \in Same PROVE s \in Same
  <2>1. g[s \ {Pick(s)}] = T \ (s \ {Pick(s)})
    BY <1>1, <1>8
  <2> QED BY <1>2, <1>6, <1>8, <2>1
<1> HIDE DEF Same
<1>9. \A s \in SUBSET P : s \in Same
  BY <1>7, <1>8, SubsetInduction
<1> QED BY <1>5, <1>9 DEF Same
-----------------------------------------------------------------------------
(* What the steps do, field by field.                                      *)

Rest(fields) == \A f \in {"ver", "dag", "blocks", "tips", "byTime", "id2ts", "addrs", "typed"} \ fields :
                    disk'[f] = disk[f]

Shape == disk = [ver |-> disk.ver, dag |-> disk.dag, blocks |-> disk.blocks, tips |-> disk.tips,
                 byTime |-> disk.byTime, id2ts |-> disk.id2ts, addrs |-> disk.addrs,
                 typed |-> disk.typed]

\* One field of the store is written.
LEMMA FieldWritten ==
    ASSUME StoreTypes, NEW x
    PROVE  /\ disk' = [disk EXCEPT !.ver = x] => Shape' /\ Rest({"ver"}) /\ disk'.ver = x
           /\ disk' = [disk EXCEPT !.dag = x] => Shape' /\ Rest({"dag"}) /\ disk'.dag = x
           /\ disk' = [disk EXCEPT !.tips = x] => Shape' /\ Rest({"tips"}) /\ disk'.tips = x
           /\ disk' = [disk EXCEPT !.byTime = x] => Shape' /\ Rest({"byTime"}) /\ disk'.byTime = x
           /\ disk' = [disk EXCEPT !.id2ts = x] => Shape' /\ Rest({"id2ts"}) /\ disk'.id2ts = x
           /\ disk' = [disk EXCEPT !.addrs = x] => Shape' /\ Rest({"addrs"}) /\ disk'.addrs = x
           /\ disk' = [disk EXCEPT !.typed = x] => Shape' /\ Rest({"typed"}) /\ disk'.typed = x
<1>1. Shape
  BY DEF Shape, StoreTypes
<1>2. ASSUME disk' = [disk EXCEPT !.ver = x] PROVE Shape' /\ Rest({"ver"}) /\ disk'.ver = x
  BY <1>1, <1>2 DEF Shape, Rest
<1>3. ASSUME disk' = [disk EXCEPT !.dag = x] PROVE Shape' /\ Rest({"dag"}) /\ disk'.dag = x
  BY <1>1, <1>3 DEF Shape, Rest
<1>4. ASSUME disk' = [disk EXCEPT !.tips = x] PROVE Shape' /\ Rest({"tips"}) /\ disk'.tips = x
  BY <1>1, <1>4 DEF Shape, Rest
<1>5. ASSUME disk' = [disk EXCEPT !.byTime = x] PROVE Shape' /\ Rest({"byTime"}) /\ disk'.byTime = x
  BY <1>1, <1>5 DEF Shape, Rest
<1>6. ASSUME disk' = [disk EXCEPT !.id2ts = x] PROVE Shape' /\ Rest({"id2ts"}) /\ disk'.id2ts = x
  BY <1>1, <1>6 DEF Shape, Rest
<1>7. ASSUME disk' = [disk EXCEPT !.addrs = x] PROVE Shape' /\ Rest({"addrs"}) /\ disk'.addrs = x
  BY <1>1, <1>7 DEF Shape, Rest
<1>8. ASSUME disk' = [disk EXCEPT !.typed = x] PROVE Shape' /\ Rest({"typed"}) /\ disk'.typed = x
  BY <1>1, <1>8 DEF Shape, Rest
<1> QED BY <1>2, <1>3, <1>4, <1>5, <1>6, <1>7, <1>8

\* The scan goes on behind the key at hand, or the migration ends.
Advance(todo, half, ts) ==
    boot' = [phase |-> boot.phase, v |-> boot.v, running |-> boot.running, todo |-> todo,
             half |-> half, ts |-> ts, fresh |-> boot.fresh]

LEMMA BootFields ==
    ASSUME BootTypes
    PROVE  /\ boot' = Onward => Advance(boot.todo \ {Here}, FALSE, boot.ts)
           /\ boot' = [Onward EXCEPT !.ts = @ + 1] => Advance(boot.todo \ {Here}, FALSE, boot.ts + 1)
           /\ boot' = [boot EXCEPT !.half = TRUE] => Advance(boot.todo, TRUE, boot.ts)
BY DEF BootTypes, Onward, Advance

-----------------------------------------------------------------------------
(* The store and the process keep their types.                             *)

LEMMA StampsFinite ==
    ASSUME NEW f, NEW S, IsFiniteSet(S) PROVE IsFiniteSet({<<f[b], b>> : b \in S})
<1> DEFINE h == [b \in S |-> <<f[b], b>>]
<1>1. IsFiniteSet({h[b] : b \in S})
  <2> HIDE DEF h
  <2> QED BY ImageFinite
<1>2. {h[b] : b \in S} = {<<f[b], b>> : b \in S}
  OBVIOUS
<1> QED BY <1>1, <1>2

LEMMA TypesInit == MaintenanceInit => StoreTypes /\ BootTypes
<1> SUFFICES ASSUME MaintenanceInit PROVE StoreTypes /\ BootTypes
  OBVIOUS
<1>1. BootTypes
  <2>1. boot = Down /\ IsFiniteSet({})
    BY FS_EmptySet DEF MaintenanceInit
  <2> QED BY <2>1 DEF BootTypes, Down
<1>2. ASSUME NEW v \in Nat, NEW d \in {NoVersion} \cup (Nat \X Nat), NEW B \in {{}, OldBlocks},
             NEW T \in SUBSET B, disk = StoreOf(v, d, B, T)
      PROVE  StoreTypes
  <2>1. B \subseteq Int /\ IsFiniteSet(B)
    <3>1. B \subseteq Stored
      BY DEF Stored
    <3> QED BY <3>1, StoreAssumption, FS_Subset
  <2> DEFINE stamp == [b \in B \ T |-> FirstRealTs + b]
  <2>2. stamp \in [B \ T -> Int] /\ DOMAIN stamp = B \ T
    BY <2>1 DEF FirstRealTs
  <2>3. /\ disk.ver = v /\ disk.dag = d /\ disk.blocks = B /\ disk.id2ts = stamp
        /\ disk.byTime = {<<stamp[b], b>> : b \in DOMAIN stamp}
        /\ disk.tips = IF v >= 2 THEN {b \in B : Children(B, b) = {}} ELSE {}
    BY <1>2 DEF StoreOf
  <2>4. Shape
    BY <1>2 DEF StoreOf, Shape
  <2> HIDE DEF stamp
  <2>5. IsFiniteSet(B \ T)
    BY <2>1, FS_Subset
  <2>6. IsFiniteSet(disk.byTime)
    BY <2>2, <2>3, <2>5, StampsFinite
  <2>7. disk.byTime \subseteq Int \X B
    BY <2>2, <2>3
  <2>8. disk.tips \subseteq B
    BY <2>3
  <2> QED BY <2>2, <2>3, <2>4, <2>6, <2>7, <2>8 DEF StoreTypes, Shape
<1>3. CASE disk = StoreOf(0, NoVersion, {}, {})
  <2>1. /\ 0 \in Nat /\ NoVersion \in {NoVersion} \cup (Nat \X Nat)
        /\ {} \in {{}, OldBlocks} /\ {} \in SUBSET {}
    OBVIOUS
  <2> QED BY <1>1, <1>2, <1>3, <2>1, Zenon
<1>4. ASSUME NEW s \in OldStores, NEW T \in SUBSET OldBlocks, disk = StoreOf(s[1], s[2], OldBlocks, T)
      PROVE  StoreTypes
  <2>1. s[1] \in Nat /\ s[2] \in {NoVersion} \cup (Nat \X Nat)
    BY StoreAssumption
  <2> QED BY <1>2, <1>4, <2>1
<1>5. \/ disk = StoreOf(0, NoVersion, {}, {})
      \/ \E s \in OldStores : \E T \in SUBSET OldBlocks : disk = StoreOf(s[1], s[2], OldBlocks, T)
  BY DEF MaintenanceInit
<1> QED BY <1>1, <1>3, <1>4, <1>5, Zenon

\* The steps that write nothing, and the process that ends.
LEMMA QuietSteps ==
    ASSUME \/ OpenStore \/ BeginMigration \/ SchemaReady \/ NotFresh \/ StopProcess
           \/ UNCHANGED mtVars
    PROVE  disk' = disk
BY DEF OpenStore, BeginMigration, SchemaReady, NotFresh, StopProcess, mtVars

\* What a migration of the store finds at its key.
LEMMA ScanFact ==
    ASSUME StoreTypes, BootTypes, NEW v, InScan(v)
    PROVE  /\ boot.phase = "schema" /\ boot.running /\ boot.v = v /\ disk.ver = v /\ Scanning(v)
           /\ boot.todo # {} /\ Here \in boot.todo /\ Here[2] \in disk.blocks /\ Here[1] \in Int
<1>1. boot.phase = "schema" /\ boot.running /\ boot.v = v /\ boot.todo # {}
  BY DEF InScan
<1>2. boot.v = disk.ver
  BY <1>1 DEF BootTypes
<1> QED BY <1>1, <1>2, HereFact DEF Scanning

\* The writes of each migration at its key b = Here[2].
\* The tips are left as they are, or only real ones stay, all or as many as the limit.
TrimmedTo(T) ==
    \/ T = disk.tips
    \/ /\ T \subseteq RealTips(disk.blocks, disk.tips)
       /\ \/ RealTips(disk.blocks, disk.tips) \subseteq T
          \/ TipLimit # 0 /\ Cardinality(T) = TipLimit

LEMMA TrimFact ==
    ASSUME NEW T \in trim_tips(disk.tips)
    PROVE  TrimmedTo(T) /\ T \subseteq disk.tips
BY DEF trim_tips, TrimmedTo, kSubset, OverLimit, RealTips

LEMMA TipsWrite ==
    ASSUME StoreTypes, BootTypes, mig_1_to_2
    PROVE  /\ Shape' /\ Rest({"tips"}) /\ Here[2] \in disk.blocks
           /\ UNCHANGED <<boots, keptEntries, torn, stillborn>>
           /\ \/ /\ ~boot.half /\ disk'.tips = disk.tips \cup {Here[2]} /\ keptTips' = keptTips
                 /\ Advance(boot.todo, TRUE, boot.ts)
              \/ /\ boot.half /\ Here[2] \in disk.tips /\ Advance(boot.todo \ {Here}, FALSE, boot.ts)
                 /\ \E T \in SUBSET disk.tips, F \in SUBSET ParentsOf[Here[2]] :
                       /\ TrimmedTo(T) /\ disk'.tips = T \ (ParentsOf[Here[2]] \ F)
                       /\ keptTips' = keptTips \cup F
<1> DEFINE b == Here[2]
<1>1. b \in disk.blocks /\ boot.v = 1 /\ (boot.half => b \in disk.tips) /\ disk.tips \subseteq disk.blocks
  BY ScanFact DEF mig_1_to_2, BootTypes, StoreTypes
<1>2. IsFiniteSet(ParentsOf[b]) /\ b \notin ParentsOf[b]
  BY <1>1, StoredFacts
<1>3. UNCHANGED <<boots, keptEntries, torn, stillborn>>
  BY DEF mig_1_to_2
<1>4. \/ /\ ~boot.half /\ disk' = [disk EXCEPT !.tips = disk.tips \cup {b}] /\ keptTips' = keptTips
         /\ boot' = [boot EXCEPT !.half = TRUE]
      \/ /\ boot.half /\ boot' = Onward
         /\ \E T \in trim_tips(disk.tips), F \in SUBSET ParentsOf[b] :
               /\ disk' = [disk EXCEPT !.tips = RemoveTips(T, ParentsOf[b] \ F)]
               /\ keptTips' = keptTips \cup F
  BY DEF mig_1_to_2, StoreTypes
<1>5. CASE /\ ~boot.half /\ disk' = [disk EXCEPT !.tips = disk.tips \cup {b}] /\ keptTips' = keptTips
           /\ boot' = [boot EXCEPT !.half = TRUE]
  BY <1>1, <1>3, <1>5, FieldWritten, BootFields
<1>6. ASSUME boot.half, boot' = Onward, NEW T \in trim_tips(disk.tips), NEW F \in SUBSET ParentsOf[b],
             disk' = [disk EXCEPT !.tips = RemoveTips(T, ParentsOf[b] \ F)], keptTips' = keptTips \cup F
      PROVE  /\ Shape' /\ Rest({"tips"}) /\ Advance(boot.todo \ {Here}, FALSE, boot.ts)
             /\ T \in SUBSET disk.tips /\ TrimmedTo(T) /\ disk'.tips = T \ (ParentsOf[b] \ F)
  <2>1. TrimmedTo(T) /\ T \subseteq disk.tips
    BY <1>6, TrimFact
  <2>2. IsFiniteSet(ParentsOf[b] \ F) /\ b \notin ParentsOf[b] \ F
    BY <1>2, FS_Subset
  <2>3. T \cap (ParentsOf[b] \ F) = {} \/ \E c \in T : c \notin ParentsOf[b] \ F
    <3>1. CASE T = disk.tips
      BY <1>1, <1>6, <2>2, <3>1
    <3>2. CASE T \subseteq RealTips(disk.blocks, disk.tips)
      BY <1>1, <3>2 DEF RealTips, Children
    <3> QED BY <2>1, <3>1, <3>2 DEF TrimmedTo
  <2>4. RemoveTips(T, ParentsOf[b] \ F) = T \ (ParentsOf[b] \ F)
    BY <2>2, <2>3, TipsRemoved
  <2> HIDE DEF b
  <2> QED BY <1>6, <2>1, <2>4, FieldWritten, BootFields
<1> QED BY <1>1, <1>3, <1>4, <1>5, <1>6

LEMMA TimeWrite ==
    ASSUME StoreTypes, BootTypes, mig_2_to_3
    PROVE  /\ UNCHANGED <<boots, torn, stillborn>>
           /\ \/ /\ Here[2] \in DOMAIN disk.id2ts /\ UNCHANGED disk
                 /\ Advance(boot.todo \ {Here}, FALSE, boot.ts)
              \/ /\ Here[2] \notin DOMAIN disk.id2ts /\ ~boot.half /\ Shape' /\ Rest({"byTime"})
                 /\ disk'.byTime = disk.byTime \cup {<<boot.ts, Here[2]>>}
                 /\ Advance(boot.todo, TRUE, boot.ts)
              \/ /\ Here[2] \notin DOMAIN disk.id2ts /\ boot.half /\ Shape' /\ Rest({"id2ts"})
                 /\ disk'.id2ts = Stamped(Here[2], boot.ts)
                 /\ Advance(boot.todo \ {Here}, FALSE, boot.ts + 1)
<1>1. UNCHANGED <<boots, torn, stillborn>>
  BY DEF mig_2_to_3
<1>2. \/ Here[2] \in DOMAIN disk.id2ts /\ boot' = Onward /\ UNCHANGED disk
      \/ /\ Here[2] \notin DOMAIN disk.id2ts /\ ~boot.half
         /\ disk' = [disk EXCEPT !.byTime = disk.byTime \cup {<<boot.ts, Here[2]>>}]
         /\ boot' = [boot EXCEPT !.half = TRUE]
      \/ /\ Here[2] \notin DOMAIN disk.id2ts /\ boot.half
         /\ disk' = [disk EXCEPT !.id2ts = Stamped(Here[2], boot.ts)]
         /\ boot' = [Onward EXCEPT !.ts = @ + 1]
  BY DEF mig_2_to_3, StoreTypes
<1>3. CASE Here[2] \in DOMAIN disk.id2ts /\ boot' = Onward /\ UNCHANGED disk
  BY <1>1, <1>3, BootFields
<1>4. CASE /\ Here[2] \notin DOMAIN disk.id2ts /\ ~boot.half
           /\ disk' = [disk EXCEPT !.byTime = disk.byTime \cup {<<boot.ts, Here[2]>>}]
           /\ boot' = [boot EXCEPT !.half = TRUE]
  BY <1>1, <1>4, FieldWritten, BootFields
<1>5. CASE /\ Here[2] \notin DOMAIN disk.id2ts /\ boot.half
           /\ disk' = [disk EXCEPT !.id2ts = Stamped(Here[2], boot.ts)]
           /\ boot' = [Onward EXCEPT !.ts = @ + 1]
  BY <1>1, <1>5, FieldWritten, BootFields
<1> QED BY <1>2, <1>3, <1>4, <1>5

LEMMA AddrsWrite ==
    ASSUME StoreTypes, BootTypes, mig_3_to_4
    PROVE  /\ Shape' /\ Rest({"addrs"}) /\ Advance(boot.todo \ {Here}, FALSE, boot.ts)
           /\ disk'.addrs = disk.addrs \cup AddrsOf(Here[2])
           /\ UNCHANGED <<boots, torn, stillborn>>
<1>1. disk' = [disk EXCEPT !.addrs = disk.addrs \cup AddrsOf(Here[2])]
  BY DEF mig_3_to_4, StoreTypes, AddrsOf
<1>2. boot' = Onward /\ UNCHANGED <<boots, torn, stillborn>>
  BY DEF mig_3_to_4
<1> QED BY <1>1, <1>2, FieldWritten, BootFields

LEMMA TypedWrite ==
    ASSUME StoreTypes, BootTypes, mig_4_to_5
    PROVE  /\ Shape' /\ Rest({"typed"}) /\ Advance(boot.todo \ {Here}, FALSE, boot.ts)
           /\ disk'.typed = disk.typed \cup TypedOf(Here[2])
           /\ UNCHANGED <<boots, torn, stillborn>>
<1>1. disk' = [disk EXCEPT !.typed = disk.typed \cup TypedOf(Here[2])]
  BY DEF mig_4_to_5, StoreTypes, TypedOf
<1>2. boot' = Onward /\ UNCHANGED <<boots, torn, stillborn>>
  BY DEF mig_4_to_5
<1> QED BY <1>1, <1>2, FieldWritten, BootFields

LEMMA RefileWrite ==
    ASSUME StoreTypes, BootTypes, mig_5_to_6
    PROVE  /\ UNCHANGED <<boots, keptTips, torn, stillborn>>
           /\ \/ /\ FeeOnly(Here[2]) = {} /\ UNCHANGED <<disk, keptEntries>>
                 /\ Advance(boot.todo \ {Here}, FALSE, boot.ts)
              \/ /\ FeeOnly(Here[2]) # {} /\ ~boot.half /\ Shape' /\ Rest({"typed"})
                 /\ disk'.typed = disk.typed \cup TypedOf(Here[2]) /\ UNCHANGED keptEntries
                 /\ Advance(boot.todo, TRUE, boot.ts)
              \/ /\ FeeOnly(Here[2]) # {} /\ boot.half /\ Shape' /\ Rest({"typed"})
                 /\ \E F \in SUBSET StaleOf(Here[2]) :
                       /\ disk'.typed = disk.typed \ (StaleOf(Here[2]) \ F)
                       /\ keptEntries' = keptEntries \cup F
                 /\ Advance(boot.todo \ {Here}, FALSE, boot.ts)
<1>1. UNCHANGED <<boots, keptTips, torn, stillborn>>
  BY DEF mig_5_to_6
<1>2. \/ FeeOnly(Here[2]) = {} /\ boot' = Onward /\ UNCHANGED <<disk, keptEntries>>
      \/ /\ FeeOnly(Here[2]) # {} /\ ~boot.half /\ UNCHANGED keptEntries
         /\ disk' = [disk EXCEPT !.typed = disk.typed \cup TypedOf(Here[2])]
         /\ boot' = [boot EXCEPT !.half = TRUE]
      \/ /\ FeeOnly(Here[2]) # {} /\ boot.half /\ boot' = Onward
         /\ \E F \in SUBSET StaleOf(Here[2]) :
               /\ disk' = [disk EXCEPT !.typed = disk.typed \ (StaleOf(Here[2]) \ F)]
               /\ keptEntries' = keptEntries \cup F
  BY DEF mig_5_to_6, StoreTypes, TypedOf, StaleOf
<1>3. CASE FeeOnly(Here[2]) = {} /\ boot' = Onward /\ UNCHANGED <<disk, keptEntries>>
  BY <1>1, <1>3, BootFields
<1>4. CASE /\ FeeOnly(Here[2]) # {} /\ ~boot.half /\ UNCHANGED keptEntries
           /\ disk' = [disk EXCEPT !.typed = disk.typed \cup TypedOf(Here[2])]
           /\ boot' = [boot EXCEPT !.half = TRUE]
  BY <1>1, <1>4, FieldWritten, BootFields
<1>5. ASSUME FeeOnly(Here[2]) # {}, boot.half, boot' = Onward, NEW F \in SUBSET StaleOf(Here[2]),
             disk' = [disk EXCEPT !.typed = disk.typed \ (StaleOf(Here[2]) \ F)],
             keptEntries' = keptEntries \cup F
      PROVE  /\ Shape' /\ Rest({"typed"}) /\ Advance(boot.todo \ {Here}, FALSE, boot.ts)
             /\ disk'.typed = disk.typed \ (StaleOf(Here[2]) \ F)
  BY <1>5, FieldWritten, BootFields
<1> QED BY <1>1, <1>2, <1>3, <1>4, <1>5

\* A delete that failed is remembered until its migration is run again.
LEMMA KeptGrow ==
    ASSUME [MaintenanceNext]_mtVars, ~BeginMigration
    PROVE  keptTips \subseteq keptTips' /\ keptEntries \subseteq keptEntries'
<1>1. CASE mig_1_to_2
  BY <1>1 DEF mig_1_to_2
<1>2. CASE mig_5_to_6
  BY <1>2 DEF mig_5_to_6
<1>3. CASE mig_2_to_3 \/ mig_3_to_4 \/ mig_4_to_5
  BY <1>3 DEF mig_2_to_3, mig_3_to_4, mig_4_to_5
<1>4. CASE \/ OpenStore \/ set_version \/ SchemaReady \/ persist_genesis \/ NotFresh
           \/ set_dag_version \/ CheckVersion \/ StopProcess \/ UNCHANGED mtVars
  BY <1>4 DEF OpenStore, set_version, SchemaReady, persist_genesis, NotFresh, set_dag_version,
              CheckVersion, StopProcess, mtVars
<1> QED BY <1>1, <1>2, <1>3, <1>4 DEF MaintenanceNext

\* What is written beside the migrations.
LEMMA VersionWrite ==
    ASSUME StoreTypes, BootTypes, set_version
    PROVE  /\ Shape' /\ Rest({"ver"}) /\ disk'.ver = disk.ver + 1 /\ UNCHANGED <<torn, stillborn>>
           /\ boot.phase = "schema" /\ boot.running /\ boot.v = disk.ver /\ boot.todo = {} /\ ~boot.half
           /\ boot'.phase = "schema" /\ boot'.v = disk.ver + 1 /\ ~boot'.running /\ boot'.todo = {}
           /\ ~boot'.half /\ boot'.ts = boot.ts /\ boot'.fresh = boot.fresh
<1>1. /\ boot.phase = "schema" /\ boot.running /\ boot.v = disk.ver /\ boot.todo = {} /\ ~boot.half
      /\ disk' = [disk EXCEPT !.ver = disk.ver + 1] /\ UNCHANGED <<torn, stillborn>>
  BY DEF set_version, BootTypes
<1>2. boot' = [boot EXCEPT !.running = FALSE, !.v = @ + 1]
  BY DEF set_version
<1> QED BY <1>1, <1>2, FieldWritten DEF BootTypes

LEMMA GenesisWrite ==
    ASSUME StoreTypes, BootTypes, PhaseInv, persist_genesis
    PROVE  /\ Shape' /\ disk'.ver = disk.ver /\ disk'.dag = disk.dag /\ disk.ver >= CURRENT_VER
           /\ disk'.blocks = {Genesis} /\ disk'.tips = {Genesis}
           /\ DOMAIN disk'.id2ts = {Genesis} /\ disk'.id2ts \in [{Genesis} -> Int]
           /\ disk'.byTime = {<<disk'.id2ts[Genesis], Genesis>>}
           /\ disk'.addrs = AddrsOf(Genesis)' /\ disk'.typed = TypedOf(Genesis)'
           /\ boot' = [boot EXCEPT !.phase = "version"] /\ UNCHANGED <<torn, stillborn>>
           /\ boot.phase = "genesis" /\ boot.fresh /\ disk.dag = NoVersion /\ boot.todo = {} /\ ~boot.half
<1>1. /\ disk' = [StoreOf(disk.ver, disk.dag, {Genesis}, {}) EXCEPT !.tips = {Genesis}]
      /\ boot' = [boot EXCEPT !.phase = "version"] /\ UNCHANGED <<torn, stillborn>>
      /\ boot.phase = "genesis" /\ boot.fresh
  BY DEF persist_genesis
<1>2. disk.ver >= CURRENT_VER /\ disk.blocks = {} /\ disk.dag = NoVersion
  BY <1>1 DEF PhaseInv
<1>3. boot.todo = {} /\ ~boot.half
  BY <1>1 DEF BootTypes
<1> DEFINE stamp == [b \in {Genesis} \ {} |-> FirstRealTs + b]
<1>4. DOMAIN stamp = {Genesis} /\ stamp \in [{Genesis} -> Int]
  BY StoreAssumption DEF FirstRealTs, Stored
<1>5. /\ Shape' /\ disk'.ver = disk.ver /\ disk'.dag = disk.dag
      /\ disk'.blocks = {Genesis} /\ disk'.tips = {Genesis} /\ disk'.id2ts = stamp
      /\ disk'.byTime = {<<stamp[b], b>> : b \in DOMAIN stamp}
      /\ disk'.addrs = (IF disk.ver >= 4 THEN UNION {{<<a, stamp[b], b>> : a \in Addresses(b)} : b \in {Genesis}} ELSE {})
      /\ disk'.typed = (IF disk.ver >= 5 THEN UNION {{<<x, stamp[b], b>> :
                            x \in (IF disk.ver >= 6 THEN NewTyped ELSE OldTyped)[b]} : b \in {Genesis}} ELSE {})
  BY <1>1 DEF StoreOf, Shape
<1> HIDE DEF stamp
<1>6. disk.ver >= 4 /\ disk.ver >= 5 /\ disk.ver >= 6
  BY <1>2 DEF CURRENT_VER, StoreTypes
<1>7. disk'.byTime = {<<stamp[Genesis], Genesis>>}
  BY <1>4, <1>5
<1>8. disk'.addrs = AddrsOf(Genesis)'
  BY <1>5, <1>6 DEF AddrsOf
<1>9. disk'.typed = TypedOf(Genesis)'
  BY <1>5, <1>6 DEF TypedOf
<1> QED BY <1>1, <1>2, <1>3, <1>4, <1>5, <1>7, <1>8, <1>9

LEMMA DagWrite ==
    ASSUME StoreTypes, BootTypes, set_dag_version \/ CheckVersion
    PROVE  /\ UNCHANGED <<torn, stillborn>> /\ boot.phase = "version"
           /\ \/ /\ Shape' /\ Rest({"dag"}) /\ disk'.dag = DAG_VERSION
                 /\ boot' = [boot EXCEPT !.phase = "up"]
              \/ /\ ~boot.fresh /\ UNCHANGED disk /\ boot' = [boot EXCEPT !.phase = "refused"]
                 /\ check_dag_compatibility(get_dag_version, DAG_VERSION) # "compatible"
<1>1. /\ UNCHANGED <<torn, stillborn>> /\ boot.phase = "version"
      /\ \/ disk' = [disk EXCEPT !.dag = DAG_VERSION] /\ boot' = [boot EXCEPT !.phase = "up"]
         \/ /\ ~boot.fresh /\ UNCHANGED disk /\ boot' = [boot EXCEPT !.phase = "refused"]
            /\ check_dag_compatibility(get_dag_version, DAG_VERSION) # "compatible"
  BY DEF set_dag_version, CheckVersion
<1> QED BY <1>1, FieldWritten

-----------------------------------------------------------------------------
\* The keys a migration starts from.
LEMMA ScanKeys ==
    ASSUME StoreTypes, NEW v \in Nat, v < CURRENT_VER
    PROVE  Scan(v) \subseteq Int \X disk.blocks /\ IsFiniteSet(Scan(v))
<1>1. IsFiniteSet({<<0, b>> : b \in disk.blocks})
  <2> DEFINE zero == [b \in disk.blocks |-> 0]
  <2>1. IsFiniteSet({<<zero[b], b>> : b \in disk.blocks})
    <3> HIDE DEF zero
    <3> QED BY StoredFacts, StampsFinite
  <2>2. {<<zero[b], b>> : b \in disk.blocks} = {<<0, b>> : b \in disk.blocks}
    OBVIOUS
  <2> QED BY <2>1, <2>2
<1>2. disk.byTime \subseteq Int \X disk.blocks /\ IsFiniteSet(disk.byTime)
  BY DEF StoreTypes
<1>3. Scan(v) \in {{}, {<<0, b>> : b \in disk.blocks}, disk.byTime}
  BY DEF Scan, MarkerOnly, CURRENT_VER
<1> QED BY <1>1, <1>2, <1>3, FS_EmptySet

LEMMA StoreTypesStep == StoreTypes /\ BootTypes /\ PhaseInv /\ [MaintenanceNext]_mtVars => StoreTypes'
<1> SUFFICES ASSUME StoreTypes, BootTypes, PhaseInv, [MaintenanceNext]_mtVars PROVE StoreTypes'
  OBVIOUS
<1>0. /\ disk.ver \in Nat /\ disk.dag \in {NoVersion} \cup (Nat \X Nat)
      /\ disk.blocks \in {{}, OldBlocks, {Genesis}} /\ disk.tips \subseteq disk.blocks
      /\ disk.byTime \subseteq Int \X disk.blocks /\ IsFiniteSet(disk.byTime)
      /\ DOMAIN disk.id2ts \subseteq disk.blocks /\ disk.id2ts \in [DOMAIN disk.id2ts -> Int]
      /\ boot.ts \in Int
  BY DEF StoreTypes, BootTypes
<1>1. CASE disk' = disk
  BY <1>1 DEF StoreTypes
<1>2. CASE mig_1_to_2
  <2>1. Shape' /\ Rest({"tips"}) /\ disk'.tips \subseteq disk.tips \cup {Here[2]}
    BY <1>2, TipsWrite
  <2>2. Here[2] \in disk.blocks
    BY <1>2, ScanFact DEF mig_1_to_2
  <2> QED BY <1>0, <2>1, <2>2 DEF StoreTypes, Shape, Rest
<1>3. CASE mig_2_to_3
  <2>1. Here[2] \in disk.blocks
    BY <1>3, ScanFact DEF mig_2_to_3
  <2>2. CASE Shape' /\ Rest({"byTime"}) /\ disk'.byTime = disk.byTime \cup {<<boot.ts, Here[2]>>}
    <3>1. IsFiniteSet(disk'.byTime)
      <4>1. \A x : IsFiniteSet(disk.byTime \cup {x})
        BY <1>0, FS_AddElement, Zenon
      <4> QED BY <2>2, <4>1, Zenon
    <3>2. disk'.byTime \subseteq Int \X disk.blocks
      BY <1>0, <2>1, <2>2
    <3> QED BY <1>0, <2>2, <3>1, <3>2 DEF StoreTypes, Shape, Rest
  <2>3. CASE Shape' /\ Rest({"id2ts"}) /\ disk'.id2ts = Stamped(Here[2], boot.ts)
    <3>1. DOMAIN disk'.id2ts = DOMAIN disk.id2ts \cup {Here[2]} /\ disk'.id2ts \in [DOMAIN disk'.id2ts -> Int]
      BY <1>0, <2>3 DEF Stamped
    <3>2. DOMAIN disk'.id2ts \subseteq disk.blocks
      BY <1>0, <2>1, <3>1
    <3> QED BY <1>0, <2>3, <3>1, <3>2 DEF StoreTypes, Shape, Rest
  <2> QED BY <1>1, <1>3, <2>2, <2>3, TimeWrite
<1>4. CASE mig_3_to_4
  <2>1. Shape' /\ Rest({"addrs"})
    BY <1>4, AddrsWrite
  <2> QED BY <1>0, <2>1 DEF StoreTypes, Shape, Rest
<1>5. CASE Shape' /\ Rest({"typed"})
  BY <1>0, <1>5 DEF StoreTypes, Shape, Rest
<1>6. CASE mig_4_to_5
  BY <1>5, <1>6, TypedWrite
<1>7. CASE mig_5_to_6
  BY <1>1, <1>5, <1>7, RefileWrite
<1>8. CASE set_version
  <2>1. Shape' /\ Rest({"ver"}) /\ disk'.ver = disk.ver + 1
    BY <1>8, VersionWrite
  <2> QED BY <1>0, <2>1 DEF StoreTypes, Shape, Rest
<1>9. CASE persist_genesis
  <2>1. /\ Shape' /\ disk'.ver = disk.ver /\ disk'.dag = disk.dag
        /\ disk'.blocks = {Genesis} /\ disk'.tips = {Genesis}
        /\ DOMAIN disk'.id2ts = {Genesis} /\ disk'.id2ts \in [{Genesis} -> Int]
        /\ disk'.byTime = {<<disk'.id2ts[Genesis], Genesis>>}
    BY <1>9, GenesisWrite
  <2>2. IsFiniteSet(disk'.byTime)
    BY <2>1, FS_Singleton
  <2>3. disk'.byTime \subseteq Int \X {Genesis}
    BY <2>1
  <2> QED BY <1>0, <2>1, <2>2, <2>3 DEF StoreTypes, Shape
<1>10. CASE set_dag_version \/ CheckVersion
  <2>1. CASE Shape' /\ Rest({"dag"}) /\ disk'.dag = DAG_VERSION
    <3>1. disk'.dag \in Nat \X Nat
      BY <2>1 DEF DAG_VERSION
    <3> QED BY <1>0, <2>1, <3>1 DEF StoreTypes, Shape, Rest
  <2> QED BY <1>1, <1>10, <2>1, DagWrite
<1> QED BY <1>1, <1>2, <1>3, <1>4, <1>6, <1>7, <1>8, <1>9, <1>10, QuietSteps DEF MaintenanceNext

LEMMA BootTypesStep == StoreTypes /\ BootTypes /\ PhaseInv /\ [MaintenanceNext]_mtVars => BootTypes'
<1> SUFFICES ASSUME StoreTypes, BootTypes, PhaseInv, [MaintenanceNext]_mtVars PROVE BootTypes'
  OBVIOUS
<1> DEFINE P == {"down", "schema", "genesis", "version", "up", "refused"}
           BootType(B) == [phase : P, v : Nat, running : BOOLEAN, todo : SUBSET (Int \X B), half : BOOLEAN,
                           ts : Int, fresh : BOOLEAN]
<1>0. /\ boot \in BootType(disk.blocks) /\ IsFiniteSet(boot.todo)
      /\ boot.phase = "schema" => boot.v = disk.ver
      /\ boot.running => boot.phase = "schema" /\ boot.v < CURRENT_VER
      /\ boot.todo # {} => boot.running
      /\ boot.half => boot.todo # {} /\ boot.v \in {1, 2, 5} /\ (boot.v = 1 => Here[2] \in disk.tips)
      /\ disk.ver \in Nat
  BY DEF BootTypes, StoreTypes
<1>1. ASSUME disk'.blocks = disk.blocks, disk'.ver = disk.ver, boot.running, boot.todo # {},
             NEW T \in SUBSET boot.todo, NEW half \in BOOLEAN, NEW ts \in Int, Advance(T, half, ts),
             half => boot.v \in {1, 2, 5} /\ T = boot.todo /\ (boot.v = 1 => Here[2] \in disk'.tips)
      PROVE  BootTypes'
  <2>1. IsFiniteSet(T)
    BY <1>0, FS_Subset
  <2>2. boot' \in BootType(disk.blocks) /\ boot'.todo = T /\ boot'.phase = boot.phase
        /\ boot'.v = boot.v /\ boot'.running = boot.running /\ boot'.half = half
    BY <1>0, <1>1 DEF Advance
  <2>3. half => Here' = Here
    BY <1>1, <2>2 DEF Here
  <2> QED BY <1>0, <1>1, <2>1, <2>2, <2>3 DEF BootTypes
<1>2. ASSUME disk'.blocks = disk.blocks, disk'.ver = disk.ver, boot.running, boot.todo # {},
             NEW ts \in Int, Advance(boot.todo \ {Here}, FALSE, ts)
      PROVE  BootTypes'
  BY <1>1, <1>2
<1>h. ASSUME disk'.blocks = disk.blocks, disk'.ver = disk.ver, boot.running, boot.todo # {},
             Advance(boot.todo, TRUE, boot.ts), boot.v \in {1, 2, 5},
             boot.v = 1 => Here[2] \in disk'.tips
      PROVE  BootTypes'
  <2>1. boot.todo \in SUBSET boot.todo /\ TRUE \in BOOLEAN /\ boot.ts \in Int
    BY <1>0
  <2> QED BY <1>1, <1>h, <2>1, Zenon
<1>3. CASE mig_1_to_2
  <2>1. boot.running /\ boot.todo # {} /\ disk'.blocks = disk.blocks /\ disk'.ver = disk.ver
    BY <1>3, TipsWrite DEF mig_1_to_2, InScan, Rest
  <2>2. boot.v = 1 /\ boot.ts \in Int
    BY <1>0, <1>3 DEF mig_1_to_2, InScan
  <2>3. CASE Advance(boot.todo \ {Here}, FALSE, boot.ts)
    BY <1>2, <2>1, <2>2, <2>3
  <2>4. CASE Advance(boot.todo, TRUE, boot.ts) /\ disk'.tips = disk.tips \cup {Here[2]}
    BY <1>h, <2>1, <2>2, <2>4
  <2> QED BY <1>3, <2>3, <2>4, TipsWrite
<1>4. CASE mig_2_to_3
  <2>1. boot.running /\ boot.todo # {} /\ disk'.blocks = disk.blocks /\ disk'.ver = disk.ver /\ boot.v = 2
    BY <1>4, TimeWrite DEF mig_2_to_3, InScan, Rest
  <2>2. \/ Advance(boot.todo \ {Here}, FALSE, boot.ts) \/ Advance(boot.todo, TRUE, boot.ts)
        \/ Advance(boot.todo \ {Here}, FALSE, boot.ts + 1)
    BY <1>4, TimeWrite
  <2>3. boot.ts \in Int /\ boot.ts + 1 \in Int
    BY <1>0
  <2>4. CASE Advance(boot.todo, TRUE, boot.ts)
    BY <1>h, <2>1, <2>4
  <2> QED BY <1>2, <2>1, <2>2, <2>3, <2>4
<1>5. CASE mig_3_to_4
  <2>1. boot.running /\ boot.todo # {} /\ disk'.blocks = disk.blocks /\ disk'.ver = disk.ver
    BY <1>5, AddrsWrite DEF mig_3_to_4, InScan, Rest
  <2> QED BY <1>0, <1>2, <1>5, <2>1, AddrsWrite
<1>6. CASE mig_4_to_5
  <2>1. boot.running /\ boot.todo # {} /\ disk'.blocks = disk.blocks /\ disk'.ver = disk.ver
    BY <1>6, TypedWrite DEF mig_4_to_5, InScan, Rest
  <2> QED BY <1>0, <1>2, <1>6, <2>1, TypedWrite
<1>7. CASE mig_5_to_6
  <2>1. boot.running /\ boot.todo # {} /\ disk'.blocks = disk.blocks /\ disk'.ver = disk.ver /\ boot.v = 5
    BY <1>7, RefileWrite DEF mig_5_to_6, InScan, Rest
  <2>2. \/ Advance(boot.todo \ {Here}, FALSE, boot.ts) \/ Advance(boot.todo, TRUE, boot.ts)
    BY <1>7, RefileWrite
  <2>3. CASE Advance(boot.todo, TRUE, boot.ts)
    BY <1>h, <2>1, <2>3
  <2> QED BY <1>0, <1>2, <2>1, <2>2, <2>3
<1>8. CASE set_version
  <2>1. disk'.ver = disk.ver + 1 /\ disk'.blocks = disk.blocks
    BY <1>8, VersionWrite DEF Rest
  <2>2. boot.phase = "schema" /\ boot.running /\ boot.v = disk.ver /\ boot.todo = {} /\ ~boot.half
    BY <1>8, VersionWrite
  <2>3. boot' = [boot EXCEPT !.running = FALSE, !.v = @ + 1]
    BY <1>8 DEF set_version
  <2>4. boot' \in BootType(disk.blocks)
    <3>1. boot' = [phase |-> boot.phase, v |-> boot.v + 1, running |-> FALSE, todo |-> boot.todo,
                   half |-> boot.half, ts |-> boot.ts, fresh |-> boot.fresh]
      BY <1>0, <2>3
    <3> QED BY <1>0, <3>1
  <2>5. /\ boot'.phase = "schema" /\ boot'.v = disk.ver + 1 /\ ~boot'.running /\ boot'.todo = {} /\ ~boot'.half
    BY <1>0, <2>2, <2>3
  <2> QED BY <1>0, <2>1, <2>2, <2>4, <2>5 DEF BootTypes
<1>9. ASSUME NEW p \in P, p # "schema", boot' = [boot EXCEPT !.phase = p],
             boot.todo = {}, ~boot.half, ~boot.running
      PROVE  BootTypes'
  <2>1. boot' \in BootType(disk'.blocks) /\ boot'.todo = {} /\ ~boot'.half /\ ~boot'.running /\ boot'.phase = p
    BY <1>0, <1>9
  <2> QED BY <1>9, <2>1, FS_EmptySet DEF BootTypes
<1>10. boot.phase # "schema" => boot.todo = {} /\ ~boot.half /\ ~boot.running
  BY <1>0
<1>11. CASE persist_genesis \/ NotFresh
  BY <1>9, <1>10, <1>11 DEF persist_genesis, NotFresh
<1>12. CASE set_dag_version \/ CheckVersion
  BY <1>9, <1>10, <1>12 DEF set_dag_version, CheckVersion
<1>13. CASE SchemaReady
  <2>1. boot' = [boot EXCEPT !.phase = "genesis", !.fresh = disk.blocks = {}] /\ disk' = disk
        /\ boot.todo = {} /\ ~boot.half /\ ~boot.running
    BY <1>0, <1>13 DEF SchemaReady
  <2>2. boot' \in BootType(disk'.blocks) /\ boot'.todo = {} /\ ~boot'.half /\ ~boot'.running /\ boot'.phase = "genesis"
    BY <1>0, <2>1
  <2> QED BY <2>1, <2>2, FS_EmptySet DEF BootTypes
<1>14. CASE StopProcess
  <2>1. boot' = Down
    BY <1>14 DEF StopProcess
  <2> QED BY <2>1, FS_EmptySet DEF BootTypes, Down
<1>15. CASE OpenStore
  <2>1. boot' = [Down EXCEPT !.phase = "schema", !.v = disk.ver] /\ disk' = disk
    BY <1>15 DEF OpenStore
  <2>2. boot' \in BootType(disk'.blocks) /\ boot'.todo = {} /\ ~boot'.half /\ ~boot'.running /\ boot'.v = disk.ver
    <3>1. boot' = [phase |-> "schema", v |-> disk.ver, running |-> FALSE, todo |-> {},
                   half |-> FALSE, ts |-> 1, fresh |-> FALSE]
      BY <2>1 DEF Down
    <3> QED BY <1>0, <3>1
  <2> QED BY <2>1, <2>2, FS_EmptySet DEF BootTypes
<1>16. CASE BeginMigration
  <2>1. /\ boot' = [boot EXCEPT !.running = TRUE, !.todo = Scan(boot.v), !.ts = 1] /\ disk' = disk
        /\ boot.phase = "schema" /\ boot.v < CURRENT_VER /\ ~boot.half /\ boot.v = disk.ver
    BY <1>0, <1>16 DEF BeginMigration
  <2>2. Scan(boot.v) \subseteq Int \X disk.blocks /\ IsFiniteSet(Scan(boot.v))
    BY <1>0, <2>1, ScanKeys
  <2>3. boot' \in BootType(disk'.blocks)
    <3>1. boot' = [phase |-> boot.phase, v |-> boot.v, running |-> TRUE, todo |-> Scan(boot.v),
                   half |-> boot.half, ts |-> 1, fresh |-> boot.fresh]
      BY <1>0, <2>1
    <3>2. /\ boot.phase \in P /\ boot.v \in Nat /\ boot.half \in BOOLEAN /\ boot.fresh \in BOOLEAN
          /\ Scan(boot.v) \in SUBSET (Int \X disk'.blocks)
      BY <1>0, <2>1, <2>2
    <3> HIDE DEF P
    <3> QED BY <3>1, <3>2
  <2>4. boot'.todo = Scan(boot.v) /\ ~boot'.half /\ boot'.running /\ boot'.v = disk.ver /\ boot'.phase = "schema"
    BY <1>0, <2>1
  <2> QED BY <2>1, <2>2, <2>3, <2>4 DEF BootTypes
<1>17. CASE UNCHANGED mtVars
  <2>1. disk' = disk /\ boot' = boot /\ Here' = Here
    BY <1>17 DEF mtVars, Here
  <2> QED BY <2>1 DEF BootTypes
<1> QED BY <1>3, <1>4, <1>5, <1>6, <1>7, <1>8, <1>11, <1>12, <1>13, <1>14, <1>15, <1>16, <1>17 DEF MaintenanceNext

-----------------------------------------------------------------------------
(* The phases of the process.                                              *)

LEMMA InitStores ==
    ASSUME MaintenanceInit
    PROVE  /\ boot = Down /\ torn = {} /\ ~stillborn
           /\ \/ disk = StoreOf(0, NoVersion, {}, {})
              \/ \E s \in OldStores : \E T \in SUBSET OldBlocks :
                    disk = StoreOf(s[1], s[2], OldBlocks, T) /\ (s[1] >= 3 => T = {})
<1> DEFINE Trims(s) == IF s[1] < 3 THEN SUBSET OldBlocks ELSE {{}}
           Of(s) == {StoreOf(s[1], s[2], OldBlocks, T) : T \in Trims(s)}
<1>1. /\ boot = Down /\ torn = {} /\ ~stillborn
      /\ disk \in {StoreOf(0, NoVersion, {}, {})} \cup UNION {Of(s) : s \in OldStores}
  BY DEF MaintenanceInit
<1>2. CASE disk # StoreOf(0, NoVersion, {}, {})
  <2> HIDE DEF Of
  <2>1. PICK s \in OldStores : disk \in Of(s)
    BY <1>1, <1>2
  <2>2. PICK T \in Trims(s) : disk = StoreOf(s[1], s[2], OldBlocks, T)
    BY <2>1 DEF Of
  <2>3. T \in SUBSET OldBlocks /\ (s[1] >= 3 => T = {})
    <3>1. s[1] \in Nat
      BY StoreAssumption
    <3> QED BY <2>2, <3>1
  <2> QED BY <1>1, <2>2, <2>3
<1> QED BY <1>1, <1>2

LEMMA PhaseInit == MaintenanceInit => PhaseInv
<1> SUFFICES ASSUME MaintenanceInit PROVE PhaseInv
  OBVIOUS
<1>1. boot.phase = "down"
  BY DEF MaintenanceInit, Down
<1>2. CASE disk = StoreOf(0, NoVersion, {}, {})
  BY <1>1, <1>2 DEF PhaseInv, StoreOf
<1>3. ASSUME NEW s \in OldStores, NEW T, disk = StoreOf(s[1], s[2], OldBlocks, T) PROVE PhaseInv
  <2>1. disk.blocks = OldBlocks /\ disk.dag = s[2]
    BY <1>3 DEF StoreOf
  <2> QED BY <1>1, <2>1, StoreAssumption DEF PhaseInv
<1> QED BY <1>2, <1>3, InitStores

LEMMA PhaseStep == StoreTypes /\ BootTypes /\ PhaseInv /\ [MaintenanceNext]_mtVars => PhaseInv'
<1> SUFFICES ASSUME StoreTypes, BootTypes, PhaseInv, [MaintenanceNext]_mtVars PROVE PhaseInv'
  OBVIOUS
<1>0. /\ disk.ver \in Nat /\ disk.dag \in {NoVersion} \cup (Nat \X Nat) /\ CURRENT_VER = 13
      /\ boot.phase = "schema" => boot.v = disk.ver
      /\ boot.running => boot.phase = "schema"
  BY DEF StoreTypes, BootTypes, CURRENT_VER
<1>1. ASSUME boot.phase \in {"schema", "down"}, boot'.phase = "schema", disk'.blocks = disk.blocks,
             disk'.dag = disk.dag, disk'.ver \in {disk.ver, disk.ver + 1}, stillborn' = stillborn
      PROVE  PhaseInv'
  BY <1>0, <1>1 DEF PhaseInv
<1>2. ASSUME boot.phase = "schema", NEW T, NEW half, NEW ts, Advance(T, half, ts), Rest({"tips", "byTime", "id2ts", "addrs", "typed"}),
             stillborn' = stillborn
      PROVE  PhaseInv'
  <2>1. boot'.phase = "schema" /\ disk'.blocks = disk.blocks /\ disk'.dag = disk.dag /\ disk'.ver = disk.ver
    BY <1>2 DEF Advance, Rest
  <2> QED BY <1>1, <1>2, <2>1
<1>3. UNCHANGED disk \/ Rest({"tips"}) \/ Rest({"byTime"}) \/ Rest({"id2ts"}) \/ Rest({"addrs"}) \/ Rest({"typed"})
        => Rest({"tips", "byTime", "id2ts", "addrs", "typed"})
  BY DEF Rest
<1>4. CASE mig_1_to_2
  BY <1>2, <1>3, <1>4, TipsWrite DEF mig_1_to_2, InScan
<1>5. CASE mig_2_to_3
  BY <1>2, <1>3, <1>5, TimeWrite DEF mig_2_to_3, InScan
<1>6. CASE mig_3_to_4
  BY <1>2, <1>3, <1>6, AddrsWrite DEF mig_3_to_4, InScan
<1>7. CASE mig_4_to_5
  BY <1>2, <1>3, <1>7, TypedWrite DEF mig_4_to_5, InScan
<1>8. CASE mig_5_to_6
  BY <1>2, <1>3, <1>8, RefileWrite DEF mig_5_to_6, InScan
<1>9. CASE set_version
  <2>1. disk'.ver = disk.ver + 1 /\ disk'.blocks = disk.blocks /\ disk'.dag = disk.dag /\ stillborn' = stillborn
        /\ boot.phase = "schema" /\ boot'.phase = "schema"
    BY <1>9, VersionWrite DEF Rest
  <2> QED BY <1>1, <2>1
<1>10. CASE BeginMigration
  <2>1. disk' = disk /\ boot.phase = "schema" /\ boot'.phase = "schema" /\ stillborn' = stillborn
    BY <1>10 DEF BeginMigration, BootTypes
  <2> QED BY <1>1, <2>1
<1>11. CASE OpenStore
  <2>1. disk' = disk /\ boot.phase = "down" /\ boot'.phase = "schema" /\ stillborn' = stillborn
    BY <1>11 DEF OpenStore, Down
  <2> QED BY <1>1, <2>1
<1>12. CASE SchemaReady
  <2>1. disk' = disk /\ boot.phase = "schema" /\ boot'.phase = "genesis" /\ stillborn' = stillborn
        /\ disk.ver >= CURRENT_VER /\ boot'.fresh = (disk.blocks = {})
    BY <1>0, <1>12 DEF SchemaReady, BootTypes
  <2> QED BY <1>0, <2>1 DEF PhaseInv
<1>13. CASE persist_genesis
  <2>1. disk'.ver = disk.ver /\ disk'.dag = NoVersion /\ disk.ver >= CURRENT_VER /\ disk'.blocks = {Genesis}
        /\ boot'.phase = "version" /\ boot'.fresh /\ stillborn' = stillborn
    BY <1>13, GenesisWrite DEF BootTypes
  <2> QED BY <1>0, <2>1 DEF PhaseInv
<1>14. CASE NotFresh
  <2>1. disk' = disk /\ boot.phase = "genesis" /\ boot'.phase = "version" /\ ~boot.fresh /\ ~boot'.fresh
        /\ stillborn' = stillborn
    BY <1>14 DEF NotFresh, BootTypes
  <2> QED BY <1>0, <2>1 DEF PhaseInv
<1>15. CASE set_dag_version \/ CheckVersion
  <2>1. boot.phase = "version" /\ stillborn' = stillborn
    BY <1>15, DagWrite
  <2>2. CASE Rest({"dag"}) /\ disk'.dag = DAG_VERSION /\ boot' = [boot EXCEPT !.phase = "up"]
    <3>1. disk'.blocks = disk.blocks /\ disk'.ver = disk.ver /\ boot'.phase = "up"
      BY <2>2 DEF Rest, BootTypes
    <3>2. disk.blocks # {} /\ disk.ver >= CURRENT_VER
      BY <2>1 DEF PhaseInv
    <3>3. DAG_VERSION # NoVersion
      BY StoreAssumption DEF DAG_VERSION
    <3> QED BY <2>1, <2>2, <3>1, <3>2, <3>3 DEF PhaseInv
  <2>3. CASE ~boot.fresh /\ UNCHANGED disk /\ boot' = [boot EXCEPT !.phase = "refused"]
             /\ check_dag_compatibility(get_dag_version, DAG_VERSION) # "compatible"
    <3>1. boot'.phase = "refused"
      BY <2>3 DEF BootTypes
    <3>2. disk.blocks # {} /\ disk.ver >= CURRENT_VER
          /\ (disk.blocks = {Genesis} /\ disk.dag = NoVersion => stillborn)
      BY <2>1, <2>3 DEF PhaseInv
    <3>3. ASSUME disk.dag # NoVersion PROVE disk.dag[1] # DAG_VERSION[1] \/ disk.dag[2] > DAG_VERSION[2]
      <4>1. disk.dag[1] \in Nat /\ disk.dag[2] \in Nat /\ get_dag_version = disk.dag
        BY <1>0, <3>3 DEF get_dag_version
      <4> QED BY <2>3, <4>1 DEF check_dag_compatibility, DAG_VERSION
    <3>4. Refusable'
      BY <2>1, <2>3, <3>2, <3>3 DEF Refusable
    <3> QED BY <1>0, <2>1, <2>3, <3>1, <3>2, <3>4 DEF PhaseInv
  <2> QED BY <1>15, <2>2, <2>3, DagWrite
<1>16. CASE StopProcess
  <2>1. disk' = disk /\ boot'.phase = "down" /\ stillborn' = (stillborn \/ (boot.phase = "version" /\ boot.fresh))
    BY <1>16 DEF StopProcess, Down
  <2> QED BY <1>0, <2>1 DEF PhaseInv
<1>17. CASE UNCHANGED mtVars
  BY <1>17 DEF PhaseInv, Refusable, mtVars
<1> QED BY <1>4, <1>5, <1>6, <1>7, <1>8, <1>9, <1>10, <1>11, <1>12, <1>13, <1>14, <1>15, <1>16, <1>17 DEF MaintenanceNext

-----------------------------------------------------------------------------
(* The tips.                                                               *)

LEMMA TipsInit == MaintenanceInit => TipsInv
<1> SUFFICES ASSUME MaintenanceInit PROVE TipsInv
  OBVIOUS
<1>1. ~boot.running
  BY DEF MaintenanceInit, Down
<1>2. ASSUME NEW v, NEW d, NEW B, NEW T, disk = StoreOf(v, d, B, T) PROVE TipsInv
  <2>1. /\ disk.ver = v /\ disk.blocks = B
        /\ disk.tips = IF v >= 2 THEN {b \in B : Children(B, b) = {}} ELSE {}
    BY <1>2 DEF StoreOf
  <2> QED BY <1>1, <2>1 DEF TipsInv, TipsAfterMigration, Scanning, RealTips
<1> QED BY <1>2, InitStores

\* The part of TipsInv about complete stores, and the part about the scan.
TipsListed == /\ RealTips(disk.blocks, disk.blocks) \subseteq disk.tips \/ Full(disk.blocks, disk.tips)
              /\ disk.tips \subseteq TipsAfterMigration(disk.blocks) \cup keptTips

TipsScan ==
    /\ \A e \in boot.todo : e[1] = 0 /\ \A c \in disk.blocks : c > e[2] => ToCome(c)
    /\ \/ \A b \in RealTips(disk.blocks, disk.blocks) : ~ToCome(b) => b \in disk.tips
       \/ Full(disk.blocks, disk.tips)
    /\ \A b \in disk.tips :
          b \in keptTips \/ \A c \in Children(disk.blocks, b) : c <= b \/ ToCome(c)

LEMMA TipsParts ==
    TipsInv <=> (disk.ver >= 2 => TipsListed) /\ (Scanning(1) => TipsScan)
BY DEF TipsInv, TipsListed, TipsScan

LEMMA TipsPartsNext ==
    TipsInv' <=> (disk'.ver >= 2 => TipsListed') /\ (Scanning(1)' => TipsScan')
BY DEF TipsInv, TipsListed, TipsScan

\* With more tips there is no fewer childless ones.
LEMMA FullGrows ==
    ASSUME NEW B, IsFiniteSet(B), NEW T \in SUBSET B, NEW U \in SUBSET B, Full(B, T),
           RealTips(B, T) \subseteq U
    PROVE  Full(B, U)
<1>1. RealTips(B, T) \subseteq RealTips(B, U) /\ RealTips(B, U) \subseteq B
  BY DEF RealTips
<1>2. IsFiniteSet(RealTips(B, U))
  BY <1>1, FS_Subset
<1>3. Cardinality(RealTips(B, T)) <= Cardinality(RealTips(B, U))
  BY <1>1, <1>2, FS_Subset
<1>4. Cardinality(RealTips(B, T)) \in Nat /\ Cardinality(RealTips(B, U)) \in Nat
  BY <1>1, <1>2, FS_Subset, FS_CardinalityType
<1> QED BY <1>3, <1>4, StoreAssumption DEF Full

\* A tip goes in.
LEMMA TipsAdded ==
    ASSUME StoreTypes, BootTypes, Scanning(1), boot.todo # {}, TipsScan,
           disk'.tips = disk.tips \cup {Here[2]}, keptTips' = keptTips,
           boot'.todo = boot.todo, disk'.blocks = disk.blocks
    PROVE  TipsScan'
<1> DEFINE B == disk.blocks
           b == Here[2]
<1>1. /\ Here \in boot.todo /\ b \in B /\ disk.tips \subseteq B /\ disk'.tips \subseteq B
      /\ IsFiniteSet(B) /\ B \subseteq Int
  BY HereFact, StoredFacts DEF StoreTypes
<1>2. \A c : ToCome(c)' <=> ToCome(c)
  BY DEF ToCome
<1>3. Full(B, disk.tips) => Full(B, disk'.tips)
  BY <1>1, FullGrows DEF RealTips
<1>4. ASSUME NEW x \in disk'.tips
      PROVE  x \in keptTips \/ \A c \in Children(B, x) : c <= x \/ ToCome(c)
  <2>1. CASE x \in disk.tips
    BY <2>1 DEF TipsScan
  <2>2. CASE x = b
    <3>1. \A c \in B : c > b => ToCome(c)
      BY <1>1 DEF TipsScan
    <3> QED BY <1>1, <2>2, <3>1 DEF Children
  <2> QED BY <1>4, <2>1, <2>2
<1> HIDE DEF b
<1> QED BY <1>2, <1>3, <1>4 DEF TipsScan

\* The tips are trimmed and the parents go out.
LEMMA TipsMove ==
    ASSUME StoreTypes, BootTypes, Scanning(1), boot.todo # {}, TipsScan, Here[2] \in disk.tips,
           NEW T \in SUBSET disk.tips, NEW F \in SUBSET ParentsOf[Here[2]], TrimmedTo(T),
           disk'.tips = T \ (ParentsOf[Here[2]] \ F), keptTips' = keptTips \cup F,
           boot'.todo = boot.todo \ {Here}, disk'.blocks = disk.blocks
    PROVE  TipsScan'
<1> DEFINE B == disk.blocks
           b == Here[2]
<1>1. /\ Here \in boot.todo /\ b \in B /\ B \subseteq Int /\ disk.tips \subseteq B
      /\ boot.todo \subseteq Int \X B /\ IsFiniteSet(B)
      /\ \A f \in boot.todo : Here[1] < f[1] \/ (Here[1] = f[1] /\ b <= f[2])
  BY HereFact, StoredFacts DEF StoreTypes, BootTypes, Precedes
<1>2. Here = <<0, b>> /\ \A f \in boot.todo : f = <<0, f[2]>> /\ b <= f[2]
  BY <1>1 DEF TipsScan
<1>3. \A c \in B : ToCome(c)' <=> ToCome(c) /\ c # b
  BY <1>2 DEF ToCome
<1>5. ASSUME NEW e \in boot'.todo PROVE e[1] = 0 /\ \A c \in B : c > e[2] => ToCome(c)'
  <2>1. e \in boot.todo /\ e[1] = 0 /\ e[2] \in Int /\ b <= e[2]
    BY <1>1, <1>2, <1>5 DEF TipsScan
  <2>2. \A c \in B : c > e[2] => ToCome(c) /\ c # b
    BY <1>1, <2>1 DEF TipsScan
  <2> QED BY <1>3, <2>1, <2>2
<1>6. /\ RealTips(B, T) \subseteq disk'.tips /\ RealTips(B, disk'.tips) = RealTips(B, T)
      /\ disk'.tips \subseteq B
  <2>1. \A x \in T : x \in ParentsOf[b] => Children(B, x) # {}
    BY <1>1 DEF Children
  <2> QED BY <1>1, <2>1 DEF RealTips
<1>7. ASSUME RealTips(B, disk.tips) \subseteq T
      PROVE  \/ \A x \in RealTips(B, B) : ~ToCome(x)' => x \in disk'.tips
             \/ Full(B, disk'.tips)
  <2>1. RealTips(B, disk.tips) \subseteq disk'.tips
    BY <1>6, <1>7 DEF RealTips
  <2>2. Full(B, disk.tips) => Full(B, disk'.tips)
    BY <1>1, <1>6, <2>1, FullGrows
  <2>3. \A x \in RealTips(B, B) : x \in disk.tips => x \in disk'.tips
    BY <2>1 DEF RealTips
  <2>4. \A x \in RealTips(B, B) : ~ToCome(x)' => ~ToCome(x) \/ x \in disk.tips
    BY <1>3 DEF RealTips
  <2> QED BY <2>2, <2>3, <2>4 DEF TipsScan
<1>8. ASSUME TipLimit # 0, Cardinality(T) = TipLimit, T \subseteq RealTips(B, disk.tips)
      PROVE  Full(B, disk'.tips)
  <2>1. RealTips(B, disk'.tips) = T
    BY <1>6, <1>8 DEF RealTips
  <2> QED BY <1>8, <2>1, StoreAssumption DEF Full
<1>9. ASSUME NEW x \in disk'.tips PROVE x \in keptTips' \/ \A c \in Children(B, x) : c <= x \/ ToCome(c)'
  <2>1. x \in disk.tips /\ x \in B /\ (x \notin keptTips' => x \notin ParentsOf[b] /\ x \notin keptTips)
    BY <1>1, <1>9
  <2> SUFFICES ASSUME x \notin keptTips', NEW c \in Children(B, x) PROVE c <= x \/ ToCome(c)'
    OBVIOUS
  <2>2. c \in B /\ x \in ParentsOf[c] /\ c # b
    BY <2>1 DEF Children
  <2>3. c <= x \/ ToCome(c)
    BY <2>1 DEF TipsScan
  <2> QED BY <1>3, <2>2, <2>3
<1>10. \/ \A x \in RealTips(B, B) : ~ToCome(x)' => x \in disk'.tips
       \/ Full(B, disk'.tips)
  <2>1. RealTips(B, disk.tips) \subseteq T \/ (TipLimit # 0 /\ Cardinality(T) = TipLimit /\ T \subseteq RealTips(B, disk.tips))
    BY DEF TrimmedTo, RealTips
  <2> QED BY <1>7, <1>8, <2>1
<1> HIDE DEF b
<1> QED BY <1>5, <1>9, <1>10 DEF TipsScan

\* Nothing is migrated before the schema is read, nor after it is complete.
LEMMA NotRunning ==
    ASSUME BootTypes, OpenStore \/ SchemaReady \/ NotFresh \/ StopProcess
    PROVE  ~boot'.running
<1>1. CASE OpenStore
  BY <1>1 DEF OpenStore, Down
<1>2. CASE SchemaReady
  BY <1>2 DEF SchemaReady, BootTypes
<1>3. CASE NotFresh
  BY <1>3 DEF NotFresh, BootTypes
<1>4. CASE StopProcess
  BY <1>4 DEF StopProcess, Down
<1> QED BY <1>1, <1>2, <1>3, <1>4

LEMMA TipsStep ==
    StoreTypes /\ BootTypes /\ PhaseInv /\ TipsInv /\ [MaintenanceNext]_mtVars => TipsInv'
<1> SUFFICES ASSUME StoreTypes, BootTypes, PhaseInv, TipsInv, [MaintenanceNext]_mtVars PROVE TipsInv'
  OBVIOUS
<1>0. /\ disk.ver \in Nat /\ (boot.phase = "schema" => boot.v = disk.ver)
      /\ (boot.running => boot.phase = "schema") /\ disk.blocks \subseteq Int /\ disk.tips \subseteq disk.blocks
  BY StoredFacts DEF StoreTypes, BootTypes
<1>g. ~BeginMigration => keptTips \subseteq keptTips'
  BY KeptGrow
<1>1. ASSUME disk'.ver = disk.ver, disk'.blocks = disk.blocks, disk'.tips = disk.tips, ~Scanning(1)',
             keptTips \subseteq keptTips'
      PROVE  TipsInv'
  <2>1. TipsListed => TipsListed'
    BY <1>1 DEF TipsListed, TipsAfterMigration
  <2> QED BY <1>1, <2>1, TipsParts, TipsPartsNext
<1>2. CASE mig_1_to_2
  <2>1. disk'.ver = disk.ver /\ disk'.blocks = disk.blocks
    BY <1>2, TipsWrite DEF Rest
  <2>2. Scanning(1) /\ disk.ver = 1 /\ boot.todo # {}
    BY <1>2, ScanFact DEF mig_1_to_2
  <2>3. TipsScan
    BY <2>2, TipsParts
  <2>4. CASE disk'.tips = disk.tips \cup {Here[2]} /\ keptTips' = keptTips /\ Advance(boot.todo, TRUE, boot.ts)
    <3>1. boot'.todo = boot.todo
      BY <2>4 DEF Advance
    <3>2. TipsScan'
      BY <2>1, <2>2, <2>3, <2>4, <3>1, TipsAdded
    <3> QED BY <2>1, <2>2, <3>2, TipsPartsNext
  <2>5. ASSUME Advance(boot.todo \ {Here}, FALSE, boot.ts), Here[2] \in disk.tips,
               NEW T \in SUBSET disk.tips, NEW F \in SUBSET ParentsOf[Here[2]], TrimmedTo(T),
               disk'.tips = T \ (ParentsOf[Here[2]] \ F), keptTips' = keptTips \cup F
        PROVE  TipsInv'
    <3>1. boot'.todo = boot.todo \ {Here}
      BY <2>5 DEF Advance
    <3>2. TipsScan'
      BY <2>1, <2>2, <2>3, <2>5, <3>1, TipsMove
    <3> QED BY <2>1, <2>2, <3>2, TipsPartsNext
  <2> QED BY <1>2, <2>4, <2>5, TipsWrite
<1>3. ASSUME NEW v \in {2, 3, 4, 5}, InScan(v), NEW T, NEW half, NEW ts, Advance(T, half, ts),
             disk'.ver = disk.ver, disk'.blocks = disk.blocks, disk'.tips = disk.tips
      PROVE  TipsInv'
  <2>1. ~Scanning(1)'
    BY <1>3 DEF InScan, Advance, Scanning
  <2>2. ~BeginMigration
    BY <1>3 DEF InScan, BeginMigration
  <2> QED BY <1>g, <1>1, <1>3, <2>1, <2>2
<1>4. CASE mig_2_to_3
  BY <1>3, <1>4, TimeWrite DEF mig_2_to_3, Rest
<1>5. CASE mig_3_to_4
  BY <1>3, <1>5, AddrsWrite DEF mig_3_to_4, Rest
<1>6. CASE mig_4_to_5
  BY <1>3, <1>6, TypedWrite DEF mig_4_to_5, Rest
<1>7. CASE mig_5_to_6
  BY <1>3, <1>7, RefileWrite DEF mig_5_to_6, Rest
<1>8. CASE set_version
  <2>1. disk'.ver = disk.ver + 1 /\ disk'.blocks = disk.blocks /\ disk'.tips = disk.tips
        /\ boot.running /\ boot.v = disk.ver /\ boot.todo = {} /\ ~boot'.running
    BY <1>8, VersionWrite DEF Rest
  <2>9. TipsListed => TipsListed'
    <3>1. ~BeginMigration
      BY <1>8 DEF set_version, BeginMigration
    <3> QED BY <1>g, <2>1, <3>1 DEF TipsListed, TipsAfterMigration
  <2>2. CASE disk.ver = 1
    <3>1. TipsScan /\ \A c : ~ToCome(c)
      BY <2>1, <2>2, TipsParts DEF Scanning, ToCome
    <3>2. TipsListed
      BY <1>0, <3>1 DEF TipsScan, TipsListed, TipsAfterMigration
    <3> QED BY <2>1, <2>9, <3>2, TipsPartsNext DEF Scanning
  <2>3. CASE disk.ver # 1
    <3>1. disk'.ver >= 2 => TipsListed
      BY <1>0, <2>1, <2>3, TipsParts
    <3> QED BY <2>1, <2>9, <3>1, TipsPartsNext DEF Scanning
  <2> QED BY <2>2, <2>3
<1>9. CASE BeginMigration
  <2>1. disk' = disk /\ boot'.todo = Scan(boot.v) /\ boot'.v = boot.v /\ boot.v = disk.ver
        /\ (boot.v # 1 => keptTips' = keptTips)
    BY <1>9 DEF BeginMigration, Retried, BootTypes
  <2>2. Scanning(1)' => TipsScan'
    <3> SUFFICES ASSUME Scanning(1)' PROVE TipsScan'
      OBVIOUS
    <3>1. boot'.todo = {<<0, b>> : b \in disk.blocks}
      BY <2>1 DEF Scanning, Scan, MarkerOnly
    <3>2. \A c \in disk.blocks : ToCome(c)'
      BY <3>1 DEF ToCome
    <3>3. \A e \in boot'.todo : e[1] = 0
      BY <3>1
    <3> QED BY <1>0, <2>1, <3>2, <3>3 DEF TipsScan, Children, RealTips
  <2>3. disk.ver >= 2 => TipsListed'
    BY <2>1, TipsParts DEF TipsListed
  <2> QED BY <2>1, <2>2, <2>3, TipsPartsNext
<1>10. CASE OpenStore \/ SchemaReady \/ NotFresh \/ StopProcess
  <2>1. ~Scanning(1)'
    BY <1>0, <1>10, NotRunning DEF Scanning
  <2>2. keptTips' = keptTips
    BY <1>10 DEF OpenStore, SchemaReady, NotFresh, StopProcess
  <2> QED BY <1>1, <1>10, <2>1, <2>2, QuietSteps
<1>11. CASE set_dag_version \/ CheckVersion
  <2>1. ~Scanning(1)'
    BY <1>0, <1>11 DEF set_dag_version, CheckVersion, Scanning, BootTypes
  <2>2. disk'.ver = disk.ver /\ disk'.blocks = disk.blocks /\ disk'.tips = disk.tips
    BY <1>11, DagWrite DEF Rest
  <2>3. keptTips' = keptTips
    BY <1>11 DEF set_dag_version, CheckVersion
  <2> QED BY <1>1, <2>1, <2>2, <2>3
<1>12. CASE persist_genesis
  <2>1. disk'.blocks = {Genesis} /\ disk'.tips = {Genesis}
    BY <1>12, GenesisWrite
  <2>2. ~Scanning(1)'
    BY <1>0, <1>12 DEF persist_genesis, Scanning, BootTypes
  <2>3. Children({Genesis}, Genesis) = {}
    BY StoreAssumption DEF Children, Stored
  <2> QED BY <2>1, <2>2, <2>3 DEF TipsInv, TipsAfterMigration, RealTips
<1>13. CASE UNCHANGED mtVars
  BY <1>13 DEF TipsInv, TipsAfterMigration, Scanning, ToCome, mtVars
<1> QED BY <1>2, <1>4, <1>5, <1>6, <1>7, <1>8, <1>9, <1>10, <1>11, <1>12, <1>13 DEF MaintenanceNext

-----------------------------------------------------------------------------
(* The time index.                                                         *)

LEMMA TimeInit == MaintenanceInit => TimeInv
<1> SUFFICES ASSUME MaintenanceInit PROVE TimeInv
  OBVIOUS
<1>1. ~boot.running
  BY DEF MaintenanceInit, Down
<1>2. ASSUME NEW v, NEW d, NEW B, NEW T, disk = StoreOf(v, d, B, T), v >= 3 => T = {} PROVE TimeInv
  <2> DEFINE stamp == [b \in B \ T |-> FirstRealTs + b]
  <2>1. DOMAIN stamp = B \ T
    OBVIOUS
  <2>2. /\ disk.ver = v /\ disk.blocks = B /\ disk.id2ts = stamp
        /\ disk.byTime = {<<stamp[b], b>> : b \in DOMAIN stamp}
    BY <1>2 DEF StoreOf
  <2> HIDE DEF stamp
  <2> QED BY <1>1, <1>2, <2>1, <2>2 DEF TimeInv, Scanning
<1>3. CASE disk = StoreOf(0, NoVersion, {}, {})
  BY <1>2, <1>3
<1> QED BY <1>2, <1>3, InitStores

\* What the time index says outside the migration that builds it.
Indexed == /\ \A b \in DOMAIN disk.id2ts : <<disk.id2ts[b], b>> \in disk.byTime
           /\ \A e \in disk.byTime : \/ e[2] \in DOMAIN disk.id2ts /\ e[1] = disk.id2ts[e[2]]
                                     \/ e[2] \in torn

LEMMA TimeRest ==
    ASSUME TimeInv, ~(boot.half /\ boot.v = 2), ~Scanning(2)', disk'.byTime = disk.byTime,
           disk'.id2ts = disk.id2ts, torn' = torn, disk'.ver >= 3 => DOMAIN disk.id2ts = disk'.blocks
    PROVE  TimeInv'
<1>1. Indexed
  BY DEF TimeInv, Indexed
<1>2. Indexed'
  BY <1>1 DEF Indexed
<1> QED BY <1>2 DEF TimeInv, Indexed

\* A block without a stamp is given one, by two writes.
LEMMA TimeMove ==
    ASSUME StoreTypes, BootTypes, TimeInv, mig_2_to_3
    PROVE  TimeInv'
<1> DEFINE b == Here[2]
<1>1. /\ Here \in boot.todo /\ b \in disk.blocks /\ Scanning(2) /\ disk.ver = 2 /\ boot.v = 2
      /\ \A e \in boot.todo : e[1] = 0 /\ e = <<0, e[2]>>
  <2>1. /\ Here \in boot.todo /\ b \in disk.blocks /\ Scanning(2) /\ disk.ver = 2 /\ boot.v = 2
    BY ScanFact DEF mig_2_to_3
  <2>2. \A e \in boot.todo : e[1] = 0
    BY <2>1 DEF TimeInv
  <2> QED BY <2>1, <2>2 DEF BootTypes
<1>2. Here = <<0, b>>
  BY <1>1
<1>3. UNCHANGED torn
  BY TimeWrite
<1>4. ASSUME Advance(boot.todo \ {Here}, FALSE, boot'.ts)
      PROVE  /\ \A e \in boot'.todo : e[1] = 0
             /\ \A c : ToCome(c)' <=> ToCome(c) /\ c # b
             /\ ~boot'.half
  BY <1>1, <1>2, <1>4 DEF Advance, ToCome
<1>5. CASE b \in DOMAIN disk.id2ts /\ UNCHANGED disk /\ Advance(boot.todo \ {Here}, FALSE, boot.ts)
  <2>1. boot'.ts = boot.ts
    BY <1>5 DEF Advance
  <2>2. ~boot.half
    BY <1>1, <1>5 DEF TimeInv
  <2>3. Indexed
    BY <2>2 DEF TimeInv, Indexed
  <2>4. Indexed'
    BY <1>3, <1>5, <2>3 DEF Indexed
  <2>5. \A c \in disk'.blocks : ~ToCome(c)' => c \in DOMAIN disk'.id2ts
    BY <1>1, <1>4, <1>5, <2>1 DEF TimeInv
  <2>6. disk'.ver = 2
    BY <1>1, <1>5
  <2> QED BY <1>4, <1>5, <2>1, <2>4, <2>5, <2>6 DEF TimeInv, Indexed
<1>6. CASE /\ b \notin DOMAIN disk.id2ts /\ ~boot.half /\ Rest({"byTime"})
           /\ disk'.byTime = disk.byTime \cup {<<boot.ts, b>>} /\ Advance(boot.todo, TRUE, boot.ts)
  <2>1. /\ boot'.todo = boot.todo /\ boot'.ts = boot.ts /\ boot'.v = 2 /\ boot'.half
        /\ disk'.id2ts = disk.id2ts /\ disk'.blocks = disk.blocks /\ disk'.ver = 2
    BY <1>1, <1>6 DEF Advance, Rest
  <2>2. Here' = Here /\ \A c : ToCome(c)' <=> ToCome(c)
    BY <2>1 DEF Here, ToCome
  <2>3. Indexed
    BY <1>6 DEF TimeInv, Indexed
  <2>4. \A c \in DOMAIN disk'.id2ts : <<disk'.id2ts[c], c>> \in disk'.byTime
    BY <1>6, <2>1, <2>3 DEF Indexed
  <2>5. ASSUME NEW e \in disk'.byTime
        PROVE  \/ e[2] \in DOMAIN disk'.id2ts /\ e[1] = disk'.id2ts[e[2]]
               \/ e[2] \in torn'
               \/ e[2] = Here[2] /\ e[1] = boot.ts
    <3>1. CASE e \in disk.byTime
      BY <1>3, <2>1, <2>3, <3>1 DEF Indexed
    <3>2. CASE e = <<boot.ts, b>>
      BY <3>2
    <3> QED BY <1>6, <2>5, <3>1, <3>2
  <2>6. \A c \in disk'.blocks : ~ToCome(c)' => c \in DOMAIN disk'.id2ts
    BY <1>1, <2>1, <2>2 DEF TimeInv
  <2>7. <<boot'.ts, Here'[2]>> \in disk'.byTime /\ Here'[2] \notin DOMAIN disk'.id2ts
    BY <1>6, <2>1, <2>2
  <2> QED BY <1>1, <2>1, <2>2, <2>4, <2>5, <2>6, <2>7 DEF TimeInv
<1>7. CASE /\ b \notin DOMAIN disk.id2ts /\ boot.half /\ Rest({"id2ts"})
           /\ disk'.id2ts = Stamped(b, boot.ts) /\ Advance(boot.todo \ {Here}, FALSE, boot.ts + 1)
  <2>1. boot'.ts = boot.ts + 1 /\ disk'.byTime = disk.byTime /\ disk'.blocks = disk.blocks /\ disk'.ver = 2
    BY <1>1, <1>7 DEF Advance, Rest
  <2>2. /\ DOMAIN disk'.id2ts = DOMAIN disk.id2ts \cup {b} /\ disk'.id2ts[b] = boot.ts
        /\ \A c \in DOMAIN disk.id2ts : disk'.id2ts[c] = disk.id2ts[c]
    BY <1>7 DEF Stamped
  <2>3. <<boot.ts, b>> \in disk.byTime
    BY <1>1, <1>7 DEF TimeInv
  <2>4. \A c \in DOMAIN disk'.id2ts : <<disk'.id2ts[c], c>> \in disk'.byTime
    BY <2>1, <2>2, <2>3 DEF TimeInv
  <2>5. ASSUME NEW e \in disk'.byTime
        PROVE  e[2] \in torn' \/ (e[2] \in DOMAIN disk'.id2ts /\ e[1] = disk'.id2ts[e[2]])
    <3>1. \/ e[2] \in DOMAIN disk.id2ts /\ e[1] = disk.id2ts[e[2]]
          \/ e[2] \in torn
          \/ e[2] = b /\ e[1] = boot.ts
      BY <2>1, <2>5 DEF TimeInv
    <3> QED BY <1>3, <2>2, <3>1
  <2>6. \A c \in disk'.blocks : ~ToCome(c)' => c \in DOMAIN disk'.id2ts
    <3>1. \A c : ToCome(c)' <=> ToCome(c) /\ c # b
      BY <1>4, <1>7, <2>1
    <3> QED BY <1>1, <2>1, <2>2, <3>1 DEF TimeInv
  <2>7. (\A e \in boot'.todo : e[1] = 0) /\ ~boot'.half
    BY <1>4, <1>7, <2>1
  <2> QED BY <2>1, <2>4, <2>5, <2>6, <2>7 DEF TimeInv
<1> QED BY <1>5, <1>6, <1>7, TimeWrite

LEMMA TimeStep ==
    StoreTypes /\ BootTypes /\ PhaseInv /\ TimeInv /\ [MaintenanceNext]_mtVars => TimeInv'
<1> SUFFICES ASSUME StoreTypes, BootTypes, PhaseInv, TimeInv, [MaintenanceNext]_mtVars PROVE TimeInv'
  OBVIOUS
<1>0. /\ disk.ver \in Nat /\ (boot.phase = "schema" => boot.v = disk.ver) /\ (boot.running => boot.phase = "schema")
      /\ (boot.half => boot.todo # {}) /\ (boot.todo # {} => boot.running)
      /\ DOMAIN disk.id2ts \subseteq disk.blocks
  BY DEF StoreTypes, BootTypes
<1>1. ASSUME NEW v \in {1, 3, 4, 5}, InScan(v), NEW T, NEW half, NEW ts, Advance(T, half, ts), disk'.ver = disk.ver,
             disk'.blocks = disk.blocks, disk'.byTime = disk.byTime, disk'.id2ts = disk.id2ts, torn' = torn
      PROVE  TimeInv'
  <2>1. boot.v # 2 /\ ~Scanning(2)'
    BY <1>1 DEF InScan, Advance, Scanning
  <2>2. disk'.ver >= 3 => DOMAIN disk.id2ts = disk'.blocks
    BY <1>1 DEF TimeInv
  <2> QED BY <1>1, <2>1, <2>2, TimeRest
<1>2. CASE mig_1_to_2
  BY <1>1, <1>2, TipsWrite DEF mig_1_to_2, Rest
<1>3. CASE mig_3_to_4
  BY <1>1, <1>3, AddrsWrite DEF mig_3_to_4, Rest
<1>4. CASE mig_4_to_5
  BY <1>1, <1>4, TypedWrite DEF mig_4_to_5, Rest
<1>5. CASE mig_5_to_6
  BY <1>1, <1>5, RefileWrite DEF mig_5_to_6, Rest
<1>6. CASE set_version
  <2>1. /\ disk'.ver = disk.ver + 1 /\ disk'.blocks = disk.blocks /\ disk'.byTime = disk.byTime
        /\ disk'.id2ts = disk.id2ts /\ torn' = torn
        /\ boot.running /\ boot.v = disk.ver /\ boot.todo = {} /\ ~boot'.running /\ ~boot.half
    BY <1>6, VersionWrite DEF Rest
  <2>2. CASE disk.ver = 2
    <3>1. Scanning(2) /\ \A c : ~ToCome(c)
      BY <2>1, <2>2 DEF Scanning, ToCome
    <3>2. DOMAIN disk.id2ts = disk.blocks
      BY <1>0, <3>1 DEF TimeInv
    <3> QED BY <2>1, <3>2, TimeRest DEF Scanning
  <2>3. CASE disk.ver # 2
    <3>1. disk'.ver >= 3 => DOMAIN disk.id2ts = disk.blocks
      BY <1>0, <2>1, <2>3 DEF TimeInv
    <3> QED BY <2>1, <3>1, TimeRest DEF Scanning
  <2> QED BY <2>2, <2>3
<1>7. CASE BeginMigration
  <2>1. disk' = disk /\ torn' = torn /\ boot'.todo = Scan(boot.v) /\ boot'.v = boot.v /\ ~boot.half /\ ~boot'.half
    BY <1>0, <1>7 DEF BeginMigration, BootTypes
  <2>2. Indexed
    BY <2>1 DEF TimeInv, Indexed
  <2>3. Indexed'
    BY <2>1, <2>2 DEF Indexed
  <2>4. disk'.ver >= 3 => DOMAIN disk'.id2ts = disk'.blocks
    BY <2>1 DEF TimeInv
  <2>5. Scanning(2)' => boot'.todo = {<<0, b>> : b \in disk.blocks}
    BY <2>1 DEF Scanning, Scan, MarkerOnly
  <2>6. ASSUME Scanning(2)'
        PROVE  /\ \A e \in boot'.todo : e[1] = 0
               /\ \A b \in disk'.blocks : ToCome(b)'
    <3>1. \A b \in disk'.blocks : ToCome(b)'
      BY <2>1, <2>5, <2>6 DEF ToCome
    <3>2. \A e \in boot'.todo : e[1] = 0
      BY <2>5, <2>6
    <3> QED BY <3>1, <3>2
  <2> QED BY <2>1, <2>3, <2>4, <2>6 DEF TimeInv, Indexed
<1>8. CASE OpenStore \/ SchemaReady \/ NotFresh
  <2>1. ~Scanning(2)' /\ ~boot.half
    BY <1>0, <1>8, NotRunning DEF Scanning, OpenStore, SchemaReady, NotFresh
  <2>2. disk' = disk /\ torn' = torn
    BY <1>8 DEF OpenStore, SchemaReady, NotFresh
  <2>3. disk'.ver >= 3 => DOMAIN disk.id2ts = disk'.blocks
    BY <2>2 DEF TimeInv
  <2> QED BY <2>1, <2>2, <2>3, TimeRest
<1>9. CASE StopProcess
  <2>1. /\ disk' = disk /\ ~boot'.half /\ ~boot'.running
        /\ torn' = IF boot.half /\ boot.v = 2 THEN torn \cup {Here[2]} ELSE torn
    BY <1>9 DEF StopProcess, Down
  <2>2. ASSUME NEW e \in disk'.byTime
        PROVE  e[2] \in torn' \/ (e[2] \in DOMAIN disk'.id2ts /\ e[1] = disk'.id2ts[e[2]])
    BY <2>1, <2>2 DEF TimeInv
  <2> QED BY <2>1, <2>2 DEF TimeInv, Scanning
<1>10. CASE set_dag_version \/ CheckVersion
  <2>1. /\ disk'.ver = disk.ver /\ disk'.blocks = disk.blocks /\ disk'.byTime = disk.byTime
        /\ disk'.id2ts = disk.id2ts /\ torn' = torn
    BY <1>10, DagWrite DEF Rest
  <2>2. ~Scanning(2)' /\ ~boot.half
    BY <1>0, <1>10 DEF set_dag_version, CheckVersion, Scanning, BootTypes
  <2>3. disk'.ver >= 3 => DOMAIN disk.id2ts = disk'.blocks
    BY <2>1 DEF TimeInv
  <2> QED BY <2>1, <2>2, <2>3, TimeRest
<1>11. CASE persist_genesis
  <2>1. /\ disk'.blocks = {Genesis} /\ DOMAIN disk'.id2ts = {Genesis}
        /\ disk'.byTime = {<<disk'.id2ts[Genesis], Genesis>>}
    BY <1>11, GenesisWrite
  <2>2. ~Scanning(2)'
    BY <1>0, <1>11 DEF persist_genesis, Scanning, BootTypes
  <2> QED BY <2>1, <2>2 DEF TimeInv
<1>12. CASE UNCHANGED mtVars
  BY <1>12 DEF TimeInv, Scanning, ToCome, Here, mtVars
<1> QED BY <1>2, <1>3, <1>4, <1>5, <1>6, <1>7, <1>8, <1>9, <1>10, <1>11, <1>12, TimeMove DEF MaintenanceNext

-----------------------------------------------------------------------------
(* The address index.                                                      *)

LEMMA AddrsInit == MaintenanceInit => AddrsInv
<1> SUFFICES ASSUME MaintenanceInit PROVE AddrsInv
  OBVIOUS
<1>1. ~boot.running
  BY DEF MaintenanceInit, Down
<1>2. ASSUME NEW v \in Nat, NEW d, NEW B, NEW T, disk = StoreOf(v, d, B, T), v >= 3 => T = {} PROVE AddrsInv
  <2> DEFINE stamp == [b \in B \ T |-> FirstRealTs + b]
  <2>1. /\ disk.ver = v /\ disk.blocks = B /\ disk.id2ts = stamp
        /\ disk.addrs = IF v >= 4 THEN UNION {{<<a, stamp[b], b>> : a \in Addresses(b)} : b \in B} ELSE {}
    BY <1>2 DEF StoreOf
  <2> HIDE DEF stamp
  <2>2. v >= 4 => disk.addrs = UNION {AddrsOf(b) : b \in B}
    BY <2>1 DEF AddrsOf
  <2>3. v < 4 => disk.addrs = {}
    BY <2>1
  <2> QED BY <1>1, <2>1, <2>2, <2>3 DEF AddrsInv, Scanning
<1>3. CASE disk = StoreOf(0, NoVersion, {}, {})
  BY <1>2, <1>3
<1>4. \A s \in OldStores : s[1] \in Nat
  BY StoreAssumption
<1> QED BY <1>2, <1>3, <1>4, InitStores

LEMMA SameAddrs ==
    ASSUME disk'.id2ts = disk.id2ts
    PROVE  \A b : AddrsOf(b)' = AddrsOf(b) /\ TypedOf(b)' = TypedOf(b) /\ StaleOf(b)' = StaleOf(b)
BY DEF AddrsOf, TypedOf, StaleOf

\* The index and what it is made of stay as they were, and no scan is on.
LEMMA AddrsRest ==
    ASSUME AddrsInv, ~Scanning(3)', disk'.addrs = disk.addrs, disk'.blocks = disk.blocks,
           disk.ver \in Nat, disk'.ver = disk.ver, disk.ver >= 3 => disk'.id2ts = disk.id2ts
    PROVE  AddrsInv'
<1>1. CASE disk.ver < 3
  BY <1>1 DEF AddrsInv
<1>2. CASE disk.ver >= 3
  <2>1. \A b : AddrsOf(b)' = AddrsOf(b)
    BY <1>2, SameAddrs
  <2> QED BY <1>2, <2>1 DEF AddrsInv
<1> QED BY <1>1, <1>2

LEMMA AddrsMove ==
    ASSUME StoreTypes, BootTypes, AddrsInv, mig_3_to_4
    PROVE  AddrsInv'
<1>1. /\ Here \in boot.todo /\ Here[2] \in disk.blocks /\ Scanning(3) /\ disk.ver = 3
  BY ScanFact DEF mig_3_to_4
<1>2. /\ disk'.ver = 3 /\ disk'.blocks = disk.blocks /\ disk'.byTime = disk.byTime /\ disk'.id2ts = disk.id2ts
      /\ disk'.addrs = disk.addrs \cup AddrsOf(Here[2]) /\ boot'.todo = boot.todo \ {Here}
  BY <1>1, AddrsWrite DEF Rest, Advance
<1>3. \A b : AddrsOf(b)' = AddrsOf(b)
  BY <1>2, SameAddrs
<1>4. disk'.addrs \subseteq UNION {AddrsOf(b) : b \in disk.blocks}
  BY <1>1, <1>2 DEF AddrsInv
<1>5. ASSUME NEW e \in disk'.byTime \ boot'.todo PROVE AddrsOf(e[2]) \subseteq disk'.addrs
  <2>1. CASE e = Here
    BY <1>2, <2>1
  <2>2. CASE e # Here
    BY <1>1, <1>2, <1>5, <2>2 DEF AddrsInv
  <2> QED BY <2>1, <2>2
<1>6. boot'.todo \subseteq disk'.byTime
  BY <1>1, <1>2 DEF AddrsInv
<1> QED BY <1>2, <1>3, <1>4, <1>5, <1>6 DEF AddrsInv

LEMMA AddrsStep ==
    StoreTypes /\ BootTypes /\ PhaseInv /\ TimeInv /\ AddrsInv /\ [MaintenanceNext]_mtVars => AddrsInv'
<1> SUFFICES ASSUME StoreTypes, BootTypes, PhaseInv, TimeInv, AddrsInv, [MaintenanceNext]_mtVars PROVE AddrsInv'
  OBVIOUS
<1>0. /\ disk.ver \in Nat /\ (boot.phase = "schema" => boot.v = disk.ver) /\ (boot.running => boot.phase = "schema")
      /\ disk.byTime \subseteq Int \X disk.blocks
  BY DEF StoreTypes, BootTypes
<1>1. ASSUME NEW v \in {1, 2, 4, 5}, InScan(v), NEW T, NEW half, NEW ts, Advance(T, half, ts), disk'.ver = disk.ver,
             disk'.blocks = disk.blocks, disk'.id2ts = disk.id2ts \/ v = 2, disk'.addrs = disk.addrs
      PROVE  AddrsInv'
  <2>1. disk.ver = v /\ ~Scanning(3)'
    BY <1>0, <1>1 DEF InScan, Advance, Scanning
  <2> QED BY <1>1, <2>1, AddrsRest
<1>2. CASE mig_1_to_2
  BY <1>1, <1>2, TipsWrite DEF mig_1_to_2, Rest
<1>3. CASE mig_2_to_3
  BY <1>1, <1>3, TimeWrite DEF mig_2_to_3, Rest
<1>4. CASE mig_4_to_5
  BY <1>1, <1>4, TypedWrite DEF mig_4_to_5, Rest
<1>5. CASE mig_5_to_6
  BY <1>1, <1>5, RefileWrite DEF mig_5_to_6, Rest
<1>6. CASE set_version
  <2>1. /\ disk'.ver = disk.ver + 1 /\ disk'.blocks = disk.blocks /\ disk'.addrs = disk.addrs
        /\ disk'.id2ts = disk.id2ts
        /\ boot.running /\ boot.v = disk.ver /\ boot.todo = {} /\ ~boot'.running
    BY <1>6, VersionWrite DEF Rest
  <2>2. \A b : AddrsOf(b)' = AddrsOf(b)
    BY <2>1, SameAddrs
  <2>3. CASE disk.ver = 3
    <3>1. \A e \in disk.byTime : AddrsOf(e[2]) \subseteq disk.addrs
      BY <2>1, <2>3 DEF AddrsInv, Scanning
    <3>2. ASSUME NEW b \in disk.blocks PROVE AddrsOf(b) \subseteq disk.addrs
      <4>1. <<disk.id2ts[b], b>> \in disk.byTime
        BY <2>3 DEF TimeInv
      <4> QED BY <3>1, <4>1
    <3>3. disk.addrs \subseteq UNION {AddrsOf(b) : b \in disk.blocks}
      BY <2>3 DEF AddrsInv
    <3> QED BY <2>1, <2>2, <2>3, <3>2, <3>3 DEF AddrsInv, Scanning
  <2>4. CASE disk.ver # 3
    BY <1>0, <2>1, <2>2, <2>4 DEF AddrsInv, Scanning
  <2> QED BY <2>3, <2>4
<1>7. CASE BeginMigration
  <2>1. disk' = disk /\ boot'.todo = Scan(boot.v) /\ boot'.v = boot.v
    BY <1>7 DEF BeginMigration, BootTypes
  <2>2. Scanning(3)' => boot'.todo = disk.byTime
    BY <2>1 DEF Scanning, Scan, MarkerOnly
  <2>3. \A b : AddrsOf(b)' = AddrsOf(b)
    BY <2>1, SameAddrs
  <2> QED BY <2>1, <2>2, <2>3 DEF AddrsInv
<1>8. CASE OpenStore \/ SchemaReady \/ NotFresh \/ StopProcess
  <2>1. ~Scanning(3)' /\ disk' = disk
    BY <1>8, NotRunning, QuietSteps DEF Scanning
  <2> QED BY <1>0, <2>1, AddrsRest
<1>9. CASE set_dag_version \/ CheckVersion
  <2>1. disk'.ver = disk.ver /\ disk'.blocks = disk.blocks /\ disk'.addrs = disk.addrs /\ disk'.id2ts = disk.id2ts
    BY <1>9, DagWrite DEF Rest
  <2>2. ~Scanning(3)'
    BY <1>0, <1>9 DEF set_dag_version, CheckVersion, Scanning, BootTypes
  <2> QED BY <1>0, <2>1, <2>2, AddrsRest
<1>10. CASE persist_genesis
  <2>1. disk'.ver = disk.ver /\ disk.ver >= CURRENT_VER /\ disk'.blocks = {Genesis} /\ disk'.addrs = AddrsOf(Genesis)'
    BY <1>10, GenesisWrite
  <2>2. ~Scanning(3)'
    BY <1>0, <1>10 DEF persist_genesis, Scanning, BootTypes
  <2> QED BY <1>0, <2>1, <2>2 DEF AddrsInv, CURRENT_VER
<1>11. CASE UNCHANGED mtVars
  BY <1>11, SameAddrs DEF AddrsInv, Scanning, mtVars
<1> QED BY <1>2, <1>3, <1>4, <1>5, <1>6, <1>7, <1>8, <1>9, <1>10, <1>11, AddrsMove DEF MaintenanceNext

-----------------------------------------------------------------------------
(* The typed index.                                                        *)

LEMMA TypedInit == MaintenanceInit => TypedInv
<1> SUFFICES ASSUME MaintenanceInit PROVE TypedInv
  OBVIOUS
<1>1. ~boot.running
  BY DEF MaintenanceInit, Down
<1>2. ASSUME NEW v \in Nat, NEW d, NEW B \in {{}, OldBlocks}, NEW T, disk = StoreOf(v, d, B, T), v >= 3 => T = {}
      PROVE  TypedInv
  <2> DEFINE stamp == [b \in B \ T |-> FirstRealTs + b]
  <2>1. /\ disk.ver = v /\ disk.blocks = B /\ disk.id2ts = stamp
        /\ disk.typed = IF v >= 5 THEN UNION {{<<x, stamp[b], b>> : x \in (IF v >= 6 THEN NewTyped ELSE OldTyped)[b]} : b \in B}
                        ELSE {}
    BY <1>2 DEF StoreOf
  <2> HIDE DEF stamp
  <2>2. CASE v < 5
    BY <1>1, <2>1, <2>2 DEF TypedInv, Scanning
  <2>3. CASE v >= 6
    <3>1. disk.typed = UNION {TypedOf(b) : b \in B}
      BY <2>1, <2>3 DEF TypedOf
    <3> QED BY <1>1, <2>1, <2>3, <3>1 DEF TypedInv, Scanning
  <2>4. CASE v = 5
    <3> DEFINE Old(b) == {<<x, stamp[b], b>> : x \in OldTyped[b]}
    <3>1. disk.typed = UNION {Old(b) : b \in B}
      BY <2>1, <2>4
    <3>2. \A b \in B : Old(b) \subseteq TypedOf(b) \cup StaleOf(b)
      <4> SUFFICES ASSUME NEW b \in B, NEW x \in OldTyped[b] PROVE <<x, stamp[b], b>> \in TypedOf(b) \cup StaleOf(b)
        OBVIOUS
      <4>1. x \in NewTyped[b] \cup AsTransfer(b)
        BY StoreAssumption
      <4> QED BY <2>1, <4>1 DEF TypedOf, StaleOf
    <3>3. \A b \in B : FeeOnly(b) = {} => TypedOf(b) \subseteq Old(b)
      BY <2>1, StoreAssumption DEF TypedOf
    <3> HIDE DEF Old
    <3> QED BY <1>1, <2>1, <2>4, <3>1, <3>2, <3>3 DEF TypedInv, Scanning
  <2> QED BY <2>2, <2>3, <2>4
<1>3. CASE disk = StoreOf(0, NoVersion, {}, {})
  BY <1>2, <1>3
<1>4. \A s \in OldStores : s[1] \in Nat
  BY StoreAssumption
<1> QED BY <1>2, <1>3, <1>4, InitStores

\* What a block is filed under is not what another, or itself, was filed under before.
LEMMA FiledApart ==
    ASSUME NEW b \in OldBlocks, NEW c \in OldBlocks
    PROVE  TypedOf(b) \cap StaleOf(c) = {}
<1> SUFFICES ASSUME NEW t \in TypedOf(b), t \in StaleOf(c) PROVE FALSE
  OBVIOUS
<1>1. PICK x \in NewTyped[b] : t = <<x, disk.id2ts[b], b>>
  BY DEF TypedOf
<1>2. PICK y \in AsTransfer(c) : t = <<y, disk.id2ts[c], c>>
  BY DEF StaleOf
<1>3. x = y /\ b = c
  BY <1>1, <1>2
<1> QED BY <1>1, <1>2, <1>3, StoreAssumption

LEMMA TypedRest ==
    ASSUME TypedInv, ~Scanning(4)', ~Scanning(5)', disk'.typed = disk.typed, disk'.blocks = disk.blocks,
           disk.ver \in Nat, disk'.ver = disk.ver, disk.ver >= 3 => disk'.id2ts = disk.id2ts,
           keptEntries \subseteq keptEntries'
    PROVE  TypedInv'
<1>1. CASE disk.ver < 3
  BY <1>1 DEF TypedInv
<1>2. CASE disk.ver >= 3
  <2>1. \A b : TypedOf(b)' = TypedOf(b) /\ StaleOf(b)' = StaleOf(b)
    BY <1>2, SameAddrs
  <2> QED BY <1>2, <2>1 DEF TypedInv
<1> QED BY <1>1, <1>2

LEMMA TypedMove ==
    ASSUME StoreTypes, BootTypes, TypedInv, mig_4_to_5
    PROVE  TypedInv'
<1>1. /\ Here \in boot.todo /\ Here[2] \in disk.blocks /\ Scanning(4) /\ disk.ver = 4 /\ boot.v = 4
  BY ScanFact DEF mig_4_to_5
<1>2. /\ disk'.ver = 4 /\ disk'.blocks = disk.blocks /\ disk'.byTime = disk.byTime /\ disk'.id2ts = disk.id2ts
      /\ disk'.typed = disk.typed \cup TypedOf(Here[2]) /\ boot'.todo = boot.todo \ {Here} /\ ~Scanning(5)'
  BY <1>1, TypedWrite DEF Rest, Advance, Scanning
<1>3. \A b : TypedOf(b)' = TypedOf(b)
  BY <1>2, SameAddrs
<1>4. disk'.typed \subseteq UNION {TypedOf(b) : b \in disk.blocks}
  BY <1>1, <1>2 DEF TypedInv
<1>5. ASSUME NEW e \in disk'.byTime \ boot'.todo PROVE TypedOf(e[2]) \subseteq disk'.typed
  <2>1. CASE e = Here
    BY <1>2, <2>1
  <2>2. CASE e # Here
    BY <1>1, <1>2, <1>5, <2>2 DEF TypedInv
  <2> QED BY <2>1, <2>2
<1>6. boot'.todo \subseteq disk'.byTime
  BY <1>1, <1>2 DEF TypedInv
<1> QED BY <1>2, <1>3, <1>4, <1>5, <1>6 DEF TypedInv

\* A block with a fee is filed anew, then its stale entries go.
LEMMA RefileMove ==
    ASSUME StoreTypes, BootTypes, PhaseInv, TypedInv, mig_5_to_6
    PROVE  TypedInv'
<1> DEFINE b == Here[2]
           B == disk.blocks
<1>1. /\ Here \in boot.todo /\ b \in B /\ Scanning(5) /\ disk.ver = 5 /\ boot.v = 5
  BY ScanFact DEF mig_5_to_6
<1>2. B = OldBlocks /\ disk.byTime \subseteq Int \X B
  BY <1>1 DEF PhaseInv, StoreTypes, CURRENT_VER
<1>3. /\ boot.todo \subseteq disk.byTime /\ (boot.half => TypedOf(b) \subseteq disk.typed)
      /\ \A e \in disk.byTime \ boot.todo : TypedOf(e[2]) \subseteq disk.typed /\ StaleOf(e[2]) \cap disk.typed \subseteq keptEntries
      /\ disk.typed \subseteq UNION {TypedOf(c) \cup StaleOf(c) : c \in B}
      /\ \A c \in B : FeeOnly(c) = {} => TypedOf(c) \subseteq disk.typed
  BY <1>1 DEF TypedInv
<1>4. ASSUME disk'.ver = 5, disk'.blocks = B, disk'.byTime = disk.byTime, disk'.id2ts = disk.id2ts,
             boot'.todo \subseteq disk.byTime, boot'.v = 5,
             boot'.half => boot'.todo = boot.todo /\ TypedOf(b) \subseteq disk'.typed,
             \A e \in disk.byTime \ boot'.todo : TypedOf(e[2]) \subseteq disk'.typed /\ StaleOf(e[2]) \cap disk'.typed \subseteq keptEntries',
             disk'.typed \subseteq UNION {TypedOf(c) \cup StaleOf(c) : c \in B},
             \A c \in B : FeeOnly(c) = {} => TypedOf(c) \subseteq disk'.typed
      PROVE  TypedInv'
  <2>1. \A c : TypedOf(c)' = TypedOf(c) /\ StaleOf(c)' = StaleOf(c)
    BY <1>4, SameAddrs
  <2>2. boot'.half => Here' = Here
    BY <1>4 DEF Here
  <2>3. ~Scanning(4)'
    BY <1>4 DEF Scanning
  <2>4. boot'.half => TypedOf(Here[2])' \subseteq disk'.typed
    <3>1. TypedOf(Here[2])' = {<<x, disk.id2ts[Here'[2]], Here'[2]>> : x \in NewTyped[Here'[2]]}
      BY <1>4 DEF TypedOf
    <3>2. TypedOf(Here[2]) = {<<x, disk.id2ts[Here[2]], Here[2]>> : x \in NewTyped[Here[2]]}
      BY DEF TypedOf
    <3> QED BY <1>4, <2>2, <3>1, <3>2
  <2> QED BY <1>4, <2>1, <2>3, <2>4 DEF TypedInv
<1>5. CASE FeeOnly(b) = {} /\ UNCHANGED <<disk, keptEntries>> /\ Advance(boot.todo \ {Here}, FALSE, boot.ts)
  <2>1. boot'.todo = boot.todo \ {Here} /\ ~boot'.half /\ boot'.v = 5
    BY <1>1, <1>5 DEF Advance
  <2>2. TypedOf(b) \subseteq disk.typed /\ StaleOf(b) = {}
    BY <1>1, <1>3, <1>5 DEF StaleOf, AsTransfer
  <2>3. \A e \in disk.byTime \ boot'.todo : TypedOf(e[2]) \subseteq disk.typed /\ StaleOf(e[2]) \cap disk.typed \subseteq keptEntries
    BY <1>3, <2>1, <2>2
  <2> QED BY <1>1, <1>3, <1>4, <1>5, <2>1, <2>3
<1>6. CASE /\ FeeOnly(b) # {} /\ Rest({"typed"}) /\ disk'.typed = disk.typed \cup TypedOf(b)
           /\ UNCHANGED keptEntries /\ Advance(boot.todo, TRUE, boot.ts)
  <2>1. /\ boot'.todo = boot.todo /\ boot'.half /\ boot'.v = 5
        /\ disk'.ver = 5 /\ disk'.blocks = B /\ disk'.byTime = disk.byTime /\ disk'.id2ts = disk.id2ts
    BY <1>1, <1>6 DEF Advance, Rest
  <2>2. ASSUME NEW e \in disk.byTime \ boot.todo
        PROVE  TypedOf(e[2]) \subseteq disk'.typed /\ StaleOf(e[2]) \cap disk'.typed \subseteq keptEntries'
    <3>1. TypedOf(b) \cap StaleOf(e[2]) = {}
      <4>1. e[2] \in OldBlocks /\ b \in OldBlocks
        BY <1>1, <1>2
      <4> QED BY <4>1, FiledApart
    <3> QED BY <1>3, <1>6, <3>1
  <2>3. disk'.typed \subseteq UNION {TypedOf(c) \cup StaleOf(c) : c \in B}
    BY <1>1, <1>3, <1>6
  <2> QED BY <1>3, <1>4, <1>6, <2>1, <2>2, <2>3
<1>7. ASSUME FeeOnly(b) # {}, boot.half, Rest({"typed"}), Advance(boot.todo \ {Here}, FALSE, boot.ts),
             NEW F \in SUBSET StaleOf(b), disk'.typed = disk.typed \ (StaleOf(b) \ F),
             keptEntries' = keptEntries \cup F
      PROVE  TypedInv'
  <2>1. /\ boot'.todo = boot.todo \ {Here} /\ ~boot'.half /\ boot'.v = 5
        /\ disk'.ver = 5 /\ disk'.blocks = B /\ disk'.byTime = disk.byTime /\ disk'.id2ts = disk.id2ts
    BY <1>1, <1>7 DEF Advance, Rest
  <2>2. \A c \in B : TypedOf(c) \cap StaleOf(b) = {}
    BY <1>1, <1>2, FiledApart
  <2>3. ASSUME NEW e \in disk.byTime \ boot'.todo
        PROVE  TypedOf(e[2]) \subseteq disk'.typed /\ StaleOf(e[2]) \cap disk'.typed \subseteq keptEntries'
    <3>1. e[2] \in B
      BY <1>2
    <3>2. CASE e = Here
      BY <1>3, <1>7, <2>2, <3>1, <3>2
    <3>3. CASE e # Here
      BY <1>3, <1>7, <2>1, <2>2, <2>3, <3>1, <3>3
    <3> QED BY <3>2, <3>3
  <2>4. \A c \in B : FeeOnly(c) = {} => TypedOf(c) \subseteq disk'.typed
    BY <1>3, <1>7, <2>2
  <2>5. disk'.typed \subseteq UNION {TypedOf(c) \cup StaleOf(c) : c \in B}
    BY <1>3, <1>7
  <2> QED BY <1>3, <1>4, <2>1, <2>3, <2>4, <2>5
<1> QED BY <1>5, <1>6, <1>7, RefileWrite

LEMMA TypedStep ==
    StoreTypes /\ BootTypes /\ PhaseInv /\ TimeInv /\ TypedInv /\ [MaintenanceNext]_mtVars => TypedInv'
<1> SUFFICES ASSUME StoreTypes, BootTypes, PhaseInv, TimeInv, TypedInv, [MaintenanceNext]_mtVars PROVE TypedInv'
  OBVIOUS
<1>0. /\ disk.ver \in Nat /\ (boot.phase = "schema" => boot.v = disk.ver) /\ (boot.running => boot.phase = "schema")
      /\ (boot.half => boot.todo # {}) /\ (boot.todo # {} => boot.running)
  BY DEF StoreTypes, BootTypes
<1>g. ~BeginMigration => keptEntries \subseteq keptEntries'
  BY KeptGrow
<1>1. ASSUME NEW v \in {1, 2, 3}, InScan(v), NEW T, NEW half, NEW ts, Advance(T, half, ts), disk'.ver = disk.ver,
             disk'.blocks = disk.blocks, disk'.id2ts = disk.id2ts \/ v = 2, disk'.typed = disk.typed
      PROVE  TypedInv'
  <2>1. disk.ver = v /\ ~Scanning(4)' /\ ~Scanning(5)' /\ ~BeginMigration
    BY <1>0, <1>1 DEF InScan, Advance, Scanning, BeginMigration
  <2> QED BY <1>g, <1>1, <2>1, TypedRest
<1>2. CASE mig_1_to_2
  BY <1>1, <1>2, TipsWrite DEF mig_1_to_2, Rest
<1>3. CASE mig_2_to_3
  BY <1>1, <1>3, TimeWrite DEF mig_2_to_3, Rest
<1>4. CASE mig_3_to_4
  BY <1>1, <1>4, AddrsWrite DEF mig_3_to_4, Rest
<1>6. CASE set_version
  <2>1. /\ disk'.ver = disk.ver + 1 /\ disk'.blocks = disk.blocks /\ disk'.typed = disk.typed
        /\ disk'.id2ts = disk.id2ts
        /\ boot.running /\ boot.v = disk.ver /\ boot.todo = {} /\ ~boot'.running
    BY <1>6, VersionWrite DEF Rest
  <2>9. keptEntries \subseteq keptEntries'
    BY <1>g, <1>6 DEF set_version, BeginMigration
  <2>2. \A b : TypedOf(b)' = TypedOf(b) /\ StaleOf(b)' = StaleOf(b)
    BY <2>1, SameAddrs
  <2>3. disk.ver >= 3 => \A b \in disk.blocks : <<disk.id2ts[b], b>> \in disk.byTime
    BY DEF TimeInv
  <2>4. CASE disk.ver = 4
    <3>1. \A e \in disk.byTime : TypedOf(e[2]) \subseteq disk.typed
      BY <2>1, <2>4 DEF TypedInv, Scanning
    <3>2. ASSUME NEW b \in disk.blocks PROVE TypedOf(b) \subseteq disk.typed
      <4>1. <<disk.id2ts[b], b>> \in disk.byTime
        BY <2>3, <2>4
      <4> QED BY <3>1, <4>1
    <3>3. disk.typed \subseteq UNION {TypedOf(b) : b \in disk.blocks}
      BY <2>4 DEF TypedInv
    <3>4. disk.typed \subseteq UNION {TypedOf(b) \cup StaleOf(b) : b \in disk.blocks}
      BY <3>3
    <3> QED BY <2>1, <2>2, <2>4, <3>2, <3>4 DEF TypedInv, Scanning
  <2>5. CASE disk.ver = 5
    <3>1. /\ \A e \in disk.byTime : TypedOf(e[2]) \subseteq disk.typed /\ StaleOf(e[2]) \cap disk.typed \subseteq keptEntries
          /\ disk.typed \subseteq UNION {TypedOf(b) \cup StaleOf(b) : b \in disk.blocks}
      BY <2>1, <2>5 DEF TypedInv, Scanning
    <3>2. ASSUME NEW b \in disk.blocks PROVE TypedOf(b) \subseteq disk.typed /\ StaleOf(b) \cap disk.typed \subseteq keptEntries
      <4>1. <<disk.id2ts[b], b>> \in disk.byTime
        BY <2>3, <2>5
      <4> QED BY <3>1, <4>1
    <3>3. disk.typed \subseteq (UNION {TypedOf(b) : b \in disk.blocks}) \cup keptEntries
      <4>1. ASSUME NEW t \in disk.typed, t \notin keptEntries
            PROVE  \E b \in disk.blocks : t \in TypedOf(b)
        <5>1. PICK b \in disk.blocks : t \in TypedOf(b) \cup StaleOf(b)
          BY <3>1, <4>1
        <5> QED BY <3>2, <4>1, <5>1
      <4> QED BY <4>1
    <3> QED BY <2>1, <2>2, <2>9, <2>5, <3>2, <3>3 DEF TypedInv, Scanning
  <2>6. CASE disk.ver < 3
    BY <1>0, <2>1, <2>6 DEF TypedInv, Scanning
  <2>7. CASE disk.ver = 3
    BY <2>1, <2>7 DEF TypedInv, Scanning
  <2>8. CASE disk.ver >= 6
    BY <1>0, <2>1, <2>2, <2>8, <2>9 DEF TypedInv, Scanning
  <2> QED BY <1>0, <2>4, <2>5, <2>6, <2>7, <2>8
<1>7. CASE BeginMigration
  <2>1. /\ disk' = disk /\ boot'.todo = Scan(boot.v) /\ boot'.v = boot.v /\ ~boot'.half
        /\ boot.v = disk.ver /\ (boot.v # 5 => keptEntries' = keptEntries)
    BY <1>0, <1>7 DEF BeginMigration, Retried, BootTypes
  <2>2. Scanning(4)' \/ Scanning(5)' => boot'.todo = disk.byTime
    BY <2>1 DEF Scanning, Scan, MarkerOnly
  <2>3. \A b : TypedOf(b)' = TypedOf(b) /\ StaleOf(b)' = StaleOf(b)
    BY <2>1, SameAddrs
  <2>4. disk.ver >= 6 => keptEntries' = keptEntries
    BY <1>0, <2>1
  <2> QED BY <2>1, <2>2, <2>3, <2>4 DEF TypedInv
<1>8. CASE OpenStore \/ SchemaReady \/ NotFresh \/ StopProcess
  <2>1. ~Scanning(4)' /\ ~Scanning(5)' /\ disk' = disk
    BY <1>8, NotRunning, QuietSteps DEF Scanning
  <2>2. keptEntries' = keptEntries
    BY <1>8 DEF OpenStore, SchemaReady, NotFresh, StopProcess
  <2> QED BY <1>0, <2>1, <2>2, TypedRest
<1>9. CASE set_dag_version \/ CheckVersion
  <2>1. disk'.ver = disk.ver /\ disk'.blocks = disk.blocks /\ disk'.typed = disk.typed /\ disk'.id2ts = disk.id2ts
    BY <1>9, DagWrite DEF Rest
  <2>2. ~Scanning(4)' /\ ~Scanning(5)'
    BY <1>0, <1>9 DEF set_dag_version, CheckVersion, Scanning, BootTypes
  <2>3. ~BeginMigration
    BY <1>9 DEF BeginMigration, set_dag_version, CheckVersion
  <2> QED BY <1>g, <1>0, <2>1, <2>2, <2>3, TypedRest
<1>10. CASE persist_genesis
  <2>1. disk'.ver = disk.ver /\ disk.ver >= CURRENT_VER /\ disk'.blocks = {Genesis} /\ disk'.typed = TypedOf(Genesis)'
    BY <1>10, GenesisWrite
  <2>2. ~Scanning(4)' /\ ~Scanning(5)'
    BY <1>0, <1>10 DEF persist_genesis, Scanning, BootTypes
  <2> QED BY <1>0, <2>1, <2>2 DEF TypedInv, CURRENT_VER
<1>11. CASE UNCHANGED mtVars
  <2>1. disk' = disk /\ boot' = boot /\ keptEntries' = keptEntries
    BY <1>11 DEF mtVars
  <2>2. Here' = Here
    BY <2>1 DEF Here
  <2> QED BY <2>1, <2>2, SameAddrs DEF TypedInv, Scanning
<1> QED BY <1>2, <1>3, <1>4, <1>6, <1>7, <1>8, <1>9, <1>10, <1>11, TypedMove, RefileMove DEF MaintenanceNext

\* The stored schema version is a promise about the indexes that holds at every
\* moment, wherever the process dies and however often the migrations run again; and
\* only a complete schema with the binary's DAG version is opened (migration.rs,
\* instance.rs).
THEOREM SchemaAlwaysSound == MaintenanceSpec => []SchemaSound
<1>1. MaintenanceInit => SchemaInv
  BY TypesInit, PhaseInit, TipsInit, TimeInit, AddrsInit, TypedInit DEF SchemaInv
<1>2. SchemaInv /\ [MaintenanceNext]_mtVars => SchemaInv'
  BY StoreTypesStep, BootTypesStep, PhaseStep, TipsStep, TimeStep, AddrsStep, TypedStep DEF SchemaInv
<1>3. SchemaInv => SchemaSound
  <2> SUFFICES ASSUME SchemaInv PROVE SchemaSound
    OBVIOUS
  <2>0. /\ disk.ver \in Nat /\ (boot.phase = "schema" => boot.v = disk.ver) /\ (boot.half => boot.todo # {})
        /\ (boot.todo # {} => boot.running) /\ (boot.running => boot.phase = "schema")
    BY DEF SchemaInv, StoreTypes, BootTypes
  <2>1. disk.ver >= 2 =>
          /\ RealTips(disk.blocks, disk.blocks) \subseteq disk.tips \/ Full(disk.blocks, disk.tips)
          /\ disk.tips \subseteq TipsAfterMigration(disk.blocks) \cup keptTips
    BY DEF SchemaInv, TipsInv
  <2>2. disk.ver >= 3 =>
          /\ \A b \in disk.blocks : b \in DOMAIN disk.id2ts /\ <<disk.id2ts[b], b>> \in disk.byTime
          /\ \A e \in disk.byTime : e[1] = disk.id2ts[e[2]] \/ e[2] \in torn
    BY <2>0 DEF SchemaInv, TimeInv
  <2>3. disk.ver >= 4 => disk.addrs = UNION {AddrsOf(b) : b \in disk.blocks}
    BY <2>0 DEF SchemaInv, AddrsInv
  <2>4. disk.ver >= 6 => /\ UNION {TypedOf(b) : b \in disk.blocks} \subseteq disk.typed
                         /\ disk.typed \subseteq (UNION {TypedOf(b) : b \in disk.blocks}) \cup keptEntries
    BY <2>0 DEF SchemaInv, TypedInv
  <2>5. /\ boot.phase = "up" => disk.blocks # {} /\ disk.ver >= CURRENT_VER /\ disk.dag = DAG_VERSION
        /\ boot.phase = "refused" => Refusable
    BY DEF SchemaInv, PhaseInv
  <2>6. disk.ver >= 4 => disk.addrs = UNION {{<<a, disk.id2ts[b], b>> : a \in Addresses(b)} : b \in disk.blocks}
    BY <2>3 DEF AddrsOf
  <2>7. disk.ver >= 6 =>
          /\ UNION {{<<x, disk.id2ts[b], b>> : x \in NewTyped[b]} : b \in disk.blocks} \subseteq disk.typed
          /\ disk.typed \subseteq
                (UNION {{<<x, disk.id2ts[b], b>> : x \in NewTyped[b]} : b \in disk.blocks}) \cup keptEntries
    BY <2>4 DEF TypedOf
  <2>8. boot.phase = "refused" =>
          \/ stillborn
          \/ disk.dag = NoVersion /\ disk.blocks # {Genesis}
          \/ disk.dag # NoVersion /\ (disk.dag[1] # DAG_VERSION[1] \/ disk.dag[2] > DAG_VERSION[2])
    BY <2>5 DEF Refusable
  <2> QED BY <2>1, <2>2, <2>5, <2>6, <2>7, <2>8, SMTT(60) DEF SchemaSound
<1> QED BY <1>1, <1>2, <1>3, PTL DEF MaintenanceSpec
==============================================================================
