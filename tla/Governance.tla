----------------------------- MODULE Governance -----------------------------
(***************************************************************************)
(* The governance timelock: the GovernanceProposal, GovernanceEnact,       *)
(* GovernanceCancel and ConfigUpdate arms of do_persist_block_internal     *)
(* (pms-core/net_adapter/persist.rs), the policy they consult              *)
(* (pms-config/governance_policy.rs), and the stores they write: the       *)
(* governance_proposals and runtime_config column families, the latter     *)
(* behind a cache that lives 500 ms.                                       *)
(*                                                                         *)
(* A call is a Task: an administrator's request, the auto-enact task or a  *)
(* block received from a peer.  No lock spans two accesses to a store, so  *)
(* each access is an action.  All four payloads are signed by the          *)
(* Coordinator; the authority check before these arms is left out.         *)
(***************************************************************************)
EXTENDS Integers, Sequences

CONSTANTS
    Update,     \* ConfigUpdate values
    Settings,   \* the settings of an update in order: a BatchUpdate has many
    InitialCfg, \* RuntimeConfig at the first boot
    NoCfg,      \* an empty or expired cache
    Duration,   \* default_duration_ms of a tier
    Direct,     \* the ConfigUpdate blocks that are submitted as such
    Task,       \* concurrent calls
    NoId,       \* for a ConfigUpdate block, which refers to no proposal
    MaxTime,    \* bound: the clock
    MaxCalls,   \* bound: calls begun
    MaxCrashes  \* bound: process exits

\* GovernanceTier, in its order.
Operator == 1
Policy == 2
Constitution == 3
Tier == Operator .. Constitution

\* fee_rate stands for every parameter of tier Operator, burn_rate for those
\* of tier Policy that never count as a tightening.
Param == {"mint_enabled", "max_mint", "corridor", "burn_rate", "fee_rate"}

\* A value is a tuple: <<0>> or <<1>> for mint_enabled, <<ceiling, floor,
\* target>> for the corridor, <<>> for a corridor not governed yet.
Value == Seq(Nat)
Setting == [param : Param, value : Value]
Config == [Param -> Value]
Time == 0 .. MaxTime

\* proposal_id = SHA-256(update, tier, announced_at).
Id == [update : Update, tier : Tier, at : Time]

ASSUME UpdateAssumption ==
    /\ Update # {}
    /\ Direct \subseteq Update
    /\ Settings \in [Update -> Seq(Setting)]

ASSUME ConfigAssumption == InitialCfg \in Config /\ NoCfg \notin Config

ASSUME TierAssumption ==
    /\ Duration \in [Tier -> Nat]
    /\ \A s, t \in Tier : s <= t => Duration[s] <= Duration[t]

ASSUME GovernanceBounds ==
    NoId \notin Id /\ MaxTime \in Nat /\ MaxCalls \in Nat /\ MaxCrashes \in Nat

VARIABLES
    now,
    status, after,      \* the record of each proposal
    dbCfg,              \* runtime_config
    cache,              \* runtime_config_cache
    reader,             \* what a get_runtime_config in progress read, or NoCfg
    pc, id, upd, due, new,  \* the calls
    applied,            \* which proposal changed the config, and when
    calls, crashes

props == <<status, after>>
bounds == <<calls, crashes>>
cfgs  == <<dbCfg, cache, reader>>
call  == <<pc, id, upd, due, new>>
vars  == <<now, props, cfgs, call, applied, bounds>>

\* What an idle call holds.
NoUpdate == CHOOSE u \in Update : TRUE

Steps == {"idle", "lookup", "derive", "put", "read", "writeDb", "writeCache",
          "history", "mark", "cancel"}
Statuses == {"Unknown", "Pending", "Enacted", "Cancelled"}

TypeOK ==
    /\ now \in Time
    /\ status \in [Id -> Statuses]
    /\ after \in [Id -> Nat]
    /\ dbCfg \in Config
    /\ cache \in Config \cup {NoCfg}
    /\ reader \in Config \cup {NoCfg}
    /\ pc \in [Task -> Steps]
    /\ id \in [Task -> Id \cup {NoId}]
    /\ upd \in [Task -> Update]
    /\ due \in [Task -> Nat]
    /\ new \in [Task -> Config]
    /\ applied \subseteq [id : Id, at : Time]
    /\ calls \in Nat
    /\ crashes \in Nat

Init ==
    /\ now = 0
    /\ status = [p \in Id |-> "Unknown"]
    /\ after = [p \in Id |-> 0]
    /\ dbCfg = InitialCfg
    /\ cache = NoCfg
    /\ reader = NoCfg
    /\ pc = [t \in Task |-> "idle"]
    /\ id = [t \in Task |-> NoId]
    /\ upd = [t \in Task |-> NoUpdate]
    /\ due = [t \in Task |-> 0]
    /\ new = [t \in Task |-> InitialCfg]
    /\ applied = {}
    /\ calls = 0
    /\ crashes = 0

-----------------------------------------------------------------------------
(* The policy.                                                             *)

\* min_tier.
MinTier(p) ==
    CASE p = "corridor" -> Constitution
      [] p \in {"mint_enabled", "max_mint", "burn_rate"} -> Policy
      [] OTHER -> Operator

\* validate_tier: the declared tier reaches that of every setting.
TierAllowed(u, tier) ==
    \A i \in DOMAIN Settings[u] : tier >= MinTier(Settings[u][i].param)

\* direction of one setting, against the current config c.
Tightens(s, c) ==
    \/ s.param = "mint_enabled" /\ s.value = <<0>>
    \/ s.param = "max_mint" /\ s.value[1] < c["max_mint"][1]
    \/ /\ s.param = "corridor"
       /\ c["corridor"] # <<>>
       /\ s.value[1] <= c["corridor"][1]
       /\ s.value[3] <= c["corridor"][3]

\* direction: a batch tightens when all of its settings do.
TightenSome(u, c) ==
    \E i \in DOMAIN Settings[u] : Tightens(Settings[u][i], c)
Tighten(u, c) ==
    /\ Settings[u] # <<>>
    /\ \A i \in DOMAIN Settings[u] : Tightens(Settings[u][i], c)

\* required_timelock_ms.
RequiredTimelock(u, c, tier) == IF Tighten(u, c) THEN 0 ELSE Duration[tier]

EnactAfter(at, timelock) == at + timelock

\* apply_update_inner refuses a corridor out of order and a burn rate over
\* 100 %.
Acceptable(s) ==
    /\ s.param = "corridor" => s.value[2] <= s.value[3] /\ s.value[3] <= s.value[1]
    /\ s.param = "burn_rate" => s.value[1] <= 10000

LastOf(S) == CHOOSE i \in S : \A j \in S : j <= i

\* apply_update: the last setting of a parameter wins.
ApplyUpdate(u, c) ==
    [p \in Param |->
        LET sets == {i \in DOMAIN Settings[u] : Settings[u][i].param = p} IN
        IF sets = {} THEN c[p]
        ELSE Settings[u][LastOf(sets)].value]

-----------------------------------------------------------------------------
(* The stores and the calls.                                               *)

\* get_runtime_config returns this.  A caller that finds the cache empty
\* fills it; the fill that comes late is ReaderMiss, then ReaderFill.
CurrentCfg == IF cache # NoCfg THEN cache ELSE dbCfg

Goto(t, step) == pc' = [pc EXCEPT ![t] = step]

\* The call returns and nothing of it is left.
Return(t) ==
    /\ Goto(t, "idle")
    /\ id' = [id EXCEPT ![t] = NoId]
    /\ upd' = [upd EXCEPT ![t] = NoUpdate]
    /\ due' = [due EXCEPT ![t] = 0]
    /\ new' = [new EXCEPT ![t] = InitialCfg]

Begin(t) == pc[t] = "idle" /\ calls < MaxCalls /\ calls' = calls + 1

\* do_propose: stamps the announcement and derives its enact_after.
Propose(t, u, tier) ==
    LET p == [update |-> u, tier |-> tier, at |-> now] IN
    /\ Begin(t)
    /\ TierAllowed(u, tier)
    /\ Goto(t, "lookup")
    /\ id' = [id EXCEPT ![t] = p]
    /\ upd' = [upd EXCEPT ![t] = u]
    /\ due' = [due EXCEPT ![t] = EnactAfter(now, RequiredTimelock(u, CurrentCfg, tier))]
    /\ cache' = CurrentCfg
    /\ UNCHANGED <<now, props, dbCfg, reader, new, applied, crashes>>

\* The proposal must not exist yet.
ProposeLookup(t) ==
    /\ pc[t] = "lookup"
    /\ \/ status[id[t]] # "Unknown" /\ Return(t)
       \/ /\ status[id[t]] = "Unknown"
          /\ Goto(t, "derive")
          /\ UNCHANGED <<id, upd, due, new>>
    /\ UNCHANGED <<now, props, cfgs, applied, bounds>>

\* persist re-derives enact_after from the config it sees now.
ProposeDerive(t) ==
    LET p == id[t]
        expected == EnactAfter(p.at, RequiredTimelock(p.update, CurrentCfg, p.tier)) IN
    /\ pc[t] = "derive"
    /\ cache' = CurrentCfg
    /\ \/ due[t] # expected /\ Return(t)
       \/ /\ due[t] = expected
          /\ Goto(t, "put")
          /\ UNCHANGED <<id, upd, due, new>>
    /\ UNCHANGED <<now, props, dbCfg, reader, applied, bounds>>

\* put_governance_proposal, a blind write, or its error.
ProposePut(t) ==
    /\ pc[t] = "put"
    /\ \/ /\ status' = [status EXCEPT ![id[t]] = "Pending"]
          /\ after' = [after EXCEPT ![id[t]] = due[t]]
       \/ UNCHANGED props
    /\ Return(t)
    /\ UNCHANGED <<now, cfgs, applied, bounds>>

\* The status test of the Enact and Cancel arms.
IsKnown(p) == status[p] # "Unknown"
IsPending(p) == status[p] = "Pending"

\* Enact, by hand or by governance_enact_tick: status and timelock.
Enact(t, p) ==
    /\ Begin(t)
    /\ IsPending(p)
    /\ now >= after[p]
    /\ Goto(t, "read")
    /\ id' = [id EXCEPT ![t] = p]
    /\ upd' = [upd EXCEPT ![t] = p.update]
    /\ UNCHANGED <<now, props, cfgs, due, new, applied, crashes>>

\* A ConfigUpdate block goes straight to apply_config_update.
ConfigUpdate(t, u) ==
    /\ Begin(t)
    /\ Goto(t, "read")
    /\ id' = [id EXCEPT ![t] = NoId]
    /\ upd' = [upd EXCEPT ![t] = u]
    /\ UNCHANGED <<now, props, cfgs, due, new, applied, crashes>>

\* The block is rejected.
RefusedButMarked(t) == Goto(t, "mark") /\ UNCHANGED <<id, upd, due, new>>
Refused(t) == Return(t)

\* apply_config_update, first half: read the config, compute the next one.
ReadConfig(t) ==
    /\ pc[t] = "read"
    /\ cache' = CurrentCfg
    /\ \/ /\ \A i \in DOMAIN Settings[upd[t]] : Acceptable(Settings[upd[t]][i])
          /\ new' = [new EXCEPT ![t] = ApplyUpdate(upd[t], CurrentCfg)]
          /\ Goto(t, "writeDb")
          /\ UNCHANGED <<id, upd, due>>
       \/ /\ \E i \in DOMAIN Settings[upd[t]] : ~Acceptable(Settings[upd[t]][i])
          /\ Refused(t)
    /\ UNCHANGED <<now, props, dbCfg, reader, applied, bounds>>

\* set_runtime_config writes the whole config to RocksDB, or fails.
WriteDb(t) ==
    /\ pc[t] = "writeDb"
    /\ \/ /\ dbCfg' = new[t]
          /\ applied' = applied \cup [id : {id[t]} \ {NoId}, at : {now}]
          /\ Goto(t, "writeCache")
          /\ UNCHANGED <<id, upd, due, new>>
       \/ Return(t) /\ UNCHANGED <<dbCfg, applied>>
    /\ UNCHANGED <<now, props, cache, reader, bounds>>

WriteCache(t) ==
    /\ pc[t] = "writeCache"
    /\ cache' = new[t]
    /\ Goto(t, "history")
    /\ UNCHANGED <<now, props, dbCfg, reader, id, upd, due, new, applied, bounds>>

\* append_config_history; its error rejects a block that took effect.
AppendHistory(t) ==
    /\ pc[t] = "history"
    /\ \/ id[t] # NoId /\ Goto(t, "mark") /\ UNCHANGED <<id, upd, due, new>>
       \/ Return(t)
    /\ UNCHANGED <<now, props, cfgs, applied, bounds>>

\* set_governance_status(Enacted), whatever the status is by now; an error is
\* only logged.
MarkEnacted(t) ==
    /\ pc[t] = "mark"
    /\ \/ status' = [status EXCEPT ![id[t]] = "Enacted"]
       \/ UNCHANGED status
    /\ Return(t)
    /\ UNCHANGED <<now, after, cfgs, applied, bounds>>

Cancel(t, p) ==
    /\ Begin(t)
    /\ IsPending(p)
    /\ Goto(t, "cancel")
    /\ id' = [id EXCEPT ![t] = p]
    /\ UNCHANGED <<now, props, cfgs, upd, due, new, applied, crashes>>

\* set_governance_status(Cancelled), or its error.
MarkCancelled(t) ==
    /\ pc[t] = "cancel"
    /\ \/ status' = [status EXCEPT ![id[t]] = "Cancelled"]
       \/ UNCHANGED status
    /\ Return(t)
    /\ UNCHANGED <<now, after, cfgs, applied, bounds>>

-----------------------------------------------------------------------------
(* The cache and the process.                                              *)

\* Any other call that reads the config: it misses the cache, then fills it.
ReaderMiss ==
    /\ cache = NoCfg
    /\ reader = NoCfg
    /\ reader' = dbCfg
    /\ UNCHANGED <<now, props, dbCfg, cache, call, applied, bounds>>

ReaderFill ==
    /\ reader # NoCfg
    /\ cache' = reader
    /\ reader' = NoCfg
    /\ UNCHANGED <<now, props, dbCfg, call, applied, bounds>>

Expire ==
    /\ cache # NoCfg
    /\ cache' = NoCfg
    /\ UNCHANGED <<now, props, dbCfg, reader, call, applied, bounds>>

\* A day passes.
Tick ==
    /\ now < MaxTime
    /\ now' = now + 1
    /\ cache' = NoCfg
    /\ UNCHANGED <<props, dbCfg, reader, call, applied, bounds>>

\* The process exits and restarts: the stores are all that is left.
Crash ==
    /\ crashes < MaxCrashes
    /\ crashes' = crashes + 1
    /\ pc' = [t \in Task |-> "idle"]
    /\ id' = [t \in Task |-> NoId]
    /\ upd' = [t \in Task |-> NoUpdate]
    /\ due' = [t \in Task |-> 0]
    /\ new' = [t \in Task |-> InitialCfg]
    /\ cache' = NoCfg
    /\ reader' = NoCfg
    /\ UNCHANGED <<now, props, dbCfg, applied, calls>>

-----------------------------------------------------------------------------
CallStep(t) ==
    \/ ProposeLookup(t)
    \/ ProposeDerive(t)
    \/ ProposePut(t)
    \/ ReadConfig(t)
    \/ WriteDb(t)
    \/ WriteCache(t)
    \/ AppendHistory(t)
    \/ MarkEnacted(t)
    \/ MarkCancelled(t)

Next ==
    \/ \E t \in Task :
        \/ \E u \in Update, tier \in Tier : Propose(t, u, tier)
        \/ \E u \in Direct : ConfigUpdate(t, u)
        \/ \E p \in Id : Enact(t, p) \/ Cancel(t, p)
        \/ CallStep(t)
    \/ ReaderMiss
    \/ ReaderFill
    \/ Expire
    \/ Tick
    \/ Crash

Spec == Init /\ [][Next]_vars

-----------------------------------------------------------------------------
(* Properties.                                                             *)

\* A setting that never counts as a tightening.
NeverTightens(s) ==
    \/ s.param \in {"burn_rate", "fee_rate"}
    \/ s.param = "mint_enabled" /\ s.value # <<0>>

\* A setting that loosens takes effect, through a proposal, only after the
\* whole delay of the tier its parameter requires, also when it hides in a
\* batch of tightenings, races another call or follows a crash (G2, G4).
TimelockRespected ==
    \A e \in applied : \A i \in DOMAIN Settings[e.id.update] :
        LET s == Settings[e.id.update][i] IN
        NeverTightens(s) => e.at >= e.id.at + Duration[MinTier(s.param)]

\* The history endpoint shows as Enacted only a proposal whose update was
\* written to the config, however calls interleave or fail half way.
EnactedWasApplied ==
    \A p \in Id : status[p] = "Enacted" => \E e \in applied : e.id = p

\* Calls past the lookup that admits them.
Working(p) == {t \in Task : pc[t] \notin {"idle", "lookup"} /\ id[t] = p}

Closed(p) == status[p] \in {"Enacted", "Cancelled"} /\ Working(p) = {}

\* A proposal that is enacted or cancelled, with no call still at work on it,
\* is closed for good: never reopened by a late proposal block, never applied
\* again by the auto-enact task.
ClosedForGood == [][\A p \in Id : Closed(p) => Closed(p)']_vars

\* The mint stays off until a proposal to resume it, announced a full Policy
\* delay ago, is enacted ("mint_enabled = true (reprise)", G5).
KillSwitchHolds ==
    [][dbCfg["mint_enabled"] = <<0>> /\ dbCfg'["mint_enabled"] # <<0>>
        => \E p \in Id :
              /\ IsKnown(p)
              /\ now >= p.at + Duration[Policy]
              /\ \E i \in DOMAIN Settings[p.update] :
                    Settings[p.update][i] = [param |-> "mint_enabled", value |-> <<1>>]]_vars

-----------------------------------------------------------------------------
(* Inductive strengthenings, for the proofs.                               *)

\* Whether the delay of proposal p is over at time d, for its loosenings.
Waited(p, d) ==
    \A i \in DOMAIN Settings[p.update] :
        LET s == Settings[p.update][i] IN
        NeverTightens(s) => d >= p.at + Duration[MinTier(s.param)]

Proposing == {"lookup", "derive", "put"}
Enacting == {"read", "writeDb", "writeCache", "history", "mark"}
Written == {"writeCache", "history", "mark"}

\* The delay is kept from the proposal's derivation to the config write.
DelayInv ==
    /\ \A t \in Task : pc[t] \in Proposing => id[t] # NoId /\ Waited(id[t], due[t])
    /\ \A p \in Id : IsKnown(p) => Waited(p, after[p])
    /\ \A t \in Task : pc[t] \in Enacting /\ id[t] # NoId => Waited(id[t], now)
    /\ \A t \in Task : pc[t] \in Enacting \cup {"cancel"} /\ id[t] # NoId => IsKnown(id[t])
    /\ \A e \in applied : Waited(e.id, e.at)

\* Only a call that wrote the config marks its proposal.
MarkInv ==
    /\ EnactedWasApplied
    /\ \A t \in Task : pc[t] \in {"mark", "cancel"} => id[t] # NoId
    /\ \A t \in Task : pc[t] \in Written /\ id[t] # NoId
                       => \E e \in applied : e.id = id[t]
=============================================================================
