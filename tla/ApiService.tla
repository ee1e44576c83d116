----------------------------- MODULE ApiService -----------------------------
(***************************************************************************)
(* The way of an HTTP request: the gateway, the engine's layers (routes.rs, *)
(* middleware.rs, ledger_dispatch.rs), the API keys (api_keys.rs) and the  *)
(* handlers that submit a block (blocks.rs, internal_api.rs).              *)
(*                                                                         *)
(* A request is the sequence of the steps it still has to take, the layers *)
(* of its route first.  Between two steps others move: a key is revoked,   *)
(* the read-only mode armed, the client or a timeout drops the request,    *)
(* and what its handler had left to do is not done.  A client that has no  *)
(* answer submits the same block again.                                    *)
(***************************************************************************)
EXTENDS Integers, Sequences, FiniteSets, SequencesExt

CONSTANTS
    Request,     \* requests
    Key, NoKey,  \* secrets of API keys; a header that is missing
    Forged,      \* secrets nobody was given
    Caller,      \* what a request may carry
    SBlock,      \* blocks submitted
    Spending,    \* those with inputs: transfers, settlements, burns of tokens
    SGas,        \* gas of the custom ledger, in transactions
    MaxKeyCalls, MaxRestarts, MaxArms \* bounds

\* The headers and the origin of a request; scoped: the key's scopes open the
\* route (has_permission, resolve_scope).
Credentials ==
    [secret : Key \cup Forged \cup {NoKey}, admin : BOOLEAN, local : BOOLEAN, signed : BOOLEAN,
     scoped : BOOLEAN]

Anonymous == [secret |-> NoKey, admin |-> FALSE, local |-> FALSE, signed |-> TRUE, scoped |-> TRUE]

ASSUME ServiceAssumption ==
    /\ Caller \subseteq Credentials /\ Anonymous \in Caller
    /\ Spending \subseteq SBlock
    /\ Forged \cap Key = {} /\ NoKey \notin Key \cup Forged
    /\ {SGas, MaxKeyCalls, MaxRestarts, MaxArms} \subseteq Nat

VARIABLES
    svDev,             \* network.mode is Dev
    svKeys, svFile,    \* ApiKeyStore: in memory, in its file; secret -> active
    svBacked,          \* the store has a file_path
    svArmed,           \* the read-only mode
    svReq, svTodo, svAnswer, \* requests: what they ask, what is left, the answer
    svWindow,          \* blocks the idempotence check finds: the DAG in memory
    svKept,            \* blocks whose effects are in force
    svStored,          \* blocks on disk
    svPut,             \* history: block -> life of the process -> requests that put it in
    svFees,            \* history: the same, how often its fee was added to the pool
    svLost,            \* history: <<block, life>> lost with the process
    svGasLeft,         \* the gas pool
    svBuckets,         \* buckets of the per-key governor
    svRevoked,         \* keys whose revocation was answered 200
    svInFlight,        \* requests that had passed require_writable at the last arm
    svCalls, svRestarts, svArms

svKeyVars == <<svKeys, svFile, svBacked, svRevoked, svCalls>>
svFlowVars == <<svReq, svTodo, svAnswer>>
svBlockVars == <<svWindow, svKept, svStored, svPut, svFees, svLost>>
svLedgerVars == <<svBlockVars, svGasLeft, svBuckets>>
svModeVars == <<svArmed, svInFlight, svArms>>
svVars == <<svDev, svKeyVars, svFlowVars, svLedgerVars, svModeVars, svRestarts>>

Lives == 0..MaxRestarts

None == "none"
NoReq == [route |-> None]
EmptyStore == [k \in {} |-> TRUE]

(***************************************************************************)
(* Routes: the layers in the order they run, then the handler's steps.     *)
(***************************************************************************)

\* submit_block: the signature and the gas without a wait in between.
SubmitBlock == <<"gas", "persist", "commit", "fee">>

\* A mutant: the quota is counted before the key is known to be good.
MainLayersSwapped == <<"key_quota", "key", "writable">>

\* build_api_router: the last route_layer runs first.
MainLayers == <<"key", "writable", "key_quota">>

\* dynamic_ledger_handler rebuilds the layers without the per-key quota.
LedgerLayers == <<"key", "writable">>

AdminLayers == <<"local_or_admin">>

\* The gateway posts to /internal/submit_block with none of the client's
\* headers, and that port has no layers at all.  The quota per address, which
\* every route has first, is left out: a request it refuses did not start.
Steps(route) ==
    CASE route = "submit"     -> MainLayers \o SubmitBlock
      [] route = "ledger"     -> LedgerLayers \o SubmitBlock
      [] route = "gateway"    -> <<"persist", "commit">>
      [] route = "admin"      -> AdminLayers \o <<"writable", "persist", "commit">>
      [] route = "recovery"   -> AdminLayers \o <<"persist", "commit">>

Routes == {"submit", "ledger", "gateway", "admin", "recovery"}
Ungated == {"gateway", "recovery"}

ServiceInit ==
    /\ svDev \in BOOLEAN
    /\ svFile \in [{} -> {TRUE}] \cup [Key -> {TRUE}]
    /\ svKeys = svFile /\ svBacked = TRUE
    /\ svArmed = FALSE /\ svInFlight = {} /\ svArms = 0
    /\ svReq = [r \in Request |-> NoReq]
    /\ svTodo = [r \in Request |-> <<>>]
    /\ svAnswer = [r \in Request |-> None]
    /\ svWindow = {} /\ svKept = {} /\ svStored = {} /\ svLost = {}
    /\ svPut = [b \in SBlock |-> [e \in Lives |-> {}]]
    /\ svFees = [b \in SBlock |-> [e \in Lives |-> 0]]
    /\ svGasLeft = SGas
    /\ svBuckets = {}
    /\ svRevoked = {}
    /\ svCalls = 0 /\ svRestarts = 0

(***************************************************************************)
(* API keys.  Both handlers hold the write lock over the change and the    *)
(* save, which writes a temporary file and renames it.                     *)
(***************************************************************************)

Extend(f, k, v) == [x \in DOMAIN f \cup {k} |-> IF x = k THEN v ELSE f[x]]

\* save(): a store without a path saves nothing and says so to nobody.
Save(keys, ok) == svFile' = IF ok /\ svBacked THEN keys ELSE svFile

KeyCall ==
    /\ svCalls < MaxKeyCalls /\ svCalls' = svCalls + 1
    /\ UNCHANGED <<svDev, svBacked, svFlowVars, svLedgerVars, svModeVars, svRestarts>>

\* create_key keeps the entry in memory when the save fails.  The secret is
\* random: one that nobody ever had.
CreateKey ==
    /\ \E k \in Key \ (DOMAIN svKeys \cup DOMAIN svFile), ok \in BOOLEAN :
        /\ k \notin svRevoked
        /\ svKeys' = Extend(svKeys, k, TRUE)
        /\ Save(svKeys', ok)
    /\ UNCHANGED svRevoked
    /\ KeyCall

\* A mutant: the file is left for the next save.
RevokeKeyUnsaved(k, ok) ==
    /\ svKeys[k]
    /\ svKeys' = Extend(svKeys, k, FALSE)
    /\ svRevoked' = IF ok THEN svRevoked \cup {k} ELSE svRevoked
    /\ UNCHANGED svFile

\* revoke_key: a key revoked in memory stays so when the save fails, and a
\* second call is refused as already revoked without saving.
RevokeKey(k, ok) ==
    /\ svKeys[k]
    /\ svKeys' = Extend(svKeys, k, FALSE)
    /\ Save(svKeys', ok)
    /\ svRevoked' = IF ok THEN svRevoked \cup {k} ELSE svRevoked

Revoke == (\E k \in DOMAIN svKeys, ok \in BOOLEAN : RevokeKey(k, ok)) /\ KeyCall

\* verify_key compares every entry and takes the match only if active.
VerifyKey(secret) == secret \in DOMAIN svKeys /\ svKeys[secret]

\* require_api_key: the store is read under its lock, and released before
\* the request goes on.  An empty store lets everyone in, in Dev only.
KeyAnswer(c) ==
    CASE c.admin                    -> "pass"
      [] DOMAIN svKeys = {}         -> IF svDev THEN "pass" ELSE "401"
      [] c.secret = NoKey           -> "401"
      [] ~VerifyKey(c.secret)       -> "401"
      [] ~c.scoped                  -> "403"
      [] OTHER                      -> "pass"

(***************************************************************************)
(* Requests.                                                               *)
(***************************************************************************)

Start(r) ==
    /\ svReq[r] = NoReq
    /\ \E route \in Routes, c \in Caller, b \in SBlock :
        /\ route = "gateway" => c = Anonymous
        /\ svReq' = [svReq EXCEPT ![r] = [route |-> route, cred |-> c, block |-> b]]
        /\ svTodo' = [svTodo EXCEPT ![r] = Steps(route)]
    /\ UNCHANGED <<svDev, svKeyVars, svAnswer, svLedgerVars, svModeVars, svRestarts>>

At(r, step) == svTodo[r] # <<>> /\ Head(svTodo[r]) = step
Cred(r) == svReq[r].cred
BlockOf(r) == svReq[r].block

Answered(r, answer) ==
    /\ svTodo' = [svTodo EXCEPT ![r] = <<>>]
    /\ svAnswer' = [svAnswer EXCEPT ![r] = answer]
    /\ UNCHANGED svReq

Proceeds(r) ==
    /\ svTodo' = [svTodo EXCEPT ![r] = Tail(@)]
    /\ UNCHANGED <<svReq, svAnswer>>

\* A layer lets the request through or answers for it.
Layer(r, answer) == IF answer = "pass" THEN Proceeds(r) ELSE Answered(r, answer)

CheckKey(r) == At(r, "key") /\ Layer(r, KeyAnswer(Cred(r))) /\ UNCHANGED svLedgerVars

LocalOrAdmin(r) ==
    /\ At(r, "local_or_admin")
    /\ Layer(r, IF Cred(r).local \/ Cred(r).admin THEN "pass" ELSE "401")
    /\ UNCHANGED svLedgerVars

RequireWritable(r) ==
    /\ At(r, "writable")
    /\ Layer(r, IF svArmed THEN "503" ELSE "pass")
    /\ UNCHANGED svLedgerVars

\* ApiKeyKeyExtractor: the bucket fills with time, so either outcome; a bucket for every value of the header.
KeyQuota(r) ==
    /\ At(r, "key_quota")
    /\ svBuckets' = svBuckets \cup {Cred(r).secret}
    /\ \E answer \in {"pass", "429"} : Layer(r, answer)
    /\ UNCHANGED <<svBlockVars, svGasLeft>>

\* try_consume_gas: a custom ledger's only, before anything is validated.
Gas(r) ==
    /\ At(r, "gas")
    /\ LET pays == Cred(r).signed /\ svReq[r].route = "ledger"
       IN /\ svGasLeft' = IF pays /\ svGasLeft > 0 THEN svGasLeft - 1 ELSE svGasLeft
          /\ Layer(r, IF ~Cred(r).signed THEN "401" ELSE IF pays /\ svGasLeft = 0 THEN "402" ELSE "pass")
    /\ UNCHANGED <<svBlockVars, svBuckets>>

LastStep(r) == Tail(svTodo[r]) = <<>>

\* persist_block up to its first idempotence check.  The pipeline may reject any
\* block: for what it says, or for an input another call has claimed.
Persist(r) ==
    /\ At(r, "persist")
    /\ \/ BlockOf(r) \in svWindow /\ Answered(r, "duplicate")
       \/ Answered(r, "rejected")
       \/ BlockOf(r) \notin svWindow /\ Proceeds(r)
    /\ UNCHANGED svLedgerVars

PutBlock(r) ==
    /\ svPut' = [svPut EXCEPT ![BlockOf(r)][svRestarts] = @ \cup {r}]
    /\ svWindow' = svWindow \cup {BlockOf(r)} /\ svKept' = svKept \cup {BlockOf(r)}
    /\ IF LastStep(r) THEN Answered(r, "inserted") ELSE Proceeds(r)

NothingPut == UNCHANGED <<svPut, svWindow, svKept>>

\* A mutant: no claim is made on the inputs.
CommitUnclaimed(r) ==
    /\ At(r, "commit")
    /\ \/ BlockOf(r) \in svWindow /\ Answered(r, "duplicate") /\ NothingPut
       \/ Answered(r, "rejected") /\ NothingPut
       \/ PutBlock(r)
    /\ UNCHANGED <<svStored, svFees, svLost, svGasLeft, svBuckets>>

\* The second check, the claims and the insertion.  Nothing holds two calls apart
\* between check and insertion but the claim on the inputs of the block.
Commit(r) ==
    /\ At(r, "commit")
    /\ \/ BlockOf(r) \in svWindow /\ Answered(r, "duplicate") /\ NothingPut
       \/ Answered(r, "rejected") /\ NothingPut
       \/ (BlockOf(r) \in Spending => BlockOf(r) \notin svKept) /\ PutBlock(r)
    /\ UNCHANGED <<svStored, svFees, svLost, svGasLeft, svBuckets>>

\* accumulate_fee_if_tx, after the broadcast, only for a block just inserted.
Fee(r) ==
    /\ At(r, "fee")
    /\ svFees' = IF BlockOf(r) \in Spending
                 THEN [svFees EXCEPT ![BlockOf(r)][svRestarts] = @ + 1] ELSE svFees
    /\ Answered(r, "inserted")
    /\ UNCHANGED <<svWindow, svKept, svStored, svPut, svLost, svGasLeft, svBuckets>>

\* The engine's or the gateway's TimeoutLayer, or a client that hangs up: the
\* handler's future is dropped where it waits, or fails there.  408, 500,
\* gateway_error or nothing.
Dropped(r) == svTodo[r] # <<>> /\ Answered(r, "unknown") /\ UNCHANGED svLedgerVars

\* An answer that says nothing of the block: the client asks again.
Retry(r) ==
    /\ svAnswer[r] \in {"unknown", "429", "503", "402"}
    /\ svAnswer' = [svAnswer EXCEPT ![r] = None]
    /\ svTodo' = [svTodo EXCEPT ![r] = Steps(svReq[r].route)]
    /\ UNCHANGED <<svReq, svLedgerVars>>

RequestStep(r) ==
    /\ \/ CheckKey(r) \/ LocalOrAdmin(r) \/ RequireWritable(r) \/ KeyQuota(r)
       \/ Gas(r) \/ Persist(r) \/ Commit(r) \/ Fee(r) \/ Dropped(r) \/ Retry(r)
    /\ UNCHANGED <<svDev, svKeyVars, svModeVars, svRestarts>>

(***************************************************************************)
(* The mode and the process.                                               *)
(***************************************************************************)

\* The consumer writes a block some time after its call was answered.
ReachDisk(b) ==
    /\ b \in svKept \ svStored /\ svStored' = svStored \cup {b}
    /\ UNCHANGED <<svWindow, svKept, svPut, svFees, svLost, svGasLeft, svBuckets>>

\* prune_if_needed.
LeaveWindow(b) ==
    /\ b \in svWindow /\ svWindow' = svWindow \ {b}
    /\ UNCHANGED <<svKept, svStored, svPut, svFees, svLost, svGasLeft, svBuckets>>

BlockStep ==
    /\ \E b \in SBlock : ReachDisk(b) \/ LeaveWindow(b)
    /\ UNCHANGED <<svDev, svKeyVars, svFlowVars, svModeVars, svRestarts>>

PastGate(r) == svTodo[r] # <<>> /\ ~Contains(svTodo[r], "writable")

ArmMode ==
    /\ ~svArmed /\ svArms < MaxArms
    /\ svArmed' = TRUE /\ svArms' = svArms + 1
    /\ svInFlight' = {r \in Request : PastGate(r)}
    /\ UNCHANGED <<svDev, svKeyVars, svFlowVars, svLedgerVars, svRestarts>>

DisarmMode ==
    /\ svArmed /\ svArmed' = FALSE /\ svInFlight' = {}
    /\ UNCHANGED <<svDev, svKeyVars, svFlowVars, svLedgerVars, svArms, svRestarts>>

\* serve_api: a key file that cannot be read leaves an empty store without a
\* path.  The quotas and the mode start anew.  Of the blocks only those on disk
\* are left, some of them in the window; the inputs of a stored block stay spent.
Restart ==
    /\ svRestarts < MaxRestarts /\ svRestarts' = svRestarts + 1
    /\ \E readable \in BOOLEAN :
        /\ svBacked' = readable
        /\ svKeys' = IF readable THEN svFile ELSE EmptyStore
    /\ svKept' = svStored /\ svWindow' \in SUBSET svStored
    /\ svLost' = svLost \cup {<<b, svRestarts>> : b \in svKept \ svStored}
    /\ svTodo' = [r \in Request |-> <<>>]
    /\ svAnswer' = [r \in Request |-> IF svTodo[r] # <<>> THEN "unknown" ELSE svAnswer[r]]
    /\ svBuckets' = {} /\ svArmed' = FALSE /\ svInFlight' = {}
    /\ UNCHANGED <<svDev, svFile, svRevoked, svCalls, svReq, svStored, svPut, svFees, svGasLeft, svArms>>

ServiceNext ==
    \/ CreateKey \/ Revoke
    \/ \E r \in Request : Start(r) \/ RequestStep(r)
    \/ BlockStep
    \/ ArmMode \/ DisarmMode
    \/ Restart

ServiceSpec == ServiceInit /\ [][ServiceNext]_svVars

(***************************************************************************)
(* Properties.                                                             *)
(***************************************************************************)

\* A request that goes past require_api_key in this step does not carry a
\* revoked key, but for an empty store in Dev mode.
OpensNoRoute ==
    \A r \in Request :
        At(r, "key") /\ svTodo'[r] = Tail(svTodo[r]) /\ ~Cred(r).admin
            => Cred(r).secret \notin svRevoked \/ (svDev /\ DOMAIN svKeys = {})

\* A key whose revocation was answered 200 opens nothing ever after, over
\* failed saves of other keys, restarts and a key file that cannot be read -
\* but for an empty store in Dev mode (revoke_key, require_api_key).
RevokedForGood == [][OpensNoRoute]_svVars

PutIn(b, e) == svPut[b][e] # {}

\* A block is in force, or a crash has taken it away.
InForce(b) == b \in svKept \/ \E e \in Lives : <<b, e>> \in svLost

ToldTrue ==
    \A r \in Request :
        LET b == BlockOf(r)
        IN /\ svAnswer[r] = "inserted" =>
                /\ InForce(b)
                /\ \E e \in Lives :
                      /\ r \in svPut[b][e]
                      /\ b \in Spending /\ svReq[r].route \in {"submit", "ledger"} => svFees[b][e] = 1
           /\ svAnswer[r] = "duplicate" => InForce(b) /\ \E e \in Lives : PutIn(b, e)

InOnce(b, e) ==
    /\ \A q, r \in svPut[b][e] : q = r
    /\ svFees[b][e] <= 1 /\ (svFees[b][e] = 1 => PutIn(b, e))
    /\ \A d \in Lives : e < d /\ PutIn(b, e) /\ PutIn(b, d) => <<b, e>> \in svLost

\* What a client is told about its block holds, however often it asked: "inserted" goes
\* to a request that put it in and "duplicate" only if one did, and what was so answered
\* is in force unless it was lost, not yet on disk, with the process.  A block with
\* inputs is put in by one request, and again only after such a loss; each time it pays
\* its fee once if submit_block answered "inserted", at most once otherwise.  (A block
\* without inputs is put in again when two calls pass the check together or when it has
\* left the window; it pays no fee.)
SubmissionsSettle ==
    /\ ToldTrue
    /\ \A b \in Spending, e \in Lives : InOnce(b, e)
    /\ \A b \in SBlock \ Spending, e \in Lives : svFees[b][e] = 0

\* Who may put a block in while the mode is armed, and for whom a bucket of
\* the per-key quota may be made, in this step.
PassedTheLayers ==
    /\ \A r \in Request :
        svArmed /\ At(r, "commit") /\ svPut' # svPut /\ svTodo'[r] # svTodo[r]
            => r \in svInFlight \/ svReq[r].route \in Ungated
    /\ \A r \in Request :
        At(r, "key_quota") /\ svTodo'[r] # svTodo[r] /\ svBuckets' # svBuckets
            => Cred(r).admin \/ svDev \/ Cred(r).secret \in Key

\* The layers stand in the right order on every route: while the mode is
\* armed only a request that had passed require_writable before, or one of a
\* route that has no such layer, puts a block in; and a bucket of the
\* per-key quota is only ever made for a key that was given out, unless
\* everyone is let in or the caller is the administrator (routes.rs).
LayersHold == [][PassedTheLayers]_svVars

-----------------------------------------------------------------------------
(* Inductive strengthenings, for the proofs.                               *)

Received(r) == svReq[r] # NoReq

\* What may be left of a route: its ends that are not empty.
SubmitEnds == {<<"gas", "persist", "commit", "fee">>, <<"persist", "commit", "fee">>,
               <<"commit", "fee">>, <<"fee">>}
CommitEnds == {<<"persist", "commit">>, <<"commit">>}
StepsLeft(route) ==
    CASE route = "submit"   -> SubmitEnds \cup
                               {<<"key", "writable", "key_quota", "gas", "persist", "commit", "fee">>,
                                <<"writable", "key_quota", "gas", "persist", "commit", "fee">>,
                                <<"key_quota", "gas", "persist", "commit", "fee">>}
      [] route = "ledger"   -> SubmitEnds \cup
                               {<<"key", "writable", "gas", "persist", "commit", "fee">>,
                                <<"writable", "gas", "persist", "commit", "fee">>}
      [] route = "gateway"  -> CommitEnds
      [] route = "admin"    -> CommitEnds \cup
                               {<<"local_or_admin", "writable", "persist", "commit">>,
                                <<"writable", "persist", "commit">>}
      [] route = "recovery" -> CommitEnds \cup {<<"local_or_admin", "persist", "commit">>}

BlockTypes ==
    /\ svRestarts \in Lives
    /\ svPut \in [SBlock -> [Lives -> SUBSET Request]] /\ svFees \in [SBlock -> [Lives -> Nat]]
    /\ svWindow \cup svStored \subseteq svKept /\ svKept \subseteq SBlock

SvTypes ==
    /\ {svDev, svBacked, svArmed} \subseteq BOOLEAN
    /\ DOMAIN svReq = Request /\ DOMAIN svTodo = Request /\ DOMAIN svAnswer = Request
    /\ \A r \in Request :
         /\ Received(r) => svReq[r] \in [route : Routes, cred : Caller, block : SBlock]
         /\ svTodo[r] # <<>> => Received(r) /\ svTodo[r] \in StepsLeft(svReq[r].route) /\ svAnswer[r] = None
         /\ svAnswer[r] # None => Received(r)
    /\ BlockTypes

\* A revoked key is inactive wherever it is kept, and a store without a path
\* holds only keys that the file has never seen.
KeysInv ==
    /\ DOMAIN svKeys \subseteq Key /\ DOMAIN svFile \subseteq Key
    /\ \A k \in svRevoked : (k \in DOMAIN svKeys => ~svKeys[k]) /\ (k \in DOMAIN svFile => ~svFile[k])
    /\ ~svBacked => DOMAIN svKeys \cap DOMAIN svFile = {}

\* What a request has passed.
RouteInv ==
    \A r \in Request :
        /\ svArmed /\ PastGate(r) => r \in svInFlight \/ svReq[r].route \in Ungated
        /\ svTodo[r] # <<>> /\ svReq[r].route \in {"submit", "ledger"} /\ ~Contains(svTodo[r], "key")
             => Cred(r).admin \/ svDev \/ Cred(r).secret \in Key

\* Where a block that was put in has gone: in this life of the process it is kept,
\* and from an earlier one it is on disk or lost.
PlacesOf(b) ==
    /\ b \in svKept => \E e \in Lives : e <= svRestarts /\ PutIn(b, e)
    /\ \A e \in Lives :
         /\ e = svRestarts /\ PutIn(b, e) => b \in svKept
         /\ e < svRestarts /\ PutIn(b, e) => b \in svStored \/ <<b, e>> \in svLost
         /\ e > svRestarts => ~PutIn(b, e) /\ svFees[b][e] = 0

\* A request that still owes the fee of its block put it in, in this life.
Owes(r) ==
    At(r, "fee") => LET b == BlockOf(r)
                    IN r \in svPut[b][svRestarts] /\ (b \in Spending => svFees[b][svRestarts] = 0)

FeeInv ==
    /\ \A r \in Request : Owes(r)
    /\ \A b \in SBlock : PlacesOf(b)
    /\ SubmissionsSettle
=============================================================================
