--------------------------- MODULE ServiceProofs ---------------------------
(***************************************************************************)
(* Theorems about ApiService, for every set of requests, callers, keys and *)
(* blocks, and about the events of Contracts, for every set of contracts,  *)
(* events and subscriptions and every capacity of the bus.                 *)
(***************************************************************************)
EXTENDS ApiService, Contracts, FiniteSetFacts, SequenceTheorems, FunctionTheorems, TLAPS

-----------------------------------------------------------------------------
(* Routes and what is left of them.                                        *)

LEMMA Joined ==
    ASSUME NEW S, NEW s \in Seq(S), NEW t \in Seq(S), NEW u \in Seq(S), Len(u) = Len(s) + Len(t),
           \A i \in 1 .. Len(u) : u[i] = IF i <= Len(s) THEN s[i] ELSE t[i - Len(s)]
    PROVE  s \o t = u
<1>1. s \o t \in Seq(S) /\ Len(s \o t) = Len(u) /\ \A i \in 1 .. Len(u) : (s \o t)[i] = u[i]
  BY ConcatProperties
<1> QED BY <1>1, SeqEqual

LEMMA SubmitSteps ==
    Steps("submit") = <<"key", "writable", "key_quota", "gas", "persist", "commit", "fee">>
<1> DEFINE s == <<"key", "writable", "key_quota">>
           t == <<"gas", "persist", "commit", "fee">>
           u == <<"key", "writable", "key_quota", "gas", "persist", "commit", "fee">>
           S == {"key", "writable", "key_quota", "gas", "persist", "commit", "fee"}
<1>1. s \in Seq(S) /\ t \in Seq(S) /\ u \in Seq(S) /\ Len(s) = 3 /\ Len(t) = 4 /\ Len(u) = 7
  OBVIOUS
<1>2. ASSUME NEW i \in 1 .. 7 PROVE u[i] = IF i <= 3 THEN s[i] ELSE t[i - 3]
  <2>1. i = 1 \/ i = 2 \/ i = 3 \/ i = 4 \/ i = 5 \/ i = 6 \/ i = 7
    OBVIOUS
  <2> QED BY <2>1
<1>3. Steps("submit") = s \o t
  BY DEF Steps, MainLayers, SubmitBlock
<1> HIDE DEF s, t, u
<1> HIDE DEF S
<1>4. Len(u) = Len(s) + Len(t) /\ \A i \in 1 .. Len(u) : u[i] = IF i <= Len(s) THEN s[i] ELSE t[i - Len(s)]
  BY <1>1, <1>2
<1>5. s \o t = u
  BY <1>1, <1>4, Joined, Zenon
<1> QED BY <1>3, <1>5 DEF u

LEMMA LedgerSteps == Steps("ledger") = <<"key", "writable", "gas", "persist", "commit", "fee">>
<1> DEFINE s == <<"key", "writable">>
           t == <<"gas", "persist", "commit", "fee">>
           u == <<"key", "writable", "gas", "persist", "commit", "fee">>
           S == {"key", "writable", "gas", "persist", "commit", "fee"}
<1>1. s \in Seq(S) /\ t \in Seq(S) /\ u \in Seq(S) /\ Len(s) = 2 /\ Len(t) = 4 /\ Len(u) = 6
  OBVIOUS
<1>2. ASSUME NEW i \in 1 .. 6 PROVE u[i] = IF i <= 2 THEN s[i] ELSE t[i - 2]
  <2>1. i = 1 \/ i = 2 \/ i = 3 \/ i = 4 \/ i = 5 \/ i = 6
    OBVIOUS
  <2> QED BY <2>1
<1>3. Steps("ledger") = s \o t
  BY DEF Steps, LedgerLayers, SubmitBlock
<1> HIDE DEF s, t, u
<1> HIDE DEF S
<1>4. Len(u) = Len(s) + Len(t) /\ \A i \in 1 .. Len(u) : u[i] = IF i <= Len(s) THEN s[i] ELSE t[i - Len(s)]
  BY <1>1, <1>2
<1>5. s \o t = u
  BY <1>1, <1>4, Joined, Zenon
<1> QED BY <1>3, <1>5 DEF u

LEMMA AdminSteps == Steps("admin") = <<"local_or_admin", "writable", "persist", "commit">>
<1> DEFINE s == <<"local_or_admin">>
           t == <<"writable", "persist", "commit">>
           u == <<"local_or_admin", "writable", "persist", "commit">>
           S == {"local_or_admin", "writable", "persist", "commit"}
<1>1. s \in Seq(S) /\ t \in Seq(S) /\ u \in Seq(S) /\ Len(s) = 1 /\ Len(t) = 3 /\ Len(u) = 4
  OBVIOUS
<1>2. ASSUME NEW i \in 1 .. 4 PROVE u[i] = IF i <= 1 THEN s[i] ELSE t[i - 1]
  <2>1. i = 1 \/ i = 2 \/ i = 3 \/ i = 4
    OBVIOUS
  <2> QED BY <2>1
<1>3. Steps("admin") = s \o t
  BY DEF Steps, AdminLayers
<1> HIDE DEF s, t, u
<1> HIDE DEF S
<1>4. Len(u) = Len(s) + Len(t) /\ \A i \in 1 .. Len(u) : u[i] = IF i <= Len(s) THEN s[i] ELSE t[i - Len(s)]
  BY <1>1, <1>2
<1>5. s \o t = u
  BY <1>1, <1>4, Joined, Zenon
<1> QED BY <1>3, <1>5 DEF u

LEMMA RecoverySteps == Steps("recovery") = <<"local_or_admin", "persist", "commit">>
<1> DEFINE s == <<"local_or_admin">>
           t == <<"persist", "commit">>
           u == <<"local_or_admin", "persist", "commit">>
           S == {"local_or_admin", "persist", "commit"}
<1>1. s \in Seq(S) /\ t \in Seq(S) /\ u \in Seq(S) /\ Len(s) = 1 /\ Len(t) = 2 /\ Len(u) = 3
  OBVIOUS
<1>2. ASSUME NEW i \in 1 .. 3 PROVE u[i] = IF i <= 1 THEN s[i] ELSE t[i - 1]
  <2>1. i = 1 \/ i = 2 \/ i = 3
    OBVIOUS
  <2> QED BY <2>1
<1>3. Steps("recovery") = s \o t
  BY DEF Steps, AdminLayers
<1> HIDE DEF s, t, u
<1> HIDE DEF S
<1>4. Len(u) = Len(s) + Len(t) /\ \A i \in 1 .. Len(u) : u[i] = IF i <= Len(s) THEN s[i] ELSE t[i - Len(s)]
  BY <1>1, <1>2
<1>5. s \o t = u
  BY <1>1, <1>4, Joined, Zenon
<1> QED BY <1>3, <1>5 DEF u

\* What a request that has just come in has to pass.
WholeRoute(route) ==
    /\ Steps(route) \in StepsLeft(route) /\ Steps(route) # <<>> /\ Head(Steps(route)) # "fee"
    /\ route \notin Ungated => Contains(Steps(route), "writable")
    /\ route \in {"submit", "ledger"} => Contains(Steps(route), "key")

LEMMA RouteStart == ASSUME NEW route \in Routes PROVE WholeRoute(route)
<1>1. WholeRoute("submit")
  BY SubmitSteps DEF WholeRoute, StepsLeft, SubmitEnds, Contains, Ungated
<1>2. WholeRoute("ledger")
  BY LedgerSteps DEF WholeRoute, StepsLeft, SubmitEnds, Contains, Ungated
<1>3. WholeRoute("gateway")
  BY DEF WholeRoute, StepsLeft, CommitEnds, Contains, Ungated, Steps
<1>4. WholeRoute("admin")
  BY AdminSteps DEF WholeRoute, StepsLeft, CommitEnds, Contains, Ungated
<1>5. WholeRoute("recovery")
  BY RecoverySteps DEF WholeRoute, StepsLeft, CommitEnds, Contains, Ungated
<1> QED BY <1>1, <1>2, <1>3, <1>4, <1>5 DEF Routes

\* A step is always in its place: what comes before it has been passed.
InPlace(route, t) ==
    /\ t # <<>> /\ t # Tail(t)
    /\ Tail(t) = <<>> \/ Tail(t) \in StepsLeft(route)
    /\ Head(t) \in {"key", "writable"} => Tail(t) # <<>>
    /\ Head(t) # "writable" /\ Contains(t, "writable") => Contains(Tail(t), "writable")
    /\ Head(t) # "key" /\ Contains(t, "key") => Contains(Tail(t), "key")
    /\ Head(t) \in {"persist", "commit"} => ~Contains(t, "writable")
    /\ Head(t) = "key_quota" => route = "submit" /\ ~Contains(t, "key")
    /\ Tail(t) # <<>> => Head(t) # "fee" /\ (Head(Tail(t)) = "fee" => Head(t) = "commit")
    /\ Head(t) = "commit" => (Tail(t) = <<>> <=> route \notin {"submit", "ledger"})

LEMMA EndInPlace ==
    ASSUME NEW route \in {"submit", "ledger"}, NEW t \in SubmitEnds
    PROVE  InPlace(route, t)
<1>1. SubmitEnds \subseteq StepsLeft(route)
  BY DEF StepsLeft
<1>2. CASE t = <<"gas", "persist", "commit", "fee">>
  BY <1>1, <1>2 DEF InPlace, SubmitEnds, Contains
<1>3. CASE t = <<"persist", "commit", "fee">>
  BY <1>1, <1>3 DEF InPlace, SubmitEnds, Contains
<1>4. CASE t = <<"commit", "fee">>
  BY <1>1, <1>4 DEF InPlace, SubmitEnds, Contains
<1>5. CASE t = <<"fee">>
  BY <1>1, <1>5 DEF InPlace, SubmitEnds, Contains
<1> QED BY <1>2, <1>3, <1>4, <1>5 DEF SubmitEnds

LEMMA StepInPlace ==
    ASSUME NEW route \in Routes, NEW t \in StepsLeft(route)
    PROVE  InPlace(route, t)
<1>1. CASE route = "submit"
  <2>1. CASE t = <<"key", "writable", "key_quota", "gas", "persist", "commit", "fee">>
    BY <1>1, <2>1 DEF InPlace, StepsLeft, SubmitEnds, Contains
  <2>2. CASE t = <<"writable", "key_quota", "gas", "persist", "commit", "fee">>
    BY <1>1, <2>2 DEF InPlace, StepsLeft, SubmitEnds, Contains
  <2>3. CASE t = <<"key_quota", "gas", "persist", "commit", "fee">>
    BY <1>1, <2>3 DEF InPlace, StepsLeft, SubmitEnds, Contains
  <2> QED BY <1>1, <2>1, <2>2, <2>3, EndInPlace DEF StepsLeft
<1>2. CASE route = "ledger"
  <2>1. CASE t = <<"key", "writable", "gas", "persist", "commit", "fee">>
    BY <1>2, <2>1 DEF InPlace, StepsLeft, SubmitEnds, Contains
  <2>2. CASE t = <<"writable", "gas", "persist", "commit", "fee">>
    BY <1>2, <2>2 DEF InPlace, StepsLeft, SubmitEnds, Contains
  <2> QED BY <1>2, <2>1, <2>2, EndInPlace DEF StepsLeft
<1>3. ASSUME route \in {"gateway", "admin", "recovery"}, t \in CommitEnds PROVE InPlace(route, t)
  <2>1. CASE t = <<"persist", "commit">>
    BY <1>3, <2>1 DEF InPlace, StepsLeft, CommitEnds, Contains
  <2>2. CASE t = <<"commit">>
    BY <1>3, <2>2 DEF InPlace, StepsLeft, CommitEnds, Contains
  <2> QED BY <1>3, <2>1, <2>2 DEF CommitEnds
<1>4. CASE route = "gateway"
  BY <1>3, <1>4 DEF StepsLeft
<1>5. CASE route = "admin"
  <2>1. CASE t = <<"local_or_admin", "writable", "persist", "commit">>
    BY <1>5, <2>1 DEF InPlace, StepsLeft, CommitEnds, Contains
  <2>2. CASE t = <<"writable", "persist", "commit">>
    BY <1>5, <2>2 DEF InPlace, StepsLeft, CommitEnds, Contains
  <2> QED BY <1>3, <1>5, <2>1, <2>2 DEF StepsLeft
<1>6. CASE route = "recovery"
  <2>1. CASE t = <<"local_or_admin", "persist", "commit">>
    BY <1>6, <2>1 DEF InPlace, StepsLeft, CommitEnds, Contains
  <2> QED BY <1>3, <1>6, <2>1 DEF StepsLeft
<1> QED BY <1>1, <1>2, <1>4, <1>5, <1>6 DEF Routes

-----------------------------------------------------------------------------
(* What a step does to the requests.                                       *)

\* A request is answered, goes on, or is asked again; the others stay.
Ends(r) ==
    /\ svTodo[r] # <<>> /\ svReq' = svReq
    /\ svTodo' = [svTodo EXCEPT ![r] = <<>>]
    /\ \E answer : svAnswer' = [svAnswer EXCEPT ![r] = answer]

Advances(r) ==
    /\ svTodo[r] # <<>> /\ svReq' = svReq /\ svAnswer' = svAnswer
    /\ svTodo' = [svTodo EXCEPT ![r] = Tail(svTodo[r])]

LEMMA LayerMoves ==
    ASSUME NEW r \in Request, svTodo[r] # <<>>, NEW answer, Layer(r, answer)
    PROVE  Ends(r) \/ (Advances(r) /\ answer = "pass")
BY DEF Layer, Proceeds, Answered, Ends, Advances

LEMMA StepMoves ==
    ASSUME NEW r \in Request, RequestStep(r)
    PROVE  Ends(r) \/ Advances(r) \/ Retry(r)
<1>1. CASE CheckKey(r)
  BY <1>1, LayerMoves DEF CheckKey, At
<1>2. CASE LocalOrAdmin(r)
  BY <1>2, LayerMoves DEF LocalOrAdmin, At
<1>3. CASE RequireWritable(r)
  BY <1>3, LayerMoves DEF RequireWritable, At
<1>4. CASE KeyQuota(r)
  BY <1>4, LayerMoves DEF KeyQuota, At
<1>5. CASE Gas(r)
  BY <1>5, LayerMoves DEF Gas, At
<1>6. CASE Persist(r) \/ Commit(r)
  BY <1>6 DEF Persist, Commit, PutBlock, At, Answered, Proceeds, Ends, Advances
<1>7. CASE Fee(r)
  BY <1>7 DEF Fee, At, Answered, Ends
<1>8. CASE Dropped(r)
  BY <1>8 DEF Dropped, Answered, Ends
<1> QED BY <1>1, <1>2, <1>3, <1>4, <1>5, <1>6, <1>7, <1>8 DEF RequestStep

-----------------------------------------------------------------------------
(* Types.                                                                  *)

\* What SvTypes says of one request.
Typed(r) ==
    /\ Received(r) => svReq[r] \in [route : Routes, cred : Caller, block : SBlock]
    /\ svTodo[r] # <<>> => Received(r) /\ svTodo[r] \in StepsLeft(svReq[r].route) /\ svAnswer[r] = None
    /\ svAnswer[r] # None => Received(r)

LEMMA TypedRequests ==
    SvTypes <=> /\ {svDev, svBacked, svArmed} \subseteq BOOLEAN
                /\ DOMAIN svReq = Request /\ DOMAIN svTodo = Request /\ DOMAIN svAnswer = Request
                /\ \A r \in Request : Typed(r)
                /\ BlockTypes
BY DEF SvTypes, Typed

LEMMA Places ==
    ASSUME SvTypes, NEW r \in Request, svTodo[r] # <<>>
    PROVE  /\ Received(r) /\ svReq[r].route \in Routes /\ Cred(r) \in Caller /\ BlockOf(r) \in SBlock
           /\ InPlace(svReq[r].route, svTodo[r])
<1>1. Received(r) /\ svReq[r] \in [route : Routes, cred : Caller, block : SBlock]
  BY DEF SvTypes
<1>2. svReq[r].route \in Routes /\ svTodo[r] \in StepsLeft(svReq[r].route)
  BY <1>1 DEF SvTypes
<1> QED BY <1>1, <1>2, StepInPlace DEF Cred, BlockOf

LEMMA TypesInit == ServiceInit => SvTypes
<1> SUFFICES ASSUME ServiceInit PROVE SvTypes
  OBVIOUS
<1>1. \A r \in Request : Typed(r)
  BY DEF ServiceInit, Typed, Received
<1>2. BlockTypes
  BY ServiceAssumption DEF ServiceInit, BlockTypes, Lives
<1> QED BY <1>1, <1>2 DEF ServiceInit, SvTypes, Typed

LEMMA MovesTyped ==
    ASSUME SvTypes, NEW r \in Request, Ends(r) \/ Advances(r) \/ Retry(r)
    PROVE  /\ DOMAIN svReq' = Request /\ DOMAIN svTodo' = Request /\ DOMAIN svAnswer' = Request
           /\ \A q \in Request : Typed(q)'
<1> DEFINE route == svReq[r].route
<1>1. DOMAIN svReq' = Request /\ DOMAIN svTodo' = Request /\ DOMAIN svAnswer' = Request /\ svReq' = svReq
  BY DEF SvTypes, Ends, Advances, Retry
<1>2. ASSUME NEW q \in Request, q # r PROVE Typed(q)'
  <2>1. svTodo'[q] = svTodo[q] /\ svAnswer'[q] = svAnswer[q] /\ Typed(q)
    BY <1>2, TypedRequests DEF Ends, Advances, Retry, SvTypes
  <2> QED BY <1>1, <2>1 DEF Typed, Received
<1>3. Typed(r)'
  <2>1. Received(r) /\ route \in Routes
    BY Places DEF Ends, Advances, Retry, SvTypes, None
  <2>2. svTodo'[r] = <<>> \/ (svTodo'[r] \in StepsLeft(route) /\ svAnswer'[r] = None)
    <3>1. CASE Ends(r)
      BY <3>1 DEF Ends, SvTypes
    <3>2. CASE Advances(r)
      BY <3>2, Places DEF Advances, InPlace, SvTypes
    <3>3. CASE Retry(r)
      BY <2>1, <3>3, RouteStart DEF Retry, WholeRoute, SvTypes
    <3> QED BY <3>1, <3>2, <3>3
  <2> QED BY <1>1, <2>1, <2>2 DEF Typed, Received, SvTypes
<1> QED BY <1>1, <1>2, <1>3

LEMMA LivesFact == Lives \subseteq Nat
BY ServiceAssumption DEF Lives

\* A request that puts its block in.
LEMMA PutFact ==
    ASSUME BlockTypes, NEW r \in Request, BlockOf(r) \in SBlock, PutBlock(r)
    PROVE  LET b == BlockOf(r)
           IN /\ svPut' \in [SBlock -> [Lives -> SUBSET Request]]
              /\ svPut'[b][svRestarts] = svPut[b][svRestarts] \cup {r}
              /\ \A x \in SBlock, e \in Lives : x # b \/ e # svRestarts => svPut'[x][e] = svPut[x][e]
<1> DEFINE b == BlockOf(r)
           new == [svPut[b] EXCEPT ![svRestarts] = @ \cup {r}]
<1>1. svPut' = [svPut EXCEPT ![b] = new]
  BY DEF PutBlock
<1>2. svPut[b] \in [Lives -> SUBSET Request] /\ svRestarts \in Lives
  BY DEF BlockTypes
<1>3. /\ new \in [Lives -> SUBSET Request] /\ new[svRestarts] = svPut[b][svRestarts] \cup {r}
      /\ \A e \in Lives : e # svRestarts => new[e] = svPut[b][e]
  BY <1>2
<1> HIDE DEF new
<1> QED BY <1>1, <1>3 DEF BlockTypes

LEMMA FeeFact ==
    ASSUME BlockTypes, NEW r \in Request, BlockOf(r) \in Spending, Fee(r)
    PROVE  LET b == BlockOf(r)
           IN /\ svFees' \in [SBlock -> [Lives -> Nat]]
              /\ svFees'[b][svRestarts] = svFees[b][svRestarts] + 1
              /\ \A x \in SBlock, e \in Lives : x # b \/ e # svRestarts => svFees'[x][e] = svFees[x][e]
<1> DEFINE b == BlockOf(r)
           new == [svFees[b] EXCEPT ![svRestarts] = @ + 1]
<1>0. b \in SBlock
  BY ServiceAssumption
<1>1. svFees' = [svFees EXCEPT ![b] = new]
  BY DEF Fee
<1>2. svFees[b] \in [Lives -> Nat] /\ svRestarts \in Lives
  BY <1>0 DEF BlockTypes
<1>3. /\ new \in [Lives -> Nat] /\ new[svRestarts] = svFees[b][svRestarts] + 1
      /\ \A e \in Lives : e # svRestarts => new[e] = svFees[b][e]
  BY <1>2
<1> HIDE DEF new
<1> QED BY <1>0, <1>1, <1>3 DEF BlockTypes

LEMMA StepBlockTypes ==
    ASSUME SvTypes, NEW r \in Request, RequestStep(r)
    PROVE  BlockTypes'
<1>0. svRestarts' = svRestarts /\ BlockTypes
  BY DEF RequestStep, SvTypes
<1>1. CASE UNCHANGED svBlockVars
  BY <1>0, <1>1 DEF BlockTypes, svBlockVars
<1>2. CASE Commit(r)
  <2>1. BlockOf(r) \in SBlock
    BY <1>2, Places DEF Commit, At
  <2>2. CASE NothingPut
    BY <1>0, <1>2, <2>2 DEF Commit, NothingPut, BlockTypes
  <2>3. CASE PutBlock(r)
    <3>1. svPut' \in [SBlock -> [Lives -> SUBSET Request]]
      BY <1>0, <2>1, <2>3, PutFact
    <3> QED BY <1>0, <1>2, <2>1, <2>3, <3>1 DEF Commit, PutBlock, BlockTypes
  <2> QED BY <1>2, <2>2, <2>3 DEF Commit
<1>3. CASE Fee(r)
  <2>1. svFees' \in [SBlock -> [Lives -> Nat]]
    <3>1. CASE BlockOf(r) \in Spending
      BY <1>0, <1>3, <3>1, FeeFact
    <3>2. CASE BlockOf(r) \notin Spending
      BY <1>0, <1>3, <3>2 DEF Fee, BlockTypes
    <3> QED BY <3>1, <3>2
  <2> QED BY <1>0, <1>3, <2>1 DEF Fee, BlockTypes
<1>4. CASE ~Commit(r) /\ ~Fee(r)
  <2>1. UNCHANGED svBlockVars
    BY <1>4 DEF RequestStep, CheckKey, LocalOrAdmin, RequireWritable, KeyQuota, Gas, Persist,
                Dropped, Retry, svLedgerVars
  <2> QED BY <1>1, <2>1
<1> QED BY <1>2, <1>3, <1>4

LEMMA TypesNext == SvTypes /\ [ServiceNext]_svVars => SvTypes'
<1> SUFFICES ASSUME SvTypes, [ServiceNext]_svVars PROVE SvTypes'
  OBVIOUS
<1>1. CASE CreateKey \/ Revoke
  BY <1>1 DEF CreateKey, Revoke, KeyCall, svFlowVars, svLedgerVars, svBlockVars, svModeVars, SvTypes,
              BlockTypes, Received
<1>2. ASSUME NEW r \in Request, Start(r) PROVE SvTypes'
  <2>1. PICK route \in Routes, c \in Caller, b \in SBlock :
          /\ svReq' = [svReq EXCEPT ![r] = [route |-> route, cred |-> c, block |-> b]]
          /\ svTodo' = [svTodo EXCEPT ![r] = Steps(route)]
    BY <1>2 DEF Start
  <2>2. svAnswer' = svAnswer /\ svDev' = svDev /\ svBacked' = svBacked /\ svArmed' = svArmed
    BY <1>2 DEF Start, svKeyVars, svModeVars
  <2>3. DOMAIN svReq' = Request /\ DOMAIN svTodo' = Request /\ DOMAIN svAnswer' = Request
    BY <2>1, <2>2 DEF SvTypes
  <2>4. ASSUME NEW q \in Request, q # r PROVE Typed(q)'
    <3>1. svTodo'[q] = svTodo[q] /\ svReq'[q] = svReq[q] /\ Typed(q)
      BY <2>1, <2>4, TypedRequests DEF SvTypes
    <3> QED BY <2>2, <3>1 DEF Typed, Received
  <2>5. Typed(r)'
    <3>1. svReq'[r] = [route |-> route, cred |-> c, block |-> b] /\ svTodo'[r] = Steps(route)
      BY <2>1 DEF SvTypes
    <3>2. Received(r)' /\ svReq'[r] \in [route : Routes, cred : Caller, block : SBlock]
      BY <3>1 DEF Received, NoReq
    <3>3. svAnswer'[r] = None
      BY <1>2, <2>2 DEF Start, SvTypes, Received
    <3> QED BY <3>1, <3>2, <3>3, RouteStart DEF Typed, WholeRoute
  <2>6. {svDev', svBacked', svArmed'} \subseteq BOOLEAN /\ BlockTypes'
    BY <1>2, <2>2 DEF Start, svLedgerVars, svBlockVars, SvTypes, BlockTypes
  <2> QED BY <2>3, <2>4, <2>5, <2>6 DEF SvTypes, Typed
<1>3. ASSUME NEW r \in Request, RequestStep(r) PROVE SvTypes'
  <2>1. svDev' = svDev /\ svBacked' = svBacked /\ svArmed' = svArmed
    BY <1>3 DEF RequestStep, svKeyVars, svModeVars
  <2>2. BlockTypes'
    BY <1>3, StepBlockTypes
  <2>3. {svDev', svBacked', svArmed'} \subseteq BOOLEAN
    BY <2>1 DEF SvTypes
  <2> QED BY <1>3, <2>2, <2>3, StepMoves, MovesTyped DEF SvTypes, Typed
<1>4. CASE ArmMode \/ DisarmMode
  BY <1>4 DEF ArmMode, DisarmMode, svKeyVars, svFlowVars, svLedgerVars, svBlockVars, SvTypes, BlockTypes,
              Received
<1>5. CASE Restart
  <2>1. DOMAIN svReq' = Request /\ DOMAIN svTodo' = Request /\ DOMAIN svAnswer' = Request /\ svReq' = svReq
    BY <1>5 DEF Restart, SvTypes
  <2>2. ASSUME NEW q \in Request PROVE Typed(q)'
    BY <1>5, <2>1 DEF Restart, SvTypes, Typed, Received
  <2>3. svRestarts' \in Lives
    BY <1>5, ServiceAssumption DEF Restart, SvTypes, BlockTypes, Lives
  <2>4. {svDev', svBacked', svArmed'} \subseteq BOOLEAN /\ BlockTypes'
    BY <1>5, <2>3 DEF Restart, SvTypes, BlockTypes
  <2> QED BY <2>1, <2>2, <2>4 DEF SvTypes, Typed
<1>6. CASE UNCHANGED svVars
  BY <1>6 DEF svVars, svKeyVars, svFlowVars, svLedgerVars, svBlockVars, svModeVars, SvTypes, BlockTypes,
              Received
<1>7. CASE BlockStep
  <2>1. BlockTypes'
    BY <1>7 DEF BlockStep, ReachDisk, LeaveWindow, SvTypes, BlockTypes
  <2> QED BY <1>7, <2>1 DEF BlockStep, svKeyVars, svFlowVars, svModeVars, SvTypes, Received
<1> QED BY <1>1, <1>2, <1>3, <1>4, <1>5, <1>6, <1>7 DEF ServiceNext

-----------------------------------------------------------------------------
(* Keys.                                                                   *)

LEMMA KeysInit == ServiceInit => KeysInv
<1> SUFFICES ASSUME ServiceInit PROVE KeysInv
  OBVIOUS
<1>1. DOMAIN svFile \subseteq Key
  BY DEF ServiceInit
<1> QED BY <1>1 DEF ServiceInit, KeysInv

LEMMA KeysNext == SvTypes /\ KeysInv /\ [ServiceNext]_svVars => KeysInv'
<1> SUFFICES ASSUME SvTypes, KeysInv, [ServiceNext]_svVars PROVE KeysInv'
  OBVIOUS
<1>1. CASE CreateKey
  <2>1. PICK k \in Key \ (DOMAIN svKeys \cup DOMAIN svFile), ok \in BOOLEAN :
          k \notin svRevoked /\ svKeys' = Extend(svKeys, k, TRUE) /\ Save(svKeys', ok)
    BY <1>1 DEF CreateKey
  <2>2. svRevoked' = svRevoked /\ svBacked' = svBacked
    BY <1>1 DEF CreateKey, KeyCall
  <2>3. DOMAIN svKeys' = DOMAIN svKeys \cup {k} /\ \A x \in DOMAIN svKeys : svKeys'[x] = svKeys[x]
    BY <2>1 DEF Extend
  <2>4. svFile' = svFile \/ (svBacked /\ svFile' = svKeys')
    BY <2>1 DEF Save
  <2> QED BY <2>1, <2>2, <2>3, <2>4 DEF KeysInv
<1>2. CASE Revoke
  <2>1. PICK k \in DOMAIN svKeys, ok \in BOOLEAN : RevokeKey(k, ok)
    BY <1>2 DEF Revoke
  <2>2. svBacked' = svBacked
    BY <1>2 DEF Revoke, KeyCall
  <2>3. DOMAIN svKeys' = DOMAIN svKeys /\ svKeys'[k] = FALSE
        /\ \A x \in DOMAIN svKeys : x # k => svKeys'[x] = svKeys[x]
    BY <2>1 DEF Extend, RevokeKey
  <2>4. svFile' = IF ok /\ svBacked THEN svKeys' ELSE svFile
    BY <2>1 DEF RevokeKey, Save
  <2>5. svRevoked' = IF ok THEN svRevoked \cup {k} ELSE svRevoked
    BY <2>1 DEF RevokeKey
  <2>6. ASSUME NEW x \in svRevoked' PROVE x \in DOMAIN svKeys' => ~svKeys'[x]
    BY <2>3, <2>5, <2>6 DEF KeysInv
  <2>7. ASSUME NEW x \in svRevoked' PROVE x \in DOMAIN svFile' => ~svFile'[x]
    <3>1. CASE ok /\ svBacked
      BY <2>4, <2>6, <3>1
    <3>2. CASE ~ok
      BY <2>4, <2>5, <3>2 DEF KeysInv
    <3>3. CASE ok /\ ~svBacked
      BY <2>1, <2>4, <2>5, <3>3 DEF KeysInv
    <3> QED BY <3>1, <3>2, <3>3
  <2>8. /\ DOMAIN svKeys' \subseteq Key /\ DOMAIN svFile' \subseteq Key
        /\ ~svBacked' => DOMAIN svKeys' \cap DOMAIN svFile' = {}
    BY <2>2, <2>3, <2>4 DEF KeysInv
  <2> QED BY <2>6, <2>7, <2>8 DEF KeysInv
<1>3. CASE Restart
  <2>1. PICK readable \in BOOLEAN : svBacked' = readable /\ svKeys' = IF readable THEN svFile ELSE EmptyStore
    BY <1>3 DEF Restart
  <2>2. svFile' = svFile /\ svRevoked' = svRevoked /\ DOMAIN EmptyStore = {}
    BY <1>3 DEF Restart, EmptyStore
  <2> QED BY <2>1, <2>2 DEF KeysInv
<1>4. CASE UNCHANGED svKeyVars
  BY <1>4 DEF svKeyVars, KeysInv
<1>5. (\E r \in Request : Start(r) \/ RequestStep(r)) \/ BlockStep \/ ArmMode \/ DisarmMode \/ UNCHANGED svVars
        => UNCHANGED svKeyVars
  BY DEF Start, RequestStep, BlockStep, ArmMode, DisarmMode, svVars
<1> QED BY <1>1, <1>2, <1>3, <1>4, <1>5 DEF ServiceNext

\* A request goes past the key and past the mode only by their own layers.
LEMMA LayerPassed ==
    ASSUME SvTypes, NEW r \in Request, RequestStep(r), svTodo[r] # <<>>, svTodo'[r] = Tail(svTodo[r])
    PROVE  /\ At(r, "key") => KeyAnswer(Cred(r)) = "pass"
           /\ At(r, "writable") => ~svArmed
<1> SUFFICES ASSUME At(r, "key") \/ At(r, "writable")
             PROVE  (At(r, "key") /\ KeyAnswer(Cred(r)) = "pass") \/ (At(r, "writable") /\ ~svArmed)
  BY DEF At
<1>1. Tail(svTodo[r]) # <<>>
  BY Places DEF At, InPlace
<1>2. ~Ends(r)
  BY <1>1 DEF Ends, SvTypes
<1>3. CASE CheckKey(r)
  BY <1>2, <1>3, LayerMoves DEF CheckKey, At
<1>4. CASE RequireWritable(r)
  BY <1>2, <1>4, LayerMoves DEF RequireWritable, At
<1>5. ~Retry(r)
  BY DEF Retry, SvTypes, None
<1>6. ~Dropped(r)
  BY <1>2 DEF Dropped, Answered, Ends
<1> QED BY <1>3, <1>4, <1>5, <1>6 DEF RequestStep, At, LocalOrAdmin, KeyQuota, Gas, Persist, Commit, Fee

LEMMA KeyLayer ==
    ASSUME SvTypes, [ServiceNext]_svVars, NEW r \in Request, At(r, "key"), svTodo'[r] = Tail(svTodo[r])
    PROVE  KeyAnswer(Cred(r)) = "pass"
<1>1. Tail(svTodo[r]) # <<>> /\ svTodo[r] # Tail(svTodo[r]) /\ svTodo[r] # <<>>
  BY Places DEF At, InPlace
<1>2. ~UNCHANGED svTodo
  BY <1>1
<1>3. ~Restart
  BY <1>1 DEF Restart
<1>4. PICK q \in Request : Start(q) \/ RequestStep(q)
  BY <1>2, <1>3 DEF ServiceNext, CreateKey, Revoke, KeyCall, BlockStep, ArmMode, DisarmMode, svVars, svFlowVars
<1>5. CASE q # r
  <2>1. svTodo'[r] = svTodo[r]
    BY <1>4, <1>5, StepMoves DEF Start, Ends, Advances, Retry, SvTypes
  <2> QED BY <1>1, <2>1
<1>6. CASE Start(r)
  BY <1>1, <1>6 DEF Start, SvTypes, Received
<1>7. CASE RequestStep(r)
  BY <1>1, <1>7, LayerPassed
<1> QED BY <1>4, <1>5, <1>6, <1>7

\* What the key's layer asks of the caller.
LEMMA KeyAsked ==
    ASSUME NEW c \in Credentials, KeyAnswer(c) = "pass", ~c.admin
    PROVE  (svDev /\ DOMAIN svKeys = {}) \/ (c.secret \in DOMAIN svKeys /\ svKeys[c.secret])
BY DEF KeyAnswer, VerifyKey, Credentials

LEMMA TypesAlways == ServiceSpec => []SvTypes
BY TypesInit, TypesNext, PTL DEF ServiceSpec

LEMMA KeysAlways == ServiceSpec => []KeysInv
BY TypesAlways, KeysInit, KeysNext, PTL DEF ServiceSpec

LEMMA RevokedStep == SvTypes /\ KeysInv /\ [ServiceNext]_svVars => OpensNoRoute
<1> SUFFICES ASSUME SvTypes, KeysInv, [ServiceNext]_svVars, NEW r \in Request, At(r, "key"),
                    svTodo'[r] = Tail(svTodo[r]), ~Cred(r).admin, Cred(r).secret \in svRevoked
             PROVE  svDev /\ DOMAIN svKeys = {}
  BY DEF OpensNoRoute
<1>1. Cred(r) \in Credentials
  BY Places, ServiceAssumption DEF At
<1>2. KeyAnswer(Cred(r)) = "pass"
  BY KeyLayer
<1>3. ~(Cred(r).secret \in DOMAIN svKeys /\ svKeys[Cred(r).secret])
  BY DEF KeysInv
<1> QED BY <1>1, <1>2, <1>3, KeyAsked

\* A key whose revocation was answered 200 never opens a route again, over any
\* number of restarts, failed saves and unreadable key files (revoke_key,
\* require_api_key, serve_api).
THEOREM RevocationIsFinal == ServiceSpec => RevokedForGood
BY TypesAlways, KeysAlways, RevokedStep, PTL DEF ServiceSpec, RevokedForGood

-----------------------------------------------------------------------------
(* Layers.                                                                 *)

\* What RouteInv says of one request.
Gated(r) == svArmed /\ PastGate(r) => r \in svInFlight \/ svReq[r].route \in Ungated

Admitted(r) == Cred(r).admin \/ svDev \/ Cred(r).secret \in Key
KeyPassed(r) ==
    svTodo[r] # <<>> /\ svReq[r].route \in {"submit", "ledger"} /\ ~Contains(svTodo[r], "key") => Admitted(r)

LEMMA RouteParts == RouteInv <=> \A r \in Request : Gated(r) /\ KeyPassed(r)
BY DEF RouteInv, Gated, KeyPassed, Admitted

LEMMA RouteInit == ServiceInit => RouteInv
BY DEF ServiceInit, RouteInv, PastGate

\* A request at the first step of its route.
LEMMA WholeGated ==
    ASSUME NEW r \in Request, svReq'[r].route \in Routes, svTodo'[r] = Steps(svReq'[r].route)
    PROVE  Gated(r)' /\ KeyPassed(r)'
<1>1. WholeRoute(svReq'[r].route)
  BY RouteStart
<1> QED BY <1>1 DEF WholeRoute, Gated, KeyPassed, PastGate

\* A request that this step leaves where it was.
LEMMA StillGated ==
    ASSUME RouteInv, NEW r \in Request, svReq'[r] = svReq[r], svTodo'[r] = svTodo[r], svDev' = svDev,
           svArmed' = svArmed, svInFlight' = svInFlight
    PROVE  Gated(r)' /\ KeyPassed(r)'
BY RouteParts DEF Gated, KeyPassed, Admitted, Cred, PastGate

LEMMA AdvancesGated ==
    ASSUME SvTypes, KeysInv, RouteInv, NEW r \in Request, RequestStep(r), Advances(r)
    PROVE  Gated(r)' /\ KeyPassed(r)'
<1> DEFINE t == svTodo[r]
<1>1. /\ t # <<>> /\ svTodo'[r] = Tail(t) /\ svReq' = svReq /\ InPlace(svReq[r].route, t)
      /\ Cred(r) \in Credentials
  BY Places, ServiceAssumption DEF Advances, SvTypes
<1>2. svDev' = svDev /\ svArmed' = svArmed /\ svInFlight' = svInFlight
  BY DEF RequestStep, svModeVars
<1>3. Gated(r) /\ KeyPassed(r)
  BY RouteParts
<1>4. Head(t) = "writable" => ~svArmed
  BY <1>1, LayerPassed DEF At
<1>5. Gated(r)'
  BY <1>1, <1>2, <1>3, <1>4 DEF Gated, PastGate, InPlace
<1>6. Head(t) = "key" => Admitted(r)
  <2> SUFFICES ASSUME Head(t) = "key", ~Cred(r).admin PROVE svDev \/ Cred(r).secret \in Key
    BY DEF Admitted
  <2>1. KeyAnswer(Cred(r)) = "pass"
    BY <1>1, LayerPassed DEF At
  <2> QED BY <1>1, <2>1, KeyAsked DEF KeysInv
<1>7. KeyPassed(r)'
  BY <1>1, <1>2, <1>3, <1>6 DEF KeyPassed, Admitted, InPlace, Cred
<1> QED BY <1>5, <1>7

LEMMA RouteNext == SvTypes /\ KeysInv /\ RouteInv /\ [ServiceNext]_svVars => RouteInv'
<1> SUFFICES ASSUME SvTypes, KeysInv, RouteInv, [ServiceNext]_svVars, NEW r \in Request
             PROVE  Gated(r)' /\ KeyPassed(r)'
  BY DEF RouteInv, Gated, KeyPassed, Admitted
<1>1. CASE CreateKey \/ Revoke \/ BlockStep \/ UNCHANGED svVars
  BY <1>1, StillGated DEF CreateKey, Revoke, KeyCall, BlockStep, svVars, svFlowVars, svModeVars
<1>2. ASSUME NEW q \in Request, Start(q) PROVE Gated(r)' /\ KeyPassed(r)'
  <2>1. PICK route \in Routes, c \in Caller, b \in SBlock :
          /\ svReq' = [svReq EXCEPT ![q] = [route |-> route, cred |-> c, block |-> b]]
          /\ svTodo' = [svTodo EXCEPT ![q] = Steps(route)]
    BY <1>2 DEF Start
  <2>2. svDev' = svDev /\ svArmed' = svArmed /\ svInFlight' = svInFlight
    BY <1>2 DEF Start, svModeVars
  <2>3. CASE q # r
    <3>1. svReq'[r] = svReq[r] /\ svTodo'[r] = svTodo[r]
      BY <2>1, <2>3 DEF SvTypes
    <3> QED BY <2>2, <3>1, StillGated
  <2>4. CASE q = r
    <3>1. svReq'[r] = [route |-> route, cred |-> c, block |-> b] /\ svTodo'[r] = Steps(route)
      BY <2>1, <2>4 DEF SvTypes
    <3> QED BY <3>1, WholeGated
  <2> QED BY <2>3, <2>4
<1>3. ASSUME NEW q \in Request, RequestStep(q) PROVE Gated(r)' /\ KeyPassed(r)'
  <2>1. svDev' = svDev /\ svArmed' = svArmed /\ svInFlight' = svInFlight
    BY <1>3 DEF RequestStep, svModeVars
  <2>2. CASE q # r
    <3>1. svReq'[r] = svReq[r] /\ svTodo'[r] = svTodo[r]
      BY <1>3, <2>2, StepMoves DEF Ends, Advances, Retry, SvTypes
    <3> QED BY <2>1, <3>1, StillGated
  <2>3. CASE Ends(r)
    <3>1. svTodo'[r] = <<>>
      BY <2>3 DEF Ends, SvTypes
    <3> QED BY <3>1 DEF Gated, KeyPassed, PastGate
  <2>4. CASE Retry(r)
    <3>1. Received(r) /\ svReq' = svReq /\ svTodo'[r] = Steps(svReq[r].route)
      BY <2>4 DEF Retry, SvTypes, None
    <3>2. svReq'[r].route \in Routes
      BY <3>1 DEF SvTypes
    <3> QED BY <3>1, <3>2, WholeGated
  <2> QED BY <1>3, <2>2, <2>3, <2>4, StepMoves, AdvancesGated
<1>4. CASE ArmMode
  <2>1. svInFlight' = {q \in Request : PastGate(q)} /\ svTodo' = svTodo /\ svReq' = svReq /\ svDev' = svDev
    BY <1>4 DEF ArmMode, svFlowVars
  <2>2. Gated(r)'
    BY <2>1 DEF Gated, PastGate
  <2> QED BY <2>1, <2>2, RouteParts DEF KeyPassed, Admitted, Cred
<1>5. CASE DisarmMode
  <2>1. svTodo' = svTodo /\ svReq' = svReq /\ svDev' = svDev /\ svArmed' = FALSE
    BY <1>5 DEF DisarmMode, svFlowVars
  <2> QED BY <2>1, RouteParts DEF Gated, KeyPassed, Admitted, Cred
<1>6. CASE Restart
  <2>1. svTodo'[r] = <<>>
    BY <1>6 DEF Restart
  <2> QED BY <2>1 DEF Gated, KeyPassed, PastGate
<1> QED BY <1>1, <1>2, <1>3, <1>4, <1>5, <1>6 DEF ServiceNext

LEMMA LayersStep == SvTypes /\ RouteInv => PassedTheLayers
<1> SUFFICES ASSUME SvTypes, RouteInv, NEW r \in Request
             PROVE  /\ svArmed /\ At(r, "commit") => r \in svInFlight \/ svReq[r].route \in Ungated
                    /\ At(r, "key_quota") => Cred(r).admin \/ svDev \/ Cred(r).secret \in Key
  BY DEF PassedTheLayers
<1>1. At(r, "commit") => PastGate(r)
  BY Places DEF At, InPlace, PastGate
<1>2. At(r, "key_quota") => svTodo[r] # <<>> /\ svReq[r].route = "submit" /\ ~Contains(svTodo[r], "key")
  BY Places DEF At, InPlace
<1> QED BY <1>1, <1>2 DEF RouteInv

\* While the read-only mode is armed no block goes in but by a request that
\* had passed require_writable before or by a route without it, and the quota
\* of a key is charged only behind require_api_key (routes.rs, middleware.rs).
THEOREM LayersAlwaysHold == ServiceSpec => LayersHold
<1>1. ServiceSpec => []RouteInv
  BY TypesAlways, KeysAlways, RouteInit, RouteNext, PTL DEF ServiceSpec
<1> QED BY <1>1, TypesAlways, LayersStep, PTL DEF LayersHold

-----------------------------------------------------------------------------
(* Blocks and their fees.                                                  *)

\* What FeeInv says of one request and of one block.
Told(r) ==
    LET b == BlockOf(r)
    IN /\ svAnswer[r] = "inserted" =>
            /\ InForce(b)
            /\ \E e \in Lives :
                  /\ r \in svPut[b][e]
                  /\ b \in Spending /\ svReq[r].route \in {"submit", "ledger"} => svFees[b][e] = 1
       /\ svAnswer[r] = "duplicate" => InForce(b) /\ \E e \in Lives : PutIn(b, e)
Once(b) ==
    \A e \in Lives : /\ b \in Spending => InOnce(b, e)
                     /\ b \notin Spending => svFees[b][e] = 0

LEMMA FeeParts ==
    FeeInv <=> (\A r \in Request : Owes(r) /\ Told(r)) /\ \A b \in SBlock : PlacesOf(b) /\ Once(b)
<1>1. ToldTrue <=> \A r \in Request : Told(r)
  BY DEF ToldTrue, Told
<1>2. (\A b \in Spending, e \in Lives : InOnce(b, e)) /\ (\A b \in SBlock \ Spending, e \in Lives : svFees[b][e] = 0)
        <=> \A b \in SBlock : Once(b)
  BY ServiceAssumption DEF Once
<1> QED BY <1>1, <1>2 DEF FeeInv, SubmissionsSettle

\* The same after the step.
LEMMA FeePartsNext ==
    ASSUME \A r \in Request : Owes(r)' /\ Told(r)', \A b \in SBlock : PlacesOf(b)' /\ Once(b)'
    PROVE  FeeInv'
<1>1. ToldTrue'
  BY DEF ToldTrue, Told
<1>2. (\A b \in Spending, e \in Lives : InOnce(b, e)') /\ (\A b \in SBlock \ Spending, e \in Lives : svFees'[b][e] = 0)
  BY ServiceAssumption DEF Once
<1> QED BY <1>1, <1>2 DEF FeeInv, SubmissionsSettle

LEMMA FeeInit == ServiceInit => FeeInv
<1> SUFFICES ASSUME ServiceInit PROVE FeeInv
  OBVIOUS
<1>1. ASSUME NEW r \in Request PROVE Owes(r) /\ Told(r)
  BY DEF ServiceInit, Owes, Told, At, None
<1>2. ASSUME NEW b \in SBlock, NEW e \in Lives PROVE svPut[b][e] = {} /\ svFees[b][e] = 0
  BY DEF ServiceInit
<1>3. ASSUME NEW b \in SBlock PROVE PlacesOf(b) /\ Once(b)
  <2>1. PlacesOf(b)
    BY <1>2 DEF ServiceInit, PlacesOf, PutIn
  <2>2. Once(b)
    BY <1>2 DEF Once, InOnce, PutIn
  <2> QED BY <2>1, <2>2
<1> QED BY <1>1, <1>3, FeeParts

\* A step that leaves the blocks alone and answers nothing about one.
Quiet(r) ==
    /\ UNCHANGED svBlockVars
    /\ \/ Ends(r) /\ svAnswer'[r] \notin {"inserted", "duplicate"}
       \/ Advances(r) /\ Head(svTodo[r]) # "commit"
       \/ Retry(r)

Inserts(r) ==
    Commit(r) /\ PutBlock(r) /\ (BlockOf(r) \in Spending => BlockOf(r) \notin svKept)

Duplicate(r) == BlockOf(r) \in svWindow /\ Answered(r, "duplicate") /\ UNCHANGED svBlockVars

LEMMA LayerQuiet ==
    ASSUME SvTypes, NEW r \in Request, NEW step, At(r, step), step # "commit",
           NEW answer, Layer(r, answer), answer \notin {"inserted", "duplicate"}
    PROVE  (Ends(r) /\ svAnswer'[r] \notin {"inserted", "duplicate"}) \/ (Advances(r) /\ Head(svTodo[r]) # "commit")
BY DEF At, Layer, Answered, Proceeds, Ends, Advances, SvTypes

LEMMA StepKinds ==
    ASSUME SvTypes, NEW r \in Request, RequestStep(r)
    PROVE  \/ Quiet(r)
           \/ svTodo[r] # <<>> /\ Duplicate(r)
           \/ Inserts(r)
           \/ Fee(r)
<1>1. CASE CheckKey(r)
  <2>1. KeyAnswer(Cred(r)) \notin {"inserted", "duplicate"}
    BY DEF KeyAnswer
  <2> QED BY <1>1, <2>1, LayerQuiet DEF CheckKey, svLedgerVars, Quiet
<1>2. CASE LocalOrAdmin(r)
  BY <1>2, LayerQuiet DEF LocalOrAdmin, svLedgerVars, Quiet
<1>3. CASE RequireWritable(r)
  BY <1>3, LayerQuiet DEF RequireWritable, svLedgerVars, Quiet
<1>4. CASE KeyQuota(r)
  BY <1>4, LayerQuiet DEF KeyQuota, Quiet
<1>5. CASE Gas(r)
  <2> DEFINE pays == Cred(r).signed /\ svReq[r].route = "ledger"
             answer == IF ~Cred(r).signed THEN "401" ELSE IF pays /\ svGasLeft = 0 THEN "402" ELSE "pass"
  <2>1. Layer(r, answer) /\ At(r, "gas") /\ UNCHANGED svBlockVars
    BY <1>5 DEF Gas
  <2>2. answer \notin {"inserted", "duplicate"}
    OBVIOUS
  <2> HIDE DEF answer
  <2> QED BY <2>1, <2>2, LayerQuiet DEF Quiet
<1>6. CASE Dropped(r)
  BY <1>6 DEF Dropped, Answered, Ends, svLedgerVars, Quiet, SvTypes
<1>7. CASE Retry(r)
  BY <1>7 DEF Retry, svLedgerVars, Quiet
<1>8. ASSUME svTodo[r] # <<>>, Answered(r, "rejected"), UNCHANGED svBlockVars PROVE Quiet(r)
  BY <1>8 DEF Answered, Ends, Quiet, SvTypes
<1>9. CASE Persist(r)
  <2>1. svTodo[r] # <<>> /\ Head(svTodo[r]) = "persist" /\ UNCHANGED svBlockVars
    BY <1>9 DEF Persist, At, svLedgerVars
  <2>2. CASE Proceeds(r)
    BY <2>1, <2>2 DEF Proceeds, Advances, Quiet
  <2> QED BY <1>8, <1>9, <2>1, <2>2 DEF Persist, Duplicate
<1>10. CASE Commit(r)
  <2>1. svTodo[r] # <<>>
    BY <1>10 DEF Commit, At
  <2>2. NothingPut => UNCHANGED svBlockVars
    BY <1>10 DEF Commit, NothingPut, svBlockVars
  <2> QED BY <1>8, <1>10, <2>1, <2>2 DEF Commit, Duplicate, Inserts
<1> QED BY <1>1, <1>2, <1>3, <1>4, <1>5, <1>6, <1>7, <1>9, <1>10 DEF RequestStep

LEMMA StillTold ==
    ASSUME FeeInv, NEW r \in Request, svReq'[r] = svReq[r], svTodo'[r] = svTodo[r], svAnswer'[r] = svAnswer[r],
           UNCHANGED svBlockVars, svRestarts' = svRestarts
    PROVE  Owes(r)' /\ Told(r)'
<1>1. Owes(r) /\ Told(r)
  BY FeeParts
<1>2. BlockOf(r)' = BlockOf(r) /\ (At(r, "fee")' <=> At(r, "fee"))
  BY DEF BlockOf, At
<1>3. Owes(r)'
  BY <1>1, <1>2 DEF Owes, svBlockVars
<1>4. Told(r)'
  BY <1>1, <1>2 DEF Told, InForce, PutIn, svBlockVars
<1> QED BY <1>3, <1>4

LEMMA StillPlaced ==
    ASSUME FeeInv, UNCHANGED svBlockVars, svRestarts' = svRestarts, NEW b \in SBlock
    PROVE  PlacesOf(b)' /\ Once(b)'
<1>1. PlacesOf(b) /\ Once(b)
  BY FeeParts
<1>2. PlacesOf(b)'
  BY <1>1 DEF PlacesOf, PutIn, svBlockVars
<1>3. Once(b)'
  BY <1>1 DEF Once, InOnce, PutIn, svBlockVars
<1> QED BY <1>2, <1>3

\* A request that is answered nothing about its block, and is not at its fee.
LEMMA NothingTold ==
    ASSUME NEW r \in Request, svAnswer'[r] \notin {"inserted", "duplicate"},
           svTodo'[r] = <<>> \/ Head(svTodo'[r]) # "fee"
    PROVE  Owes(r)' /\ Told(r)'
BY DEF Owes, Told, At

LEMMA QuietFees ==
    ASSUME SvTypes, FeeInv, NEW r \in Request, Quiet(r), svRestarts' = svRestarts
    PROVE  FeeInv'
<1>1. svReq' = svReq /\ UNCHANGED svBlockVars
  BY DEF Quiet, Ends, Advances, Retry
<1>2. ASSUME NEW q \in Request, q # r PROVE Owes(q)' /\ Told(q)'
  <2>1. svTodo'[q] = svTodo[q] /\ svAnswer'[q] = svAnswer[q]
    BY <1>2 DEF Quiet, Ends, Advances, Retry, SvTypes
  <2> QED BY <1>1, <2>1, StillTold
<1>3. Owes(r)' /\ Told(r)'
  <2>1. CASE Ends(r) /\ svAnswer'[r] \notin {"inserted", "duplicate"}
    BY <2>1, NothingTold DEF Ends, SvTypes
  <2>2. CASE Advances(r) /\ Head(svTodo[r]) # "commit"
    <3>1. svAnswer'[r] = None /\ svTodo'[r] = Tail(svTodo[r]) /\ InPlace(svReq[r].route, svTodo[r])
      BY <2>2, Places DEF Advances, SvTypes
    <3> QED BY <2>2, <3>1, NothingTold DEF InPlace, None
  <2>3. CASE Retry(r)
    <3>1. Received(r) /\ svTodo'[r] = Steps(svReq[r].route) /\ svAnswer'[r] = None
      BY <2>3 DEF Retry, SvTypes, None
    <3>2. WholeRoute(svReq[r].route)
      BY <3>1, RouteStart DEF SvTypes
    <3> QED BY <3>1, <3>2, NothingTold DEF WholeRoute, None
  <2> QED BY <2>1, <2>2, <2>3 DEF Quiet
<1> QED BY <1>1, <1>2, <1>3, StillPlaced, FeePartsNext

\* A block in the window was put in and is kept.
LEMMA DuplicateFees ==
    ASSUME SvTypes, FeeInv, NEW r \in Request, svTodo[r] # <<>>, Duplicate(r), svRestarts' = svRestarts
    PROVE  FeeInv'
<1> DEFINE b == BlockOf(r)
<1>1. /\ svReq' = svReq /\ svTodo'[r] = <<>> /\ svAnswer'[r] = "duplicate" /\ UNCHANGED svBlockVars
      /\ \A q \in Request : q # r => svTodo'[q] = svTodo[q] /\ svAnswer'[q] = svAnswer[q]
  BY DEF Duplicate, Answered, SvTypes
<1>2. b \in SBlock /\ b \in svKept
  BY Places DEF Duplicate, SvTypes, BlockTypes
<1>3. PICK e \in Lives : PutIn(b, e)
  BY <1>2, FeeParts DEF PlacesOf
<1>4. Owes(r)' /\ Told(r)'
  <2>1. BlockOf(r)' = b /\ InForce(b)' /\ PutIn(b, e)'
    BY <1>1, <1>2, <1>3 DEF BlockOf, InForce, PutIn, svBlockVars
  <2> QED BY <1>1, <1>3, <2>1 DEF Owes, Told, At
<1>5. ASSUME NEW q \in Request, q # r PROVE Owes(q)' /\ Told(q)'
  BY <1>1, <1>5, StillTold
<1> QED BY <1>1, <1>4, <1>5, StillPlaced, FeePartsNext

\* The block of a request is put in.  If it has inputs it was not kept, so it had not
\* been put in before in this life of the process.
LEMMA InsertFees ==
    ASSUME SvTypes, FeeInv, NEW r \in Request, Inserts(r), svRestarts' = svRestarts
    PROVE  FeeInv'
<1> USE DEF Inserts
<1>b. PICK b : b = BlockOf(r)
  OBVIOUS
<1>l. PICK life : life = svRestarts
  OBVIOUS
<1> USE <1>b, <1>l
<1>0. b \in SBlock /\ At(r, "commit") /\ svTodo[r] # <<>> /\ InPlace(svReq[r].route, svTodo[r]) /\ life \in Lives
      /\ BlockTypes /\ Lives \subseteq Nat
  BY Places, LivesFact DEF Commit, At, SvTypes, BlockTypes
<1>1. /\ svPut'[b][life] = svPut[b][life] \cup {r}
      /\ \A x \in SBlock, e \in Lives : x # b \/ e # life => svPut'[x][e] = svPut[x][e]
  BY <1>0, PutFact
<1>2. /\ svKept' = svKept \cup {b} /\ UNCHANGED <<svStored, svFees, svLost, svReq>>
      /\ \A q \in Request : BlockOf(q)' = BlockOf(q)
  BY DEF Commit, PutBlock, Answered, Proceeds, BlockOf
<1>3. ASSUME NEW x \in SBlock PROVE InForce(x) => InForce(x)'
  BY <1>2 DEF InForce
<1>4. ASSUME NEW x \in SBlock, NEW e \in Lives PROVE svPut[x][e] \subseteq svPut'[x][e] /\ (PutIn(x, e) => PutIn(x, e)')
  BY <1>1 DEF PutIn
<1>5. ASSUME b \in Spending, NEW e \in Lives, e >= life PROVE ~PutIn(b, e) /\ svFees[b][e] = 0
  <2>0. e \in Nat /\ life \in Nat /\ PlacesOf(b)
    BY <1>0, FeeParts
  <2>1. ~PutIn(b, e)
    <3>1. CASE e = life
      BY <1>l, <1>5, <2>0, <3>1, <1>0 DEF PlacesOf
    <3>2. CASE e > life
      BY <1>l, <1>5, <2>0, <3>2 DEF PlacesOf
    <3> QED BY <1>5, <2>0, <3>1, <3>2
  <2>2. svFees[b][e] \in Nat
    BY <1>0, <1>5 DEF BlockTypes
  <2>3. Once(b)
    BY <1>0, FeeParts
  <2>4. svFees[b][e] <= 1 /\ (svFees[b][e] = 1 => PutIn(b, e))
    BY <1>5, <2>3 DEF Once, InOnce
  <2> QED BY <2>1, <2>2, <2>4
<1>6. ASSUME NEW q \in Request, q # r PROVE Owes(q)' /\ Told(q)'
  <2>1. svTodo'[q] = svTodo[q] /\ svAnswer'[q] = svAnswer[q]
    BY <1>6 DEF PutBlock, Answered, Proceeds, SvTypes
  <2>2. Owes(q) /\ Told(q)
    BY FeeParts
  <2>3. CASE svTodo[q] = <<>> /\ svAnswer[q] = None
    BY <2>1, <2>3 DEF Owes, Told, At, None
  <2>4. CASE svTodo[q] # <<>> \/ svAnswer[q] # None
    <3>1. BlockOf(q) \in SBlock
      BY <2>4 DEF SvTypes, BlockOf
    <3>2. Owes(q)'
      BY <1>0, <1>2, <1>4, <2>1, <2>2, <3>1 DEF Owes, At
    <3>3. Told(q)'
      BY <1>2, <1>3, <1>4, <2>1, <2>2, <3>1 DEF Told
    <3> QED BY <3>2, <3>3
  <2> QED BY <2>3, <2>4
<1>7. Owes(r)' /\ Told(r)'
  <2>1. r \in svPut'[b][life] /\ InForce(b)'
    BY <1>1, <1>2 DEF InForce
  <2>2. CASE LastStep(r)
    <3>1. svTodo'[r] = <<>> /\ svReq[r].route \notin {"submit", "ledger"} /\ svAnswer'[r] = "inserted"
      BY <1>0, <2>2 DEF LastStep, PutBlock, Answered, SvTypes, InPlace, At
    <3> QED BY <1>0, <1>2, <2>1, <3>1 DEF Owes, Told, At
  <2>3. CASE ~LastStep(r)
    <3>1. svAnswer'[r] = None
      BY <1>0, <2>3 DEF PutBlock, Proceeds, SvTypes
    <3>2. b \in Spending => svFees'[b][life] = 0
      BY <1>0, <1>2, <1>5
    <3> QED BY <1>2, <2>1, <3>1, <3>2 DEF Owes, Told, None
  <2> QED BY <2>2, <2>3
<1>8. ASSUME NEW x \in SBlock PROVE PlacesOf(x)'
  <2>1. PlacesOf(x)
    BY FeeParts
  <2>2. CASE x # b
    <3>1. ASSUME NEW e \in Lives PROVE PutIn(x, e)' <=> PutIn(x, e)
      BY <1>1, <2>2, <3>1 DEF PutIn
    <3> QED BY <1>2, <2>1, <2>2, <3>1 DEF PlacesOf
  <2>3. CASE x = b
    <3>1. ASSUME NEW e \in Lives, e # life PROVE PutIn(b, e)' <=> PutIn(b, e)
      BY <1>0, <1>1, <3>1 DEF PutIn
    <3>2. PutIn(b, life)' /\ b \in svKept' /\ life <= life
      BY <1>0, <1>1, <1>2 DEF PutIn
    <3>3. ASSUME NEW e \in Lives
          PROVE  /\ e = life /\ PutIn(b, e)' => b \in svKept'
                 /\ e < life /\ PutIn(b, e)' => b \in svStored' \/ <<b, e>> \in svLost'
                 /\ e > life => ~PutIn(b, e)' /\ svFees'[b][e] = 0
      <4>1. e \in Nat /\ life \in Nat
        BY <1>0
      <4> QED BY <1>2, <2>1, <2>3, <3>1, <3>2, <4>1 DEF PlacesOf
    <3> QED BY <1>0, <2>3, <3>2, <3>3 DEF PlacesOf
  <2> QED BY <2>2, <2>3
<1>9. ASSUME NEW x \in SBlock PROVE Once(x)'
  <2>1. Once(x)
    BY FeeParts
  <2>2. CASE x # b
    <3>1. ASSUME NEW e \in Lives PROVE svPut'[x][e] = svPut[x][e]
      BY <1>1, <2>2, <3>1
    <3> QED BY <1>2, <2>1, <3>1 DEF Once, InOnce, PutIn
  <2>3. CASE x \notin Spending
    BY <1>2, <2>1, <2>3 DEF Once
  <2>4. CASE x = b /\ b \in Spending
    <3> SUFFICES ASSUME NEW e \in Lives PROVE InOnce(b, e)'
      BY <2>4 DEF Once
    <3>0. e \in Nat /\ life \in Nat /\ InOnce(b, e)
      BY <1>0, <2>1, <2>4 DEF Once
    <3>1. ASSUME NEW p \in svPut'[b][e], NEW q \in svPut'[b][e] PROVE p = q
      <4>1. CASE e = life
        <5>1. svPut[b][life] = {}
          BY <1>0, <1>5, <2>4, <3>0 DEF PutIn
        <5> QED BY <1>1, <3>1, <4>1, <5>1
      <4>2. CASE e # life
        BY <1>0, <1>1, <3>0, <3>1, <4>2 DEF InOnce
      <4> QED BY <4>1, <4>2
    <3>2. svFees'[b][e] <= 1 /\ (svFees'[b][e] = 1 => PutIn(b, e)')
      BY <1>0, <1>2, <1>4, <3>0 DEF InOnce
    <3>3. ASSUME NEW d \in Lives, e < d, PutIn(b, e)', PutIn(b, d)' PROVE <<b, e>> \in svLost'
      <4>0. d \in Nat
        BY <1>0
      <4>1. CASE d = life
        <5>1. PutIn(b, e)
          BY <1>0, <1>1, <3>0, <3>3, <4>1 DEF PutIn
        <5>2. b \in svStored \/ <<b, e>> \in svLost
          BY <1>0, <3>3, <4>1, <5>1, FeeParts DEF PlacesOf
        <5>3. b \notin svStored
          BY <1>0, <2>4 DEF BlockTypes
        <5> QED BY <1>2, <5>2, <5>3
      <4>2. CASE d # life
        <5>1. PutIn(b, d)
          BY <1>0, <1>1, <3>3, <4>2 DEF PutIn
        <5>2. d < life
          BY <1>0, <1>5, <2>4, <4>0, <4>2, <3>0, <5>1
        <5>3. PutIn(b, e)
          BY <1>0, <1>1, <3>0, <3>3, <4>0, <5>2 DEF PutIn
        <5> QED BY <1>2, <3>0, <3>3, <5>1, <5>3 DEF InOnce
      <4> QED BY <4>1, <4>2
    <3> QED BY <3>1, <3>2, <3>3 DEF InOnce
  <2> QED BY <2>2, <2>3, <2>4
<1> QED BY <1>6, <1>7, <1>8, <1>9, FeePartsNext

\* The fee is taken by the request that put the block in, so by no other.
LEMMA TakeFees ==
    ASSUME SvTypes, FeeInv, NEW r \in Request, Fee(r), svRestarts' = svRestarts
    PROVE  FeeInv'
<1>b. PICK b : b = BlockOf(r)
  OBVIOUS
<1>l. PICK life : life = svRestarts
  OBVIOUS
<1> USE <1>b, <1>l
<1>0. b \in SBlock /\ At(r, "fee") /\ life \in Lives /\ BlockTypes /\ Lives \subseteq Nat
  BY Places, LivesFact DEF Fee, At, SvTypes, BlockTypes
<1>1. /\ svReq' = svReq /\ svTodo'[r] = <<>> /\ svAnswer'[r] = "inserted"
      /\ \A q \in Request : q # r => svTodo'[q] = svTodo[q] /\ svAnswer'[q] = svAnswer[q]
      /\ \A q \in Request : BlockOf(q)' = BlockOf(q)
      /\ UNCHANGED <<svKept, svStored, svPut, svLost>>
  BY DEF Fee, Answered, SvTypes, BlockOf
<1>2. r \in svPut[b][life] /\ (b \in Spending => svFees[b][life] = 0)
  BY <1>0, FeeParts DEF Owes
<1>3. b \in svKept
  BY <1>0, <1>2, FeeParts DEF PlacesOf, PutIn
<1>4. CASE b \notin Spending
  <2>1. svFees' = svFees
    BY <1>4 DEF Fee
  <2>2. Owes(r)' /\ Told(r)'
    <3>1. InForce(b)'
      BY <1>1, <1>3 DEF InForce
    <3> QED BY <1>0, <1>1, <1>2, <1>4, <3>1 DEF Owes, Told, At
  <2>3. ASSUME NEW q \in Request, q # r PROVE Owes(q)' /\ Told(q)'
    BY <1>1, <2>1, <2>3, FeeParts DEF Owes, Told, At, InForce, PutIn
  <2>4. ASSUME NEW x \in SBlock PROVE PlacesOf(x)' /\ Once(x)'
    BY <1>1, <2>1, FeeParts DEF PlacesOf, Once, InOnce, PutIn
  <2> QED BY <2>2, <2>3, <2>4, FeePartsNext
<1>5. CASE b \in Spending
  <2>1. /\ svFees'[b][life] = 1
        /\ \A x \in SBlock, e \in Lives : x # b \/ e # life => svFees'[x][e] = svFees[x][e]
    BY <1>0, <1>2, <1>5, FeeFact
  <2>2. Owes(r)' /\ Told(r)'
    <3>1. InForce(b)'
      BY <1>1, <1>3 DEF InForce
    <3> QED BY <1>0, <1>1, <1>2, <2>1, <3>1 DEF Owes, Told, At
  <2>3. ASSUME NEW q \in Request, q # r PROVE Owes(q)' /\ Told(q)'
    <3>1. Owes(q) /\ Told(q)
      BY FeeParts
    <3>2. CASE svTodo[q] = <<>> /\ svAnswer[q] = None
      BY <1>1, <2>3, <3>2 DEF Owes, Told, At, None
    <3>3. CASE svTodo[q] # <<>> \/ svAnswer[q] # None
      <4>1. BlockOf(q) \in SBlock
        BY <3>3 DEF SvTypes, BlockOf
      <4>2. Owes(q)'
        <5> SUFFICES ASSUME At(q, "fee") PROVE Owes(q)'
          BY <1>1, <2>3 DEF Owes, At
        <5>1. q \in svPut[BlockOf(q)][life] /\ (BlockOf(q) \in Spending => svFees[BlockOf(q)][life] = 0)
          BY <3>1 DEF Owes
        <5>2. BlockOf(q) # b
          <6>0. Once(b)
            BY <1>0, FeeParts
          <6>1. \A p, t \in svPut[b][life] : p = t
            BY <1>0, <1>5, <6>0 DEF Once, InOnce
          <6> QED BY <1>2, <2>3, <5>1, <6>1
        <5> QED BY <1>0, <1>1, <2>1, <4>1, <5>1, <5>2 DEF Owes
      <4>3. Told(q)'
        <5>1. InForce(BlockOf(q))' <=> InForce(BlockOf(q))
          BY <1>1 DEF InForce
        <5>2. ASSUME NEW e \in Lives, svFees[BlockOf(q)][e] = 1 PROVE svFees'[BlockOf(q)][e] = 1
          BY <1>2, <1>5, <2>1, <4>1, <5>2
        <5> QED BY <1>1, <2>3, <3>1, <5>1, <5>2 DEF Told, PutIn
      <4> QED BY <4>2, <4>3
    <3> QED BY <3>2, <3>3
  <2>4. ASSUME NEW x \in SBlock PROVE PlacesOf(x)'
    <3>1. PlacesOf(x)
      BY FeeParts
    <3>2. ASSUME NEW e \in Lives, e > life PROVE svFees'[x][e] = svFees[x][e]
      <4>1. e # life
        BY <1>0, <3>2
      <4> QED BY <2>1, <4>1
    <3> QED BY <1>1, <3>1, <3>2 DEF PlacesOf, PutIn
  <2>5. ASSUME NEW x \in SBlock PROVE Once(x)'
    <3>1. Once(x)
      BY FeeParts
    <3>2. ASSUME NEW e \in Lives, x # b \/ e # life PROVE svFees'[x][e] = svFees[x][e]
      BY <2>1, <3>2
    <3>3. CASE x # b
      BY <1>1, <3>1, <3>2, <3>3 DEF Once, InOnce, PutIn
    <3>4. CASE x = b
      <4> SUFFICES ASSUME NEW e \in Lives PROVE InOnce(b, e)'
        BY <1>5, <3>4 DEF Once
      <4>1. InOnce(b, e)
        BY <1>5, <3>1, <3>4 DEF Once
      <4>2. CASE e # life
        BY <1>1, <3>2, <3>4, <4>1, <4>2 DEF InOnce, PutIn
      <4>3. CASE e = life
        BY <1>1, <1>2, <2>1, <4>1, <4>3 DEF InOnce, PutIn
      <4> QED BY <4>2, <4>3
    <3> QED BY <3>3, <3>4
  <2> QED BY <2>2, <2>3, <2>4, <2>5, FeePartsNext
<1> QED BY <1>4, <1>5

\* What is not on disk is lost with the process, and is counted so.
LEMMA RestartFees == ASSUME SvTypes, FeeInv, Restart PROVE FeeInv'
<1> DEFINE life == svRestarts
<1>0. life \in Lives /\ life \in Nat /\ BlockTypes /\ Lives \subseteq Nat
  BY LivesFact DEF SvTypes, BlockTypes
<1>1. /\ svRestarts' = life + 1 /\ svKept' = svStored
      /\ svLost' = svLost \cup {<<b, life>> : b \in svKept \ svStored}
      /\ UNCHANGED <<svReq, svStored, svPut, svFees>>
  BY DEF Restart
<1>2. ASSUME NEW b, InForce(b) PROVE InForce(b)'
  <2>1. CASE b \in svKept
    <3>1. b \in svStored \/ <<b, life>> \in svLost'
      BY <1>1, <2>1
    <3> QED BY <1>0, <1>1, <3>1 DEF InForce
  <2>2. CASE \E e \in Lives : <<b, e>> \in svLost
    BY <1>1, <2>2 DEF InForce
  <2> QED BY <1>2, <2>1, <2>2 DEF InForce
<1>3. ASSUME NEW q \in Request PROVE Owes(q)' /\ Told(q)'
  <2>1. svTodo'[q] = <<>> /\ (svAnswer'[q] = "unknown" \/ svAnswer'[q] = svAnswer[q]) /\ BlockOf(q)' = BlockOf(q)
    BY DEF Restart, BlockOf
  <2>2. Told(q)
    BY FeeParts
  <2>3. CASE svAnswer'[q] = "unknown"
    BY <2>1, <2>3 DEF Owes, Told, At
  <2>4. CASE svAnswer'[q] = svAnswer[q]
    BY <1>1, <1>2, <2>1, <2>2, <2>4 DEF Owes, Told, At, PutIn
  <2> QED BY <2>1, <2>3, <2>4
<1>4. ASSUME NEW b \in SBlock PROVE PlacesOf(b)'
  <2>1. PlacesOf(b) /\ svStored \subseteq svKept
    BY <1>0, FeeParts DEF BlockTypes
  <2>2. b \in svKept' => \E e \in Lives : e <= svRestarts' /\ PutIn(b, e)'
    <3> SUFFICES ASSUME b \in svStored PROVE \E e \in Lives : e <= svRestarts' /\ PutIn(b, e)'
      BY <1>1
    <3>1. PICK e \in Lives : e <= life /\ PutIn(b, e)
      BY <2>1 DEF PlacesOf
    <3>2. e <= life + 1
      BY <1>0, <3>1
    <3> QED BY <1>1, <3>1, <3>2 DEF PutIn
  <2>3. ASSUME NEW e \in Lives
        PROVE  /\ e = svRestarts' /\ PutIn(b, e)' => b \in svKept'
               /\ e < svRestarts' /\ PutIn(b, e)' => b \in svStored' \/ <<b, e>> \in svLost'
               /\ e > svRestarts' => ~PutIn(b, e)' /\ svFees'[b][e] = 0
    <3>0. e \in Nat /\ (PutIn(b, e)' <=> PutIn(b, e)) /\ svFees'[b][e] = svFees[b][e]
      BY <1>0, <1>1 DEF PutIn
    <3>1. CASE e > life
      <4>1. ~PutIn(b, e) /\ svFees[b][e] = 0
        BY <2>1, <3>1 DEF PlacesOf
      <4> QED BY <3>0, <4>1
    <3>2. CASE e = life
      <4>1. PutIn(b, e) => b \in svKept
        BY <2>1, <3>2 DEF PlacesOf
      <4> QED BY <1>0, <1>1, <3>0, <3>2, <4>1
    <3>3. CASE e < life
      <4>1. PutIn(b, e) => b \in svStored \/ <<b, e>> \in svLost
        BY <2>1, <3>3 DEF PlacesOf
      <4> QED BY <1>0, <1>1, <3>0, <3>3, <4>1
    <3> QED BY <1>0, <3>0, <3>1, <3>2, <3>3
  <2> QED BY <2>2, <2>3 DEF PlacesOf
<1>5. ASSUME NEW b \in SBlock PROVE Once(b)'
  BY <1>1, FeeParts DEF Once, InOnce, PutIn
<1> QED BY <1>3, <1>4, <1>5, FeePartsNext

\* A block reaches the disk, or leaves the window.
LEMMA BlockStepFees == ASSUME SvTypes, FeeInv, BlockStep PROVE FeeInv'
<1>1. /\ UNCHANGED <<svReq, svTodo, svAnswer, svRestarts, svKept, svPut, svFees, svLost>>
      /\ svStored \subseteq svStored'
  BY DEF BlockStep, ReachDisk, LeaveWindow, svFlowVars
<1>2. ASSUME NEW r \in Request PROVE Owes(r)' /\ Told(r)'
  BY <1>1, FeeParts DEF Owes, Told, At, BlockOf, InForce, PutIn
<1>3. ASSUME NEW b \in SBlock PROVE PlacesOf(b)' /\ Once(b)'
  BY <1>1, FeeParts DEF PlacesOf, Once, InOnce, PutIn
<1> QED BY <1>2, <1>3, FeePartsNext

LEMMA FeeNext == SvTypes /\ FeeInv /\ [ServiceNext]_svVars => FeeInv'
<1> SUFFICES ASSUME SvTypes, FeeInv, [ServiceNext]_svVars PROVE FeeInv'
  OBVIOUS
<1>1. ASSUME UNCHANGED <<svFlowVars, svBlockVars, svRestarts>> PROVE FeeInv'
  <2>1. ASSUME NEW r \in Request PROVE Owes(r)' /\ Told(r)'
    BY <1>1, StillTold DEF svFlowVars
  <2> QED BY <1>1, <2>1, StillPlaced, FeePartsNext
<1>2. CASE CreateKey \/ Revoke \/ ArmMode \/ DisarmMode \/ UNCHANGED svVars
  BY <1>1, <1>2 DEF CreateKey, Revoke, KeyCall, ArmMode, DisarmMode, svVars, svLedgerVars
<1>3. ASSUME NEW r \in Request, Start(r) PROVE FeeInv'
  <2>1. PICK route \in Routes, c \in Caller, b \in SBlock :
          /\ svReq' = [svReq EXCEPT ![r] = [route |-> route, cred |-> c, block |-> b]]
          /\ svTodo' = [svTodo EXCEPT ![r] = Steps(route)]
    BY <1>3 DEF Start
  <2>2. svAnswer' = svAnswer /\ UNCHANGED svBlockVars /\ svRestarts' = svRestarts
    BY <1>3 DEF Start, svLedgerVars
  <2>3. ASSUME NEW q \in Request, q # r PROVE Owes(q)' /\ Told(q)'
    <3>1. svReq'[q] = svReq[q] /\ svTodo'[q] = svTodo[q]
      BY <2>1, <2>3 DEF SvTypes
    <3> QED BY <2>2, <3>1, StillTold
  <2>4. Owes(r)' /\ Told(r)'
    <3>1. svAnswer'[r] = None /\ svTodo'[r] = Steps(route)
      BY <1>3, <2>1, <2>2 DEF Start, SvTypes, Received
    <3> QED BY <3>1, RouteStart, NothingTold DEF WholeRoute, None
  <2> QED BY <2>2, <2>3, <2>4, StillPlaced, FeePartsNext
<1>4. ASSUME NEW r \in Request, RequestStep(r) PROVE FeeInv'
  <2>1. svRestarts' = svRestarts
    BY <1>4 DEF RequestStep
  <2> QED BY <1>4, <2>1, StepKinds, QuietFees, DuplicateFees, InsertFees, TakeFees
<1>5. CASE BlockStep
  BY <1>5, BlockStepFees
<1>6. CASE Restart
  BY <1>6, RestartFees
<1> QED BY <1>2, <1>3, <1>4, <1>5, <1>6 DEF ServiceNext

\* What a client is told about its block is so, and a block with inputs goes in and pays
\* its fee once, but for what a crash takes away before it is on disk: over retries,
\* dropped requests, blocks that leave the window, and restarts (submit_block,
\* persist_block, accumulate_fee_if_tx, background_persist).
THEOREM SubmissionsAlwaysSettle == ServiceSpec => []SubmissionsSettle
<1>1. ServiceSpec => []FeeInv
  BY TypesAlways, FeeInit, FeeNext, PTL DEF ServiceSpec
<1>2. FeeInv => SubmissionsSettle
  BY DEF FeeInv
<1> QED BY <1>1, <1>2, PTL

-----------------------------------------------------------------------------
(* The bus and its subscribers.                                            *)

\* What every step of the contracts is, for the proofs by cases.
LEMMA ContractCases ==
    ASSUME ContractNext
    PROVE  \/ UNCHANGED <<ctBusVars, ctHookVars>>
           \/ \E e \in CEvent : Emit(e)
           \/ \E s \in Subscriber : Lagged(s)
           \/ ListenerStep \/ StreamStep \/ HookLoopStep
           \/ \E h \in Hook : Subscribe(h) \/ Unsubscribe(h)
           \/ \E j \in ctJobs : StartDelivery(j) \/ Attempt(j)
BY DEF ContractNext, RegisterContract, ReadContract, WriteContract, PriceTransfer, Calls

LEMMA EmitFact ==
    ASSUME BusTypes, NEW e \in CEvent, Emit(e)
    PROVE  /\ ctBus' \in Seq(CEvent) /\ Len(ctBus') = Len(ctBus) + 1
           /\ \A i \in 1..Len(ctBus) : ctBus'[i] = ctBus[i]
           /\ UNCHANGED <<ctRead, ctFeed, ctSkipped, ctRefunds, ctSeen, ctHookVars>>
BY AppendProperties DEF BusTypes, Emit

LEMMA BusTypesStep == BusTypes /\ [ContractNext]_ctVars => BusTypes'
<1> SUFFICES ASSUME BusTypes, [ContractNext]_ctVars PROVE BusTypes'
  OBVIOUS
<1>0. /\ ctBus \in Seq(CEvent) /\ ctFeed \in Seq(Nat) /\ Len(ctBus) \in Nat
      /\ ctRead \in [Subscriber -> Nat] /\ \A s \in Subscriber : ctRead[s] <= Len(ctBus)
      /\ ctJobs \subseteq JobType
      /\ ctHooks \in [Hook -> [ok : Nat, failed : Nat, on : BOOLEAN]]
      /\ ctMatched \in [Hook -> SUBSET Nat]
  BY DEF BusTypes
<1>1. CASE UNCHANGED <<ctBusVars, ctHookVars>>
  BY <1>1 DEF BusTypes, ctBusVars, ctHookVars
<1>2. ASSUME NEW e \in CEvent, Emit(e) PROVE BusTypes'
  <2>1. /\ ctBus' \in Seq(CEvent) /\ Len(ctBus') = Len(ctBus) + 1
        /\ UNCHANGED <<ctRead, ctFeed, ctSkipped, ctRefunds, ctSeen, ctHookVars>>
    BY <1>2, EmitFact
  <2>2. Len(ctBus') <= MaxEvents
    BY <1>0, <1>2, <2>1, ContractAssumption DEF Emit
  <2> QED BY <1>0, <2>1, <2>2 DEF BusTypes, ctHookVars
<1>3. ASSUME NEW s \in Subscriber, Lagged(s) PROVE BusTypes'
  <2>1. /\ Len(ctBus) - ctRead[s] > BusCapacity /\ BusCapacity \in Nat
        /\ ctRead' = [ctRead EXCEPT ![s] = Len(ctBus) - BusCapacity]
        /\ ctFeed' = (IF s = "stream" THEN Append(ctFeed, 0) ELSE ctFeed)
        /\ UNCHANGED <<ctBus, ctRefunds, ctSeen, ctHookVars>>
    BY <1>3, ContractAssumption DEF Lagged, Behind, ResumeAt
  <2>2. Len(ctBus) - BusCapacity \in Nat /\ Len(ctBus) - BusCapacity <= Len(ctBus)
    BY <1>0, <2>1
  <2>3. ctRead' \in [Subscriber -> Nat] /\ \A t \in Subscriber : ctRead'[t] <= Len(ctBus)
    BY <1>0, <2>1, <2>2
  <2>4. ctFeed' \in Seq(Nat)
    BY <1>0, <2>1, AppendProperties
  <2> QED BY <1>0, <2>1, <2>3, <2>4 DEF BusTypes, ctHookVars
<1>4. ASSUME NEW s \in Subscriber, Behind(s) \in 1..BusCapacity, ctRead' = [ctRead EXCEPT ![s] = @ + 1]
      PROVE  /\ ctRead' \in [Subscriber -> Nat] /\ \A t \in Subscriber : ctRead'[t] <= Len(ctBus)
             /\ ctRead[s] + 1 \in 1..Len(ctBus)
  <2>1. ctRead[s] + 1 <= Len(ctBus) /\ ctRead[s] \in Nat
    BY <1>0, <1>4, ContractAssumption DEF Behind
  <2> QED BY <1>0, <1>4, <2>1
<1>5. CASE ListenerStep
  <2>1. "contracts" \in Subscriber
    BY DEF Subscriber
  <2>2. ctRead' \in [Subscriber -> Nat] /\ \A t \in Subscriber : ctRead'[t] <= Len(ctBus)
    BY <1>4, <1>5, <2>1 DEF ListenerStep
  <2> QED BY <1>0, <1>5, <2>2 DEF ListenerStep, BusTypes, ctHookVars
<1>6. CASE StreamStep
  <2>1. "stream" \in Subscriber
    BY DEF Subscriber
  <2>2. ctRead' \in [Subscriber -> Nat] /\ \A t \in Subscriber : ctRead'[t] <= Len(ctBus)
    BY <1>4, <1>6, <2>1 DEF StreamStep
  <2>3. ctRead["stream"] + 1 \in Nat
    BY <1>0, <2>1
  <2>4. ctFeed' \in Seq(Nat)
    BY <1>0, <1>6, <2>3, AppendProperties DEF StreamStep
  <2> QED BY <1>0, <1>6, <2>2, <2>4 DEF StreamStep, BusTypes, ctHookVars
<1>7. CASE HookLoopStep
  <2>1. "webhooks" \in Subscriber
    BY DEF Subscriber
  <2>2. ctRead' \in [Subscriber -> Nat] /\ \A t \in Subscriber : ctRead'[t] <= Len(ctBus)
    BY <1>4, <1>7, <2>1 DEF HookLoopStep
  <2>3. PICK i : i = ctRead["webhooks"] + 1
    OBVIOUS
  <2>4. i \in Nat
    BY <1>0, <2>1, <2>3
  <2>5. PICK hit : hit \subseteq Hook /\ ctJobs' = ctJobs \cup {[hook |-> h, event |-> i, tries |-> 0, running |-> FALSE] : h \in hit}
                   /\ ctMatched' = [h \in Hook |-> IF h \in hit THEN ctMatched[h] \cup {i} ELSE ctMatched[h]]
    BY <1>7, <2>3 DEF HookLoopStep
  <2>6. ctJobs' \subseteq JobType
    <3> SUFFICES ASSUME NEW x \in ctJobs' PROVE x \in JobType
      OBVIOUS
    <3>1. CASE x \in ctJobs
      BY <1>0, <3>1
    <3>2. CASE x \notin ctJobs
      <4>1. PICK h \in hit : x = [hook |-> h, event |-> i, tries |-> 0, running |-> FALSE]
        BY <2>5, <3>2
      <4> QED BY <2>4, <2>5, <4>1 DEF JobType
    <3> QED BY <3>1, <3>2
  <2>7. ctMatched' \in [Hook -> SUBSET Nat]
    BY <1>0, <2>4, <2>5
  <2> QED BY <1>0, <1>7, <2>2, <2>6, <2>7 DEF HookLoopStep, BusTypes
<1>8. ASSUME NEW h \in Hook, Subscribe(h) \/ Unsubscribe(h) PROVE BusTypes'
  <2>1. ctHooks' \in [Hook -> [ok : Nat, failed : Nat, on : BOOLEAN]]
    <3>1. CASE Subscribe(h)
      <4>1. [NoHook EXCEPT !.on = TRUE] \in [ok : Nat, failed : Nat, on : BOOLEAN]
        BY DEF NoHook
      <4> QED BY <1>0, <3>1, <4>1 DEF Subscribe
    <3>2. CASE Unsubscribe(h)
      <4>1. [ctHooks[h] EXCEPT !.on = FALSE] \in [ok : Nat, failed : Nat, on : BOOLEAN]
        BY <1>0
      <4>2. ctHooks' = [ctHooks EXCEPT ![h] = [ctHooks[h] EXCEPT !.on = FALSE]]
        BY <1>0, <3>2 DEF Unsubscribe
      <4> QED BY <1>0, <4>1, <4>2
    <3> QED BY <1>8, <3>1, <3>2
  <2>2. UNCHANGED <<ctBusVars, ctJobs, ctMatched>>
    BY <1>8 DEF Subscribe, Unsubscribe
  <2> QED BY <1>0, <2>1, <2>2 DEF BusTypes, ctBusVars
<1>9. ASSUME NEW j \in ctJobs, StartDelivery(j) \/ Attempt(j) PROVE BusTypes'
  <2>1. j \in JobType
    BY <1>0
  <2>2. ctJobs' \subseteq JobType
    <3>1. [j EXCEPT !.running = TRUE] \in JobType /\ [j EXCEPT !.tries = j.tries + 1] \in JobType
      <4>1. ASSUME NEW b \in BOOLEAN PROVE [j EXCEPT !.running = b] \in JobType
        BY <2>1 DEF JobType
      <4>2. ASSUME NEW t \in Nat PROVE [j EXCEPT !.tries = t] \in JobType
        BY <2>1 DEF JobType
      <4>3. j.tries + 1 \in Nat
        BY <2>1 DEF JobType
      <4> QED BY <4>1, <4>2, <4>3
    <3>2. ctJobs' \subseteq ctJobs \cup {[j EXCEPT !.running = TRUE], [j EXCEPT !.tries = j.tries + 1]}
      <4>1. CASE StartDelivery(j)
        BY <4>1 DEF StartDelivery
      <4>2. CASE Attempt(j)
        <5>1. \/ ctJobs' = ctJobs \ {j}
              \/ ctJobs' = (ctJobs \ {j}) \cup (IF GivesUp(j.tries) THEN {} ELSE {[j EXCEPT !.tries = j.tries + 1]})
          BY <4>2, Zenon DEF Attempt
        <5> QED BY <5>1
      <4> QED BY <1>9, <4>1, <4>2
    <3> QED BY <1>0, <3>1, <3>2
  <2>3. ctHooks' \in [Hook -> [ok : Nat, failed : Nat, on : BOOLEAN]]
    <3>1. \A f \in {"ok", "failed"} : Count(j.hook, f) \in [Hook -> [ok : Nat, failed : Nat, on : BOOLEAN]]
      <4> SUFFICES ASSUME NEW f \in {"ok", "failed"}
                   PROVE  Count(j.hook, f) \in [Hook -> [ok : Nat, failed : Nat, on : BOOLEAN]]
        OBVIOUS
      <4>1. j.hook \in Hook /\ ctHooks[j.hook] \in [ok : Nat, failed : Nat, on : BOOLEAN]
        BY <1>0, <2>1 DEF JobType
      <4>2. Counted(ctHooks[j.hook], f) \in [ok : Nat, failed : Nat, on : BOOLEAN]
        BY <4>1 DEF Counted
      <4> QED BY <1>0, <4>1, <4>2 DEF Count
    <3> QED BY <1>0, <1>9, <3>1 DEF StartDelivery, Attempt
  <2> QED BY <1>0, <1>9, <2>2, <2>3 DEF StartDelivery, Attempt, BusTypes, ctBusVars
<1>10. CASE UNCHANGED ctVars
  BY <1>10 DEF BusTypes, ctVars, ctBusVars, ctHookVars
<1> QED BY <1>1, <1>2, <1>3, <1>5, <1>6, <1>7, <1>8, <1>9, <1>10, ContractCases

\* Where a subscriber that takes one event stands afterwards.
LEMMA NextEvent ==
    ASSUME BusTypes, NEW s \in Subscriber, Behind(s) \in 1..BusCapacity
    PROVE  ctRead[s] \in Nat /\ ctRead[s] + 1 \in 1..Len(ctBus)
<1>1. ctRead[s] \in Nat /\ Len(ctBus) \in Nat
  BY DEF BusTypes
<1> QED BY <1>1, ContractAssumption DEF Behind

LEMMA LagFact ==
    ASSUME BusTypes, NEW s \in Subscriber, Lagged(s)
    PROVE  /\ ctRead[s] \in Nat /\ Len(ctBus) \in Nat /\ BusCapacity \in Nat
           /\ ctRead[s] < Len(ctBus) - BusCapacity
           /\ ctRead' = [ctRead EXCEPT ![s] = Len(ctBus) - BusCapacity]
           /\ ctSkipped' = (IF s = "contracts" THEN ctSkipped \cup ctRead[s] + 1..Len(ctBus) - BusCapacity
                            ELSE ctSkipped)
           /\ ctFeed' = (IF s = "stream" THEN Append(ctFeed, 0) ELSE ctFeed)
           /\ UNCHANGED <<ctBus, ctRefunds, ctSeen, ctHookVars>>
<1>1. ctRead[s] \in Nat /\ Len(ctBus) \in Nat /\ BusCapacity \in Nat
  BY ContractAssumption DEF BusTypes
<1>2. Len(ctBus) - ctRead[s] > BusCapacity
  BY DEF Lagged, Behind
<1> QED BY <1>1, <1>2 DEF Lagged, ResumeAt

-----------------------------------------------------------------------------
(* The contract listener.                                                  *)

Settled == SkippedBehind /\ BurnsSettled

LEMMA SettledKept ==
    ASSUME BusTypes, Settled, UNCHANGED <<ctSkipped, ctRefunds, ctSeen>>,
           ctRead'["contracts"] = ctRead["contracts"],
           Len(ctBus') \in Nat, Len(ctBus) <= Len(ctBus'),
           \A i \in 1..Len(ctBus) : ctBus'[i] = ctBus[i]
    PROVE  Settled'
<1>1. ctRead["contracts"] \in Nat /\ Len(ctBus) \in Nat /\ ctRead["contracts"] <= Len(ctBus) /\ BusCapacity \in Nat
  BY ContractAssumption DEF BusTypes, Subscriber
<1>2. SkippedBehind'
  BY DEF Settled, SkippedBehind
<1>3. \A i \in ctSkipped : i + BusCapacity <= Len(ctBus')
  <2> SUFFICES ASSUME NEW i \in ctSkipped PROVE i + BusCapacity <= Len(ctBus')
    OBVIOUS
  <2>1. i \in Nat /\ i + BusCapacity <= Len(ctBus)
    BY DEF Settled, SkippedBehind, BurnsSettled
  <2> QED BY <1>1, <2>1
<1>4. ASSUME NEW i \in 1..MaxEvents, NEW c \in CContract
      PROVE  ctRefunds[i][c] = IF Evaluated(i)' THEN Due(ctSeen[i], c, ctBus'[i]) ELSE <<>>
  <2>1. ctRefunds[i][c] = IF Evaluated(i) THEN Due(ctSeen[i], c, ctBus[i]) ELSE <<>>
    BY <1>4 DEF Settled, BurnsSettled
  <2>2. CASE i \in 1..ctRead["contracts"]
    <3>1. ctBus'[i] = ctBus[i]
      BY <1>1, <2>2
    <3> QED BY <2>1, <3>1 DEF Evaluated
  <2>3. CASE i \notin 1..ctRead["contracts"]
    BY <2>1, <2>3 DEF Evaluated
  <2> QED BY <2>2, <2>3
<1>5. BurnsSettled'
  BY <1>3, <1>4 DEF BurnsSettled
<1> QED BY <1>2, <1>5 DEF Settled

LEMMA SettledLag ==
    ASSUME BusTypes, Settled, Lagged("contracts")
    PROVE  Settled'
<1>0. "contracts" \in Subscriber
  BY DEF Subscriber
<1> DEFINE k == ctRead["contracts"]
           n == Len(ctBus) - BusCapacity
<1>1. /\ k \in Nat /\ Len(ctBus) \in Nat /\ BusCapacity \in Nat /\ k < n
      /\ ctRead' = [ctRead EXCEPT !["contracts"] = n]
      /\ ctSkipped' = ctSkipped \cup k + 1..n
      /\ UNCHANGED <<ctBus, ctRefunds, ctSeen>>
  BY <1>0, LagFact
<1>2. ctRead'["contracts"] = n
  BY <1>0, <1>1 DEF BusTypes
<1>3. ASSUME NEW i \in ctSkipped' PROVE i \in Nat /\ i <= n /\ i + BusCapacity <= Len(ctBus)
  <2>1. CASE i \in ctSkipped
    <3>1. i \in Nat /\ i <= k /\ i + BusCapacity <= Len(ctBus)
      BY <2>1 DEF Settled, SkippedBehind, BurnsSettled
    <3> QED BY <1>1, <3>1
  <2>2. CASE i \in k + 1..n
    BY <1>1, <2>2
  <2> QED BY <1>1, <1>3, <2>1, <2>2
<1>4. ASSUME NEW i \in Nat PROVE (i \in 1..n \ ctSkipped') <=> (i \in 1..k \ ctSkipped)
  BY <1>1, <1>4
<1>5. ASSUME NEW i \in 1..MaxEvents, NEW c \in CContract
      PROVE  ctRefunds[i][c] = IF Evaluated(i)' THEN Due(ctSeen[i], c, ctBus[i]) ELSE <<>>
  <2>1. ctRefunds[i][c] = IF Evaluated(i) THEN Due(ctSeen[i], c, ctBus[i]) ELSE <<>>
    BY <1>5 DEF Settled, BurnsSettled
  <2>2. i \in Nat
    BY <1>5, ContractAssumption
  <2>3. Evaluated(i)' <=> Evaluated(i)
    BY <1>1, <1>2, <1>4, <2>2 DEF Evaluated
  <2> QED BY <2>1, <2>3
<1> QED BY <1>1, <1>2, <1>3, <1>5 DEF Settled, SkippedBehind, BurnsSettled

\* An evaluation credits what is due.
LEMMA EvaluationDue ==
    ASSUME NEW credits, NEW store, NEW e, NEW c \in CContract, credits[c] = <<>>
    PROVE  AddRefunds(credits, store, e)[c] = Due(store, c, e)
<1>1. c \in EvaluateNftBurn(store, e)
        <=> /\ store[c] # NoContract /\ store[c].enabled
            /\ store[c].terms.trigger = "burn" /\ store[c].terms.filter \in {"any", e.tag}
            /\ RefundOf(store[c].terms, e.count) > 0
  BY DEF EvaluateNftBurn, Matching, Enabled
<1>2. Append(<<>>, RefundOf(store[c].terms, e.count)) = <<RefundOf(store[c].terms, e.count)>>
  OBVIOUS
<1> QED BY <1>1, <1>2 DEF AddRefunds, Due

LEMMA SettledListener ==
    ASSUME BusTypes, Settled, ListenerStep
    PROVE  Settled'
<1>0. "contracts" \in Subscriber
  BY DEF Subscriber
<1> DEFINE k == ctRead["contracts"]
<1>1. k \in Nat /\ k + 1 \in 1..Len(ctBus)
  BY <1>0, NextEvent DEF ListenerStep
<1>2. ctRead'["contracts"] = k + 1 /\ UNCHANGED <<ctBus, ctSkipped>>
  BY <1>0 DEF ListenerStep, BusTypes
<1>3. k + 1 \in 1..MaxEvents
  BY <1>1, ContractAssumption DEF BusTypes
<1>4. SkippedBehind'
  <2> SUFFICES ASSUME NEW i \in ctSkipped PROVE i \in Nat /\ i <= k + 1
    BY <1>2 DEF SkippedBehind
  <2>1. i \in Nat /\ i <= k
    BY DEF Settled, SkippedBehind
  <2> QED BY <1>1, <2>1
<1>5. k + 1 \notin ctSkipped
  BY <1>1 DEF Settled, SkippedBehind
<1>6. ASSUME NEW i \in 1..MaxEvents, NEW c \in CContract
      PROVE  ctRefunds'[i][c] = IF Evaluated(i)' THEN Due(ctSeen'[i], c, ctBus[i]) ELSE <<>>
  <2>0. /\ DOMAIN ctRefunds = 1..MaxEvents /\ DOMAIN ctSeen = 1..MaxEvents
        /\ i \in Nat
    BY <1>6, ContractAssumption DEF BusTypes
  <2>1. ctRefunds[i][c] = IF Evaluated(i) THEN Due(ctSeen[i], c, ctBus[i]) ELSE <<>>
    BY <1>6 DEF Settled, BurnsSettled
  <2>2. CASE i # k + 1
    <3>1. ctRefunds'[i] = ctRefunds[i] /\ ctSeen'[i] = ctSeen[i]
      BY <2>0, <2>2, <1>6 DEF ListenerStep
    <3>2. Evaluated(i)' <=> Evaluated(i)
      BY <1>1, <1>2, <2>0, <2>2 DEF Evaluated
    <3> QED BY <2>1, <3>1, <3>2
  <2>3. CASE i = k + 1 /\ ctBus[k + 1].kind # "burn"
    <3>1. ctRefunds'[i] = ctRefunds[i]
      BY <2>3 DEF ListenerStep
    <3>2. ~Evaluated(i) /\ ~Evaluated(i)'
      BY <1>2, <2>3 DEF Evaluated
    <3> QED BY <2>1, <3>1, <3>2
  <2>4. CASE i = k + 1 /\ ctBus[k + 1].kind = "burn"
    <3>1. PICK found : /\ ctSeen' = [ctSeen EXCEPT ![k + 1] = found]
                       /\ ctRefunds' = [ctRefunds EXCEPT ![k + 1] = AddRefunds(@, found, ctBus[k + 1])]
      BY <2>4 DEF ListenerStep
    <3>2. ctRefunds[i][c] = <<>>
      <4>1. ~(k + 1 \in 1..k)
        BY <1>1
      <4> QED BY <2>1, <2>4, <4>1 DEF Evaluated
    <3>3. Evaluated(i)'
      BY <1>1, <1>2, <1>5, <2>4 DEF Evaluated
    <3>4. ctSeen'[i] = found /\ ctRefunds'[i] = AddRefunds(ctRefunds[i], found, ctBus[i])
      BY <1>3, <2>0, <2>4, <3>1
    <3> QED BY <1>6, <3>2, <3>3, <3>4, EvaluationDue
  <2> QED BY <2>2, <2>3, <2>4
<1>7. BurnsSettled'
  BY <1>2, <1>6 DEF Settled, BurnsSettled
<1> QED BY <1>4, <1>7 DEF Settled

LEMMA SettledStep == BusTypes /\ Settled /\ [ContractNext]_ctVars => Settled'
<1> SUFFICES ASSUME BusTypes, Settled, [ContractNext]_ctVars PROVE Settled'
  OBVIOUS
<1>0. Len(ctBus) \in Nat /\ ctRead \in [Subscriber -> Nat]
  BY DEF BusTypes
<1>1. ASSUME UNCHANGED <<ctBus, ctSkipped, ctRefunds, ctSeen>>, ctRead'["contracts"] = ctRead["contracts"] PROVE Settled'
  <2>1. Len(ctBus') = Len(ctBus) /\ \A i \in 1..Len(ctBus) : ctBus'[i] = ctBus[i]
    BY <1>1
  <2> QED BY <1>0, <1>1, <2>1, SettledKept
<1>2. CASE UNCHANGED <<ctBusVars, ctHookVars>>
  BY <1>1, <1>2 DEF ctBusVars
<1>3. ASSUME NEW e \in CEvent, Emit(e) PROVE Settled'
  <2>1. /\ Len(ctBus') = Len(ctBus) + 1 /\ \A i \in 1..Len(ctBus) : ctBus'[i] = ctBus[i]
        /\ UNCHANGED <<ctRead, ctSkipped, ctRefunds, ctSeen>>
    BY <1>3, EmitFact
  <2>2. Len(ctBus') \in Nat /\ Len(ctBus) <= Len(ctBus')
    BY <1>0, <2>1
  <2> QED BY <2>1, <2>2, SettledKept
<1>4. ASSUME NEW s \in Subscriber, Lagged(s) PROVE Settled'
  <2>1. CASE s = "contracts"
    BY <1>4, <2>1, SettledLag
  <2>2. CASE s # "contracts"
    <3>1. UNCHANGED <<ctBus, ctSkipped, ctRefunds, ctSeen>> /\ ctRead'["contracts"] = ctRead["contracts"]
      BY <1>0, <1>4, <2>2, LagFact DEF Subscriber
    <3> QED BY <1>1, <3>1
  <2> QED BY <2>1, <2>2
<1>5. CASE StreamStep
  BY <1>0, <1>1, <1>5 DEF StreamStep, Subscriber
<1>6. CASE HookLoopStep
  BY <1>0, <1>1, <1>6 DEF HookLoopStep, Subscriber
<1>7. ASSUME NEW h \in Hook, Subscribe(h) \/ Unsubscribe(h) PROVE Settled'
  BY <1>1, <1>7 DEF Subscribe, Unsubscribe, ctBusVars
<1>8. ASSUME NEW j \in ctJobs, StartDelivery(j) \/ Attempt(j) PROVE Settled'
  <2>1. UNCHANGED ctBusVars
    BY <1>8 DEF StartDelivery, Attempt
  <2> QED BY <1>1, <2>1 DEF ctBusVars
<1>9. CASE UNCHANGED ctVars
  BY <1>1, <1>9 DEF ctVars, ctBusVars
<1> QED BY <1>2, <1>3, <1>4, <1>5, <1>6, <1>7, <1>8, <1>9, ContractCases, SettledListener

-----------------------------------------------------------------------------
(* The streams.                                                            *)

Stream == StreamAbreast /\ StreamTold

LEMMA LastBeforeType ==
    ASSUME ctFeed \in Seq(Nat), NEW i \in 1..Len(ctFeed) + 1
    PROVE  LastBefore(i) \in Nat
<1> DEFINE sent == {j \in 1..i - 1 : ctFeed[j] # 0}
<1>1. Len(ctFeed) \in Nat /\ i \in Nat
  OBVIOUS
<1>2. IsFiniteSet(sent) /\ sent \in SUBSET Int
  <2>1. IsFiniteSet(1..i - 1)
    BY <1>1, FS_Interval
  <2> QED BY <2>1, FS_Subset
<1>3. CASE sent = {}
  BY <1>3 DEF LastBefore
<1>4. CASE sent # {}
  <2>1. HasMax(sent)
    BY <1>2, <1>4, FiniteMax
  <2>2. Max(sent) \in sent
    BY <2>1 DEF HasMax, Max
  <2>3. Max(sent) \in 1..Len(ctFeed)
    BY <1>1, <2>2
  <2>4. ctFeed[Max(sent)] \in Nat
    BY <2>3
  <2> QED BY <1>4, <2>4 DEF LastBefore
<1> QED BY <1>3, <1>4

LEMMA LastBeforeSame ==
    ASSUME ctFeed \in Seq(Nat), NEW i \in 1..Len(ctFeed) + 1,
           \A k \in 1..Len(ctFeed) : ctFeed'[k] = ctFeed[k]
    PROVE  LastBefore(i)' = LastBefore(i)
<1> DEFINE sent == {j \in 1..i - 1 : ctFeed[j] # 0}
           new  == {j \in 1..i - 1 : ctFeed'[j] # 0}
<1>1. Len(ctFeed) \in Nat /\ i \in Nat
  OBVIOUS
<1>2. sent = new
  BY <1>1
<1>3. CASE sent = {}
  BY <1>2, <1>3 DEF LastBefore
<1>4. CASE sent # {}
  <2>0. IsFiniteSet(sent) /\ sent \in SUBSET Int
    <3>1. IsFiniteSet(1..i - 1)
      BY <1>1, FS_Interval
    <3> QED BY <3>1, FS_Subset
  <2>1. HasMax(sent)
    BY <2>0, <1>4, FiniteMax
  <2>2. Max(sent) \in sent
    BY <2>1 DEF HasMax, Max
  <2>3. Max(sent) \in 1..Len(ctFeed)
    BY <1>1, <2>2
  <2>4. LastBefore(i) = ctFeed[Max(sent)]
    BY <1>4 DEF LastBefore
  <2>5. LastBefore(i)' = ctFeed'[Max(new)]
    BY <1>2, <1>4 DEF LastBefore
  <2> QED BY <1>2, <2>3, <2>4, <2>5
<1> QED BY <1>3, <1>4

\* Right after an event, it is the last one.
LastIsNewest ==
    ctFeed \in Seq(Nat) /\ Len(ctFeed) > 0 /\ ctFeed[Len(ctFeed)] # 0 =>
        LastBefore(Len(ctFeed) + 1) = ctFeed[Len(ctFeed)]

LEMMA NewestIsLast == LastIsNewest
<1> SUFFICES ASSUME ctFeed \in Seq(Nat), Len(ctFeed) > 0, ctFeed[Len(ctFeed)] # 0
             PROVE  LastBefore(Len(ctFeed) + 1) = ctFeed[Len(ctFeed)]
  BY DEF LastIsNewest
<1> DEFINE n == Len(ctFeed)
           sent == {j \in 1..n : ctFeed[j] # 0}
<1>1. n \in Nat /\ n + 1 - 1 = n /\ n \in sent
  OBVIOUS
<1>2. \A j \in sent : j <= n
  OBVIOUS
<1>3. Max(sent) = n
  <2>1. Max(sent) \in sent /\ \A j \in sent : j <= Max(sent)
    BY <1>1, <1>2 DEF Max
  <2> QED BY <1>1, <1>2, <2>1
<1>4. sent # {}
  BY <1>1
<1>5. ASSUME NEW i, i = n + 1 PROVE LastBefore(i) = ctFeed[n]
  <2>1. 1..i - 1 = 1..n
    BY <1>1, <1>5
  <2>2. {j \in 1..i - 1 : ctFeed[j] # 0} = sent
    BY <2>1
  <2> HIDE DEF sent, n
  <2> QED BY <1>3, <1>4, <2>2 DEF LastBefore
<1> QED BY <1>5

LEMMA NewestIsLastNext == LastIsNewest'
BY NewestIsLast, PTL

\* What the stream said before stays true while the bus only grows.
LEMMA ToldKept ==
    ASSUME BusTypes, Stream,
           ctFeed' \in Seq(Nat), Len(ctFeed) <= Len(ctFeed'),
           \A k \in 1..Len(ctFeed) : ctFeed'[k] = ctFeed[k],
           \A e \in 1..Len(ctBus) : ctBus'[e] = ctBus[e],
           NEW i \in 1..Len(ctFeed), ctFeed[i] # 0
    PROVE  \/ i > 1 /\ ctFeed'[i - 1] = 0
           \/ \A e \in LastBefore(i)' + 1..ctFeed'[i] - 1 : ~Streamed(ctBus'[e])
<1>1. /\ ctFeed \in Seq(Nat) /\ Len(ctFeed) \in Nat /\ Len(ctBus) \in Nat
      /\ ctRead["stream"] \in Nat /\ ctRead["stream"] <= Len(ctBus)
  BY DEF BusTypes, Subscriber
<1>2. ctFeed[i] \in Nat /\ ctFeed[i] <= ctRead["stream"] /\ ctFeed'[i] = ctFeed[i]
  BY <1>1 DEF Stream, StreamAbreast
<1>3. LastBefore(i)' = LastBefore(i) /\ LastBefore(i) \in Nat
  <2>1. LastBefore(i)' = LastBefore(i)
    BY <1>1, LastBeforeSame
  <2>2. LastBefore(i) \in Nat
    BY <1>1, LastBeforeType
  <2> QED BY <2>1, <2>2
<1>4. CASE i > 1 /\ ctFeed[i - 1] = 0
  <2>1. i - 1 \in 1..Len(ctFeed)
    BY <1>1, <1>4
  <2> QED BY <1>4, <2>1
<1>5. CASE \A e \in LastBefore(i) + 1..ctFeed[i] - 1 : ~Streamed(ctBus[e])
  <2> SUFFICES ASSUME NEW e \in LastBefore(i) + 1..ctFeed[i] - 1 PROVE ~Streamed(ctBus'[e])
    BY <1>2, <1>3
  <2>1. e \in 1..Len(ctBus)
    BY <1>1, <1>2, <1>3
  <2> QED BY <1>5, <2>1
<1>6. i \in DOMAIN ctFeed
  BY <1>1
<1> QED BY <1>4, <1>5, <1>6 DEF Stream, StreamTold

\* The feed and the reader stand still.
LEMMA StreamKept ==
    ASSUME BusTypes, Stream, ctFeed' = ctFeed, ctRead'["stream"] = ctRead["stream"],
           \A e \in 1..Len(ctBus) : ctBus'[e] = ctBus[e]
    PROVE  Stream'
<1>1. /\ ctFeed \in Seq(Nat) /\ Len(ctFeed) \in Nat /\ Len(ctBus) \in Nat
      /\ ctRead["stream"] \in Nat /\ ctRead["stream"] <= Len(ctBus)
  BY DEF BusTypes, Subscriber
<1>2. \A i \in 1..Len(ctFeed) + 1 : LastBefore(i)' = LastBefore(i) /\ LastBefore(i) \in Nat
  BY <1>1, LastBeforeSame, LastBeforeType
<1>3. StreamTold'
  <2> SUFFICES ASSUME NEW i \in DOMAIN ctFeed', ctFeed'[i] # 0
               PROVE  \/ i > 1 /\ ctFeed'[i - 1] = 0
                      \/ \A e \in LastBefore(i)' + 1..ctFeed'[i] - 1 : ~Streamed(ctBus'[e])
    BY DEF StreamTold, Streamed
  <2>1. i \in 1..Len(ctFeed) /\ ctFeed[i] # 0
    BY <1>1
  <2> QED BY <1>1, <2>1, ToldKept
<1>4. StreamAbreast'
  <2>1. \A i \in DOMAIN ctFeed' : ctFeed'[i] <= ctRead'["stream"]
    BY DEF Stream, StreamAbreast
  <2>2. CASE Len(ctFeed) > 0 /\ ctFeed[Len(ctFeed)] = 0
    BY <2>1, <2>2 DEF StreamAbreast
  <2>3. CASE \A e \in LastBefore(Len(ctFeed) + 1) + 1..ctRead["stream"] : ~Streamed(ctBus[e])
    <3>1. LastBefore(Len(ctFeed) + 1)' = LastBefore(Len(ctFeed) + 1) /\ LastBefore(Len(ctFeed) + 1) \in Nat
      BY <1>1, <1>2
    <3>2. ASSUME NEW e \in LastBefore(Len(ctFeed) + 1) + 1..ctRead["stream"] PROVE ~Streamed(ctBus'[e])
      <4>1. e \in 1..Len(ctBus)
        BY <1>1, <3>1
      <4> QED BY <2>3, <4>1
    <3>3. Len(ctFeed)' + 1 = Len(ctFeed) + 1
      OBVIOUS
    <3> QED BY <2>1, <3>1, <3>2, <3>3 DEF StreamAbreast, Streamed
  <2> QED BY <2>2, <2>3 DEF Stream, StreamAbreast
<1> QED BY <1>3, <1>4 DEF Stream

\* A warning: what follows it is told.
LEMMA StreamLag ==
    ASSUME BusTypes, Stream, Lagged("stream")
    PROVE  Stream'
<1>0. "stream" \in Subscriber
  BY DEF Subscriber
<1> DEFINE n == Len(ctFeed)
<1>1. /\ ctFeed \in Seq(Nat) /\ n \in Nat /\ ctRead["stream"] \in Nat
      /\ ctRead["stream"] < Len(ctBus) - BusCapacity
      /\ ctRead' = [ctRead EXCEPT !["stream"] = Len(ctBus) - BusCapacity]
      /\ ctFeed' = Append(ctFeed, 0) /\ ctBus' = ctBus /\ Len(ctBus) - BusCapacity \in Int
  BY <1>0, LagFact DEF BusTypes
<1>2. /\ ctFeed' \in Seq(Nat) /\ Len(ctFeed') = n + 1 /\ ctFeed'[n + 1] = 0
      /\ \A k \in 1..n : ctFeed'[k] = ctFeed[k]
  BY <1>1, AppendProperties
<1>3. ctRead'["stream"] = Len(ctBus) - BusCapacity
  BY <1>0, <1>1 DEF BusTypes
<1>4. StreamAbreast'
  <2>1. ASSUME NEW i \in 1..n + 1 PROVE ctFeed'[i] <= ctRead'["stream"]
    <3>1. CASE i = n + 1
      BY <1>1, <1>2, <1>3, <3>1
    <3>2. CASE i # n + 1
      <4>1. i \in 1..n
        BY <1>1, <3>2
      <4>2. ctFeed[i] <= ctRead["stream"] /\ ctFeed[i] \in Nat
        BY <1>1, <4>1 DEF Stream, StreamAbreast
      <4> QED BY <1>1, <1>2, <1>3, <4>1, <4>2
    <3> QED BY <3>1, <3>2
  <2>2. DOMAIN ctFeed' = 1..n + 1
    BY <1>2
  <2>3. Len(ctFeed') > 0 /\ ctFeed'[Len(ctFeed')] = 0
    BY <1>1, <1>2
  <2> QED BY <2>1, <2>2, <2>3 DEF StreamAbreast
<1>5. StreamTold'
  <2> SUFFICES ASSUME NEW i \in DOMAIN ctFeed', ctFeed'[i] # 0
               PROVE  \/ i > 1 /\ ctFeed'[i - 1] = 0
                      \/ \A e \in LastBefore(i)' + 1..ctFeed'[i] - 1 : ~Streamed(ctBus'[e])
    BY DEF StreamTold, Streamed
  <2>1. i \in 1..n /\ ctFeed[i] # 0
    BY <1>1, <1>2
  <2>2. n <= Len(ctFeed')
    BY <1>1, <1>2
  <2> QED BY <1>1, <1>2, <2>1, <2>2, ToldKept
<1> QED BY <1>4, <1>5 DEF Stream

\* An event that does not concern the stream.
LEMMA StreamPasses ==
    ASSUME BusTypes, Stream, StreamStep, ctFeed' = ctFeed, ~Streamed(ctBus[ctRead["stream"] + 1])
    PROVE  Stream'
<1>0. "stream" \in Subscriber
  BY DEF Subscriber
<1> DEFINE k == ctRead["stream"]
<1>1. /\ ctFeed \in Seq(Nat) /\ Len(ctFeed) \in Nat /\ k \in Nat /\ k + 1 \in 1..Len(ctBus)
      /\ ctRead'["stream"] = k + 1 /\ ctBus' = ctBus
  BY <1>0, NextEvent DEF BusTypes, StreamStep
<1>2. \A i \in 1..Len(ctFeed) + 1 : LastBefore(i)' = LastBefore(i) /\ LastBefore(i) \in Nat
  BY <1>1, LastBeforeSame, LastBeforeType
<1>3. StreamTold'
  <2> SUFFICES ASSUME NEW i \in DOMAIN ctFeed', ctFeed'[i] # 0
               PROVE  \/ i > 1 /\ ctFeed'[i - 1] = 0
                      \/ \A e \in LastBefore(i)' + 1..ctFeed'[i] - 1 : ~Streamed(ctBus'[e])
    BY DEF StreamTold, Streamed
  <2>1. i \in 1..Len(ctFeed) /\ ctFeed[i] # 0
    BY <1>1
  <2> QED BY <1>1, <2>1, ToldKept
<1>4. StreamAbreast'
  <2>1. ASSUME NEW i \in DOMAIN ctFeed PROVE ctFeed[i] <= k + 1
    <3>1. ctFeed[i] <= k /\ ctFeed[i] \in Nat
      BY <1>1 DEF Stream, StreamAbreast
    <3> QED BY <1>1, <3>1
  <2>2. CASE Len(ctFeed) > 0 /\ ctFeed[Len(ctFeed)] = 0
    BY <1>1, <2>1, <2>2 DEF StreamAbreast
  <2>3. CASE \A e \in LastBefore(Len(ctFeed) + 1) + 1..k : ~Streamed(ctBus[e])
    <3>1. LastBefore(Len(ctFeed) + 1)' = LastBefore(Len(ctFeed) + 1) /\ LastBefore(Len(ctFeed) + 1) \in Nat
      BY <1>1, <1>2
    <3>2. ASSUME NEW e \in LastBefore(Len(ctFeed) + 1) + 1..k + 1 PROVE ~Streamed(ctBus[e])
      <4>1. CASE e = k + 1
        BY <4>1
      <4>2. CASE e # k + 1
        <5>1. e \in LastBefore(Len(ctFeed) + 1) + 1..k
          BY <1>1, <3>1, <4>2
        <5> QED BY <2>3, <5>1
      <4> QED BY <4>1, <4>2
    <3>3. Len(ctFeed)' + 1 = Len(ctFeed) + 1
      OBVIOUS
    <3> QED BY <1>1, <2>1, <3>1, <3>2, <3>3 DEF StreamAbreast, Streamed
  <2> QED BY <2>2, <2>3 DEF Stream, StreamAbreast
<1> QED BY <1>3, <1>4 DEF Stream

\* An event that does: everything since the last one was passed quietly, or
\* behind a warning.
LEMMA StreamTells ==
    ASSUME BusTypes, Stream, StreamStep, ctFeed' = Append(ctFeed, ctRead["stream"] + 1)
    PROVE  Stream'
<1>0. "stream" \in Subscriber
  BY DEF Subscriber
<1> DEFINE n == Len(ctFeed)
           k == ctRead["stream"]
<1>1. /\ ctFeed \in Seq(Nat) /\ n \in Nat /\ k \in Nat /\ k + 1 \in 1..Len(ctBus)
      /\ ctRead'["stream"] = k + 1 /\ ctBus' = ctBus
  BY <1>0, NextEvent DEF BusTypes, StreamStep
<1>2. /\ ctFeed' \in Seq(Nat) /\ Len(ctFeed') = n + 1 /\ ctFeed'[n + 1] = k + 1
      /\ \A i \in 1..n : ctFeed'[i] = ctFeed[i]
  BY <1>1, AppendProperties
<1>3. n <= Len(ctFeed')
  BY <1>1, <1>2
<1>4. StreamTold'
  <2> SUFFICES ASSUME NEW i \in DOMAIN ctFeed', ctFeed'[i] # 0
               PROVE  \/ i > 1 /\ ctFeed'[i - 1] = 0
                      \/ \A e \in LastBefore(i)' + 1..ctFeed'[i] - 1 : ~Streamed(ctBus'[e])
    BY DEF StreamTold, Streamed
  <2>1. CASE i # n + 1
    <3>1. i \in 1..n
      BY <1>1, <1>2, <2>1
    <3>2. ctFeed[i] # 0
      BY <1>2, <3>1
    <3> QED BY <1>1, <1>2, <1>3, <3>1, <3>2, ToldKept
  <2>2. CASE i = n + 1
    <3>1. CASE n > 0 /\ ctFeed[n] = 0
      <4>1. i > 1 /\ i - 1 = n /\ n \in 1..n
        BY <1>1, <2>2, <3>1
      <4> QED BY <1>2, <3>1, <4>1
    <3>2. CASE \A e \in LastBefore(n + 1) + 1..k : ~Streamed(ctBus[e])
      <4>1. LastBefore(i)' = LastBefore(n + 1)
        BY <1>1, <1>2, <2>2, LastBeforeSame
      <4>2. ctFeed'[i] - 1 = k
        BY <1>1, <1>2, <2>2
      <4> QED BY <1>1, <3>2, <4>1, <4>2
    <3> QED BY <3>1, <3>2 DEF Stream, StreamAbreast
  <2> QED BY <2>1, <2>2
<1>5. StreamAbreast'
  <2>1. ASSUME NEW i \in 1..n + 1 PROVE ctFeed'[i] <= k + 1
    <3>1. CASE i = n + 1
      BY <1>1, <1>2, <3>1
    <3>2. CASE i # n + 1
      <4>1. i \in 1..n
        BY <1>1, <3>2
      <4>2. ctFeed[i] <= k /\ ctFeed[i] \in Nat
        BY <1>1, <4>1 DEF Stream, StreamAbreast
      <4> QED BY <1>1, <1>2, <4>1, <4>2
    <3> QED BY <3>1, <3>2
  <2>2. DOMAIN ctFeed' = 1..n + 1
    BY <1>2
  <2>3. LastBefore(Len(ctFeed) + 1)' = k + 1
    <3>1. Len(ctFeed') > 0 /\ ctFeed'[Len(ctFeed')] = k + 1 /\ k + 1 # 0
      BY <1>1, <1>2
    <3>2. LastBefore(Len(ctFeed) + 1)' = ctFeed'[Len(ctFeed')]
      BY <1>2, <3>1, NewestIsLastNext DEF LastIsNewest
    <3> QED BY <3>1, <3>2
  <2>4. \A e \in LastBefore(Len(ctFeed) + 1)' + 1..k + 1 : ~Streamed(ctBus'[e])
    BY <1>1, <2>3
  <2> QED BY <1>1, <2>1, <2>2, <2>4 DEF StreamAbreast, Streamed
<1> QED BY <1>4, <1>5 DEF Stream

LEMMA StreamStepKeeps == BusTypes /\ Stream /\ [ContractNext]_ctVars => Stream'
<1> SUFFICES ASSUME BusTypes, Stream, [ContractNext]_ctVars PROVE Stream'
  OBVIOUS
<1>0. ctRead \in [Subscriber -> Nat]
  BY DEF BusTypes
<1>1. ASSUME UNCHANGED <<ctBus, ctFeed>>, ctRead'["stream"] = ctRead["stream"] PROVE Stream'
  BY <1>1, StreamKept
<1>2. CASE UNCHANGED <<ctBusVars, ctHookVars>>
  BY <1>1, <1>2 DEF ctBusVars
<1>3. ASSUME NEW e \in CEvent, Emit(e) PROVE Stream'
  BY <1>3, EmitFact, StreamKept
<1>4. ASSUME NEW s \in Subscriber, Lagged(s) PROVE Stream'
  <2>1. CASE s = "stream"
    BY <1>4, <2>1, StreamLag
  <2>2. CASE s # "stream"
    <3>1. UNCHANGED <<ctBus, ctFeed>> /\ ctRead'["stream"] = ctRead["stream"]
      BY <1>0, <1>4, <2>2, LagFact DEF Subscriber
    <3> QED BY <1>1, <3>1
  <2> QED BY <2>1, <2>2
<1>5. CASE StreamStep
  <2>1. ctFeed' = (IF Streamed(ctBus[ctRead["stream"] + 1]) THEN Append(ctFeed, ctRead["stream"] + 1) ELSE ctFeed)
    BY <1>5 DEF StreamStep
  <2> QED BY <1>5, <2>1, StreamPasses, StreamTells
<1>6. CASE ListenerStep
  BY <1>0, <1>1, <1>6 DEF ListenerStep, Subscriber
<1>7. CASE HookLoopStep
  BY <1>0, <1>1, <1>7 DEF HookLoopStep, Subscriber
<1>8. ASSUME NEW h \in Hook, Subscribe(h) \/ Unsubscribe(h) PROVE Stream'
  BY <1>1, <1>8 DEF Subscribe, Unsubscribe, ctBusVars
<1>9. ASSUME NEW j \in ctJobs, StartDelivery(j) \/ Attempt(j) PROVE Stream'
  <2>1. UNCHANGED ctBusVars
    BY <1>9 DEF StartDelivery, Attempt
  <2> QED BY <1>1, <2>1 DEF ctBusVars
<1>10. CASE UNCHANGED ctVars
  BY <1>1, <1>10 DEF ctVars, ctBusVars
<1> QED BY <1>2, <1>3, <1>4, <1>5, <1>6, <1>7, <1>8, <1>9, <1>10, ContractCases

-----------------------------------------------------------------------------
(* The webhooks.                                                           *)

LEMMA HookFinite ==
    ASSUME BusTypes, NEW h \in Hook, OneJob(h)
    PROVE  /\ IsFiniteSet(ctMatched[h]) /\ IsFiniteSet(UnderWay(h)) /\ IsFiniteSet(Done(h))
           /\ \A S \in SUBSET Done(h) : IsFiniteSet(HeardOf(h, S))
           /\ ctRead["webhooks"] \in Nat
           /\ ctHooks[h].ok \in Nat /\ ctHooks[h].failed \in Nat
<1>1. ctRead["webhooks"] \in Nat
  BY DEF BusTypes, Subscriber
<1>2. IsFiniteSet(1..ctRead["webhooks"])
  BY <1>1, FS_Interval
<1>3. IsFiniteSet(ctMatched[h])
  BY <1>2, FS_Subset DEF OneJob
<1>4. IsFiniteSet(UnderWay(h)) /\ IsFiniteSet(Done(h))
  BY <1>3, FS_Subset DEF OneJob, Done
<1>5. \A S \in SUBSET Done(h) : IsFiniteSet(HeardOf(h, S))
  <2> SUFFICES ASSUME NEW S \in SUBSET Done(h) PROVE IsFiniteSet(HeardOf(h, S))
    OBVIOUS
  <2>1. HeardOf(h, S) \subseteq Done(h)
    BY DEF HeardOf
  <2> QED BY <1>4, <2>1, FS_Subset
<1> QED BY <1>1, <1>3, <1>4, <1>5 DEF BusTypes

\* The deliveries of a subscription concern the same events as before.
LEMMA OneJobKept ==
    ASSUME BusTypes, NEW h \in Hook, OneJob(h),
           ctRead'["webhooks"] \in Nat, ctRead["webhooks"] <= ctRead'["webhooks"],
           ctMatched'[h] = ctMatched[h], UnderWay(h)' = UnderWay(h),
           \A i, j \in JobsOf(h)' : i.event = j.event => i = j,
           ctHooks'[h] = ctHooks[h] \/ ~ctHooks'[h].on,
           ctHeard \subseteq ctHeard'
    PROVE  OneJob(h)'
<1>1. Done(h)' = Done(h)
  BY DEF Done
<1>2. ctMatched'[h] \subseteq 1..ctRead'["webhooks"]
  <2>1. 1..ctRead["webhooks"] \subseteq 1..ctRead'["webhooks"]
    BY HookFinite
  <2> QED BY <2>1 DEF OneJob
<1>3. ASSUME ctHooks'[h].on
      PROVE  /\ ctHooks'[h].ok + ctHooks'[h].failed = Cardinality(Done(h)')
             /\ ctHooks'[h].ok <= Cardinality(HeardOf(h, Done(h))')
  <2>1. ctHooks'[h] = ctHooks[h]
    BY <1>3
  <2>2. HeardOf(h, Done(h)) \subseteq HeardOf(h, Done(h))' /\ HeardOf(h, Done(h))' \subseteq Done(h)
    BY <1>1 DEF HeardOf
  <2>3. /\ IsFiniteSet(HeardOf(h, Done(h))') /\ Cardinality(HeardOf(h, Done(h))) \in Nat
        /\ Cardinality(HeardOf(h, Done(h))') \in Nat
        /\ Cardinality(HeardOf(h, Done(h))) <= Cardinality(HeardOf(h, Done(h))')
    <3>1. IsFiniteSet(HeardOf(h, Done(h))')
      BY <2>2, HookFinite, FS_Subset
    <3> QED BY <2>2, <3>1, HookFinite, FS_Subset, FS_CardinalityType
  <2>4. ctHooks[h].ok <= Cardinality(HeardOf(h, Done(h))) /\ ctHooks[h].ok \in Nat
    BY <1>3, <2>1, HookFinite DEF OneJob
  <2>5. ctHooks[h].ok + ctHooks[h].failed = Cardinality(Done(h))
    BY <1>3, <2>1 DEF OneJob
  <2> QED BY <1>1, <2>1, <2>3, <2>4, <2>5
<1>4. UnderWay(h)' \subseteq ctMatched'[h]
  BY DEF OneJob
<1> QED BY <1>2, <1>3, <1>4 DEF OneJob

\* A delivery is over, and counted while the subscription lives.
LEMMA OneJobOver ==
    ASSUME BusTypes, NEW h \in Hook, OneJob(h), NEW j \in JobsOf(h), NEW field \in {"ok", "failed"},
           ctJobs' = ctJobs \ {j}, UNCHANGED <<ctRead, ctMatched>>,
           ctHooks'[h] = IF ctHooks[h].on THEN Counted(ctHooks[h], field) ELSE ctHooks[h],
           ctHeard \subseteq ctHeard', field = "ok" => <<h, j.event>> \in ctHeard'
    PROVE  OneJob(h)'
<1> DEFINE e == j.event
<1>1. JobsOf(h)' = JobsOf(h) \ {j}
  BY DEF JobsOf
<1>2. e \in UnderWay(h) /\ e \in ctMatched[h] /\ \A i \in JobsOf(h) : i.event = e => i = j
  BY DEF OneJob, UnderWay
<1>3. UnderWay(h)' = UnderWay(h) \ {e}
  <2>1. ASSUME NEW x \in UnderWay(h)' PROVE x \in UnderWay(h) \ {e}
    <3>1. PICK i \in JobsOf(h) \ {j} : x = i.event
      BY <1>1, <2>1 DEF UnderWay
    <3> QED BY <1>2, <3>1 DEF UnderWay
  <2>2. ASSUME NEW x \in UnderWay(h), x # e PROVE x \in UnderWay(h)'
    <3>1. PICK i \in JobsOf(h) : x = i.event
      BY <2>2 DEF UnderWay
    <3> QED BY <1>1, <2>2, <3>1 DEF UnderWay
  <2> QED BY <2>1, <2>2
<1>4. Done(h)' = Done(h) \cup {e} /\ e \notin Done(h)
  BY <1>2, <1>3 DEF Done
<1>5. \A i, k \in JobsOf(h)' : i.event = k.event => i = k
  BY <1>1 DEF OneJob
<1>6. /\ Cardinality(Done(h)') = Cardinality(Done(h)) + 1 /\ IsFiniteSet(Done(h)')
      /\ Cardinality(Done(h)) \in Nat
  <2>1. IsFiniteSet(Done(h))
    BY HookFinite
  <2>2. IsFiniteSet(Done(h) \cup {e}) /\ Cardinality(Done(h) \cup {e}) = Cardinality(Done(h)) + 1
    BY <1>4, <2>1, FS_AddElement
  <2>3. Cardinality(Done(h)) \in Nat
    BY <2>1, FS_CardinalityType
  <2> QED BY <1>4, <2>2, <2>3
<1>7. ASSUME ctHooks'[h].on
      PROVE  /\ ctHooks'[h].ok + ctHooks'[h].failed = Cardinality(Done(h)')
             /\ ctHooks'[h].ok <= Cardinality(HeardOf(h, Done(h))')
  <2>1. ctHooks[h].on /\ ctHooks'[h] = Counted(ctHooks[h], field)
    BY <1>7
  <2>2. /\ ctHooks[h].ok + ctHooks[h].failed = Cardinality(Done(h))
        /\ ctHooks[h].ok <= Cardinality(HeardOf(h, Done(h)))
        /\ ctHooks[h].ok \in Nat /\ ctHooks[h].failed \in Nat
    BY <2>1, HookFinite DEF OneJob
  <2>3. /\ HeardOf(h, Done(h)) \subseteq HeardOf(h, Done(h))' /\ HeardOf(h, Done(h))' \subseteq Done(h)'
        /\ field = "ok" => e \in HeardOf(h, Done(h))'
        /\ e \notin HeardOf(h, Done(h))
    BY <1>4 DEF HeardOf
  <2>4. IsFiniteSet(HeardOf(h, Done(h))') /\ IsFiniteSet(HeardOf(h, Done(h)))
    BY <1>6, <2>3, HookFinite, FS_Subset
  <2>5. Cardinality(HeardOf(h, Done(h))') \in Nat /\ Cardinality(HeardOf(h, Done(h))) \in Nat
    BY <2>4, FS_CardinalityType
  <2>6. CASE field = "ok"
    <3>1. ctHooks'[h].ok = ctHooks[h].ok + 1 /\ ctHooks'[h].failed = ctHooks[h].failed
      BY <2>1, <2>2, <2>6 DEF Counted
    <3>2. HeardOf(h, Done(h)) \cup {e} \subseteq HeardOf(h, Done(h))'
      BY <2>3, <2>6
    <3>3. Cardinality(HeardOf(h, Done(h)) \cup {e}) = Cardinality(HeardOf(h, Done(h))) + 1
      BY <2>3, <2>4, FS_AddElement
    <3>4. Cardinality(HeardOf(h, Done(h)) \cup {e}) <= Cardinality(HeardOf(h, Done(h))')
      BY <2>4, <3>2, FS_Subset
    <3>5. ctHooks'[h].ok <= Cardinality(HeardOf(h, Done(h))')
      BY <2>2, <2>5, <3>1, <3>3, <3>4
    <3> QED BY <1>6, <2>2, <3>1, <3>5
  <2>7. CASE field = "failed"
    <3>1. ctHooks'[h].ok = ctHooks[h].ok /\ ctHooks'[h].failed = ctHooks[h].failed + 1
      BY <2>1, <2>2, <2>7 DEF Counted
    <3>2. Cardinality(HeardOf(h, Done(h))) <= Cardinality(HeardOf(h, Done(h))')
      BY <2>3, <2>4, FS_Subset
    <3>3. ctHooks'[h].ok <= Cardinality(HeardOf(h, Done(h))')
      BY <2>2, <2>5, <3>1, <3>2
    <3> QED BY <1>6, <2>2, <3>1, <3>3
  <2> QED BY <2>6, <2>7
<1>8. ctMatched'[h] \subseteq 1..ctRead'["webhooks"] /\ UnderWay(h)' \subseteq ctMatched'[h]
  BY <1>3 DEF OneJob
<1> QED BY <1>5, <1>7, <1>8 DEF OneJob

LEMMA SubscribeFact ==
    ASSUME BusTypes, NEW h \in Hook, OneJob(h), NEW g \in Hook, Subscribe(g)
    PROVE  OneJob(h)'
<1>1. /\ UNCHANGED <<ctRead, ctJobs, ctMatched, ctHeard>> /\ ctMatched[g] = {}
      /\ ctHooks' = [ctHooks EXCEPT ![g] = [NoHook EXCEPT !.on = TRUE]]
  BY DEF Subscribe, ctBusVars
<1>2. UnderWay(h)' = UnderWay(h) /\ JobsOf(h)' = JobsOf(h) /\ Done(h)' = Done(h)
      /\ HeardOf(h, Done(h))' = HeardOf(h, Done(h))
  BY <1>1 DEF UnderWay, JobsOf, Done, HeardOf
<1>3. CASE h # g
  <2>1. ctHooks'[h] = ctHooks[h]
    BY <1>1, <1>3 DEF BusTypes
  <2> QED BY <1>1, <1>2, <2>1 DEF OneJob
<1>4. CASE h = g
  <2>1. ctHooks'[h].ok = 0 /\ ctHooks'[h].failed = 0
    BY <1>1, <1>4 DEF BusTypes, NoHook
  <2>2. Done(h) = {} /\ HeardOf(h, Done(h)) = {}
    BY <1>1, <1>4 DEF Done, HeardOf
  <2>3. Cardinality(Done(h)) = 0 /\ Cardinality(HeardOf(h, Done(h))) = 0
    BY <2>2, FS_EmptySet
  <2> QED BY <1>1, <1>2, <2>1, <2>3 DEF OneJob
<1> QED BY <1>3, <1>4

\* A job for each subscription the block concerns.
LEMMA LoopFact ==
    ASSUME BusTypes, NEW h \in Hook, OneJob(h), HookLoopStep
    PROVE  OneJob(h)'
<1>0. "webhooks" \in Subscriber
  BY DEF Subscriber
<1>1. PICK i : i = ctRead["webhooks"] + 1
  OBVIOUS
<1>2. ctRead["webhooks"] \in Nat /\ i \in Nat /\ ctRead'["webhooks"] = i /\ UNCHANGED <<ctHooks, ctHeard>>
  BY <1>0, <1>1 DEF HookLoopStep, BusTypes
<1> DEFINE job(g) == [hook |-> g, event |-> i, tries |-> 0, running |-> FALSE]
<1>3. PICK hit : /\ ctJobs' = ctJobs \cup {job(g) : g \in hit}
                 /\ ctMatched' = [g \in Hook |-> IF g \in hit THEN ctMatched[g] \cup {i} ELSE ctMatched[g]]
  BY <1>1 DEF HookLoopStep
<1>4. CASE h \in hit
  <2>1. ctMatched'[h] = ctMatched[h] \cup {i}
    BY <1>3, <1>4
  <2>2. JobsOf(h)' = JobsOf(h) \cup {job(h)}
    <3>1. ASSUME NEW x \in JobsOf(h)' PROVE x \in JobsOf(h) \cup {job(h)}
      <4>1. x \in ctJobs' /\ x.hook = h
        BY <3>1 DEF JobsOf
      <4>2. CASE x \in ctJobs
        BY <4>1, <4>2 DEF JobsOf
      <4>3. CASE x \notin ctJobs
        <5>1. PICK g \in hit : x = job(g)
          BY <1>3, <4>1, <4>3
        <5> QED BY <4>1, <5>1
      <4> QED BY <4>2, <4>3
    <3>2. job(h) \in JobsOf(h)' /\ JobsOf(h) \subseteq JobsOf(h)'
      BY <1>3, <1>4 DEF JobsOf
    <3> QED BY <3>1, <3>2
  <2>3. i \notin ctMatched[h] /\ i \notin UnderWay(h)
    BY <1>1, <1>2 DEF OneJob
  <2>4. UnderWay(h)' = UnderWay(h) \cup {i}
    <3>1. job(h).event = i
      OBVIOUS
    <3> HIDE DEF job
    <3>2. ASSUME NEW x \in UnderWay(h)' PROVE x \in UnderWay(h) \cup {i}
      <4>1. PICK k \in JobsOf(h) \cup {job(h)} : x = k.event
        BY <2>2, <3>2 DEF UnderWay
      <4> QED BY <3>1, <4>1 DEF UnderWay
    <3>3. UnderWay(h) \subseteq UnderWay(h)' /\ i \in UnderWay(h)'
      BY <2>2, <3>1 DEF UnderWay
    <3> QED BY <3>2, <3>3
  <2>5. Done(h)' = Done(h)
    BY <2>1, <2>3, <2>4 DEF Done
  <2>6. HeardOf(h, Done(h))' = HeardOf(h, Done(h))
    BY <1>2, <2>5 DEF HeardOf
  <2>7. ASSUME NEW k \in JobsOf(h)', NEW l \in JobsOf(h)', k.event = l.event PROVE k = l
    <3>1. job(h).event = i
      OBVIOUS
    <3> HIDE DEF job
    <3>2. \A m \in JobsOf(h) : m.event # i
      BY <2>3 DEF UnderWay
    <3> QED BY <2>2, <2>7, <3>1, <3>2 DEF OneJob
  <2>8. ctMatched'[h] \subseteq 1..ctRead'["webhooks"] /\ UnderWay(h)' \subseteq ctMatched'[h]
    <3>1. ctMatched[h] \subseteq 1..ctRead["webhooks"] /\ UnderWay(h) \subseteq ctMatched[h]
      BY DEF OneJob
    <3>2. ctMatched[h] \subseteq 1..i /\ i \in 1..i
      BY <1>1, <1>2, <3>1
    <3> QED BY <1>2, <2>1, <2>4, <3>1, <3>2
  <2> HIDE DEF job
  <2> QED BY <1>2, <2>5, <2>6, <2>7, <2>8 DEF OneJob
<1>5. CASE h \notin hit
  <2>1. ctMatched'[h] = ctMatched[h]
    BY <1>3, <1>5
  <2>2. JobsOf(h)' = JobsOf(h)
    <3>1. ASSUME NEW x \in JobsOf(h)' PROVE x \in JobsOf(h)
      <4>1. x \in ctJobs' /\ x.hook = h
        BY <3>1 DEF JobsOf
      <4>2. \A g \in hit : job(g).hook # h
        BY <1>5
      <4> HIDE DEF job
      <4> QED BY <1>3, <4>1, <4>2 DEF JobsOf
    <3>2. JobsOf(h) \subseteq JobsOf(h)'
      BY <1>3 DEF JobsOf
    <3> QED BY <3>1, <3>2
  <2>3. UnderWay(h)' = UnderWay(h)
    BY <2>2 DEF UnderWay
  <2>4. ctRead["webhooks"] <= ctRead'["webhooks"]
    BY <1>1, <1>2
  <2>5. \A k, l \in JobsOf(h)' : k.event = l.event => k = l
    BY <2>2 DEF OneJob
  <2> HIDE DEF job
  <2> QED BY <1>2, <2>1, <2>3, <2>4, <2>5, OneJobKept
<1> QED BY <1>4, <1>5

\* A delivery goes on under the same event.
LEMMA JobReplaced ==
    ASSUME BusTypes, NEW h \in Hook, OneJob(h), NEW j \in ctJobs, NEW new,
           new.hook = j.hook, new.event = j.event, ctJobs' = (ctJobs \ {j}) \cup {new},
           UNCHANGED <<ctRead, ctMatched, ctHooks>>, ctHeard \subseteq ctHeard'
    PROVE  OneJob(h)'
<1>0. ctRead["webhooks"] \in Nat
  BY DEF BusTypes, Subscriber
<1>1. \A i, k \in JobsOf(h) : i.event = k.event => i = k
  BY DEF OneJob
<1>2. CASE j.hook = h
  <2>1. j \in JobsOf(h) /\ JobsOf(h)' = (JobsOf(h) \ {j}) \cup {new}
    BY <1>2 DEF JobsOf
  <2>2. UnderWay(h)' = UnderWay(h)
    <3>1. ASSUME NEW x \in UnderWay(h)' PROVE x \in UnderWay(h)
      <4>1. PICK k \in (JobsOf(h) \ {j}) \cup {new} : x = k.event
        BY <2>1, <3>1 DEF UnderWay
      <4> QED BY <2>1, <4>1 DEF UnderWay
    <3>2. ASSUME NEW x \in UnderWay(h) PROVE x \in UnderWay(h)'
      <4>1. PICK k \in JobsOf(h) : x = k.event
        BY <3>2 DEF UnderWay
      <4> QED BY <2>1, <4>1 DEF UnderWay
    <3> QED BY <3>1, <3>2
  <2>3. \A i, k \in JobsOf(h)' : i.event = k.event => i = k
    BY <1>1, <2>1
  <2> QED BY <1>0, <2>2, <2>3, OneJobKept
<1>3. CASE j.hook # h
  <2>1. JobsOf(h)' = JobsOf(h)
    BY <1>3 DEF JobsOf
  <2>2. UnderWay(h)' = UnderWay(h)
    BY <2>1 DEF UnderWay
  <2> QED BY <1>0, <1>1, <2>1, <2>2, OneJobKept
<1> QED BY <1>2, <1>3

\* A delivery ends.
LEMMA JobOver ==
    ASSUME BusTypes, NEW h \in Hook, OneJob(h), NEW j \in ctJobs, NEW field \in {"ok", "failed"},
           ctJobs' = ctJobs \ {j}, UNCHANGED <<ctRead, ctMatched>>,
           ctHooks' = Count(j.hook, field),
           ctHeard \subseteq ctHeard', field = "ok" => <<j.hook, j.event>> \in ctHeard'
    PROVE  OneJob(h)'
<1>0. ctRead["webhooks"] \in Nat /\ j.hook \in Hook
  BY DEF BusTypes, Subscriber, JobType
<1>1. CASE j.hook = h
  <2>1. j \in JobsOf(h)
    BY <1>1 DEF JobsOf
  <2>2. ctHooks'[h] = IF ctHooks[h].on THEN Counted(ctHooks[h], field) ELSE ctHooks[h]
    BY <1>1 DEF Count, BusTypes
  <2> QED BY <1>1, <2>1, <2>2, OneJobOver
<1>2. CASE j.hook # h
  <2>1. JobsOf(h)' = JobsOf(h)
    BY <1>2 DEF JobsOf
  <2>2. UnderWay(h)' = UnderWay(h)
    BY <2>1 DEF UnderWay
  <2>3. ctHooks'[h] = ctHooks[h]
    BY <1>2 DEF Count, BusTypes
  <2>4. \A i, k \in JobsOf(h)' : i.event = k.event => i = k
    BY <2>1 DEF OneJob
  <2> QED BY <1>0, <2>2, <2>3, <2>4, OneJobKept
<1> QED BY <1>1, <1>2

LEMMA OneJobStep == BusTypes /\ OneJobEach /\ [ContractNext]_ctVars => OneJobEach'
<1> SUFFICES ASSUME BusTypes, OneJobEach, [ContractNext]_ctVars, NEW h \in Hook PROVE OneJob(h)'
  BY DEF OneJobEach
<1>0. OneJob(h) /\ ctRead["webhooks"] \in Nat /\ ctRead \in [Subscriber -> Nat]
  BY DEF OneJobEach, BusTypes, Subscriber
<1>1. ASSUME UNCHANGED ctHookVars, ctRead'["webhooks"] \in Nat, ctRead["webhooks"] <= ctRead'["webhooks"]
      PROVE  OneJob(h)'
  <2>1. JobsOf(h)' = JobsOf(h) /\ UNCHANGED <<ctHooks, ctMatched, ctHeard>>
    BY <1>1 DEF ctHookVars, JobsOf
  <2>2. UnderWay(h)' = UnderWay(h)
    BY <2>1 DEF UnderWay
  <2>3. \A i, k \in JobsOf(h)' : i.event = k.event => i = k
    BY <1>0, <2>1 DEF OneJob
  <2> QED BY <1>0, <1>1, <2>1, <2>2, <2>3, OneJobKept
<1>2. CASE UNCHANGED <<ctBusVars, ctHookVars>>
  BY <1>0, <1>1, <1>2 DEF ctBusVars
<1>3. ASSUME NEW e \in CEvent, Emit(e) PROVE OneJob(h)'
  BY <1>0, <1>1, <1>3 DEF Emit
<1>4. ASSUME NEW s \in Subscriber, Lagged(s) PROVE OneJob(h)'
  <2>1. /\ ctRead' = [ctRead EXCEPT ![s] = Len(ctBus) - BusCapacity] /\ UNCHANGED ctHookVars
        /\ ctRead[s] \in Nat /\ ctRead[s] < Len(ctBus) - BusCapacity /\ Len(ctBus) - BusCapacity \in Int
    BY <1>4, LagFact
  <2>2. ctRead'["webhooks"] \in Nat /\ ctRead["webhooks"] <= ctRead'["webhooks"]
    BY <1>0, <2>1 DEF Subscriber
  <2> QED BY <1>1, <2>1, <2>2
<1>5. CASE ListenerStep \/ StreamStep
  <2>1. UNCHANGED ctHookVars /\ ctRead'["webhooks"] = ctRead["webhooks"]
    BY <1>0, <1>5 DEF ListenerStep, StreamStep, Subscriber
  <2> QED BY <1>0, <1>1, <2>1
<1>6. CASE HookLoopStep
  BY <1>0, <1>6, LoopFact
<1>7. ASSUME NEW g \in Hook, Subscribe(g) PROVE OneJob(h)'
  BY <1>0, <1>7, SubscribeFact
<1>8. ASSUME NEW g \in Hook, Unsubscribe(g) PROVE OneJob(h)'
  <2>1. /\ UNCHANGED <<ctRead, ctJobs, ctMatched, ctHeard>>
        /\ ctHooks' = [ctHooks EXCEPT ![g] = [ctHooks[g] EXCEPT !.on = FALSE]]
    BY <1>8 DEF Unsubscribe, ctBusVars, BusTypes
  <2>2. ctHooks'[h] = ctHooks[h] \/ ~ctHooks'[h].on
    BY <2>1 DEF BusTypes
  <2>3. JobsOf(h)' = JobsOf(h)
    BY <2>1 DEF JobsOf
  <2>4. UnderWay(h)' = UnderWay(h)
    BY <2>3 DEF UnderWay
  <2>5. \A i, k \in JobsOf(h)' : i.event = k.event => i = k
    BY <1>0, <2>3 DEF OneJob
  <2> QED BY <1>0, <2>1, <2>2, <2>4, <2>5, OneJobKept
<1>9. ASSUME NEW j \in ctJobs, StartDelivery(j) PROVE OneJob(h)'
  <2>1. /\ ctJobs' = (ctJobs \ {j}) \cup {[j EXCEPT !.running = TRUE]}
        /\ UNCHANGED <<ctRead, ctMatched, ctHooks, ctHeard>>
    BY <1>9 DEF StartDelivery, ctBusVars
  <2>2. [j EXCEPT !.running = TRUE].hook = j.hook /\ [j EXCEPT !.running = TRUE].event = j.event
    BY DEF BusTypes, JobType
  <2> QED BY <1>0, <2>1, <2>2, JobReplaced
<1>10. ASSUME NEW j \in ctJobs, Attempt(j) PROVE OneJob(h)'
  <2>1. UNCHANGED <<ctRead, ctMatched>> /\ ctHeard \subseteq ctHeard'
    BY <1>10 DEF Attempt, ctBusVars
  <2>2. CASE /\ ctJobs' = ctJobs \ {j}
             /\ ctHooks' = Count(j.hook, "ok") /\ ctHeard' = ctHeard \cup {<<j.hook, j.event>>}
    BY <1>0, <2>1, <2>2, JobOver
  <2>3. CASE /\ GivesUp(j.tries)
             /\ ctJobs' = (ctJobs \ {j}) \cup {} /\ ctHooks' = Count(j.hook, "failed")
    <3>1. ctJobs' = ctJobs \ {j}
      BY <2>3
    <3> QED BY <1>0, <2>1, <2>3, <3>1, JobOver
  <2>4. CASE /\ ~GivesUp(j.tries) /\ ctHooks' = ctHooks
             /\ ctJobs' = (ctJobs \ {j}) \cup {[j EXCEPT !.tries = j.tries + 1]}
    <3>1. [j EXCEPT !.tries = j.tries + 1].hook = j.hook /\ [j EXCEPT !.tries = j.tries + 1].event = j.event
      BY DEF BusTypes, JobType
    <3> QED BY <1>0, <2>1, <2>4, <3>1, JobReplaced
  <2>5. \/ /\ ctJobs' = ctJobs \ {j}
           /\ ctHooks' = Count(j.hook, "ok") /\ ctHeard' = ctHeard \cup {<<j.hook, j.event>>}
        \/ /\ ctJobs' = (ctJobs \ {j}) \cup (IF GivesUp(j.tries) THEN {} ELSE {[j EXCEPT !.tries = j.tries + 1]})
           /\ ctHooks' = IF GivesUp(j.tries) THEN Count(j.hook, "failed") ELSE ctHooks
    BY <1>10, Zenon DEF Attempt
  <2> QED BY <2>2, <2>3, <2>4, <2>5
<1>11. CASE UNCHANGED ctVars
  BY <1>0, <1>1, <1>11 DEF ctVars, ctBusVars
<1> QED BY <1>2, <1>3, <1>4, <1>5, <1>6, <1>7, <1>8, <1>9, <1>10, <1>11, ContractCases

\* The events of a subscription's deliveries are as many as the deliveries, and
\* with those that are over they are the events it matched.
LEMMA SettledFromJobs ==
    ASSUME BusTypes, OneJobEach PROVE HooksSettled
<1> SUFFICES ASSUME NEW h \in Hook, ctHooks[h].on
             PROVE  /\ ctHooks[h].ok + ctHooks[h].failed + Cardinality(JobsOf(h)) = Cardinality(ctMatched[h])
                    /\ ctHooks[h].ok <= Cardinality({e \in ctMatched[h] : <<h, e>> \in ctHeard})
  BY DEF HooksSettled, JobsOf
<1>1. OneJob(h)
  BY DEF OneJobEach
<1>2. IsFiniteSet(ctMatched[h]) /\ IsFiniteSet(UnderWay(h)) /\ IsFiniteSet(Done(h)) /\ IsFiniteSet(HeardOf(h, Done(h)))
  BY <1>1, HookFinite
<1>3. Cardinality(JobsOf(h)) = Cardinality(UnderWay(h)) /\ Cardinality(UnderWay(h)) \in Nat
  <2> DEFINE f == [j \in JobsOf(h) |-> j.event]
  <2>1. f \in Bijection(JobsOf(h), UnderWay(h))
    <3>1. f \in [JobsOf(h) -> UnderWay(h)]
      BY DEF UnderWay
    <3>2. \A i, k \in JobsOf(h) : f[i] = f[k] => i = k
      BY <1>1 DEF OneJob
    <3>3. \A e \in UnderWay(h) : \E i \in JobsOf(h) : f[i] = e
      BY DEF UnderWay
    <3> HIDE DEF f
    <3> QED BY <3>1, <3>2, <3>3, Fun_IsBij
  <2>2. ExistsBijection(JobsOf(h), UnderWay(h))
    BY <2>1 DEF ExistsBijection
  <2>3. IsFiniteSet(JobsOf(h)) /\ Cardinality(JobsOf(h)) = Cardinality(UnderWay(h))
    <3>1. ExistsBijection(UnderWay(h), JobsOf(h))
      BY <2>2, Fun_ExistsBijSymmetric
    <3> QED BY <1>2, <3>1, FS_Bijection
  <2> QED BY <1>2, <2>3, FS_CardinalityType
<1>4. Cardinality(ctMatched[h]) = Cardinality(Done(h)) + Cardinality(UnderWay(h)) /\ Cardinality(Done(h)) \in Nat
  <2>1. Done(h) \cup UnderWay(h) = ctMatched[h] /\ Done(h) \cap UnderWay(h) = {}
    BY <1>1 DEF OneJob, Done
  <2>2. Cardinality(ctMatched[h]) = Cardinality(Done(h)) + Cardinality(UnderWay(h)) - Cardinality({})
    BY <1>2, <2>1, FS_Union
  <2>3. Cardinality({}) = 0
    BY FS_EmptySet
  <2> QED BY <1>2, <1>3, <2>2, <2>3, FS_CardinalityType
<1>5. ctHooks[h].ok + ctHooks[h].failed = Cardinality(Done(h)) /\ ctHooks[h].ok <= Cardinality(HeardOf(h, Done(h)))
      /\ ctHooks[h].ok \in Nat /\ ctHooks[h].failed \in Nat
  BY <1>1, HookFinite DEF OneJob
<1>6. ctHooks[h].ok <= Cardinality({e \in ctMatched[h] : <<h, e>> \in ctHeard})
  <2> DEFINE H == {e \in ctMatched[h] : <<h, e>> \in ctHeard}
  <2>1. HeardOf(h, Done(h)) \subseteq H /\ H \subseteq ctMatched[h]
    BY DEF HeardOf, Done
  <2>2. IsFiniteSet(H)
    BY <1>2, <2>1, FS_Subset
  <2>3. Cardinality(HeardOf(h, Done(h))) <= Cardinality(H)
    BY <2>1, <2>2, FS_Subset
  <2>4. Cardinality(HeardOf(h, Done(h))) \in Nat /\ Cardinality(H) \in Nat
    BY <1>2, <2>2, FS_CardinalityType
  <2>5. ctHooks[h].ok <= Cardinality(H)
    <3> HIDE DEF H
    <3> QED BY <1>5, <2>3, <2>4
  <2> QED BY <2>5
<1> QED BY <1>3, <1>4, <1>5, <1>6

LEMMA DeliveredInit == ContractInit => Delivered
<1> SUFFICES ASSUME ContractInit PROVE Delivered
  OBVIOUS
<1>1. BusTypes
  <2>1. ctBus = <<>> /\ ctBus \in Seq(CEvent) /\ Len(ctBus) = 0 /\ ctFeed = <<>> /\ ctFeed \in Seq(Nat)
    BY DEF ContractInit
  <2>2. MaxEvents \in Nat
    BY ContractAssumption
  <2>3. ctRead \in [Subscriber -> Nat] /\ \A s \in Subscriber : ctRead[s] <= Len(ctBus)
    BY <2>1 DEF ContractInit
  <2>4. /\ ctHooks \in [Hook -> [ok : Nat, failed : Nat, on : BOOLEAN]]
        /\ ctMatched \in [Hook -> SUBSET Nat] /\ ctJobs \subseteq JobType
    BY DEF ContractInit, NoHook
  <2>5. DOMAIN ctRefunds = 1..MaxEvents /\ DOMAIN ctSeen = 1..MaxEvents
    BY DEF ContractInit
  <2> QED BY <2>1, <2>2, <2>3, <2>4, <2>5 DEF BusTypes
<1>2. SkippedBehind /\ BurnsSettled
  <2>1. ctSkipped = {} /\ ctRead["contracts"] = 0
    BY DEF ContractInit, Subscriber
  <2>2. \A i \in 1..MaxEvents : ~Evaluated(i)
    BY <2>1, ContractAssumption DEF Evaluated
  <2>3. \A i \in 1..MaxEvents, c \in CContract : ctRefunds[i][c] = <<>>
    BY DEF ContractInit, NoQuotes
  <2> QED BY <2>1, <2>2, <2>3 DEF SkippedBehind, BurnsSettled
<1>3. StreamTold
  BY DEF ContractInit, StreamTold
<1>4. StreamAbreast
  <2>1. ctFeed = <<>> /\ Len(ctFeed) = 0 /\ ctRead["stream"] = 0 /\ DOMAIN ctFeed = {}
    BY DEF ContractInit, Subscriber
  <2>2. LastBefore(Len(ctFeed) + 1) \in Nat
    BY <1>1, <2>1, LastBeforeType DEF BusTypes
  <2>3. LastBefore(Len(ctFeed) + 1) + 1..ctRead["stream"] = {}
    BY <2>1, <2>2
  <2> QED BY <2>1, <2>3 DEF StreamAbreast
<1>5. OneJobEach
  <2> SUFFICES ASSUME NEW h \in Hook PROVE OneJob(h)
    BY DEF OneJobEach
  <2>1. ctMatched[h] = {} /\ JobsOf(h) = {} /\ ~ctHooks[h].on
    BY DEF ContractInit, JobsOf, NoHook
  <2> QED BY <2>1 DEF OneJob, UnderWay
<1> QED BY <1>1, <1>2, <1>3, <1>4, <1>5 DEF Delivered

\* Every event a subscriber of the bus reads has its effect once, and what it does
\* not read it was too slow for, and told so (bus.rs, listener.rs, webhooks.rs,
\* activity/stream.rs).
THEOREM EventsAlwaysDelivered == ContractSpec => []EventsDelivered
<1>1. ContractInit => Delivered
  BY DeliveredInit
<1>2. Delivered /\ [ContractNext]_ctVars => Delivered'
  <2> SUFFICES ASSUME Delivered, [ContractNext]_ctVars PROVE Delivered'
    OBVIOUS
  <2>1. BusTypes' /\ Settled' /\ Stream' /\ OneJobEach'
    BY BusTypesStep, SettledStep, StreamStepKeeps, OneJobStep DEF Delivered, Settled, Stream
  <2> QED BY <2>1 DEF Delivered, Settled, Stream
<1>3. Delivered => EventsDelivered
  BY SettledFromJobs DEF Delivered, EventsDelivered, SubscribersTold
<1> QED BY <1>1, <1>2, <1>3, PTL DEF ContractSpec
=============================================================================
