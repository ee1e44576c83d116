------------------------------ MODULE Contracts ------------------------------
(***************************************************************************)
(* Declarative contracts and the subscribers of the event bus.             *)
(*                                                                         *)
(* Contracts are records of a RocksDB column family; the administrator     *)
(* registers, switches and updates them while transfers are priced by them *)
(* and burns refunded by them.  The bus keeps the last BusCapacity events  *)
(* for each subscriber: the contract listener and the webhook loop read it *)
(* at their own pace and skip what they were too slow for.  A webhook is   *)
(* delivered by a task of its own, with retries and a permit.              *)
(***************************************************************************)
EXTENDS Integers, Sequences, FiniteSets, SequencesExt

CONSTANTS
    CContract,      \* contract ids
    CTerms,         \* trigger, filter and action of a contract
    Original,       \* [CContract -> CTerms]: the terms its id is a digest of
    NoContract,
    CCaller,        \* administrator requests that run at the same time
    CEvent,         \* events: [kind, tag, count]
    Quantity,       \* transferred amounts, in units of 10^-8
    Hook,           \* webhook subscriptions
    HookTag,        \* [Hook -> the address it subscribes to]
    StreamTags,     \* addresses of an event stream
    BusCapacity, MaxHooks, MaxAttempts, MaxDeliveries, \* limits of the code
    MaxEvents, MaxContractCalls    \* bounds

ASSUME ContractAssumption == {BusCapacity, MaxAttempts, MaxEvents} \subseteq Nat

Bps == 10000

VARIABLES
    ctStore,    \* column family "contracts"
    ctCall,     \* caller -> the copy it read and what it will write
    ctCalls,    \* calls made so far
    ctQuotes,   \* what the last transfer was charged, per contract
    ctBus,      \* events emitted since the start of the process
    ctRead,     \* subscriber -> events it has passed
    ctFeed,     \* what an event stream sent: event numbers, 0 for a warning
    ctSkipped,  \* burns the listener skipped
    ctRefunds,  \* event -> contract -> what the listener credited, in order
    ctSeen,     \* history: event -> the contracts the listener found for it
    ctHooks,    \* subscriptions: [ok, failed], in memory
    ctJobs,     \* deliveries: [hook, event, tries, running]
    ctMatched,  \* history: events matched per subscription
    ctHeard     \* history: <<hook, event>> the receiver has seen

ctBusVars == <<ctBus, ctRead, ctFeed, ctSkipped, ctRefunds, ctSeen>>
ctHookVars == <<ctHooks, ctJobs, ctMatched, ctHeard>>
ctAdmin == <<ctStore, ctCall, ctCalls, ctQuotes>>
ctVars == <<ctAdmin, ctBusVars, ctHookVars>>

Subscriber == {"contracts", "webhooks", "stream"}

NoCall == [op |-> "none"]
NoQuotes == [c \in CContract |-> <<>>]
NoneStored == [c \in CContract |-> NoContract]
NoHook == [ok |-> 0, failed |-> 0, on |-> FALSE]

ContractInit ==
    /\ ctStore = NoneStored
    /\ ctCall = [k \in CCaller |-> NoCall] /\ ctCalls = 0
    /\ ctQuotes = [amount |-> 0, paid |-> NoQuotes, forecast |-> NoQuotes, store |-> ctStore]
    /\ ctBus = <<>> /\ ctRead = [s \in Subscriber |-> 0] /\ ctFeed = <<>>
    /\ ctSkipped = {}
    /\ ctRefunds = [i \in 1..MaxEvents |-> NoQuotes]
    /\ ctSeen = [i \in 1..MaxEvents |-> NoneStored]
    /\ ctHooks = [h \in Hook |-> NoHook]
    /\ ctJobs = {} /\ ctMatched = [h \in Hook |-> {}] /\ ctHeard = {}

-----------------------------------------------------------------------------
(* The engine.                                                             *)

\* Decimal::round_dp(8): half to even.
RoundDp(a, b) ==
    LET low == a \div b
        rest == a % b
    IN IF 2 * rest > b \/ (2 * rest = b /\ low % 2 = 1) THEN low + 1 ELSE low

\* ContractAction::validate.
ValidTerms(t) ==
    CASE t.trigger = "transfer" ->
            /\ t.shares # <<>> /\ \A i \in DOMAIN t.shares : t.shares[i] > 0
            /\ FoldSeq(+, 0, t.shares) = Bps
      [] t.trigger = "burn" -> t.asset # "native"
      [] OTHER -> t.den # 0

\* Mutant: a contract that was switched off goes on.
EnabledOrNot(store) == {c \in CContract : store[c] # NoContract}

Enabled(store) == {c \in CContract : store[c] # NoContract /\ store[c].enabled}

Matching(store, trigger, tag) ==
    {c \in Enabled(store) : LET t == store[c].terms
                            IN t.trigger = trigger /\ t.filter \in {"any", tag}}

\* evaluate_transfer_formula: a percentage over 100 % is an error and charges nothing.
TransferFee(t, amount) == IF t.bps > Bps THEN 0 ELSE RoundDp(amount * t.bps, Bps)

\* Mutant: every beneficiary gets its rounded share.
SplitEvenly(total, shares) ==
    SelectSeq([i \in 1..Len(shares) |-> RoundDp(total * shares[i], Bps)], LAMBDA p : p > 0)

\* The last beneficiary takes what the others leave; only positive parts are charged.
Split(total, shares) ==
    LET n == Len(shares)
        first == [i \in 1..n - 1 |-> RoundDp(total * shares[i], Bps)]
        parts == [i \in 1..n |-> IF i < n THEN first[i] ELSE total - FoldSeq(+, 0, first)]
    IN SelectSeq(parts, LAMBDA p : p > 0)

ChargeOf(t, amount) ==
    IF TransferFee(t, amount) = 0 THEN <<>> ELSE Split(TransferFee(t, amount), t.shares)

EvaluateTransfer(store, amount, tag) ==
    [c \in CContract |-> IF c \in Matching(store, "transfer", tag)
                         THEN ChargeOf(store[c].terms, amount) ELSE <<>>]

\* evaluate_formula: a zero divisor or a missing attribute is an error and refunds nothing.
RefundOf(t, count) == IF t.den = 0 \/ t.missing THEN 0 ELSE RoundDp(count * t.num, t.den)

EvaluateNftBurn(store, e) ==
    {c \in Matching(store, "burn", e.tag) : RefundOf(store[c].terms, e.count) > 0}

\* simulate_contract: the candidate, switched on, among copies of the stored ones.
Simulate(store, c, t, amount, tag) ==
    EvaluateTransfer([store EXCEPT ![c] = [terms |-> t, enabled |-> TRUE, version |-> 1]],
                     amount, tag)[c]

\* A transfer or a quotation is priced with the contracts of this moment; the
\* simulation of each contract is kept beside it.
PriceTransfer(amount, tag) ==
    /\ ctQuotes' = [amount |-> amount, store |-> ctStore,
                    paid |-> EvaluateTransfer(ctStore, amount, tag),
                    forecast |-> [c \in CContract |-> Simulate(ctStore, c, Original[c], amount, tag)]]
    /\ UNCHANGED <<ctStore, ctCall, ctCalls, ctBusVars, ctHookVars>>

-----------------------------------------------------------------------------
(* Administration.  Nothing locks a contract between a read and a write.   *)

Calls == ctCalls < MaxContractCalls /\ ctCalls' = ctCalls + 1

\* The id is a digest of name, trigger and actions: registering the same contract
\* again writes over it, updates included.
RegisterContract(c, on) ==
    /\ Calls /\ ValidTerms(Original[c])
    /\ ctStore' = [ctStore EXCEPT ![c] = [terms |-> Original[c], enabled |-> on, version |-> 1]]
    /\ UNCHANGED <<ctCall, ctQuotes, ctBusVars, ctHookVars>>

\* toggle_contract and update_contract read the record ...
ReadContract(k, c, op) ==
    /\ Calls /\ ctCall[k] = NoCall /\ ctStore[c] # NoContract
    /\ op.op = "update" => ValidTerms(op.terms) /\ op.terms.trigger = ctStore[c].terms.trigger
    /\ ctCall' = [ctCall EXCEPT ![k] = [op |-> op.op, contract |-> c, read |-> ctStore[c],
                                        asked |-> op]]
    /\ UNCHANGED <<ctStore, ctQuotes, ctBusVars, ctHookVars>>

\* ... and write it back changed.
WriteContract(k) ==
    /\ ctCall[k] # NoCall
    /\ LET r == ctCall[k]
           new == IF r.op = "toggle" THEN [r.read EXCEPT !.enabled = r.asked.enabled]
                  ELSE [r.read EXCEPT !.terms = r.asked.terms, !.version = @ + 1]
       IN ctStore' = [ctStore EXCEPT ![r.contract] = new]
    /\ ctCall' = [ctCall EXCEPT ![k] = NoCall]
    /\ UNCHANGED <<ctCalls, ctQuotes, ctBusVars, ctHookVars>>

-----------------------------------------------------------------------------
(* The bus and the contract listener.                                      *)

Emit(e) ==
    /\ Len(ctBus) < MaxEvents
    /\ ctBus' = Append(ctBus, e)
    /\ UNCHANGED <<ctAdmin, ctRead, ctFeed, ctSkipped, ctRefunds, ctSeen, ctHookVars>>

Behind(s) == Len(ctBus) - ctRead[s]

\* Mutant: a slow subscriber jumps to the end of the bus.
ResumeAtEnd(s) == Len(ctBus)

\* Lagged: the subscriber goes on with the oldest event the bus still has.
ResumeAt(s) == Len(ctBus) - BusCapacity

Lagged(s) ==
    /\ Behind(s) > BusCapacity
    /\ ctRead' = [ctRead EXCEPT ![s] = ResumeAt(s)]
    /\ ctSkipped' = IF s = "contracts" THEN ctSkipped \cup ctRead[s] + 1..ResumeAt(s) ELSE ctSkipped
    /\ ctFeed' = IF s = "stream" THEN Append(ctFeed, 0) ELSE ctFeed
    /\ UNCHANGED <<ctAdmin, ctBus, ctRefunds, ctSeen, ctHookVars>>

\* add_burn_refund, for each refund of the evaluation.
AddRefunds(credits, store, e) ==
    [c \in CContract |-> IF c \in EvaluateNftBurn(store, e)
                         THEN Append(credits[c], RefundOf(store[c].terms, e.count)) ELSE credits[c]]

\* When the lookup of the contracts fails, the error is logged and none applies.
ListenerStep ==
    /\ Behind("contracts") \in 1..BusCapacity
    /\ ctRead' = [ctRead EXCEPT !["contracts"] = @ + 1]
    /\ LET i == ctRead["contracts"] + 1
       IN IF ctBus[i].kind = "burn"
          THEN \E found \in {ctStore, NoneStored} :
                 /\ ctSeen' = [ctSeen EXCEPT ![i] = found]
                 /\ ctRefunds' = [ctRefunds EXCEPT ![i] = AddRefunds(@, found, ctBus[i])]
          ELSE UNCHANGED <<ctRefunds, ctSeen>>
    /\ UNCHANGED <<ctAdmin, ctBus, ctFeed, ctSkipped, ctHookVars>>

Streamed(e) == e.kind = "block" /\ e.tag \in StreamTags

\* stream_wallet_activity, stream_multi_address_activity: the blocks of its addresses.
StreamStep ==
    /\ Behind("stream") \in 1..BusCapacity
    /\ ctRead' = [ctRead EXCEPT !["stream"] = @ + 1]
    /\ LET i == ctRead["stream"] + 1
       IN ctFeed' = IF Streamed(ctBus[i]) THEN Append(ctFeed, i) ELSE ctFeed
    /\ UNCHANGED <<ctAdmin, ctBus, ctSkipped, ctRefunds, ctSeen, ctHookVars>>

-----------------------------------------------------------------------------
(* Webhooks.                                                               *)

Subscribe(h) ==
    /\ ctMatched[h] = {} /\ ~ctHooks[h].on
    /\ Cardinality({g \in Hook : ctHooks[g].on}) < MaxHooks
    /\ ctHooks' = [ctHooks EXCEPT ![h] = [NoHook EXCEPT !.on = TRUE]]
    /\ UNCHANGED <<ctAdmin, ctBusVars, ctJobs, ctMatched, ctHeard>>

\* Deliveries under way go on with their copy of the subscription.
Unsubscribe(h) ==
    /\ ctHooks[h].on /\ ctMatched[h] # {}
    /\ ctHooks' = [ctHooks EXCEPT ![h].on = FALSE]
    /\ UNCHANGED <<ctAdmin, ctBusVars, ctJobs, ctMatched, ctHeard>>

\* run_delivery_loop: one task per subscription that the block concerns.
HookLoopStep ==
    /\ Behind("webhooks") \in 1..BusCapacity
    /\ ctRead' = [ctRead EXCEPT !["webhooks"] = @ + 1]
    /\ LET i == ctRead["webhooks"] + 1
           hit == {h \in Hook : ctHooks[h].on /\ ctBus[i].kind = "block" /\ ctBus[i].tag = HookTag[h]}
       IN /\ ctJobs' = ctJobs \cup {[hook |-> h, event |-> i, tries |-> 0, running |-> FALSE] : h \in hit}
          /\ ctMatched' = [h \in Hook |-> IF h \in hit THEN ctMatched[h] \cup {i} ELSE ctMatched[h]]
    /\ UNCHANGED <<ctAdmin, ctBus, ctFeed, ctSkipped, ctRefunds, ctSeen, ctHooks, ctHeard>>

\* A permit of the semaphore.
StartDelivery(j) ==
    /\ ~j.running
    /\ Cardinality({i \in ctJobs : i.running}) < MaxDeliveries
    /\ ctJobs' = (ctJobs \ {j}) \cup {[j EXCEPT !.running = TRUE]}
    /\ UNCHANGED <<ctAdmin, ctBusVars, ctHooks, ctMatched, ctHeard>>

\* Mutant: only a success is counted.
CountSuccess(h, field) ==
    IF ctHooks[h].on /\ field = "ok" THEN [ctHooks EXCEPT ![h].ok = @ + 1] ELSE ctHooks

Counted(r, field) ==
    [ok |-> r.ok + (IF field = "ok" THEN 1 ELSE 0),
     failed |-> r.failed + (IF field = "failed" THEN 1 ELSE 0), on |-> r.on]

Count(h, field) == IF ctHooks[h].on THEN [ctHooks EXCEPT ![h] = Counted(@, field)] ELSE ctHooks

GivesUp(tries) == tries + 1 >= MaxAttempts

\* deliver_one: an answer 2xx ends it; anything else is retried, then counted.
Attempt(j) ==
    /\ j.running
    /\ \/ /\ ctJobs' = ctJobs \ {j}
          /\ ctHooks' = Count(j.hook, "ok")
          /\ ctHeard' = ctHeard \cup {<<j.hook, j.event>>}
       \/ /\ ctJobs' = (ctJobs \ {j}) \cup
                        (IF GivesUp(j.tries) THEN {} ELSE {[j EXCEPT !.tries = j.tries + 1]})
          /\ ctHooks' = IF GivesUp(j.tries) THEN Count(j.hook, "failed") ELSE ctHooks
          /\ ctHeard' \in {ctHeard, ctHeard \cup {<<j.hook, j.event>>}} \* the answer may be lost
    /\ UNCHANGED <<ctAdmin, ctBusVars, ctMatched>>

-----------------------------------------------------------------------------
Operations == [op : {"toggle"}, enabled : BOOLEAN] \cup [op : {"update"}, terms : CTerms]

ContractNext ==
    \/ \E c \in CContract, on \in BOOLEAN : RegisterContract(c, on)
    \/ \E k \in CCaller, c \in CContract, op \in Operations : ReadContract(k, c, op)
    \/ \E k \in CCaller : WriteContract(k)
    \/ \E amount \in Quantity : PriceTransfer(amount, "any")
    \/ \E e \in CEvent : Emit(e)
    \/ \E s \in Subscriber : Lagged(s)
    \/ ListenerStep \/ StreamStep \/ HookLoopStep
    \/ \E h \in Hook : Subscribe(h) \/ Unsubscribe(h)
    \/ \E j \in ctJobs : StartDelivery(j) \/ Attempt(j)

-----------------------------------------------------------------------------
\* The beneficiaries together get the fee of the contract, to the last unit, as long
\* as there are at most three of them; with more, the rounded shares can exceed the
\* fee (the last part would be negative and is left out), by less than one unit per
\* two beneficiaries.  And a simulation announces what the contract then charges.
FeesExact ==
    \A c \in CContract :
        LET paid == ctQuotes.paid[c]
            t == ctQuotes.store[c].terms
            over == FoldSeq(+, 0, paid) - TransferFee(t, ctQuotes.amount)
        IN paid # <<>> =>
            /\ Len(t.shares) <= 3 => over = 0
            /\ over >= 0 /\ 2 * over < Len(t.shares)
            /\ t = Original[c] => paid = ctQuotes.forecast[c]

\* What contract c of that moment is to credit for burn e: one refund, or none.
Due(store, c, e) ==
    IF /\ store[c] # NoContract /\ store[c].enabled
       /\ store[c].terms.trigger = "burn" /\ store[c].terms.filter \in {"any", e.tag}
       /\ RefundOf(store[c].terms, e.count) > 0
    THEN <<RefundOf(store[c].terms, e.count)>> ELSE <<>>

Evaluated(i) == i \in 1..ctRead["contracts"] \ ctSkipped /\ ctBus[i].kind = "burn"

BurnsSettled ==
    /\ \A i \in ctSkipped : i + BusCapacity <= Len(ctBus)
    /\ \A i \in 1..MaxEvents, c \in CContract :
           ctRefunds[i][c] = IF Evaluated(i) THEN Due(ctSeen[i], c, ctBus[i]) ELSE <<>>

LastBefore(i) == LET sent == {j \in 1..i - 1 : ctFeed[j] # 0}
                 IN IF sent = {} THEN 0 ELSE ctFeed[Max(sent)]

StreamTold ==
    \A i \in DOMAIN ctFeed : ctFeed[i] # 0 =>
        \/ i > 1 /\ ctFeed[i - 1] = 0
        \/ \A e \in LastBefore(i) + 1..ctFeed[i] - 1 : ~Streamed(ctBus[e])

\* A subscriber misses an event only when it fell a whole bus behind it: a burn then
\* goes without its refunds.  For every other burn the listener has passed, each
\* contract it found has credited exactly once what its terms of that moment say, and
\* nothing when it was switched off; nothing else is refunded.  And a stream that
\* misses a block of its addresses sends a warning first.
SubscribersTold == BurnsSettled /\ StreamTold

\* Every event a live subscription matched is being delivered, or counted as delivered
\* or as failed; and an event counted as delivered was received.
HooksSettled ==
    \A h \in Hook : ctHooks[h].on =>
        /\ ctHooks[h].ok + ctHooks[h].failed + Cardinality({j \in ctJobs : j.hook = h})
                = Cardinality(ctMatched[h])
        /\ ctHooks[h].ok <= Cardinality({e \in ctMatched[h] : <<h, e>> \in ctHeard})

\* Whoever listens on the bus: the contract listener, the streams and the webhooks.
EventsDelivered == SubscribersTold /\ HooksSettled

-----------------------------------------------------------------------------
(* The machine, and the invariants of the proofs.                          *)

ContractSpec == ContractInit /\ [][ContractNext]_ctVars

JobType == [hook : Hook, event : Nat, tries : Nat, running : BOOLEAN]

BusTypes ==
    /\ ctBus \in Seq(CEvent) /\ Len(ctBus) <= MaxEvents /\ ctFeed \in Seq(Nat)
    /\ DOMAIN ctRefunds = 1..MaxEvents /\ DOMAIN ctSeen = 1..MaxEvents
    /\ ctRead \in [Subscriber -> Nat] /\ \A s \in Subscriber : ctRead[s] <= Len(ctBus)
    /\ ctJobs \subseteq JobType
    /\ ctHooks \in [Hook -> [ok : Nat, failed : Nat, on : BOOLEAN]]
    /\ ctMatched \in [Hook -> SUBSET Nat]

\* What the listener skipped lies behind it.
SkippedBehind == \A i \in ctSkipped : i \in Nat /\ i <= ctRead["contracts"]

\* After a stream's last event, or its last warning, nothing of its addresses
\* has gone by.
StreamAbreast ==
    /\ \A i \in DOMAIN ctFeed : ctFeed[i] <= ctRead["stream"]
    /\ \/ Len(ctFeed) > 0 /\ ctFeed[Len(ctFeed)] = 0
       \/ \A e \in LastBefore(Len(ctFeed) + 1) + 1..ctRead["stream"] : ~Streamed(ctBus[e])

JobsOf(h) == {j \in ctJobs : j.hook = h}
UnderWay(h) == {j.event : j \in JobsOf(h)}
Done(h) == ctMatched[h] \ UnderWay(h)
HeardOf(h, S) == {e \in S : <<h, e>> \in ctHeard}

\* One delivery for each matched event; the counters of a live subscription
\* count those that are over.
OneJob(h) ==
    /\ ctMatched[h] \subseteq 1..ctRead["webhooks"] /\ UnderWay(h) \subseteq ctMatched[h]
    /\ \A i, j \in JobsOf(h) : i.event = j.event => i = j
    /\ ctHooks[h].on => /\ ctHooks[h].ok + ctHooks[h].failed = Cardinality(Done(h))
                        /\ ctHooks[h].ok <= Cardinality(HeardOf(h, Done(h)))

OneJobEach == \A h \in Hook : OneJob(h)

Delivered == BusTypes /\ SkippedBehind /\ BurnsSettled /\ StreamAbreast /\ StreamTold /\ OneJobEach
=============================================================================
