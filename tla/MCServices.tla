----------------------------- MODULE MCServices -----------------------------
(***************************************************************************)
(* An instance of ApiService, Contracts and Activity.  The parts share     *)
(* nothing and are explored one at a time: a behaviour is of one part.     *)
(***************************************************************************)
EXTENDS ApiService, Contracts, Activity

CONSTANTS k1, k2, x1, c1, c2, h1, h2

With(k) == [Anonymous EXCEPT !.secret = k]

UnsignedAdmin == [With(x1) EXCEPT !.admin = TRUE, !.signed = FALSE]

Callers ==
    {Anonymous, With(k1), With(x1), [With(k1) EXCEPT !.scoped = FALSE], UnsignedAdmin,
     [Anonymous EXCEPT !.local = TRUE]}

Charge(shares, bps) == [trigger |-> "transfer", filter |-> "any", bps |-> bps, shares |-> shares]
Three == Charge(<<3333, 3333, 3334>>, 5000)
Five == Charge(<<2000, 2000, 2000, 2000, 2000>>, 10000)
Cube == [trigger |-> "burn", filter |-> "cube", asset |-> "custom", num |-> 1, den |-> 2,
         missing |-> FALSE]
Terms == {Three, Five, Charge(<<5000>>, 100), Cube, [Cube EXCEPT !.asset = "native"]}
Registered == (c1 :> Three) @@ (c2 :> Cube)
Events == {[kind |-> "burn", tag |-> "cube", count |-> 2], [kind |-> "block", tag |-> "a", count |-> 0]}
Tags == [h \in {h1, h2} |-> "a"]

Pay(kind, from, outs) == [kind |-> kind, from |-> from, outs |-> outs, fees |-> <<>>, feeOnly |-> {},
                          type |-> "none", category |-> "none"]
Contents == <<[Pay("reward", "none", <<"me">>) EXCEPT !.fees = <<"me">>],
              Pay("tx", "me", <<"you", "me">>),
              Pay("mint", "none", <<"me">>),
              [Pay("tx", "me", <<"you", "me">>) EXCEPT !.feeOnly = {"me"}],
              Pay("seize", "me", <<"me", "you">>),
              Pay("market", "you", <<"you", "me">>),
              [Pay("nft_mint", "me", <<>>) EXCEPT !.type = "nft_mint", !.category = "Nft"]>>
Asked == {{}, {"reward", "fee_received"}, {"transfer_out"}, {"seize_received"},
          {"royalty_received", "mint"}, {"nft_mint"}}

Symmetric == Permutations(Request)

VARIABLE part

serviceVars == <<svVars, ctVars, acVars, part>>

\* "keys": the life of the API keys, seen by one request at a time.
\* "flow": two requests at once, the keys given out and left alone.
\* "prices": contracts administered while transfers are priced.
\* "refunds": contracts administered while the listener reads the bus.
\* "hooks": webhooks over the bus.
\* "walks": two walks through a listing with its cache; "tasks": one walk during a
\*     purge or a re-indexing.
Init ==
    /\ ServiceInit /\ ContractInit /\ ActivityInit
    /\ part \in {"keys", "flow", "prices", "refunds", "hooks", "walks", "tasks"}
    /\ part # "keys" => ~svDev /\ svKeys # EmptyStore

-----------------------------------------------------------------------------
(* The bounds of each part, on the state a step leads to.                  *)

Asking == {r \in Request : svReq'[r] # NoReq}

\* A block with inputs that stays in the window: what becomes of the others is in "flow".
KeysBound ==
    /\ Cardinality(Asking) <= 1 /\ svArms' = svArms
    /\ \A r \in Asking : svReq'[r].block \in Spending
    /\ svStored' = {} /\ svWindow' = svKept'

\* A caller that its first layer refuses changes nothing for another, and a local one
\* passes where the administrator does: both are in "keys".
FlowBound ==
    /\ svCalls' = svCalls
    /\ \A r \in Asking : svReq'[r].cred \in {Anonymous, With(k1), UnsignedAdmin}
    /\ svRestarts' > 0 => svArms' = 0

PricesBound == ctBus' = ctBus /\ ctHooks' = ctHooks

RefundsBound ==
    /\ ctQuotes' = ctQuotes /\ ctHooks' = ctHooks /\ ctCalls' <= 2
    /\ ctRead'["webhooks"] = 0

\* Two subscriptions contend for the permit over two events; a third event overruns
\* the bus, for one of them.
Served == {h \in Hook : ctHooks'[h].on \/ ctMatched'[h] # {}}

HooksBound ==
    /\ ctQuotes' = ctQuotes /\ ctStore' = ctStore /\ ctCall' = ctCall
    /\ ctRead'["contracts"] = 0 /\ ctRead'["stream"] = 0
    /\ Len(ctBus') > 2 => Cardinality(Served) <= 1

\* Blocks the behaviour has so far.
Seen == {b \in ABlock : acStored'[b] # 0} \cup acSealing' \cup {k[2] : k \in acIndex'}

AskedTwice == {{}, {"reward", "fee_received"}}

\* One walk over the first three blocks, or over any block beside the first; two
\* walks, the second over the pages of the first, over two blocks.
WalksBound ==
    /\ acSweeps' = 0 /\ acClock' <= 2
    /\ Seen \subseteq {1, 2, 3} \/ (Cardinality(Seen \ {1}) <= 1 /\ acWalks' <= 1)
    /\ acWalks' > 1 => /\ Cardinality(Seen) <= 2
                       /\ acWalk'.filter = acWalk.filter /\ acWalk'.limit = acWalk.limit
                       /\ acWalk'.filter \in AskedTwice

\* A purge needs three instants to find something old; a re-indexing, and a purge
\* that finds nothing, have two.
TasksBound ==
    /\ acWalks' <= 1 /\ Seen \subseteq {1, 2}
    /\ acSweeps' = 1 /\ acExpired' = 0 => acClock' <= 2
    /\ acWalks' = 1 => /\ acWalk'.limit = 1 /\ acWalk'.filter \in AskedTwice
                       /\ acWalk'.filter # {} => Seen \subseteq {1}

Next ==
    /\ UNCHANGED part
    /\ \/ /\ part \in {"keys", "flow"} /\ ServiceNext /\ UNCHANGED <<ctVars, acVars>>
          /\ part = "keys" => KeysBound
          /\ part = "flow" => FlowBound
       \/ /\ part \in {"prices", "refunds", "hooks"} /\ ContractNext /\ UNCHANGED <<svVars, acVars>>
          /\ part = "prices" => PricesBound
          /\ part = "refunds" => RefundsBound
          /\ part = "hooks" => HooksBound
       \/ /\ part \in {"walks", "tasks"} /\ ActivityNext /\ UNCHANGED <<svVars, ctVars>>
          /\ part = "walks" => WalksBound
          /\ part = "tasks" => TasksBound

Spec == Init /\ [][Next]_serviceVars
=============================================================================
