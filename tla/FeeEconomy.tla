----------------------------- MODULE FeeEconomy -----------------------------
(***************************************************************************)
(* Where fees go: the fee pool and its distribution (fee_pool.rs,          *)
(* fee_distribution/, api/tasks.rs), the registry of nodes that says which *)
(* wallet a share is paid to (node_registry.rs, api_fn/nodes.rs), the gas  *)
(* pools and the durable counters (gas_pool_storage.rs,                    *)
(* node_rewards_storage.rs) and the rewards of a milestone.                *)
(*                                                                         *)
(* A distribution empties the pool, then counts the burn, reads the        *)
(* registry and submits a block, with an await between any two: new fees   *)
(* arrive, the other distributor runs, the HTTP request is dropped or the  *)
(* process ends in between.  The durable counters are read and written     *)
(* back without a lock.  An accepted reward block is paid for good here:   *)
(* what a crash does to it is PersistPipeline's.                           *)
(***************************************************************************)
EXTENDS Integers, FiniteSets, FiniteSetsExt, Functions

CONSTANTS
    FeeNode, SelfNode,  \* nodes that produce blocks; this one
    LedgerOwner,        \* owner_pubkey of the ledger
    PayWallet, Burner,  \* wallets; those that are owed refunds
    SelfWallet, OwnerWallet, TreasuryChoice,
    NoWallet,           \* none given, none configured
    Distributor, Http,  \* the periodic task and the admin route; the route
    FeeSizes,           \* amounts of a fee or a refund
    GlobalBurn, LedgerBurn, RuntimeBurn, \* burn_rate_bps: settings, override, runtime
    BpsScale,           \* 10_000
    TreasuryPct, PctScale, \* treasury_fee_percent, 100
    FreshnessMs, NodeTtl,  \* REGISTER_FRESHNESS_MS, NODE_TTL_SECONDS
    MaxNodes,           \* MAX_REGISTERED_NODES
    GasPerTx, GasMin,   \* gas_per_tx, gas_pool_min_balance
    GasSizes,           \* amounts of deposits and withdrawals
    CellThread,         \* requests that update a durable counter
    MaxFees, MaxRefunds, MaxCounted, MaxSigned, MaxClock, MaxCellOps, MaxFeeBoots \* bounds

NoTime == -1
NotSet == -1

ASSUME FeeAssumption ==
    /\ SelfNode \in FeeNode
    /\ IsFiniteSet(FeeNode) /\ IsFiniteSet(Burner) /\ IsFiniteSet(Distributor)
    /\ FeeSizes \cup GasSizes \subseteq Nat
    /\ NoWallet \notin PayWallet
    /\ {SelfWallet, OwnerWallet} \subseteq PayWallet
    /\ TreasuryChoice \subseteq PayWallet \cup {NoWallet}
    /\ Http \in Distributor /\ Distributor \cap CellThread = {}
    /\ {GlobalBurn, BpsScale, TreasuryPct, PctScale, FreshnessMs, NodeTtl, MaxNodes,
        GasPerTx, GasMin, MaxFees, MaxRefunds, MaxCounted, MaxSigned, MaxClock, MaxCellOps, MaxFeeBoots} \subseteq Nat
    /\ LedgerBurn \in Nat \cup {NotSet} /\ RuntimeBurn \subseteq Nat
    /\ TreasuryPct <= PctScale /\ BpsScale > 0 /\ PctScale > 0
    /\ GasPerTx > 0
    /\ NodeTtl > 2 * FreshnessMs  \* 86_400 s and 300 s

Cell == {"gas", "node_fee_pool", "total_burned"}

VARIABLES
    fePool,      \* FeePool: total_fees, node_contributions, burn_refunds
    feSnap,      \* snapshot a distribution took of it
    fePc, feOuts, \* step of each distributor; outputs it will mint
    feBurnRate,  \* burn_rate_bps of the runtime configuration
    feTreasury,  \* treasury_wallets, or treasury_addresses: fixed at start
    feArmed,     \* read-only mode
    feRegistry,  \* node -> wallet, last_seen, last_auth_ts
    feSigned,    \* registrations a node signed, which the network may repeat
    feClock,
    feCell,      \* durable counters
    feRead,      \* the counter a request is changing, as it read it
    feMiners,    \* node_block_counts
    feRamCoins,  \* rewards of milestones, in the UTXO cache only
    \* History:
    feCollected, feOwed,       \* fees added; refunds added per wallet
    fePaid, feRefunded,        \* fees and refunds minted by accepted blocks
    feBurnt, feLost, feUnpaid, \* burnt with an accepted block; fees, refunds lost
    feShares,                  \* node shares in accepted blocks
    feNewest,                  \* newest signed registration accepted since start
    feNet, feRaced,            \* completed updates of a counter; overlapping ones
    feOps, feBoots

feDistVars == <<fePool, feSnap, fePc, feOuts>>
feNodeVars == <<feRegistry, feSigned, feClock, feNewest>>
feCellVars == <<feCell, feRead, feMiners, feRamCoins, feNet, feRaced, feOps>>
feHistory  == <<feCollected, feOwed, fePaid, feRefunded, feBurnt, feLost, feUnpaid, feShares>>
feVars == <<feDistVars, feNodeVars, feCellVars, feHistory, feTreasury, feBurnRate, feArmed, feBoots>>

EmptyPool == [fees |-> 0, by |-> [n \in FeeNode |-> 0], refunds |-> [w \in Burner |-> 0]]
NoOuts == [refunds |-> [w \in Burner |-> 0], fees |-> 0, burnt |-> 0, skipped |-> 0, shares |-> 0]
NotRegistered == [wallet |-> NoWallet, seen |-> NoTime, auth |-> NoTime]
NoUpdate == [cell |-> "none"]

\* What the distributions under way have taken out of the pool.
SnapFees == [d \in Distributor |-> feSnap[d].fees]
SnapRefunds(w) == [d \in Distributor |-> feSnap[d].refunds[w]]

FeeInit ==
    /\ fePool = EmptyPool
    /\ feSnap = [d \in Distributor |-> EmptyPool]
    /\ fePc = [d \in Distributor |-> "idle"]
    /\ feOuts = [d \in Distributor |-> NoOuts]
    /\ feBurnRate = 0
    /\ feTreasury \in TreasuryChoice /\ feArmed = FALSE
    /\ feRegistry = [n \in FeeNode |-> NotRegistered]
    /\ feSigned = {} /\ feClock = 0
    /\ feCell = [c \in Cell |-> 0]
    /\ feRead = [t \in CellThread \cup Distributor |-> NoUpdate]
    /\ feMiners = [n \in FeeNode |-> 0]
    /\ feRamCoins = 0
    /\ feCollected = 0 /\ feOwed = [w \in Burner |-> 0]
    /\ fePaid = 0 /\ feRefunded = [w \in Burner |-> 0]
    /\ feBurnt = 0 /\ feLost = 0 /\ feUnpaid = [w \in Burner |-> 0] /\ feShares = 0
    /\ feNewest = [n \in FeeNode |-> NoTime]
    /\ feNet = [c \in Cell |-> 0] /\ feRaced = {}
    /\ feOps = 0 /\ feBoots = 0

-----------------------------------------------------------------------------
(* The pool.                                                               *)

Add(f, g) == [x \in DOMAIN f |-> f[x] + g[x]]

\* A mutant of MergeFrom: the refunds are forgotten.
MergeFeesOnly(pool, other) ==
    [fees |-> pool.fees + other.fees, by |-> Add(pool.by, other.by), refunds |-> pool.refunds]

\* FeePool::add_fee, add_burn_refund, merge_from, has_fees.
AddFee(pool, amt, n) == [pool EXCEPT !.fees = @ + amt, !.by[n] = @ + 1]
AddBurnRefund(pool, w, amt) == [pool EXCEPT !.refunds[w] = @ + amt]
MergeFrom(pool, other) ==
    [fees |-> pool.fees + other.fees, by |-> Add(pool.by, other.by), refunds |-> Add(pool.refunds, other.refunds)]
HasFees(pool) == pool.fees > 0 \/ \E w \in Burner : pool.refunds[w] > 0

\* accumulate_tx_fee: the beneficiary is this node on the main ledger, its
\* owner on another one; the fee is credited after the block was accepted.
AccumulateTxFee(n, amt) ==
    /\ feCollected + amt <= MaxFees
    /\ fePool' = AddFee(fePool, amt, n)
    /\ feCollected' = feCollected + amt
    /\ UNCHANGED <<feSnap, fePc, feOuts, feNodeVars, feCellVars, feOwed, fePaid, feRefunded,
                   feBurnt, feLost, feUnpaid, feShares, feBurnRate, feArmed, feBoots>>

\* The refund of an NFT burn, decided by a contract, waits in the pool.
AccumulateRefund(w, amt) ==
    /\ SumFunction(feOwed) + amt <= MaxRefunds
    /\ fePool' = AddBurnRefund(fePool, w, amt)
    /\ feOwed' = [feOwed EXCEPT ![w] = @ + amt]
    /\ UNCHANGED <<feSnap, fePc, feOuts, feNodeVars, feCellVars, feCollected, fePaid, feRefunded,
                   feBurnt, feLost, feUnpaid, feShares, feBurnRate, feArmed, feBoots>>

-----------------------------------------------------------------------------
(* The distribution.                                                       *)

\* round_dp: nearest, ties to even.
RoundShare(a, b) ==
    LET q == a \div b
        r == 2 * (a % b)
    IN IF r > b \/ (r = b /\ q % 2 = 1) THEN q + 1 ELSE q

\* resolve_effective_fees and load_burn_rate_bps: the runtime configuration,
\* else the override of the ledger, else the settings; at most the whole.
EffectiveBurn == IF LedgerBurn = NotSet THEN GlobalBurn ELSE LedgerBurn
LoadBurnRateBps == IF feBurnRate > 0 THEN feBurnRate ELSE EffectiveBurn
CalculateFeeBurn(total) == RoundShare(total * Min({LoadBurnRateBps, BpsScale}), BpsScale)
TreasuryCut(total) ==
    IF feTreasury = NoWallet THEN 0 ELSE RoundShare(total * TreasuryPct, PctScale)

\* calculate_shares: the part of n in what is left for the nodes.
ShareOf(pool, n, amount) ==
    LET blocks == SumFunction(pool.by)
    IN IF blocks = 0 THEN 0 ELSE RoundShare(amount * pool.by[n], blocks)

Active(n) == feRegistry[n].seen # NoTime /\ feClock - feRegistry[n].seen < NodeTtl

\* Who is paid the share of n: this node, the owner of the ledger, the wallet
\* of an active registration, the treasury, or nobody.
PayeeOf(n) ==
    IF n = SelfNode THEN SelfWallet
    ELSE IF n = LedgerOwner THEN OwnerWallet
    ELSE IF Active(n) /\ feRegistry[n].wallet # NoWallet THEN feRegistry[n].wallet
    ELSE feTreasury

\* The outputs of the reward block.
OutputsFor(pool, burnt) ==
    LET cut == TreasuryCut(pool.fees - burnt)
        rest == pool.fees - burnt - cut
        payable == {n \in FeeNode : ShareOf(pool, n, rest) > 0}
        paid == {n \in payable : PayeeOf(n) # NoWallet}
        worth(S) == SumFunctionOnSet([n \in FeeNode |-> ShareOf(pool, n, rest)], S)
    IN [refunds |-> pool.refunds, fees |-> cut + worth(paid), burnt |-> burnt,
        skipped |-> worth(payable \ paid), shares |-> Cardinality({n \in FeeNode : pool.by[n] > 0})]

\* A mutant: the pool is copied and emptied only when the block is accepted.
DistributeCopy(d) ==
    /\ fePc[d] = "idle" /\ ~feArmed
    /\ HasFees(fePool)
    /\ feSnap' = [feSnap EXCEPT ![d] = fePool]
    /\ fePc' = [fePc EXCEPT ![d] = "burn"]
    /\ UNCHANGED <<fePool, feOuts, feNodeVars, feCellVars, feHistory, feBurnRate, feArmed, feBoots>>

\* spawn_fee_distributor_task skips its tick while read-only is armed, and the
\* middleware refuses the admin route.  Without a parent nothing is touched;
\* else the pool is swapped for an empty one under its lock.
DistributeStart(d) ==
    /\ fePc[d] = "idle" /\ ~feArmed
    /\ HasFees(fePool)
    /\ feSnap' = [feSnap EXCEPT ![d] = fePool]
    /\ fePool' = EmptyPool
    /\ fePc' = [fePc EXCEPT ![d] = "burn"]
    /\ UNCHANGED <<feOuts, feNodeVars, feCellVars, feHistory, feBurnRate, feArmed, feBoots>>

\* increment_total_burned, before the block that burns: read, then write back.
\* A counter is raced while two requests hold it.
BeginUpdate(t, c, delta) ==
    /\ feRead' = [feRead EXCEPT ![t] = [cell |-> c, saw |-> feCell[c], delta |-> delta]]
    /\ feRaced' = feRaced \cup
         {c2 \in {c} : \E u \in DOMAIN feRead : u # t /\ feRead[u].cell = c2}

Commit(t) ==
    LET r == feRead[t]
    IN /\ feCell' = [feCell EXCEPT ![r.cell] = r.saw + r.delta]
       /\ feNet' = [feNet EXCEPT ![r.cell] = @ + r.delta]
       /\ feRead' = [feRead EXCEPT ![t] = NoUpdate]

CountBurn(d) ==
    /\ fePc[d] = "burn"
    /\ LET burnt == CalculateFeeBurn(feSnap[d].fees)
       IN /\ feOuts' = [feOuts EXCEPT ![d].burnt = burnt]
          /\ IF burnt = 0 THEN UNCHANGED feCellVars
             ELSE /\ BeginUpdate(d, "total_burned", burnt)
                  /\ UNCHANGED <<feCell, feMiners, feRamCoins, feNet, feOps>>
    /\ fePc' = [fePc EXCEPT ![d] = "counted"]
    /\ UNCHANGED <<fePool, feSnap, feNodeVars, feHistory, feBurnRate, feArmed, feBoots>>

Finish(d) ==
    /\ feSnap' = [feSnap EXCEPT ![d] = EmptyPool]
    /\ feOuts' = [feOuts EXCEPT ![d] = NoOuts]
    /\ fePc' = [fePc EXCEPT ![d] = "idle"]

\* The registry is read under its lock and the outputs are computed.  Nothing
\* to pay is an early success: the snapshot is not merged back.
BuildOutputs(d) ==
    /\ fePc[d] = "counted"
    /\ IF feRead[d] = NoUpdate THEN UNCHANGED feCellVars
       ELSE Commit(d) /\ UNCHANGED <<feMiners, feRamCoins, feRaced, feOps>>
    /\ LET out == OutputsFor(feSnap[d], feOuts[d].burnt)
       IN IF out.fees = 0 /\ SumFunction(out.refunds) = 0
          THEN feLost' = feLost + feSnap[d].fees /\ Finish(d)
          ELSE /\ feOuts' = [feOuts EXCEPT ![d] = out]
               /\ fePc' = [fePc EXCEPT ![d] = "persist"]
               /\ UNCHANGED <<feSnap, feLost>>
    /\ UNCHANGED <<fePool, feNodeVars, feCollected, feOwed, fePaid, feRefunded, feBurnt,
                   feUnpaid, feShares, feBurnRate, feArmed, feBoots>>

Settle(d) ==
    /\ fePaid' = fePaid + feOuts[d].fees
    /\ feRefunded' = Add(feRefunded, feOuts[d].refunds)
    /\ feBurnt' = feBurnt + feOuts[d].burnt
    /\ feLost' = feLost + feOuts[d].skipped
    /\ feShares' = feShares + feOuts[d].shares

\* persist_block answers Inserted.
RewardInserted(d) ==
    /\ fePc[d] = "persist"
    /\ Settle(d) /\ Finish(d)
    /\ UNCHANGED <<fePool, feNodeVars, feCellVars, feCollected, feOwed, feUnpaid,
                   feBurnRate, feArmed, feBoots>>

\* Rejected, AlreadyExists or an error: the snapshot goes back to the pool, and
\* the next distribution counts its burn again, without end but for the bound.
RewardRefused(d) ==
    /\ fePc[d] = "persist"
    /\ feCell["total_burned"] < MaxCounted
    /\ fePool' = MergeFrom(fePool, feSnap[d])
    /\ Finish(d)
    /\ UNCHANGED <<feNodeVars, feCellVars, feCollected, feOwed, fePaid, feRefunded, feBurnt,
                   feLost, feUnpaid, feShares, feBurnRate, feArmed, feBoots>>

\* The client of the admin route leaves: the handler is dropped at its next
\* await, the block accepted or not.
RequestDropped(d) ==
    /\ d = Http /\ fePc[d] \in {"counted", "persist"}
    /\ \/ /\ fePc[d] = "persist"
          /\ Settle(d) /\ UNCHANGED feUnpaid
       \/ /\ feLost' = feLost + feSnap[d].fees
          /\ feUnpaid' = Add(feUnpaid, feSnap[d].refunds)
          /\ UNCHANGED <<fePaid, feRefunded, feBurnt, feShares>>
    /\ Finish(d)
    /\ IF feRead[d] = NoUpdate THEN UNCHANGED feCellVars
       ELSE Commit(d) /\ UNCHANGED <<feMiners, feRamCoins, feRaced, feOps>>
    /\ UNCHANGED <<fePool, feNodeVars, feCollected, feOwed, feBurnRate, feArmed, feBoots>>

\* An operator or the resource guard arms and disarms read-only.
ToggleReadOnly ==
    /\ feArmed' = ~feArmed
    /\ UNCHANGED <<feDistVars, feNodeVars, feCellVars, feHistory, feBurnRate, feBoots>>

\* The burn rate of the runtime configuration is changed.
SetBurnRate(bps) ==
    /\ feBurnRate # bps /\ feBurnRate' = bps
    /\ UNCHANGED <<feDistVars, feNodeVars, feCellVars, feHistory, feArmed, feBoots>>

-----------------------------------------------------------------------------
(* The registry of nodes.                                                  *)

CleanupStale(reg) ==
    [n \in FeeNode |-> IF reg[n].seen # NoTime /\ feClock - reg[n].seen < NodeTtl THEN reg[n] ELSE NotRegistered]

Register(reg, n, w) ==
    [CleanupStale(reg) EXCEPT ![n].wallet = IF w = NoWallet THEN @ ELSE w, ![n].seen = feClock]

\* A node signs a registration or a heartbeat, its clock right or ahead.
SignRegistration(n, w, ts) ==
    /\ Cardinality(feSigned) < MaxSigned
    /\ \A m \in feSigned : ~(m.node = n /\ m.ts = ts)
    /\ feSigned' = feSigned \cup {[node |-> n, wallet |-> w, ts |-> ts]}
    /\ UNCHANGED <<feRegistry, feClock, feNewest, feDistVars, feCellVars, feHistory, feBurnRate, feArmed, feBoots>>

Fresh(m) == feClock - m.ts <= FreshnessMs /\ m.ts - feClock <= FreshnessMs

\* A mutant: only the freshness window guards against a replay.
NotReplayedFresh(m) == TRUE

NotReplayed(m) ==
    LET known == CleanupStale(feRegistry)
    IN IF known[m.node].seen # NoTime THEN m.ts > known[m.node].auth
       ELSE Cardinality({n \in FeeNode : known[n].seen # NoTime}) < MaxNodes

\* register_node and node_heartbeat with a signature: any message signed so
\* far, once or again.
RegisterSigned(m) ==
    /\ Fresh(m) /\ NotReplayed(m)
    /\ feRegistry' = [Register(feRegistry, m.node, m.wallet) EXCEPT ![m.node].auth = m.ts]
    /\ feNewest' = [feNewest EXCEPT ![m.node] = m.ts]
    /\ UNCHANGED <<feSigned, feClock, feDistVars, feCellVars, feHistory, feBurnRate, feArmed, feBoots>>

\* The admin path: no timestamp is checked and none is recorded.
RegisterAdmin(n, w) ==
    /\ feRegistry' = Register(feRegistry, n, w)
    /\ UNCHANGED <<feSigned, feClock, feNewest, feDistVars, feCellVars, feHistory, feBurnRate, feArmed, feBoots>>

FeeTick ==
    /\ feClock < MaxClock /\ feClock' = feClock + 1
    /\ UNCHANGED <<feRegistry, feSigned, feNewest, feDistVars, feCellVars, feHistory, feBurnRate, feArmed, feBoots>>

-----------------------------------------------------------------------------
(* Counters read and written back without a lock.                          *)

\* consume_gas before a transaction is validated, deposit_gas, withdraw_gas:
\* a refusal leaves the pool alone.  A mutant checks the floor only.
CanConsumeFloor(balance) == balance >= GasMin
CanConsume(balance) == balance >= GasPerTx /\ balance - GasPerTx >= GasMin

GasBegin(t) ==
    /\ feRead[t] = NoUpdate /\ feOps < MaxCellOps /\ feOps' = feOps + 1
    /\ \/ CanConsume(feCell["gas"]) /\ BeginUpdate(t, "gas", -GasPerTx)
       \/ \E amt \in GasSizes : BeginUpdate(t, "gas", amt)
       \/ \E amt \in GasSizes : feCell["gas"] >= amt /\ BeginUpdate(t, "gas", -amt)
    /\ UNCHANGED <<feCell, feMiners, feRamCoins, feNet, feDistVars, feNodeVars, feHistory, feBurnRate, feArmed, feBoots>>

\* add_to_fee_pool: the treasury share of a transaction.
RewardPoolBegin(t, amt) ==
    /\ feRead[t] = NoUpdate /\ feOps < MaxCellOps /\ feOps' = feOps + 1
    /\ BeginUpdate(t, "node_fee_pool", amt)
    /\ UNCHANGED <<feCell, feMiners, feRamCoins, feNet, feDistVars, feNodeVars, feHistory, feBurnRate, feArmed, feBoots>>

CellCommit(t) ==
    /\ feRead[t] # NoUpdate
    /\ Commit(t)
    /\ UNCHANGED <<feMiners, feRamCoins, feRaced, feOps, feDistVars, feNodeVars, feHistory, feBurnRate, feArmed, feBoots>>

\* increment_node_block_count, after an accepted block.
CountBlock(n) ==
    /\ feOps < MaxCellOps /\ feOps' = feOps + 1
    /\ feMiners' = [feMiners EXCEPT ![n] = @ + 1]
    /\ UNCHANGED <<feCell, feRead, feRamCoins, feNet, feRaced, feDistVars, feNodeVars, feHistory, feBurnRate, feArmed, feBoots>>

\* A milestone with distribute_node_rewards: the shares are rounded down, the
\* coins are added to the cache and to no delta, then the pool and the counts
\* are reset.  The write lock of finality keeps milestones apart, not the
\* transactions that add to the pool.
MilestoneRewards(t) ==
    LET pool == feCell["node_fee_pool"]
        blocks == SumFunction(feMiners)
        shares == MapThenSumSet(LAMBDA n : (pool * feMiners[n]) \div blocks, FeeNode)
    IN /\ feRead[t] = NoUpdate /\ pool > 0 /\ blocks > 0
       /\ BeginUpdate(t, "node_fee_pool", -pool)
       /\ feRamCoins' = feRamCoins + shares
       /\ feMiners' = [n \in FeeNode |-> 0]
       /\ UNCHANGED <<feCell, feNet, feOps, feDistVars, feNodeVars, feHistory, feBurnRate, feArmed, feBoots>>

\* The process ends and starts: memory is lost, the counters are not.
FeeRestart ==
    /\ feBoots < MaxFeeBoots /\ feBoots' = feBoots + 1
    /\ feLost' = feLost + fePool.fees + SumFunction(SnapFees)
    /\ feUnpaid' = [w \in Burner |->
         feUnpaid[w] + fePool.refunds[w] + SumFunction(SnapRefunds(w))]
    /\ fePool' = EmptyPool
    /\ feSnap' = [d \in Distributor |-> EmptyPool]
    /\ fePc' = [d \in Distributor |-> "idle"]
    /\ feOuts' = [d \in Distributor |-> NoOuts]
    /\ feArmed' = FALSE
    /\ feRegistry' = [n \in FeeNode |-> NotRegistered]
    /\ feNewest' = [n \in FeeNode |-> NoTime]
    /\ feRead' = [t \in DOMAIN feRead |-> NoUpdate]
    /\ feRamCoins' = 0
    /\ UNCHANGED <<feBurnRate, feSigned, feClock, feCell, feMiners, feNet, feRaced, feOps,
                   feCollected, feOwed, fePaid, feRefunded, feBurnt, feShares>>

FeeNext ==
    \/ \E n \in FeeNode, amt \in FeeSizes : AccumulateTxFee(n, amt)
    \/ \E w \in Burner, amt \in FeeSizes : AccumulateRefund(w, amt)
    \/ \E d \in Distributor : DistributeStart(d)
    \/ \E d \in Distributor : CountBurn(d)
    \/ \E d \in Distributor : BuildOutputs(d)
    \/ \E d \in Distributor : RewardInserted(d)
    \/ \E d \in Distributor : RewardRefused(d)
    \/ \E d \in Distributor : RequestDropped(d)
    \/ ToggleReadOnly
    \/ \E bps \in RuntimeBurn : SetBurnRate(bps)
    \/ FeeRestart

NodeNext ==
    \/ \E n \in FeeNode, w \in PayWallet \cup {NoWallet}, ts \in feClock .. feClock + FreshnessMs :
          SignRegistration(n, w, ts)
    \/ \E m \in feSigned : RegisterSigned(m)
    \/ \E n \in FeeNode, w \in PayWallet : RegisterAdmin(n, w)
    \/ FeeTick
    \/ FeeRestart

CellNext ==
    \/ \E t \in CellThread : GasBegin(t)
    \/ \E t \in CellThread, amt \in GasSizes : RewardPoolBegin(t, amt)
    \/ \E t \in CellThread : CellCommit(t)
    \/ \E n \in FeeNode : CountBlock(n)
    \/ \E t \in CellThread : MilestoneRewards(t)
    \/ FeeRestart

-----------------------------------------------------------------------------
(* Properties.                                                             *)

\* Every fee that was credited is in the pool, in a distribution under way,
\* paid, burnt, or lost for a reason the code has (nobody to pay, a dropped
\* request, a restart); rounding moves at most half a unit per share, in
\* either direction.  Two distributors, refusals, new fees during a
\* distribution: distribute.rs, swap and merge_from.
FeesAccounted ==
    LET held == fePool.fees + SumFunction(SnapFees)
        diff == feCollected - (held + fePaid + feBurnt + feLost)
    IN 2 * diff <= feShares /\ -2 * diff <= feShares

\* A refund is paid at most once, and only a restart or a dropped request
\* loses it: distribute.rs pays the refunds in the block of the fees.
RefundsPaidOnce ==
    \A w \in Burner :
        feOwed[w] = fePool.refunds[w] + SumFunction(SnapRefunds(w))
                    + feRefunded[w] + feUnpaid[w]

\* The pool as a whole: fees and refunds go through the same swap and merge.
PoolAccounted == FeesAccounted /\ RefundsPaidOnce

\* total_burned is written before the block that burns and is never behind the
\* burns of accepted blocks, and no more gas is consumed or withdrawn than was
\* deposited, unless two requests held the counter together.
CountersBacked ==
    /\ "total_burned" \in feRaced \/ feCell["total_burned"] >= feBurnt
    /\ "gas" \in feRaced \/ feNet["gas"] >= 0

\* A signed registration is never followed by one signed earlier for the same
\* node (a replay), while the process runs: try_register_authenticated
\* forgets a node after a day and refuses messages older than five minutes.
NewestRegistrationWins ==
    [][\A n \in FeeNode : feNewest'[n] >= feNewest[n] \/ feBoots' # feBoots]_feVars

-----------------------------------------------------------------------------
(* The three machines together, and the invariants of the proofs.          *)

FeeSpec == FeeInit /\ [][(FeeNext \/ NodeNext \/ CellNext) /\ UNCHANGED feTreasury]_feVars

PoolType == [fees : Nat, by : [FeeNode -> Nat], refunds : [Burner -> Nat]]
OutsType == [refunds : [Burner -> Nat], fees : Nat, burnt : Nat, skipped : Nat, shares : Nat]
RegistryType == [FeeNode -> [wallet : PayWallet \cup {NoWallet}, seen : Int, auth : Int]]
UpdateType == {NoUpdate} \cup [cell : Cell, saw : Int, delta : Int]

PoolTypes ==
    /\ fePool \in PoolType /\ feSnap \in [Distributor -> PoolType]
    /\ fePc \in [Distributor -> {"idle", "burn", "counted", "persist"}]
    /\ feOuts \in [Distributor -> OutsType]
    /\ feBurnRate \in Nat
    /\ {feCollected, fePaid, feBurnt, feLost, feShares} \subseteq Nat
    /\ {feOwed, feRefunded, feUnpaid} \subseteq [Burner -> Nat]

\* A fee is credited together with a block of its node, and a distribution
\* holds outputs that are worth its snapshot but for half a unit per share.
Credited(pool) == pool.fees > 0 => \E n \in FeeNode : pool.by[n] > 0

Balanced(fees, out) ==
    LET diff == fees - (out.fees + out.burnt + out.skipped)
    IN 2 * diff <= out.shares /\ -2 * diff <= out.shares

Distribution(d) ==
    /\ Credited(feSnap[d])
    /\ fePc[d] = "idle" => feSnap[d] = EmptyPool
    /\ fePc[d] = "counted" => feOuts[d].burnt <= feSnap[d].fees
    /\ fePc[d] = "persist" => /\ Balanced(feSnap[d].fees, feOuts[d])
                              /\ feOuts[d].refunds = feSnap[d].refunds

PoolInv == Credited(fePool) /\ \A d \in Distributor : Distribution(d)

CounterTypes ==
    /\ feCell \in [Cell -> Int] /\ feNet \in [Cell -> Int]
    /\ feRead \in [CellThread \cup Distributor -> UpdateType]

\* An unraced counter has one holder, which saw its present value, and only the
\* distributions hold total_burned.
CellsHeld ==
    /\ \A t, u \in DOMAIN feRead : t # u /\ feRead[t].cell = feRead[u].cell =>
          feRead[t] = NoUpdate \/ feRead[t].cell \in feRaced
    /\ \A t \in DOMAIN feRead : feRead[t] # NoUpdate =>
         /\ feRead[t].cell \in feRaced \/ feRead[t].saw = feCell[feRead[t].cell]
         /\ feRead[t].cell = "gas" => feRead[t].saw + feRead[t].delta >= 0
    /\ \A t \in CellThread : feRead[t].cell # "total_burned"
    /\ feCell["gas"] >= 0 /\ ("gas" \in feRaced \/ feCell["gas"] = feNet["gas"])

\* What a distribution will burn is counted once its update is written.
BurnCounted == [d \in Distributor |-> IF feRead[d] = NoUpdate THEN feOuts[d].burnt ELSE 0]

CountsItsBurn(d) ==
    /\ fePc[d] \in {"idle", "burn"} => feOuts[d].burnt = 0
    /\ feRead[d] # NoUpdate => /\ fePc[d] = "counted" /\ feRead[d].cell = "total_burned"
                               /\ feRead[d].delta = feOuts[d].burnt

BurnsBacked ==
    /\ \A d \in Distributor : CountsItsBurn(d)
    /\ "total_burned" \in feRaced \/ feCell["total_burned"] >= feBurnt + SumFunction(BurnCounted)

CounterInv == CellsHeld /\ BurnsBacked

\* The newest accepted registration of a node is remembered as long as an
\* older one could still pass for fresh.
NodeTypes ==
    /\ feRegistry \in RegistryType /\ feNewest \in [FeeNode -> Int] /\ feClock \in Nat
    /\ feSigned \subseteq [node : FeeNode, wallet : PayWallet \cup {NoWallet}, ts : Nat]

Remembered(n) == feNewest[n] <= feRegistry[n].auth \/ feNewest[n] + FreshnessMs < feClock

RegistryInv ==
    \A n \in FeeNode :
        /\ Remembered(n)
        /\ IF feRegistry[n].seen = NoTime THEN feRegistry[n].auth = NoTime
           ELSE feRegistry[n].seen <= feClock /\ feNewest[n] <= feRegistry[n].seen + FreshnessMs
=============================================================================
