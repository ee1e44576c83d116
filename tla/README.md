# Verification of the planetary monetary system

TLA+ models of the node in `src/`, checked with TLC on small instances and, for
the write path, the flow of value, the governance timelock, the emission budget, the fees,
the bridge, the asset registries, the HTTP layers, the event bus and the read-only guard, proved with
TLAPS for every value of the constants. `PROJECT.json` is the
machine-readable index: components, runs, mutants, the map from definitions to
source lines, findings, hazards, theorems.

The models cover what decides whether money is created or spent twice, lost after
it was acknowledged, or moved without a right; whether the rules change without
notice; and whether the services around the ledger (fees, registries, peers, HTTP,
contracts, listings, upgrades) keep what they promise while they race each other.

## 1. The system

A node is one tokio process. It holds one main ledger and any number of secondary
ledgers; each is a DAG of blocks whose payloads move UTXOs, mint, burn, bridge,
register assets or change the configuration. The node is the only writer of its
ledgers (single-writer mode): a request becomes a block, and every block, local or
received from a peer, goes through `do_persist_block_internal`.

```
  gateway ─> HTTP layers ─> handlers ─┐                    ┌─> dag, utxo, spent set (memory)
  periodic tasks ─────────────────────┼─> do_persist_ ─────┤
  P2P readers ────────────────────────┘   block_internal   └─> channel ─> consumer ─> RocksDB
        │            │         │               │                  │            │
        │     EmissionGate   fee pool     registries          event bus    activity writer
        │                                 (RocksDB, caches)       │
        └─ orphans, requests in flight             contract listener, webhooks, streams
```

| Component | State | Operations | What is hard |
|---|---|---|---|
| Persist pipeline: `persist.rs`, `background_persist.rs`, `dag_storage_impl.rs` | calls in progress, channel, consumer's batch, column families | validate, claim, apply, insert, send; write, retry, give up; exit, bootstrap | no lock spans two steps; the answer comes before the disk; request deadlines |
| DAG window and block store: `concurrent_dag/`, `rocks_store/` | blocks, children, counts, tips, order; stored tips, Bloom filter | insert, forge, prune, trim, bootstrap | six concurrent maps without a common lock; overlapping prunes |
| UTXO cache and spent set: `utxo.rs`, `spent.rs` | LRU shards, address index, balances, bounded claims | validate, claim, apply per shard, evict, rebuild | a store that lags behind, eviction, index updated after the locks |
| Handlers and validation: `api_fn/`, `validations/` | coins, caps, reservations, frozen set | send, settle, burn, convert, mint, seize, reverse | coins selected, validated and committed in three steps |
| Registries: `nft_storage.rs`, `token_registry.rs`, `sft_storage.rs`, `compliance_registry.rs`, `coordinator_key_storage.rs` | records in RocksDB and caches of them | create, claim, transfer, freeze, rotate | read-modify-write; the arms run before deduplication by the disk |
| Governance timelock | proposals, configuration, 500 ms cache | propose, enact, cancel, direct update | read-modify-write without a lock, failure between two writes |
| Emission budget | the period's counter in memory and on disk | reserve, mint, release, rollover | inputs read before the mutex, late releases, clock steps |
| Fees: `fee_pool.rs`, `fee_distribution/`, `node_registry.rs`, gas and reward counters | pool, snapshots, registry, counters | collect, swap, pay, merge back, register | two distributors, dropped requests, replayed registrations |
| Bridge and ledger manager: `pms-bridge`, `pms-ledger` | two ledgers' coins, locks, links; definitions | lock, mint, reconcile; create, hand over | each ledger is stored on its own, a crash in between |
| Store opening: `migration.rs`, `instance.rs` | schema version, indexes, DAG version | 13 migrations, genesis, version check | a crash between any two writes |
| Read-only guard: `read_only.rs`, `api/tasks.rs` | mode, counters of the loop | sample, arm, rename, clear | an operator between two loads of a tick |
| P2P server: `server/` | connections, orphans, dependencies, requests | announce, fetch, release, refetch, sync | lost and duplicated messages, full tables |
| HTTP layers, gateway, API keys | keys and their file, quotas, gas | check, admit, persist, charge | handlers dropped half way, revocations not saved |
| Contracts, webhooks, streams: `pms-contracts`, `pms-event` | contracts, event bus, deliveries | price, refund, deliver, retry | subscribers that lag, administration by read-modify-write |
| Activity listing: `activity/`, `activity_index.rs` | three column families, page cache | index, purge, re-index, page | pages read from changing states |
| Checkpoints, wallets, tools, settings | none of the ledger's | files, signing, parsing | not modelled |

Every hazard found while reading is in `PROJECT.json`, at its line, with the
property that covers it.

## 2. The modules

| Module | Models |
|---|---|
| `Ledger` | what a durable ledger promises: a growing set of blocks, closed under parents, without double spends or replayed keys |
| `PersistPipeline` | the write path of one ledger, from the gate of a call to the restart of the process |
| `DagWindow`, `CoinCache` | the bounded memory of a ledger: the DAG window with the store behind it; the UTXO cache with the spent set |
| `ValueFlow` | the handlers that move value, their validation and their bookkeeping |
| `NftRegistry`, `AssetRegistry` | the registries the persist arms write directly |
| `Governance`, `Emission` | the timelock; the emission budget |
| `FeeEconomy` | fee pool, distribution, node registry, counters |
| `Bridge` | several ledgers, transfers between them, their definitions |
| `Maintenance` | opening a store: migrations, genesis, versions |
| `ReadOnlyGuard` | the guard, the operator and the writers |
| `Peer` | the P2P server of a node against one peer |
| `ApiService`, `Contracts`, `Activity` | the HTTP layers; contracts and the event bus; the activity listing |
| `MCPersistPipeline`, `MCGovernance`, `MCLedgers`, `MCEconomy`, `MCAssets`, `MCDag`, `MCServices`, `MCPeer`, `MCGuard` | instances for TLC |
| `PersistPipelineProofs`, `ValueFlowProofs` | theorems about the module of that name |
| `NodeProofs`, `LedgersProofs`, `EconomyProofs`, `RegistryProofs`, `ServiceProofs` | theorems about `ReadOnlyGuard` and `Peer`; `Governance`, `Bridge` and `Maintenance`; `Emission`, `FeeEconomy` and `CoinCache`; `NftRegistry` and `AssetRegistry`; `ApiService` and the events of `Contracts` |
| `FiniteSetFacts` | lemmas the proofs share: maxima and sums over finite sets |

How the modules meet. `PersistPipeline` takes the write path apart step by step with
unbounded memory; `DagWindow` and `CoinCache` give that memory its bounds. Modules
above the pipeline (`ValueFlow`, `Bridge`, `FeeEconomy`, `ApiService`) commit a block
in one step and rely on what `PersistPipeline` shows of the claims and `apply_diff`.
An MC module that holds several components (`MCLedgers`, `MCEconomy`, `MCAssets`,
`MCDag`, `MCServices`) explores one of them per behaviour: a variable fixed in the
initial state says which. These components share no state, so nothing is lost.

In all modules one action is one access to shared state, since tokio runs tasks on
several threads. Variables described as history or ghosts guard nothing.

### PersistPipeline

A call is a `Task`; `pc[t]` is where it is in `do_persist_block_internal`, `blk[t]`
its block, `todo[t]` the inputs it still has to look at, `held[t]` the inputs it has
claimed.

| Action | Code |
|---|---|
| `Gate` | `contains_block`, then the parent gate |
| `CheckInput`, `InputsChecked` | `fetch_input_outputs`, one lookup per await |
| `CheckKey`, `ClaimKey` | the early reject and the test-and-set of a bridge lock or a mint nonce |
| `Dedup` | the second `contains_block` |
| `ClaimInput`, `Rollback`, `Claimed` | `try_mark_spent` per input, `unmark_spent` on a conflict |
| `ApplyDiff` | `ShardedUtxoSet::apply_diff` |
| `InsertEdges`, `InsertBlock` | the halves of `insert_block`: the parent's count, then the block, with a prune |
| `SnapshotCounts`, `Send`, `SendClosed` | `parent_count_updates`, the send on the channel, its error |
| `Drop` | `TimeoutLayer` drops the future at an await where it is pending |
| `Recv`, `WriteOk`, `WriteErr` | the consumer: a batch, the atomic write, its retries, the end of the task |
| `Crash`, `DrainExit` | the process ends and the bootstrap rebuilds the memory |

`WriteErr` may leave the write done (the trimming of tips that follows it failed)
or not. After the last attempt the consumer's task ends, which closes the channel.
`Restart` keeps the RocksDB variables and rebuilds the rest as `LedgerInstance` does.
Abstractions: one parent per block; a block is a name with the outpoints it spends
and creates and the key it consumes; signature and authority checks, which depend
on the block alone, are before `Gate`. `applied`, `acked`, `lost`, `stuck` and
`forgotten` are history variables.

### DagWindow and CoinCache

`DagWindow`: a thread carries the steps left of `insert_block` (`thTodo`): one map
each for the parent's count, the parent's tip, the own count, the tip, the block and
the order; `ForgeBlock` first selects parents among the tips, `ReceiveBlock` brings
any. Every `PruneEvery` insertions the thread prunes: it picks its victims, then
drops each from the maps one by one. `AppendBatch` is the consumer: the Bloom filter
and the confirming read, then blocks, tips and counts in one write, the trim by an
estimate, and last the ids into the filter. It fails at three places: the read takes
a block for new (`LookupFails`), nothing is written (`WriteFails`), or all is written and the
trim fails before the filter has the ids (`TrimFails`). After the last two the same batch
is tried again (`dbHeld`). `dbTime` keeps of each block the last key it got in the time index.
`Reboot` loads the newest blocks, cleans ghost entries and warms the filter.

`CoinCache`: a thread carries what it has claimed and the shards it has left
(`coinRun`): `Validate`, `TryMarkSpent` per input with its eviction, `RollBack`,
`ApplyShard` per shard under its lock, with `DropBalance` for each balance that reached zero and
`CountCreates` before the lock is released, `MissedSpends` (amounts of outputs that are in
no shard come from the store), the index one output at a time (`IndexAdd`, `IndexRemove`, and
`DropAddress` for an entry seen empty), `Send`, `WriteCoins`, `Restart`. The two removals are steps of
their own because in the code another thread may add between the check and the removal.
The index operations of a transaction come in any order, which includes the code's.
`lapses` names the ways in which the code departs from the ideal (section 3).

### ValueFlow

`flPc` takes a call from its handler (`WalletSendSimple`, `PrepareTx`, `MarketSettle`,
`WalletBurnToken`, `AdminMintToken`, `AdminMintSft`, `CustodialMint`, `FaucetMint`,
`AdminSeize`, `AdminReverse`, `SubmitOwnTx`) to `arm` (validation), `commit` and
`post` (fees, conversions). `ValidateInHandler` is for encrypted transactions, which
the arm cannot read. `LockCap` is the lock per asset of custodial mints. `Edict`,
`RoyaltyChange`, `FlowTick` and `FlowExit` come at any time. Coins carry an address
form, an asset, an amount, a lock time and a birth time; demurrage is computed from it.
Two checks of the arms are left out, which only adds behaviours: that a mint is signed by an
authority of its asset (`mint.rs` 199-210), and that nobody nets more than a settlement
declares (`market.rs` 218-232); `ValidMint` and `ValidSettlement` keep the others.

### NftRegistry and AssetRegistry

In `NftRegistry` every access of a call to RocksDB is a step, since `set_owner` alone
is six of them: `nftTodo` names the next one, its token, the owner it sets and the tokens left of a
batch. `MintNft`, `BurnNft`, `BurnNftSimple`,
`BurnNftBatchSimple` and `TransferNft` are the handlers, `SubmitNftBlock` a block that
comes by itself, `NftPrune` the window forgetting one. Any access may fail (`NftFails`: the arm
rejects the block, the handlers only log), the channel may be closed (`NftUnsent`), the process
may exit at any point and lose blocks that were acknowledged and not stored (`NftExit`). A
batch keeps its ids as a list, repetitions included: `ApplyBurn` deletes them one after the other
and `EmitBurn` pays for each.

In `AssetRegistry` a request
goes through its own sequence: `RegisterToken`/`PutToken`; `CollectionOwner`,
`TryClaimCollection`, `PutCollectionOwner`, `ClassIsNew`, `PutSftClass`; `ResolveRoyalty`,
`PutRoyalty`; `TakeComplianceLock`, `FrozenGuard`, `PutFrozen`, `CacheFrozen`;
`CheckRotation`, `RecordKeyRotation`, `ListKeyRotations`, `RefreshKeyRotationState`. The key history is
in the order of its time stamps (`InTimeOrder`), read from a clock that may be set back (`TickReg`), and the
cache is refreshed in two accesses, a list and a locked store, between which another rotation may do
both. `AccessFails`, `FreezeUnlogged` and `KeyListFails` are the failing accesses. `Resubmit` brings a
pruned block back. `nftRaced` and `regRaced` name what two calls overlapped on: the
code has no lock there, and the properties speak of the rest.

### Governance

A call is a `Task` again, in one of the four arms for governance blocks. `status`
and `after` are the proposal records; `dbCfg` is the stored configuration, `cache` the
cached one, `reader` a concurrent reader that missed the cache and has not filled it
yet. `applied` records which proposal was written to the configuration and when.
Settings are reduced to one parameter for each way the policy treats them. A day is one
tick; the 500 ms of the cache are an `Expire` action that may come at any time.

### Emission and FeeEconomy

In `Emission` each `Call` is one emission attempt: baseline, on-ramp or token conversion. `gate`
is the state behind the mutex, `durable` its stored copy. `Begin` reads the
corridor; `Enter` the supply, the clock and the kill switch; `Reserve` is the
critical section with the rollover and the write; `Release` the one on failure.
`SetClock` moves the wall clock either way. The budget is computed as the code
does, clamped and rounded half to even.

`FeeEconomy` has three machines. Fees: `DistributeStart` swaps the pool for an empty
one, `CountBurn`, `BuildOutputs`, then `RewardInserted` or `RewardRefused` (merge back)
or `RequestDropped`. Nodes: `SignRegistration` and `RegisterSigned`, which the network
may repeat, with freshness, time to live and the cleanup. Counters: gas, rewards and
burns, each read and written back in two steps. That `increment_total_burned` may fail, which
`distribute.rs` 131-133 only logs, is not modelled: the distribution goes on as if it had been counted.

### Bridge and Maintenance

`StartTransfer` selects coins, `PersistLock`, `PersistMint`, `MarkConsumed` follow, with
`AbandonTransfer` at each; `ResubmitMint` is any mint signed again, which `Reconcile`
compares with the lock. Every ledger has its own queue (`StoreJob`) and loses it in
`BridgeCrash`. Definitions: `CreateLedger`, `LedgerAdded`, `PutLedgerDef`, `LedgerSaved`;
`TransferOwnership`, `OwnershipSaved`, `UpdateDef`; `AbandonDef` ends either before its write.
The owner stands for the public key of a definition. A definition that cannot be stored is only logged
when its ledger was just created; a transfer answers 500 there and leaves the memory as it was.

`Maintenance` runs `OpenStore`, then the migrations one write at a time
(`BeginMigration`, one action per scan), then `persist_genesis`, `set_dag_version` and
`CheckVersion`. `StopProcess` may come anywhere. The migration to version 2 goes through the
store's own `add_tip`, which trims the tips when the estimate of the process, zero at its start, is over
the limit, and `remove_tip`, which keeps the last tip. Errors of `remove_tip`
and `delete_cf` are ignored by the code: `keptTips` and `keptEntries` are what stays.
The counts of children that the trim reads are those of the stored blocks.

### ReadOnlyGuard, Peer, ApiService, Contracts, Activity

`ReadOnlyGuard`: a tick is `Sample`, `LoadArmed`, `LoadReason`, `DecidePressed` or
`DecideClear`, `SetGauge`; an operator's call is a swap and a gauge, and several calls may be
between the two at once.

`Peer`: one reader per connection (`Look`, `Orphan`, `PersistIncoming`, `RejectIncoming`,
`Release`), `Submit` for the HTTP side, the two periodic tasks, connections that break
and are accepted again. The storage may fail a reader: a stored block is taken for unknown
(`LookUnread`), the persist finds a parent missing that was there at the look-up, and the block is an
orphan again (`MissIncoming`), or it returns an error and the block is dropped (`FailIncoming`).
The other node runs the same program and answers at once.

`ApiService`: a request is the sequence of layers and steps its route has left; anyone
may drop it between two of them. `Persist` is the first look-up in the window, `Commit` the second with the
claim on the block's inputs and the insertion. A block is in the window until `LeaveWindow`, on disk after
`ReachDisk`, and `Restart` loses what is not (`svLost`). A new key is a secret that no store has: the
code draws 32 random bytes.

`Contracts`: administration in two steps (`ReadContract`, `WriteContract`), pricing
(`EvaluateTransfer`, `Split`), the bus with three subscribers that skip what they were
too slow for (`Lagged`), the refunds of a burn (`ListenerStep`, per contract), deliveries with permits
and retries (`Attempt`).

`Activity`: the writers of the index (`StoreBlock`, `WriteQueued`, `IndexSealed`), the purge
and the re-indexing family by family, and a reader who walks the pages (`StartPage`,
`ReadPage`, `CachedPage`).

## 3. What is checked

### Passing runs

| Run | Instance | Checks |
|---|---|---|
| `concurrent` | 2 calls; two conflicting blocks, one with two inputs, two mints of one lock; channel of 1, batches of 2, 2 attempts, DAG window of 1, one exit, one dropped call, 3 submissions | `NoDoubleSpend`, `ClaimsExact`, `AntiReplay`, `AnswersBacked` |
| `serial` | 1 call; 6 blocks with a chain of two spends, two conflicts and a keyed mint; channel and batches of 2, two exits, 4 submissions | `DurableUtxoExact`, `CountsConverge`, `ImplementsLedger` |
| `live` | 2 calls, 3 blocks, a channel and batches of 1, a dropped call, a consumer that may give up | `AckedBecomesDurable`, `CallsReturn` |
| `dag` | window of 1 pruned every second insertion, 3 blocks of up to 2 parents, 2 threads, tip limit 1, a filter of 2, a restart, a look-up, write or trim that fails; or 6 transactions over 7 outputs, 2 shards of 1, 3 claims, 2 threads, a restart | `FrontierSound`, `RecentDeduplicated`, `SpentOnceButStale`, `CoinViewsExact` |
| `assets` | 2 calls at a time and 3 in all on the NFT registry (9 blocks, one a batch that repeats a token, 2 tokens, a failed access or an exit), on the other registries (13 requests, a failed access or a restart, a clock of 2 instants that may go back), or on the coins of two wallets (3 assets, one with demurrage; an edict, royalty change, tick or exit) | `NftsExact`, `CollectionHasOneOwner`, `RegistriesHold`, `ValueAccounted`, `SupplyRespected`, `RoyaltyPaid`, `CoinsMoveByRight` |
| `ledgers` | 2 governance calls of 4 over a batch that hides a loosening and a corridor that is refused, delays of 1 and 2 days, a restart; or 2 transfers over 3 ledgers with one mint signed again, two toggles, a crash; or 2 operations on the definitions of a configured and a created ledger; or stores of 8 kinds opened up to 3 times, with a tip limit of 1 and one delete that fails unnoticed | `TimelockRespected`, `EnactedWasApplied`, `BridgeConserves`, `LedgersSurvive`, `SchemaSound` |
| `economy` | two distributors over 4 fee units and a refund; 2 signed registrations over 4 ticks; 5 updates of the counters by 2 requests; one emission call of each way over 3 instants and two corridors; one crash each | `PoolAccounted`, `CountersBacked`, `NewestRegistrationWins`, `CeilingButLate`, `BudgetFrozen` |
| `services` | one request at a time over 5 routes, of 6 kinds of caller, while 2 keys live and one is forged; 2 requests at once of the 3 callers that get past a layer, for a block with inputs and one without, with a restart; 2 contracts, a bus of 2 for 3 events, 2 webhooks over 2 events or one over 3, 2 attempts and one permit; 7 kinds of block listed in pages of 1 or 2, a cache of 2 pages that live one tick | `SubmissionsSettle`, `RevokedForGood`, `LayersHold`, `FeesExact`, `EventsDelivered`, `ListingSound` |
| `peers` | a chain of 3 blocks, a connection in each direction, room for one orphan and two requests; a block that also comes over HTTP, a lost connection, a rejected block, or a storage that fails a reader once | `OrphansReleased`, `BlocksSpread` |
| `guard` | a writer, a channel of 1, thresholds of 1 and 2 ticks, a minimum of 3, 2 calls of operators, who may both be between swap and gauge | `OperatorObeyed`, `GuardSteady` |

What the larger properties say (each has its comment in the module):

- `FrontierSound`: at rest the tips of the window are its childless blocks; neither the
  window nor the store ever loses its last tip, overlapping prunes excepted.
- `SpentOnceButStale`, `CoinViewsExact`: the bounded spent set lets no output be spent
  twice, and balances and listings agree with the unspent outputs, outside the lapses
  that `CoinCache` names.
- `RecentDeduplicated`: a block is stored twice only when enough others came between, or when the trim
  after a written batch, or the look-up that confirms the filter, failed.
- `NftsExact`, `RegistriesHold`: owner, index and pointer of a token agree, burns emit one
  event and are refunded once per token; answered creations stay, royalty versions count the
  updates, the frozen set is mirrored, the key history is a chain and the cached one is the stored one -
  where no two calls overlapped, and but for what a failed access left behind.
- `ValueAccounted`, `SupplyRespected`: coins are what was minted less burnt less fees; the
  emission counter is backed by mints and reservations, and caps hold under their lock
  for assets without demurrage.
- `BridgeConserves`: the ledgers' coins plus stranded locks plus what locks took beyond
  their amount are constant, except for a mint whose lock the crash lost.
- `LedgersSurvive`: the definition in memory is the one the next start loads; a transfer that is answered
  500 leaves both as they were.
- `SchemaSound`: the stored schema version never promises an index that is not there; for tips
  the promise is every childless block or as many as `tip_limit`.
- `PoolAccounted`: fees and refunds are in the pool, in a distribution, paid, burnt or lost
  for a reason the code has, up to the rounding of shares.
- `SubmissionsSettle`: what a client is told of its block is true, now or until a crash took the block. One
  request puts a block with inputs in, and again only after such a loss; the fee is added
  once each time.
- `RevokedForGood`: of revocations that were answered 200. A second revocation of a key whose first
  one failed to save is refused as already revoked, without another save; the property does not count it.
- `EventsDelivered`: every burn the listener passed has been credited exactly what each contract of
  that moment owes it, and nothing else; streams warn of what they missed; the counters of a webhook
  add up to the events it matched.
- `OperatorObeyed`: a mode armed by hand stays until it is cleared by hand, and the gauge tells the
  mode, except for two races with a call of the operator (below).
- `OrphansReleased`: an orphan with all its parents is about to be released, or is one of the named strays.
- `ListingSound`: walking the pages shows every entry that was visible at each read, in
  order and once. It speaks of entries, one per block and address: that a page may be cut between the
  items of one entry is not seen, and a limit of 0 is not among the limits.

Why the bounds are enough. Every hazard of the write path needs at most two calls
and a third submission (a retry, or the block that profits from what the first two
left). Two inputs are the smallest claim that can fail half way. A channel of one slot
is full, and makes a call wait, after one block; a batch of two is the smallest in
which one job overrides another. Two attempts are the smallest count with a retry and a last
attempt. A window of one block prunes at every insertion. One exit separates what is
durable from what is not; the serial run has two, so that what a first restart
rebuilt is lost again. The same reasons give the bounds of the other modules: two
actors at a time, a third call for what profits from their race, one restart, and
every cache, table or channel small enough to overflow (one orphan, shards of one
output, a filter of two ids, a bus of two events, a page of one item). In governance
four calls are a proposal, its delivery a second time, and an enact racing a cancel. In
emission three instants make three periods and the budget is as large as one on-ramp,
so that two calls contend for it; its switch, which only the start of a call reads, is off
in one corner of the instants and corridors. In `Maintenance` a third opening follows a crash in
a migration and a crash in its repetition.

`services`, `ledgers`, `economy`, `dag` and `assets` hold machines that share nothing; a behaviour
follows one, and each has its own bounds, named in the MC module beside its reason. Some leave out
combinations in which one party cannot act on the other:

- `MCServices`: `KeysBound` (one request; its block has inputs and stays in the window),
  `FlowBound` (two requests of callers that get past a first layer; no arming after the restart),
  `PricesBound`, `RefundsBound`, `HooksBound` (each leaves the others' variables alone; a third
  event for one subscription only), `WalksBound`, `TasksBound` (which blocks, filters and
  instants meet);
- `MCLedgers`: `ToX` (a destination that no mint can use), `CrashAfterWrite` (a crash before anything was
  written), `OfBAndC` (two definitions of three, two owners), `OneIgnored` (a start leaves at most one delete
  undone), `TwoCutOff` (at most two blocks cut off the time index);
- `MCEconomy`: `OffAtFirst` (the switch, which only the start of a call reads), `CrashAfterReserve`,
  `FewFees` (fewer fee units without a treasury), `OneWallet` (for the second node);
- `MCDag`: `InIdOrder` (new blocks take the ids in order), `FailsAtRest` (the store fails while no insertion
  runs: the two meet in the queue alone), `StillClaimed` (a behaviour ends with a lapse after
  which no property claims anything);
- `MCAssets`: `CallToCome`, `RegCallToCome`, `FlowCallToCome` (failures, exits and events come while another
  call is still to come that could see them; in the NFT registry before anything was pruned),
  `RotationInPlay` (the clock moves only where a rotation is recorded or on its way);
- `MCGuard`: `CallsInOrder` (calls differ in their names only, so that a second one made while the first is
  open is `o2`; it is not made while a write is under way);
- `MCPeer`: one kind of trouble in a behaviour.

The serial run has one call and no dropped request on purpose: with two concurrent
calls, or with requests dropped half way, the stored blocks do not implement
`Ledger`, as `durable_double_spend` shows. `CountsConverge`
also needs it: the count is read and sent in two steps, so two calls can send a
parent's counts in the wrong order to two different batches.

Symmetry is used over calls or threads that are interchangeable (`concurrent`, `assets`,
`ledgers`, `dag`, `services`), never in a run with a liveness property.

Fairness. `live`: weak fairness of the consumer and of every call in progress. Both are
tasks of the runtime, which polls what is ready. The channel's first-come order is not
needed: submissions are bounded, so a sender is overtaken finitely often.
`AckedBecomesDurable` excuses the two cases in which the code gives up: a consumer that
ended and an exit. `peers`: weak fairness of the reader of each open connection, of the
clock and of the flush of the broadcast buffer; strong fairness of the refetch and sync
tasks, which in the code are timers that wait for nothing: in the model they run when the
queues are empty, and that condition comes and goes. `guard`: weak fairness of the guard's
loop and of the consumer of the channel, each a task that runs for ever. Nothing is
assumed of clients, operators, dropped requests, broken connections or exits.

Deadlock is not checked: a behaviour ends when the bounds on calls are reached.
`CallsReturn` covers a call that would be stuck.

### Findings: runs that TLC must refute

| Run | What a comment or document says | What happens |
|---|---|---|
| `durable_double_spend` | the stored UTXO set is authoritative, the claim in memory too | a child's job is written before its parent's; the parent's output is put back; after a restart it is spent again |
| `kill_switch` | resuming the mint waits for its delay | an enact that read the config before the halt writes it back |

### Departures the properties name

Where the code departs from what one would expect, the property excepts exactly that
case, by a history variable or by a term of the equation. By component:

- Write path. The deadline of a request drops a call that waits on the full channel: the
  block is in the DAG and never sent (`forgotten`), its claims stay (`stuck`). A block
  without inputs that was pruned from the window is applied a second time, since the
  deduplication looks at memory only (`persist.rs:423`). The shutdown drain does not count the
  batch in the consumer's hands (`main.rs:514`).
- Window and cache. Two overlapping prunes can remove every tip (`prunesMet`). A rollback
  leaves a stale entry in the eviction order of the claims, so that a later claim of the
  same outpoint is evicted early (`"released"`; `spent.rs` 41-42 calls it harmless). An
  output that is evicted before it is stored has no balance once spent (`"uncounted"`).
  The rebuild of the indexes drops outputs that did not fit their shard (`"vanished"`).
  A block that the Bloom filter forgot is stored twice (`rewritten`), and so is one whose batch was
  written before the trim of the tips failed, or whose look-up failed (`unseen`). A thread that saw a
  balance at zero, or an address without outputs, removes the entry although another has added
  to it since (`"forgotten"`, `utxo.rs` 228-236; `"unlisted"`, 270-278): both until the next restart.
- Registries. Owner lists, royalty versions and collections are read, changed and written
  without a lock (`nftRaced`, `regRaced`): a concurrent `apply_mint` overwrites an
  owner, overlapping burns emit two events, a royalty version may go back. A failure or an exit
  between two puts of `set_owner` or `delete` leaves a token half written for good (`nftTorn`). A batch that
  names a token twice is refunded twice (`nftTwice`, `listener.rs:72`). Rotations recorded at equal or reversed
  times, or while the cache had missed one, may not chain (`keyLoose`); a list that fails leaves the cache
  behind until the next rotation or start (`keyUnread`).
- Value. Custodial mints take the lock of the asset, other mints do not (`flCapRaced`). A
  reversal re-creates the fee (`flUndone`) and gives decayed coins back at their face value
  (`compliance.rs:503`): what decayed may have been minted again by then, and the asset is above
  its `max_supply`, so `CapRespected` speaks of assets without demurrage only. A request dropped after its commit never adds
  its fee (`flUnpooled`). Handlers build payments from face values, which demurrage makes
  invalid a day later.
- Emission and fees. A reservation released after the rollover is subtracted from the new
  period's counter (`freed`). Fees are lost when nobody is payable, when the request is
  dropped after the swap, or at a restart (`feLost`); a merge back makes the burn count
  again at the next attempt; counters are read and written without a lock.
- Bridge. A lock takes whole coins and returns no change; a mint that is refused after the lock
  strands it; a crash may keep the mint and lose the lock (`Torn`). A ledger that was created while its
  definition could not be stored is gone after a restart, and of two operations on one
  definition either may win in memory and the other in the store (`brLoose`).
- Governance. The direction of a change is judged at the proposal, not at the enact:
  `TimelockRespected` covers the settings whose direction does not depend on the current
  configuration.
- Guard. A call of the operator between the loads of a tick and its decision is overwritten
  (`roCrossed`), also a mode armed by hand. Of two that swap the mode, two operators or an operator and
  the guard, the first may set the gauge last, which then tells the wrong state (`roLate`).
- HTTP. The route of the gateway for blocks and the recovery route have no read-only gate
  (`Ungated`); a revocation whose save failed is undone by a restart, but was not answered 200. A block
  that was answered "inserted" and was not on disk at an exit is gone (`svLost`), and the fee was
  taken; a block without inputs is put in again once it has left the window.
- P2P. An orphan whose parent comes over HTTP is released by no reader (`pnStray`). So is one whose parent was
  there and was not found, at the look-up or by the persist (`blocks.rs` 184-226), one whose parent came
  between look-up and insertion, and one that found the dependency table full. The
  periodic refetch and sync repair them, over inbound connections.
- Contracts. With four or more beneficiaries the rounded shares can exceed the fee. A
  listener that lags loses refunds (`ctSkipped`).
- Listing. A filter of mixed categories, and a change that equals the fee, hide entries
  (`Overlooked`); the page cache serves what it kept until it expires.
- Upgrades. The migration to version 2 lists parents that sort after their children as tips, and a parent
  whose removal failed (`keptTips`); over `tip_limit` it drops childless tips. A delete that fails in the
  migration to version 6 leaves its entry under transfer (`keptEntries`), and the version is stored all the same;
  a crash between the two writes of the time index duplicates an entry (`torn`); a crash
  between the genesis block and its version makes the ledger refused for ever (`stillborn`).

## 4. What is proved

All theorems are for any constants that satisfy the assumptions named in the modules:
any number of calls, blocks, outpoints, keys and writers, any bounds, any number of exits
and dropped requests.

**Types.** `TypeCorrect` needs that a call in progress never works on the genesis block
(`ParentOf` is not defined there) and that the counts of a batch have a maximum
(`FiniteMax` of `FiniteSetFacts`). `GovernanceTypes` and `EmissionTypes` are inductive as
they stand; the latter says that no late release takes a counter below zero. The other
proofs rest on types of their own (`BridgeTypes`, `DefTypes`, `RegTypes`, `SvTypes`, `FlowTypes`, `PoolTypes`, `StoreTypes`).

**Sums.** `MapThenSumSet` is a fold, and what a fold is after a step needs an induction over
the set. The library's induction theorem cannot be used, so `FiniteSetFacts` proves
`SubsetInduction`, which speaks of a family of sets and no operator, and from it the
laws the books need: the sum with an element added, removed or changed, over
disjoint unions, over the images of an injection, and that a sum is a natural number.

**`SpendOnce`, `ClaimsAccounted`** (`NoDoubleSpend` and `ClaimsExact`). Neither is inductive: that nothing is
applied twice depends on who claimed what. `SpendInv` adds that claims are disjoint
between calls, from the inputs of applied blocks and from the claims left by
dropped calls (`ClaimsDisjoint`, `StuckUnspent`), and what a call holds at each step
(`CallClaims`): at `apply` it holds all the inputs of its block. The step that
matters is `ApplyDiff`: the claims a call holds become inputs of an applied block,
and disjointness says that no other applied block had them.

**`KeyConsumedOnce`** (`AntiReplay`). The sets of consumed keys in memory are lost at every exit, so the
argument has to join memory and disk. `KeyInv`: the key of a block in flight is in
`ramKeys`; the key of a stored block is in `dbKeys`; a call between the check and
the claim has seen no stored key that was not claimed since the boot; and blocks in
flight or stored have different keys. The third part is what closes the window
between the read of RocksDB and the claim in memory: a key can only become stored in
that window if a block in flight had it, and then it is in `ramKeys`. Assumed: a block with
a key has no inputs (`KeyAssumption`, true of both payloads).

**`BackedAnswers`** (`AnswersBacked`). `BackedInv` says of the whole window what the property says
of the answered blocks: while the consumer lives, a block in `dag` is stored, queued, in the
hands of a call past `ApplyDiff`, or was dropped at the full channel. The two steps between
`InsertBlock` and `Send` are why the third case is needed.

**`DurableUtxoKept`, `PipelineImplementsLedger`** (`DurableUtxoExact`, `ImplementsLedger`). Both have the
hypothesis `Serial`: one call, no pruned window, no dropped call. It is what the single
writer's sequential use gives, and the `serial` run satisfies it; without it both are false, as
`durable_double_spend` shows. `SerialInv`: the jobs on their way to the disk are in an
order in which each may follow those before it (`OrderlyBatch`, `OrderlyQueue`), the
memory is exactly the stored blocks and those jobs (`MemoryExact`), and a call holds what
its block needs (`CallReady`). A batch written whole is then a valid extension of the
stored blocks, which is the step of `Ledger`; every other step leaves them alone.
`OutpointAssumption` is used: an outpoint is named after the block that creates it, so no
two blocks create the same and none spends its own.

**`CountsAgree`** (`CountsConverge`), again under `Serial`. `CountInv`: the count of a block in
memory is its children in the window and the one between the two halves of `insert_block`;
the stored count is its children among the stored blocks; and a job carries the count of its
parent after its own block, that is what is stored, what the jobs before it bring and itself.
The largest count of a parent in a batch is therefore that of its last job, which is
the one `append_blocks_batch` keeps, and writing the batch makes the stored count exact. A batch
whose write went through before it was reported as failed is all stored, and writing it again
changes nothing.

**`LooseningsWait`** (`TimelockRespected`). `DelayInv`: every known proposal, every call that is
about to store one and every call that is enacting one has waited, or is due
after, the delay of each setting that cannot tighten; a delay once over stays over. `TierAssumption` says
that the tiers' delays grow.

**`EnactedApplied`, `ClosedStaysClosed`.** `MarkInv`: a call about to mark a proposal Enacted has
applied it. That a closed proposal stays closed (`ClosedForGood`) is an action property: with no call
at work on it, the lookup refuses every new one.

**`OneBudgetPerPeriod`** (`BudgetFrozen`). `FrozenInv`: RocksDB is never behind a reservation, the gate
is never behind RocksDB, and where they are in the same period they have the same
budget. So a crash goes back at most to the period of the last reservation, with its
budget. `RateInCorridor` shows that the effective rate lies in the corridor, also
when its bounds are swapped.

**`CeilingKept`** (`CeilingButLate`). `CeilingInv`: for the gate and for its stored copy, the counter is
within the budget, and the reservations of that period that were not released exceed the
counter by at most what older calls released into it; and for every period that a call
reserved in, the same against the budget that call saw. The stored copy is needed since a crash makes it the
gate, the second part since the gate has left most periods. `OneBudgetPerPeriod` joins them:
the budget seen is the budget of the period.

**`BridgeKeepsValue`** (`BridgeConserves`). `BooksInv` gives each ledger its books, once for the memory
and once for the store: its coins are those it started with and those minted on it less
those its locks took, no coin was taken twice nor before it was there, and every mint
belongs to a transfer to that ledger and is for its amount. `QueueBooks` says how the
queue leads from the stored books to those in memory; it makes a crash, which keeps any prefix of
each queue, keep the books. The equation follows by summing the books over the ledgers. Assumed: the ids of the
initial coins and of the transfers differ (`BCoinId`), as block ids do.

**`DefinitionsSurvive`** (`LedgersSurvive`). `DefInv`: a ledger that is not excepted has at most one operation,
and which of memory and store that operation has written is known from where it is: a transfer past its
write is at `update`, one that failed there is over and has written neither.

**`OneOwner`** (`CollectionHasOneOwner`). `OwnerInv`: a call about to claim a collection that has an owner will be
refused, one that has claimed it keeps the others out, one past the claim has read or
written the owner. The claim in memory is what decides; the read of RocksDB before it matters after a restart,
which empties the claims and not the stored owners.

**`NftsAlwaysExact`** (`NftsExact`). Two calls that share a token or an address mark all their names
(`CallsApart`), so what carries no mark has one writer at most, though nothing is locked. For a
token without a mark `TokenStage` says how far its call has got, access by access: which of the
record, the two lists and the pointer are already new (`Setting`, `Deleting`), or that they
agree (`Waiting`). A list is read, changed and written back whole, so `ListsCurrent` keeps that the
stored list is still the one that was read; and `OwnersKnown` that the previous owner, read
from the store and not from the block, is a name of the call or a marked one: a transfer
never rewrites the list of a stranger. A failure or an exit freezes a call at its stage: if it had
`Started`, its token joins `nftTorn`, for which only the part that orders the two deletes is kept, that the
pointer goes before the record. Burns are paid once per mint because a burn past the arm
holds a mint of its token that no event has used up; the refunds of an event equal its tokens where the
list has no repetition.

**`RegistriesAlwaysHold`** (`RegistriesHold`). `Apart`: two calls in flight meet only on what `regRaced`
names. Outside it, what a call has read is still so when it writes (`AnswerInv` for assets
and royalties, `FrozenInv` for addresses, `KeyInv` for the keys). That an authorization counts
once follows from versions: a used one is below the stored version. For the keys: a call that
has listed the history holds the present one, since the only other call that could change it would have met
it in `regRaced`; a rotation checked against the cache extends the stored chain as long as the
cache has not missed a list (`keyUnread`) and the new record is the latest (`keyLoose` otherwise).

**`RevocationIsFinal`** (`RevokedForGood`). `KeysInv`: a key whose revocation was answered is inactive in memory and in the
file, wherever it is; and a store that lost its path holds no key of the file. Without the
second part a revocation in such a store, which saves nothing, could be undone by
the next restart. It holds because the store is then empty at the start and every new secret is fresh.

**`LayersAlwaysHold`** (`LayersHold`). `SvTypes` lists what may be left of each route (`StepsLeft`);
`RouteInv` says what a request has passed by what it has left: behind `require_writable`
while the mode is armed, it was in flight at the arm or its route has no such layer; behind the key,
it was admitted.

**`SubmissionsAlwaysSettle`** (`SubmissionsSettle`). Everything is counted per life of the process. `Owes`: a
request at its fee put its block in, in this life, and the fee was not taken. `PlacesOf`: a block put in
in this life is kept, one of an earlier life is on disk or in `svLost`, and nothing has happened in lives to
come. So a block with inputs that is put in a second time, which its claim allows only when it is
not kept, was lost in between.

**`NoCoinTaken`, `RoyaltyAlwaysPaid`** (`CoinsMoveByRight`, `RoyaltyPaid`). The handler selects coins, the arm
validates them, the commit takes them, and anything may happen in between. `FlowBase` fixes what
makes a validated plan still mean the same at its commit: coins have one number each, a coin is
the output of its block that its number says, and no plan names a coin of a block that does not
exist yet. So a coin of a plan, if it is there at all, is the coin that was validated. `ByRight` says of every call
at its commit that its signers own what it spends, and that a frozen address among
them was frozen after the validation (`flEarly`). `Settling` says that what the seller of
a validated settlement gets is the price less the royalty of that moment.

**`SupplyAlwaysRespected`** (`SupplyRespected`). The emission counter changes with the reservation of one call,
so its equation needs the sum over the calls in flight (`Pending`, `Reserved`). For the caps, `CapHeld`:
two calls that mint one asset meet only where `flCapRaced` says so or one of the
custodial ones waits for the lock; and a mint at its commit still fits under the cap, since what else
could have taken the room would have raced with it.

**`ValueAlwaysAccounted`** (`ValueAccounted`). `BooksKept` keeps for every plan the balance of what it spends and what it
pays: of the native asset for a payment or a settlement from the handler on, of every
asset from the validation on, and for every plain block what a reversal of it would give back. The asset with
demurrage is where the invariant had to be found: a reversal gives back coins at their face
value, so "no more is held than was issued" is not inductive. `Accounts` adds
what the blocks whose outputs are all unspent could still give back
(`Recoverable`): a payment of decayed coins moves the loss there, a spend of one of its outputs makes the
loss final, a reversal takes it out again.

**`NoReplayedRegistration`** (`NewestRegistrationWins`). `RegistryInv`: the newest accepted timestamp of a node is in
its entry, or so old that every registration that could replace it is stale. The second part is for the
cleanup: an entry is dropped after `NodeTtl` without a sign of life, when what was signed
before that is no longer fresh.

**`PoolAlwaysAccounted`** (`PoolAccounted`). `PoolInv`: a pool or a snapshot that holds fees has a node with a block,
so that the shares have a divisor, and the outputs of a distribution are worth its snapshot but
for half a unit per share (`Balanced`), which the rounding of each share gives.

**`CountersAlwaysBacked`** (`CountersBacked`). `CellsHeld`: a counter that was not raced on has one holder, which
saw its present value. `BurnsBacked`: the counted burns are those paid and those
of the distributions that counted and did not pay yet.

**`SpentAlwaysOnce`** (`SpentOnceButStale`). A miss is answered by the store, which lags behind the
memory by the queue, so what keeps a spent output from being spent again changes hands:
while its spender runs or is queued it is a claim in the bounded set (`ClaimsHeld`), once stored it
is the absence from the store (`SettledSpent`), and no shard holds it at any time
(`SpendsTold`). `ClaimsHeld` also covers the transaction that was validated before all
this and claims after it: its inputs count as needed, so the eviction of a claim it will
run into is the lapse `overrun`. A coin does not come back either: an outpoint names its
transaction (`CoinAssumption`), which runs and is stored once (`RunOnce`, `BirthsTold`). The
invariant is conditional on the lapses that the property excepts; the types and the
births hold without them.

**`ViewsAlwaysExact`** (`CoinViewsExact`), on top of `CoinInv`. `ViewInv` names what the two views of an
address still owe between two steps. The balance counts the unspent outputs and those that
a thread has spent but found in no shard, whose amount it is about to look up (`Counted`);
that a spend is subtracted once rests on an output having one spender, and that a restart
counts right on the store holding all it was given and not told to drop (`StoreTold`). The
index names every cached output, or a thread is about to add it; what a thread is about to
remove is in no shard and comes back to none (`IndexTold`), because an evicted output leaves a
shard that held it once (`PushAllExact`) and a spent one is popped before it is put off. So
two threads may update the index in either order. Between a check and its removal (`pending`) the
entry may have been filled again: the removal then enters its lapse, and without the lapse the
entry is still empty and its removal changes no view.

**`SchemaAlwaysSound`** (`SchemaSound`). `SchemaInv` says what a scan has left behind, wherever it is: a tip
that has a later child is one whose child the scan has not come to; a stamp is in the time
index before it is in `id2ts`; an index holds the entries of every block behind the scan and
nothing foreign but the entries kept by an ignored error; behind the scan every childless block is a
tip, or as many are as `tip_limit` (`RealTips`, `Full`: the trim takes real tips only down to the
limit, and a removal only blocks with children); a genesis block without a DAG version is one whose process is about to write
the version, or died. A migration that starts again finds no more than a scan
had left, so no step depends on where the crash came. The assumption `StoreAssumption` on the old
store: no block is its own parent, and an address is filed under transfer or under fee, as
`extract_involved_with_category` does it.

**`OrphansAlwaysReleased`** (`OrphansReleased`). `WaitInv`: what is not stray waits, in the table of dependencies, for each
of its missing parents, as an orphan and already between its look-up and its insertion.
A block that the persist made an orphan again, or whose stored parent could not be read, is stray
from then on, until a reader releases it.
The table may be full at any of its additions, a fold without a closed form: `FoldExists`
gives it its values, `AwaitGrows` that it takes nothing away. The proof found a case the
instance of TLC has no room for: a block that two readers have in hand, stray by the look-up of one and
released by another, is stray still.

**`EventsAlwaysDelivered`** (`EventsDelivered`). `Delivered`: for each subscription (`OneJob`) the deliveries in
progress have different events, all of them matched, and the counters count the matched events that
no delivery has (`Done`); nothing is delivered twice because an event is matched when the
loop passes it and never again. For the streams, `StreamAbreast` says that since the last event
or warning sent nothing of their addresses has gone by, which is what makes the
next event, or the next warning, complete. For the burns, `BurnsSettled` is an equation for each event and
contract between what was credited and what it owes (`Due`), which the step of the listener establishes
for the event it passes and no other step touches.

**`OperatorIsObeyed`** (`OperatorObeyed`), **`GuardNeverFlaps`** (the half `FloorHeld` of
`GuardSteady`). `ObeyInv`: while no call of the operator crosses a tick, what the tick has
loaded is still the mode when it decides, so it neither renames nor clears a mode armed by
hand; and the gauge is the mode's, or somebody is about to set it: the guard, or the one open call
that no later swap has overtaken. Any number of calls may be open; one that was overtaken and sets the gauge
makes `roLate` true until another sets it. A swap outside a
tick makes the first part true again after any crossing. `ClocksBehind`: `under_count` never exceeds
the clear samples in a row, `armed_at` is never older than the last arm, and a mode that
the guard armed has an `armed_at`, which `MinDurationElapsed` would otherwise skip.

Only model-checked:

- liveness (`AckedBecomesDurable`, `CallsReturn`, `BlocksSpread`, the half `GuardReleases` of
  `GuardSteady`), which rests on fairness and ENABLED;
- the contents of listings and of split fees (`ListingSound`, `FeesExact`), which are folds and sorts
  over sequences;
- the properties of `DagWindow`. `FrontierSound` is about folds over the blocks of a batch,
  and whether a long enough chain of blocks stored before their parents could cost the store
  its last tip is open beyond the 3 blocks of the instance.
  `RecentDeduplicated` does not hold for every capacity of the filter: a block that two
  clients send at once may be twice in one batch and then takes two places, so that a full
  segment may hold fewer blocks than its capacity and forget a block too soon. With three
  places and a limit of three, this happens after a batch with two copies of one block, a
  batch with three of a second and a third block: the first is stored again although only
  two blocks came after it. In the code the capacity is 5 000 000, the limit 2 000 000 and a
  batch 256, so that most places would have to be copies; the instance has two places and
  a limit of one.

## 5. What is not modelled

`PROJECT.json` gives the reason for each component. Checkpoints are a library call,
wallets, tools, simulator and settings hold no state of the ledger. Within the modelled
parts: several parents per block in the write path (they are in `DagWindow`), the fee
settings of governance, the finality status and the weight of a block (shown to
clients only), the contents of the compliance log, the supply cache beside the coins (each
update is under one mutex), the `activity_items` cache of a block's entries, the authority check of a mint
and the first rule of a settlement (section 2), a failed write of the total burned,
encryption and signatures, the wire format, HTTP reads other than the
activity listing, and which of its payload checks rejects a block before `Gate`.

## 6. Plan

Proofs: the tips of `DagWindow`, from lemmas about the folds of `AppendBatch`, after TLC has looked
at longer chains of blocks stored out of order.

Models: the weight and the finality of blocks, once something depends on them; the
gateway's health indicators; the fee settings of governance.
