----------------------------- MODULE CoinCache -----------------------------
(***************************************************************************)
(* The unspent outputs of one ledger in memory: the sharded LRU cache with *)
(* its address index and balance cache (pms-core/utxo.rs), the bounded set *)
(* of spent outpoints (concurrent_dag/spent.rs), and the store behind them *)
(* that answers a miss and lags by the persistence queue.                  *)
(*                                                                         *)
(* A transaction is validated, claims its inputs one by one, and then      *)
(* apply_diff visits the shards in order, each under its own lock; the     *)
(* address index is updated after the last lock is released.  The entry of *)
(* an address in the balance cache or the index is removed when it was     *)
(* seen empty, in a step of its own.  An output is one unit of its owner.  *)
(***************************************************************************)
EXTENDS Integers, Sequences, FiniteSets, FiniteSetsExt, SequencesExt

CONSTANTS
    Coin, FirstCoin,   \* outpoints, and those of the genesis block
    CoinOwner,
    Tx, Spends, Creates, \* transactions and their deltas
    ShardOf, NumShards,  \* the first byte of the txid picks the shard
    ShardCap,          \* max_utxos / SHARD_COUNT
    SpentLimit,        \* max_spent_outpoints
    CoinThread,
    QueueCap,          \* capacity of the persistence channel
    MaxCoinBoots       \* bound: restarts

ASSUME CoinAssumption ==
    /\ FirstCoin \subseteq Coin /\ IsFiniteSet(Coin) /\ Tx # {}
    /\ \A x \in Tx : Spends[x] \in Seq(Coin) /\ Creates[x] \subseteq Coin
    \* an outpoint names the transaction that creates it
    /\ \A x \in Tx : Creates[x] \cap (FirstCoin \cup ToSet(Spends[x])) = {}
    /\ \A x, y \in Tx : x # y => Creates[x] \cap Creates[y] = {}
    /\ \A c \in Coin : ShardOf[c] \in 1..NumShards
    /\ {NumShards, ShardCap, SpentLimit, QueueCap} \subseteq Nat \ {0}
    /\ MaxCoinBoots \in Nat

VARIABLES
    shard,       \* LRU order of each shard, oldest first
    indexed, addresses, \* address_index, and the addresses with an entry in it
    balance,     \* native_balance_cache, 0 without an entry
    coinDb,      \* the utxo column family
    spentSet, spentOrder,
    coinRun, coinTx, \* where a thread is with which transaction
    deferred,    \* index operations apply_diff has put off
    pending,     \* what a thread is in the middle of, see Settled
    coinQueue,
    coinSpent,   \* ghost: the transactions that consumed a coin
    coinBorn,    \* ghost: coins created and not lost in a crash
    settled,     \* ghost: transactions the store has applied
    lapses,      \* ghost: what has gone wrong so far, see Lapse
    coinBoots

\* A rollback left a stale entry in spentOrder; a rebuild left out coins that
\* did not fit their shard; the store applied a spend before the
\* transaction that creates the output; an output was evicted and spent
\* before it reached the store, so that its amount was found nowhere; a claim
\* was evicted that a transaction still depended on; units were added to a balance,
\* or an output to an index entry, that was then removed as empty.
Lapse == {"overrun", "vanished", "released", "uncounted", "reordered", "forgotten", "unlisted"}

cacheVars == <<shard, indexed, addresses, balance>>
claimVars == <<spentSet, spentOrder>>
coinGhost == <<coinSpent, coinBorn, settled, lapses, coinBoots>>
coinVars  == <<cacheVars, claimVars, coinDb, coinRun, coinTx, deferred, pending, coinQueue, coinGhost>>

CoinOwners == {CoinOwner[c] : c \in Coin}
Cached == UNION {ToSet(shard[s]) : s \in 1..NumShards}
Owned(a, coins) == {c \in coins : CoinOwner[c] = a}
Units(a, coins) == Cardinality(Owned(a, coins))

\* LruCache::push of some outputs: a full shard gives up its least recently
\* used entry for each.
PushAll(lru, coins) ==
    LET all == lru \o SetToSeq(coins)
        over == Max({Len(all) - ShardCap, 0})
    IN [lru |-> SubSeq(all, over + 1, Len(all)), out |-> ToSet(SubSeq(all, 1, over))]

\* LruCache::pop of some outputs: the others keep their order.
Popped(lru, coins) ==
    {kept \in SetToSeqs(ToSet(lru) \ coins) :
        \A i, j \in DOMAIN kept : i < j =>
            \E k, l \in DOMAIN lru : k < l /\ lru[k] = kept[i] /\ lru[l] = kept[j]}

\* add() of every stored output, in the order of the keys.
Loaded(coins) == [s \in 1..NumShards |-> PushAll(<<>>, {c \in coins : ShardOf[c] = s}).lru]
Fits(coins) == \A s \in 1..NumShards : Cardinality({c \in coins : ShardOf[c] = s}) <= ShardCap

\* A transaction runs (its claims, then the shards it touches, then the
\* inputs that no shard held), does the index operations it put off, is sent.
NotRunning == [op |-> "idle", claimed |-> 0, shards |-> {}]
NotDeferred == [add |-> {}, remove |-> {}, miss |-> {}]

\* The shard a thread has locked, or 0; the addresses whose balance it has seen reach
\* zero; the outputs it has pushed and not counted; the addresses whose index entry it
\* has seen empty.
Settled == [lock |-> 0, zeroed |-> {}, uncounted |-> {}, bare |-> {}]

CoinInit ==
    /\ shard = Loaded(FirstCoin)
    /\ indexed = Cached /\ addresses = {CoinOwner[c] : c \in Cached}
    /\ balance = [a \in CoinOwners |-> Units(a, FirstCoin)]
    /\ coinDb = FirstCoin
    /\ spentSet = {} /\ spentOrder = <<>>
    /\ coinRun = [t \in CoinThread |-> NotRunning]
    /\ coinTx = [t \in CoinThread |-> CHOOSE x \in Tx : TRUE]
    /\ deferred = [t \in CoinThread |-> NotDeferred]
    /\ pending = [t \in CoinThread |-> Settled]
    /\ coinQueue = <<>>
    /\ coinSpent = [c \in Coin |-> {}] /\ coinBorn = FirstCoin
    /\ settled = {} /\ lapses = {} /\ coinBoots = 0

-----------------------------------------------------------------------------
(* Queries.                                                                *)

\* get: the shard, then the store.
Get(c) == c \in ToSet(shard[ShardOf[c]]) \/ c \in coinDb

\* Mutant: the index is answered without a lookup.
ListingUnchecked(a) == {c \in indexed : CoinOwner[c] = a}

\* utxos_by_address and the coin selection: what the index names and a
\* lookup still finds.
Listing(a) == {c \in indexed : CoinOwner[c] = a /\ Get(c)}

Free(s) == \A t \in CoinThread : pending[t].lock # s
Busy(t) == coinRun[t].op # "idle"
Quiet == \A t \in CoinThread : ~Busy(t)
Claimed(t) == {Spends[coinTx[t]][i] : i \in 1..coinRun[t].claimed}
Claiming(t) == coinRun[t].op = "run" /\ coinRun[t].claimed < Len(Spends[coinTx[t]])
Applying(t) == coinRun[t].op = "run" /\ coinRun[t].claimed = Len(Spends[coinTx[t]])
NextInput(t) == Spends[coinTx[t]][coinRun[t].claimed + 1]

Touched(x) ==
    {ShardOf[c] : c \in ToSet(Spends[x])} \cup {ShardOf[c] : c \in Creates[x]}

-----------------------------------------------------------------------------
(* One transaction through the commit point.                               *)

\* Validation reads every input, each under the read lock of its shard alone.
Validate(t, x) ==
    /\ ~Busy(t)
    /\ \A u \in CoinThread : Busy(u) => coinTx[u] # x
    /\ \A c \in Creates[x] : c \notin coinBorn
    /\ \A c \in ToSet(Spends[x]) : Free(ShardOf[c]) /\ Get(c)
    /\ coinTx' = [coinTx EXCEPT ![t] = x]
    /\ coinRun' = [coinRun EXCEPT ![t] = [op |-> "run", claimed |-> 0, shards |-> Touched(x)]]
    /\ UNCHANGED <<cacheVars, claimVars, coinDb, deferred, pending, coinQueue, coinGhost>>

\* The outpoints whose claim still protects something: inputs of a running
\* transaction, and spends the store has not applied.
Needed ==
    (UNION {ToSet(Spends[coinTx[t]]) : t \in {u \in CoinThread : Busy(u)}})
      \cup (UNION {ToSet(Spends[coinQueue[i]]) : i \in DOMAIN coinQueue})

\* Mutant: an outpoint that is in the set is claimed all the same.
MarkSpent(t) ==
    /\ Claiming(t) /\ coinRun' = [coinRun EXCEPT ![t].claimed = @ + 1]
    /\ spentSet' = spentSet \cup {NextInput(t)}
    /\ UNCHANGED <<cacheVars, spentOrder, coinDb, coinTx, deferred, pending, coinQueue, coinGhost>>

\* try_mark_spent: the claim joins the order, which gives up its oldest.
TryMarkSpent(t) ==
    /\ Claiming(t) /\ NextInput(t) \notin spentSet
    /\ LET c == NextInput(t)
           order == Append(spentOrder, c)
           over == Max({Len(order) - SpentLimit, 0})
           kept == SubSeq(order, over + 1, Len(order))
           gone == ToSet(SubSeq(order, 1, over))
       IN /\ spentOrder' = kept
          /\ spentSet' = (spentSet \cup {c}) \ gone
          /\ lapses' = lapses \cup {l \in {"overrun"} : (gone \ ToSet(kept)) \cap Needed # {}}
    /\ coinRun' = [coinRun EXCEPT ![t].claimed = @ + 1]
    /\ UNCHANGED <<cacheVars, coinDb, coinTx, deferred, pending, coinQueue, coinSpent, coinBorn, settled, coinBoots>>

\* A lost claim: unmark_spent of the inputs this transaction has claimed;
\* their entries stay in the order.
RollBack(t) ==
    /\ Claiming(t) /\ NextInput(t) \in spentSet
    /\ spentSet' = spentSet \ Claimed(t)
    /\ lapses' = lapses \cup {l \in {"released"} : Claimed(t) # {}}
    /\ coinRun' = [coinRun EXCEPT ![t] = NotRunning]
    /\ UNCHANGED <<cacheVars, spentOrder, coinDb, coinTx, deferred, pending, coinQueue,
                   coinSpent, coinBorn, settled, coinBoots>>

\* Units leave balances.  An entry that reaches zero is removed in the next step; a
\* balance without an entry stays as it is.
Less(coins) == [a \in CoinOwners |-> Max({balance[a] - Units(a, coins), 0})]
Zeroed(coins) == {a \in CoinOwners : Owned(a, coins) # {} /\ balance[a] # 0 /\ Less(coins)[a] = 0}

\* apply_diff locks the next shard, pops the spends and pushes the creates.
ApplyShard(t) ==
    /\ Applying(t) /\ pending[t] = Settled
    /\ \E s \in coinRun[t].shards :
       /\ \A r \in coinRun[t].shards : s <= r
       /\ Free(s)
       /\ coinRun' = [coinRun EXCEPT ![t].shards = @ \ {s}]
       /\ LET x == coinTx[t]
              spends == {c \in ToSet(Spends[x]) : ShardOf[c] = s}
              hit == spends \cap ToSet(shard[s])
              fresh == {c \in Creates[x] : ShardOf[c] = s}
          IN \E kept \in Popped(shard[s], spends) :
             LET pushed == PushAll(kept, fresh)
             IN /\ shard' = [shard EXCEPT ![s] = pushed.lru]
                /\ balance' = Less(hit)
                /\ pending' = [pending EXCEPT ![t] =
                     [lock |-> s, zeroed |-> Zeroed(hit), uncounted |-> fresh, bare |-> {}]]
                /\ deferred' = [deferred EXCEPT ![t] =
                     [add |-> @.add \cup fresh, remove |-> @.remove \cup hit \cup pushed.out,
                      miss |-> @.miss \cup (spends \ hit)]]
                /\ coinSpent' = [c \in Coin |-> IF c \in spends THEN coinSpent[c] \cup {x} ELSE coinSpent[c]]
                /\ coinBorn' = coinBorn \cup fresh
    /\ UNCHANGED <<indexed, addresses, claimVars, coinDb, coinTx, coinQueue, settled, lapses, coinBoots>>

\* A balance that was seen to reach zero is removed, whatever it is by now.
DropBalance(t) ==
    /\ \E a \in pending[t].zeroed :
         /\ pending' = [pending EXCEPT ![t].zeroed = @ \ {a}]
         /\ balance' = [balance EXCEPT ![a] = 0]
         /\ lapses' = lapses \cup {l \in {"forgotten"} : balance[a] # 0}
    /\ UNCHANGED <<shard, indexed, addresses, claimVars, coinDb, coinRun, coinTx, deferred, coinQueue,
                   coinSpent, coinBorn, settled, coinBoots>>

\* The created units are counted, and the lock of the shard is released.
CountCreates(t) ==
    /\ pending[t].lock # 0 /\ pending[t].zeroed = {}
    /\ balance' = [a \in CoinOwners |-> balance[a] + Units(a, pending[t].uncounted)]
    /\ pending' = [pending EXCEPT ![t] = Settled]
    /\ UNCHANGED <<shard, indexed, addresses, claimVars, coinDb, coinRun, coinTx, deferred, coinQueue, coinGhost>>

Missed(t) ==
    /\ Applying(t) /\ coinRun[t].shards = {} /\ pending[t] = Settled
    /\ coinRun' = [coinRun EXCEPT ![t].op = "index"]
    /\ deferred' = [deferred EXCEPT ![t] = [add |-> @.add, remove |-> @.remove \cup (@.miss \cap coinDb), miss |-> {}]]

\* Mutant: a spend that missed the cache leaves the balance alone.
MissedSpendsUncounted(t) ==
    /\ Missed(t)
    /\ UNCHANGED <<cacheVars, claimVars, coinDb, coinTx, pending, coinQueue, coinGhost>>

\* The spends no shard held: only the store knows their amount and owner.
MissedSpends(t) ==
    /\ Missed(t)
    /\ LET found == deferred[t].miss \cap coinDb
       IN /\ balance' = Less(found)
          /\ pending' = [pending EXCEPT ![t].zeroed = Zeroed(found)]
          /\ lapses' = lapses \cup {l \in {"vanished"} : found # deferred[t].miss}
    /\ UNCHANGED <<shard, indexed, addresses, claimVars, coinDb, coinTx, coinQueue,
                   coinSpent, coinBorn, settled, coinBoots>>

Indexing(t) == coinRun[t].op = "index" /\ pending[t] = Settled

\* The deferred index operations and the entries of the evicted outputs, one by one
\* (in any order, where the code goes from shard to shard).
IndexAdd(t) ==
    /\ Indexing(t)
    /\ \E c \in deferred[t].add :
         /\ indexed' = indexed \cup {c} /\ addresses' = addresses \cup {CoinOwner[c]}
         /\ deferred' = [deferred EXCEPT ![t].add = @ \ {c}]
    /\ UNCHANGED <<shard, balance, claimVars, coinDb, coinRun, coinTx, pending, coinQueue, coinGhost>>

\* addr_index_remove: an address left without outputs loses its entry in the next step.
IndexRemove(t) ==
    /\ Indexing(t)
    /\ \E c \in deferred[t].remove \ deferred[t].add :
         /\ indexed' = indexed \ {c}
         /\ deferred' = [deferred EXCEPT ![t].remove = @ \ {c}]
         /\ pending' = [pending EXCEPT ![t].bare =
              {a \in {CoinOwner[c]} \cap addresses : Owned(a, indexed \ {c}) = {}}]
    /\ UNCHANGED <<shard, addresses, balance, claimVars, coinDb, coinRun, coinTx, coinQueue, coinGhost>>

\* An entry that was seen empty is removed, whatever is in it by now.
DropAddress(t) ==
    /\ \E a \in pending[t].bare :
         /\ indexed' = indexed \ Owned(a, indexed) /\ addresses' = addresses \ {a}
         /\ lapses' = lapses \cup {l \in {"unlisted"} : Owned(a, indexed) # {}}
    /\ pending' = [pending EXCEPT ![t] = Settled]
    /\ UNCHANGED <<shard, balance, claimVars, coinDb, coinRun, coinTx, deferred, coinQueue,
                   coinSpent, coinBorn, settled, coinBoots>>

Send(t) ==
    /\ Indexing(t) /\ deferred[t] = NotDeferred /\ Len(coinQueue) < QueueCap
    /\ coinRun' = [coinRun EXCEPT ![t] = NotRunning]
    /\ coinQueue' = Append(coinQueue, coinTx[t])
    /\ UNCHANGED <<cacheVars, claimVars, coinDb, coinTx, deferred, pending, coinGhost>>

\* The consumer: the delta of the oldest job reaches the store.
WriteCoins ==
    /\ coinQueue # <<>>
    /\ coinDb' = (coinDb \ ToSet(Spends[Head(coinQueue)])) \cup Creates[Head(coinQueue)]
    /\ coinQueue' = Tail(coinQueue)
    /\ settled' = settled \cup {Head(coinQueue)}
    /\ lapses' = lapses \cup {l \in {"reordered"} : ~(ToSet(Spends[Head(coinQueue)])
                                \subseteq FirstCoin \cup UNION {Creates[x] : x \in settled})}
    /\ UNCHANGED <<cacheVars, claimVars, coinRun, coinTx, deferred, pending,
                   coinSpent, coinBorn, coinBoots>>

\* A restart streams the stored outputs through add(), and rebuilds the
\* indexes from the shards when the cache is meant to hold them all.
Restart ==
    /\ coinBoots < MaxCoinBoots /\ coinBoots' = coinBoots + 1
    /\ LET all == coinDb
           held == UNION {ToSet(Loaded(all)[s]) : s \in 1..NumShards}
           rebuild == Cardinality(all) <= ShardCap * NumShards
       IN /\ shard' = Loaded(all)
          /\ indexed' = held /\ addresses' = {CoinOwner[c] : c \in held}
          /\ balance' = [a \in CoinOwners |-> Units(a, IF rebuild THEN held ELSE all)]
          /\ lapses' = (lapses \ {"forgotten", "unlisted"})
                         \cup {l \in {"uncounted"} : rebuild /\ ~Fits(all)}
    /\ spentSet' = {} /\ spentOrder' = <<>>
    /\ coinRun' = [t \in CoinThread |-> NotRunning]
    /\ coinTx' = [t \in CoinThread |-> CHOOSE x \in Tx : TRUE]
    /\ deferred' = [t \in CoinThread |-> NotDeferred]
    /\ pending' = [t \in CoinThread |-> Settled]
    /\ coinQueue' = <<>>
    /\ coinBorn' = FirstCoin \cup UNION {Creates[x] : x \in settled}
    /\ coinSpent' = [c \in Coin |-> {x \in settled : c \in ToSet(Spends[x])}]
    /\ UNCHANGED <<coinDb, settled>>

CoinNext ==
    \/ \E t \in CoinThread :
         \/ \E x \in Tx : Validate(t, x)
         \/ TryMarkSpent(t) \/ RollBack(t) \/ ApplyShard(t)
         \/ DropBalance(t) \/ CountCreates(t) \/ MissedSpends(t)
         \/ IndexAdd(t) \/ IndexRemove(t) \/ DropAddress(t) \/ Send(t)
    \/ WriteCoins
    \/ Restart

CoinSpec == CoinInit /\ [][CoinNext]_coinVars

-----------------------------------------------------------------------------
Live == {c \in coinBorn : coinSpent[c] = {}}

\* No output is consumed by two transactions, although a miss is answered by
\* a store that still holds outputs spent in memory (utxo.rs 285-295) and the
\* set of claims forgets the oldest: unless more claims are made than the set
\* holds while a transaction is under way, or the queue holds a spend before
\* the creation.  "A stale spent_order entry is harmless (its later FIFO
\* remove is a no-op)" (spent.rs 41-42).
SpentOnce ==
    lapses \cap {"overrun", "reordered"} = {} =>
        \A c \in Coin : Cardinality(coinSpent[c]) <= 1

\* ... and unless a rollback has left a stale entry in the eviction order.
SpentOnceButStale == "released" \in lapses \/ SpentOnce

\* Between transactions the balance cache counts the unspent outputs of an
\* address, whichever shard, store or eviction they went through, and across
\* restarts.  Excepted are an output that was evicted before it was stored,
\* a rebuild after outputs were evicted while loading (a full shard in a cache
\* with room, instance.rs 236), and until the next restart an address whose
\* balance was removed as zero after another thread had added to it (utxo.rs
\* 228-236).
BalancesExact ==
    Quiet /\ lapses \subseteq {"unlisted"} => \A a \in CoinOwners : balance[a] = Units(a, Live)

\* Once the store has caught up, a listing offers only unspent outputs and
\* every cached output, although the index is updated after the locks of the
\* shards are released (utxo.rs 430-453) and two threads may update it in the
\* other order than they updated the shards.  A cached output may be missing,
\* until the next restart, if its address was removed from the index as empty
\* after it had been added (utxo.rs 270-278).
ListingConverges ==
    Quiet /\ coinQueue = <<>> /\ lapses \cap {"overrun", "released", "reordered"} = {} =>
        \A a \in CoinOwners :
            /\ Listing(a) \subseteq Live
            /\ "unlisted" \notin lapses => Owned(a, Cached) \subseteq Listing(a)

\* Both views of an address's coins: its balance and the listing its wallet
\* selects inputs from.
CoinViewsExact == BalancesExact /\ ListingConverges
=============================================================================
