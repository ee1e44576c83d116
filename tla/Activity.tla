------------------------------- MODULE Activity -------------------------------
(***************************************************************************)
(* The activity of one address: three column families written after the    *)
(* blocks, by other tasks than the ones that store them, and listed page   *)
(* by page by GET /wallet/{address}/activity.                              *)
(*                                                                         *)
(* addr_activity has a key (ts, block) per block, addr_type_activity one   *)
(* per category of the block, activity_items the classified items under    *)
(* the key of addr_activity.  Plain blocks are indexed by a background     *)
(* writer fed by the persist task; encrypted ones by the handler that      *)
(* still has their content.  A retention task purges the three families    *)
(* one after the other, and an administrator may index all blocks again.   *)
(* A page is read in batches, each from a later state of the store.        *)
(***************************************************************************)
EXTENDS Integers, Sequences, FiniteSets, SequencesExt

CONSTANTS
    ABlock,         \* block ids: integers, for the order of keys
    Content,        \* [ABlock -> payload: kind, from, outs, fees, feeOnly, type]
    Sealed,         \* blocks whose payload is encrypted
    Me,             \* the address that is listed
    Filters,        \* sets of activity types a reader asks for
    Limits,         \* page sizes
    ReadBatch,      \* BATCH_SIZE
    ActivityBuffer, \* capacity of the activity channel
    Retention,      \* activity_retention_days
    PageTtl, PageCap,          \* activity cache: life and size
    MaxClock, MaxWalks, MaxSweeps  \* bounds

NoCursor == <<0, 0>>
Unknown == "unknown"

VARIABLES
    acClock,
    acStored,   \* block -> id2ts; 0 when the block is not stored
    acQueue,    \* jobs of the activity writer: [block, ts]
    acSealing,  \* encrypted blocks whose handler has yet to index them
    acIndex,    \* addr_activity of Me: keys <<ts, block>>
    acTyped,    \* addr_type_activity of Me: <<category, key>>
    acItems,    \* activity_items of Me: key -> types
    acCache,    \* cached pages: [filter, limit, cursor] -> [page, next, at, base]
    acPage,     \* the request under way
    acWalk,     \* the reader: what it asked for and what it got
    acWalks,
    acSweep,    \* the purge under way: [stage, cutoff]
    acSweeps,
    acRebuild,  \* the re-indexing under way: [op, left]
    acExpired   \* history: entries before this time were to be purged

acStore == <<acStored, acQueue, acSealing, acIndex, acTyped, acItems>>
acReader == <<acCache, acPage, acWalk, acWalks>>
acTasks == <<acSweep, acSweeps, acRebuild, acExpired>>
acVars == <<acClock, acStore, acReader, acTasks>>

Idle == [op |-> "idle"]

ActivityInit ==
    /\ acClock = 1
    /\ acStored = [b \in ABlock |-> 0] /\ acQueue = <<>> /\ acSealing = {}
    /\ acIndex = {} /\ acTyped = {} /\ acItems = << >>
    /\ acCache = << >> /\ acPage = Idle /\ acWalk = Idle /\ acWalks = 0
    /\ acSweep = Idle /\ acSweeps = 0 /\ acRebuild = Idle /\ acExpired = 0

Pass == acClock < MaxClock /\ acClock' = acClock + 1 /\ UNCHANGED <<acStore, acReader, acTasks>>

-----------------------------------------------------------------------------
(* Classification of a payload for an address.                             *)

Paid(seq, a) == SelectSeq(seq, LAMBDA x : x = a)

\* extract_involved_addresses: the sender of a transfer is not among its outputs.
Involved(p) ==
    ToSet(p.outs) \cup (IF p.kind = "reward" THEN ToSet(p.fees) ELSE {})
    \cup (IF p.kind \in {"tx", "mint", "reward", "reverse", "bridge_mint"} THEN {} ELSE {p.from})

\* is_fee_output_only: the address gets the amount of the fee and nothing else.
IsFeeOutputOnly(p, a) == a \in ToSet(p.outs) /\ a \in p.feeOnly

\* extract_involved_with_category.
CategoriesOf(p, a) ==
    CASE a \notin Involved(p) -> {}
      [] p.kind = "tx"     -> {IF IsFeeOutputOnly(p, a) THEN "Fee" ELSE "Transfer"}
      [] p.kind = "reward" -> (IF a \in ToSet(p.fees) THEN {"Fee"} ELSE {})
                              \cup (IF a \in ToSet(p.outs) THEN {"Reward"} ELSE {})
      [] p.kind = "mint"   -> {"Mint"}
      [] p.kind = "market" -> {"Transfer"}
      [] p.kind = "seize"  -> {"Compliance"}
      [] p.kind = "nft"    -> {"Nft"}
      [] p.kind = "bridge_mint" -> {"Bridge"}
      [] p.kind = "reverse" -> {"Reverse"}
      [] OTHER -> {p.category}

\* from_filter_type: the types of the market and of royalties have none.
FilterCategory(t) ==
    CASE t = "mint" -> "Mint"
      [] t \in {"transfer_in", "transfer_out", "transfer_self"} -> "Transfer"
      [] t = "fee_received" -> "Fee"
      [] t = "reward" -> "Reward"
      [] t \in {"nft_transfer_in", "nft_transfer_out", "nft_mint", "nft_burn", "nft_use"} -> "Nft"
      [] t \in {"seized", "seize_received", "freeze", "unfreeze"} -> "Compliance"
      [] t \in {"bridge_mint", "bridge_lock_in"} -> "Bridge"
      [] t = "reverse_received" -> "Reverse"
      [] t = "token_create" -> "TokenCreate"
      [] t = "token_burn" -> "Burn"
      [] OTHER -> "none"

Each(seq, t) == [i \in 1..Len(seq) |-> t]

TransferItems(p, a, sender) ==
    CASE sender = a /\ ToSet(p.outs) = {a} -> <<"transfer_self">>
      [] sender = a -> <<"transfer_out">>
      [] a \in ToSet(p.outs) -> <<IF IsFeeOutputOnly(p, a) THEN "fee_received" ELSE "transfer_in">>
      [] OTHER -> << >>

\* market_settle_items: the buyer pays, the first output is the seller's.
MarketItems(p, a) ==
    CASE a = p.from -> <<"market_buy">>
      [] a # p.from /\ a = p.outs[1] -> <<"market_sell">>
      [] a \notin {p.from, p.outs[1]} /\ a \in ToSet(p.outs) -> <<"royalty_received">>
      [] OTHER -> << >>

NftItems(p, a) ==
    CASE a = p.outs[1] -> <<"nft_transfer_in">>
      [] a # p.outs[1] /\ a = p.from -> <<"nft_transfer_out">>
      [] OTHER -> << >>

\* One item per output.
OutputItems(p, a, t) == Each(Paid(p.outs, a), t)

SeizeItems(p, a) ==
    (IF a = p.from THEN <<"seized">> ELSE << >>) \o OutputItems(p, a, "seize_received")

\* Freezes, burns, creations: one item for the party they name.
OwnItem(p, a) == IF a = p.from THEN <<p.type>> ELSE << >>

ClassifyForStorage(p, a, sender) ==
    CASE p.kind = "tx"     -> TransferItems(p, a, sender)
      [] p.kind = "reward" -> Each(Paid(p.fees, a), "fee_received") \o OutputItems(p, a, "reward")
      [] p.kind = "mint"   -> OutputItems(p, a, "mint")
      [] p.kind = "bridge_mint" -> OutputItems(p, a, "bridge_mint")
      [] p.kind = "reverse" -> OutputItems(p, a, "reverse_received")
      [] p.kind = "seize"  -> SeizeItems(p, a)
      [] p.kind = "market" -> MarketItems(p, a)
      [] p.kind = "nft"    -> NftItems(p, a)
      [] OTHER -> OwnItem(p, a)

\* classify_activity looks the sender up by the first input, which the block has spent.
ClassifyActivity(p, a) == ClassifyForStorage(p, a, Unknown)

-----------------------------------------------------------------------------
(* The writers.                                                            *)

PutItems(items, key, types) ==
    IF types = << >> THEN items
    ELSE [k \in DOMAIN items \cup {key} |-> IF k = key THEN types ELSE items[k]]

\* The three families in one batch.
WriteActivity(b, ts, cats, types) ==
    /\ acIndex' = acIndex \cup {<<ts, b>>}
    /\ acTyped' = acTyped \cup {<<c, <<ts, b>>>> : c \in cats}
    /\ acItems' = PutItems(acItems, <<ts, b>>, types)

\* The persist task stores a block, then offers it to the activity writer: a full
\* channel drops it.  The clock may move between the two reads of the time.
StoreBlock(b, later) ==
    /\ acStored[b] = 0 /\ acClock + later <= MaxClock
    /\ acStored' = [acStored EXCEPT ![b] = acClock]
    /\ acClock' = acClock + later
    /\ acQueue' = IF Len(acQueue) < ActivityBuffer
                  THEN Append(acQueue, [block |-> b, ts |-> acClock + later]) ELSE acQueue
    /\ UNCHANGED <<acSealing, acIndex, acTyped, acItems, acReader, acTasks>>

\* The activity writer.  Only plain blocks can be classified.
WriteQueued ==
    /\ acQueue # << >>
    /\ acQueue' = Tail(acQueue)
    /\ LET j == Head(acQueue)
           p == Content[j.block]
       IN \/ /\ j.block \notin Sealed /\ Me \in Involved(p)
             /\ WriteActivity(j.block, j.ts, CategoriesOf(p, Me), ClassifyForStorage(p, Me, Unknown))
          \/ /\ j.block \in Sealed \/ Me \notin Involved(p)
             /\ UNCHANGED <<acIndex, acTyped, acItems>>
    /\ UNCHANGED <<acClock, acStored, acSealing, acReader, acTasks>>

\* The answer of the pipeline for an encrypted block comes before it is stored.
AcceptSealed(b) ==
    /\ b \in Sealed \ acSealing /\ \A e \in acIndex : e[2] # b
    /\ acSealing' = acSealing \cup {b}
    /\ UNCHANGED <<acClock, acStored, acQueue, acIndex, acTyped, acItems, acReader, acTasks>>

\* wallet_send_tx and wallet_send_simple index the sender too and write the items;
\* mint_nft leaves the items to the reader.
IndexSealed(b) ==
    /\ b \in acSealing
    /\ acSealing' = acSealing \ {b}
    /\ LET p == Content[b]
           extra == IF p.kind = "tx" /\ p.from = Me /\ Me \notin Involved(p) THEN {"Transfer"} ELSE {}
           types == IF p.kind = "tx" THEN ClassifyForStorage(p, Me, p.from) ELSE << >>
       IN \/ /\ Me \in Involved(p) \/ extra # {}
             /\ WriteActivity(b, acClock, CategoriesOf(p, Me) \cup extra, types)
          \/ /\ Me \notin Involved(p) /\ extra = {}
             /\ UNCHANGED <<acIndex, acTyped, acItems>>
    /\ UNCHANGED <<acClock, acStored, acQueue, acReader, acTasks>>

-----------------------------------------------------------------------------
(* Retention and re-indexing.                                              *)

StartSweep ==
    /\ acSweep = Idle /\ acSweeps < MaxSweeps
    /\ acSweep' = [op |-> "index", cutoff |-> acClock - Retention] /\ acSweeps' = acSweeps + 1
    /\ acExpired' = acClock - Retention
    /\ UNCHANGED <<acClock, acStore, acReader, acRebuild>>

Kept(key) == key[1] >= acSweep.cutoff

Sweep ==
    /\ acSweep # Idle
    /\ \/ /\ acSweep.op = "index" /\ acSweep' = [acSweep EXCEPT !.op = "typed"]
          /\ acIndex' = {k \in acIndex : Kept(k)} /\ UNCHANGED <<acTyped, acItems>>
       \/ /\ acSweep.op = "typed" /\ acSweep' = [acSweep EXCEPT !.op = "items"]
          /\ acTyped' = {e \in acTyped : Kept(e[2])} /\ UNCHANGED <<acIndex, acItems>>
       \/ /\ acSweep.op = "items" /\ acSweep' = Idle
          /\ acItems' = [k \in {x \in DOMAIN acItems : Kept(x)} |-> acItems[k]]
          /\ UNCHANGED <<acIndex, acTyped>>
    /\ UNCHANGED <<acClock, acStored, acQueue, acSealing, acReader, acSweeps, acRebuild, acExpired>>

\* reindex_all_activity and reindex_all_activity_items go through the stored blocks.
StartRebuild(op) ==
    /\ acRebuild = Idle /\ acSweeps < MaxSweeps
    /\ acRebuild' = [op |-> op, left |-> {b \in ABlock \ Sealed : acStored[b] # 0}]
    /\ acSweeps' = acSweeps + 1
    /\ UNCHANGED <<acClock, acStore, acReader, acSweep, acExpired>>

\* One block, under the time of id2ts; what was written under another time stays.
Rebuild ==
    /\ acRebuild # Idle
    /\ \/ /\ acRebuild.left = {} /\ acRebuild' = Idle /\ UNCHANGED <<acIndex, acTyped, acItems>>
       \/ \E b \in acRebuild.left :
            LET p == Content[b]
                key == <<acStored[b], b>>
                mine == Me \in Involved(p)
            IN /\ \A o \in acRebuild.left : b <= o
               /\ acRebuild' = [acRebuild EXCEPT !.left = @ \ {b}]
               /\ acIndex' = IF mine /\ acRebuild.op = "index" THEN acIndex \cup {key} ELSE acIndex
               /\ acTyped' = IF mine /\ acRebuild.op = "index"
                             THEN acTyped \cup {<<c, key>> : c \in CategoriesOf(p, Me)} ELSE acTyped
               /\ acItems' = IF mine /\ acRebuild.op = "items"
                             THEN PutItems(acItems, key, ClassifyForStorage(p, Me, Unknown)) ELSE acItems
    /\ UNCHANGED <<acClock, acStored, acQueue, acSealing, acReader, acSweep, acSweeps, acExpired>>

-----------------------------------------------------------------------------
(* The listing.                                                            *)

Newer(k, l) == k[1] > l[1] \/ (k[1] = l[1] /\ k[2] > l[2])

Below(key, cursor) == cursor = NoCursor \/ Newer(cursor, key)

Categories(filter) == {FilterCategory(t) : t \in filter} \ {"none"}

\* recent_activity_items_by_address, or the merge of the categories asked for, in
\* which a block of two of them comes twice.
Listing(filter, cursor) ==
    IF Categories(filter) = {}
    THEN SetToSortSeq({k \in acIndex : Below(k, cursor)}, Newer)
    ELSE LET found == {e \in acTyped : e[1] \in Categories(filter) /\ Below(e[2], cursor)}
             byKey == SetToSortSeq({e[2] : e \in found}, Newer)
             copies(k) == [i \in 1..Cardinality({e \in found : e[2] = k}) |-> k]
         IN FlattenSeq([i \in DOMAIN byKey |-> copies(byKey[i])])

Wanted(types, filter) == SelectSeq(types, LAMBDA t : filter = {} \/ t \in filter)

\* The items of an entry for a reader without the address's key: the stored ones, or
\* what the block says once it is stored.
Shown(key, filter) ==
    CASE key \in DOMAIN acItems -> Wanted(acItems[key], filter)
      [] key \notin DOMAIN acItems /\ acStored[key[2]] = 0 -> << >>
      [] key \notin DOMAIN acItems /\ key[2] \in Sealed -> Wanted(<<"encrypted">>, filter)
      [] OTHER -> Wanted(ClassifyActivity(Content[key[2]], Me), filter)

\* Entries a reader should find now: what retention has expired may be half purged.
Findable(filter) == {k \in acIndex : k[1] >= acExpired /\ Shown(k, filter) # << >>}

StartWalk(filter, limit) ==
    /\ acWalk # Idle => acWalk.done
    /\ acWalks < MaxWalks /\ acWalks' = acWalks + 1
    /\ acWalk' = [op |-> "walk", filter |-> filter, limit |-> limit, cursor |-> NoCursor, got |-> << >>,
                  pages |-> 0, base |-> Findable(filter), done |-> FALSE]
    /\ UNCHANGED <<acClock, acStore, acCache, acPage, acTasks>>

PageKey == [filter |-> acWalk.filter, limit |-> acWalk.limit, cursor |-> acWalk.cursor]

Receive(page, next, base) ==
    acWalk' = [acWalk EXCEPT !.got = @ \o [i \in DOMAIN page |-> <<acWalk.pages, page[i]>>],
                             !.pages = @ + 1, !.cursor = next, !.base = @ \cap base,
                             !.done = next = NoCursor]

Fresh(key) == key \in DOMAIN acCache /\ acClock - acCache[key].at < PageTtl

\* get_wallet_activity: from the cache ...
CachedPage ==
    /\ acWalk # Idle /\ acPage = Idle /\ ~acWalk.done /\ Fresh(PageKey)
    /\ LET c == acCache[PageKey] IN Receive(c.page, c.next, c.base)
    /\ UNCHANGED <<acClock, acStore, acCache, acPage, acWalks, acTasks>>

\* ... or read (an expired page leaves the cache).
StartPage ==
    /\ acWalk # Idle /\ acPage = Idle /\ ~acWalk.done /\ ~Fresh(PageKey)
    /\ acPage' = [op |-> "page", cursor |-> acWalk.cursor, items |-> << >>, base |-> acWalk.base]
    /\ acCache' = [k \in DOMAIN acCache \ {PageKey} |-> acCache[k]]
    /\ UNCHANGED <<acClock, acStore, acWalk, acWalks, acTasks>>

\* ActivityCache::put: a full cache drops what expired, then any 30 %.
CachePut(key, page) ==
    LET live == IF Cardinality(DOMAIN acCache) < PageCap THEN DOMAIN acCache
                ELSE {k \in DOMAIN acCache : acClock - acCache[k].at < PageTtl}
        keep == IF Cardinality(live) < PageCap THEN Cardinality(live) ELSE (PageCap * 7) \div 10
    IN \E rest \in SUBSET live :
            /\ Cardinality(rest) = keep
            /\ acCache' = [k \in rest \cup {key} |-> IF k = key THEN page ELSE acCache[k]]

\* Mutant: the next page starts after the last batch that was read.
NextAfterBatch(page, limit, last) == last

\* The next page starts after the last item that was kept.
NextCursor(page, limit, last) == IF Len(page) > limit THEN page[limit] ELSE last

\* One batch of the loop, and the answer when it was the last.
ReadPage ==
    /\ acPage # Idle
    /\ LET filter == acWalk.filter
           limit == acWalk.limit
           found == Listing(filter, acPage.cursor)
           more == Len(found) > ReadBatch
           entries == IF more THEN SubSeq(found, 1, ReadBatch) ELSE found
           next == IF more THEN entries[ReadBatch] ELSE NoCursor
           items == acPage.items \o FlattenSeq([i \in DOMAIN entries |->
                                      Each(Shown(entries[i], filter), entries[i])])
           base == acPage.base \cap Findable(filter)
           after == NextCursor(items, limit, next)
           kept == IF Len(items) > limit THEN SubSeq(items, 1, limit) ELSE items
       IN \/ /\ more /\ Len(items) <= limit
             /\ acPage' = [acPage EXCEPT !.cursor = next, !.items = items, !.base = base]
             /\ UNCHANGED <<acCache, acWalk>>
          \/ /\ ~more \/ Len(items) > limit
             /\ acPage' = Idle
             /\ Receive(kept, after, base)
             /\ CachePut(PageKey, [page |-> kept, next |-> after, at |-> acClock, base |-> base])
    /\ UNCHANGED <<acClock, acStore, acWalks, acTasks>>

-----------------------------------------------------------------------------
ActivityNext ==
    \/ Pass
    \/ \E b \in ABlock, later \in 0..1 : StoreBlock(b, later)
    \/ WriteQueued
    \/ \E b \in ABlock : AcceptSealed(b) \/ IndexSealed(b)
    \/ StartSweep \/ Sweep
    \/ \E op \in {"index", "items"} : StartRebuild(op)
    \/ Rebuild
    \/ \E f \in Filters, l \in Limits : StartWalk(f, l)
    \/ CachedPage \/ StartPage \/ ReadPage

-----------------------------------------------------------------------------
\* A filter that asks for a type with a category and for one without looks only into
\* the categories; and the change of a sender that equals the fee is filed as a fee.
Overlooked(key, filter) ==
    \/ Categories(filter) # {} /\ \E t \in filter : FilterCategory(t) = "none"
    \/ LET p == Content[key[2]] IN p.kind = "tx" /\ p.from = Me /\ IsFeeOutputOnly(p, Me)

\* Walking the pages of a listing lists every entry that was there, and visible, at
\* each read of the walk, whatever was indexed, purged, re-indexed or cached meanwhile;
\* newest first, and no entry on two pages.
ListingSound ==
    acWalk # Idle =>
        /\ acWalk.done => \A k \in acWalk.base :
              \/ Overlooked(k, acWalk.filter)
              \/ \E i \in DOMAIN acWalk.got : acWalk.got[i][2] = k
        /\ \A i \in 1..Len(acWalk.got) - 1 :
              LET this == acWalk.got[i]
                  that == acWalk.got[i + 1]
              IN Newer(this[2], that[2]) \/ this = that
=============================================================================
