------------------------------- MODULE Bridge -------------------------------
(***************************************************************************)
(* Several ledgers in one process: the manager that creates, loads and     *)
(* hands them over (pms-ledger, api_fn/ledger.rs) and the transfers        *)
(* between them (pms-bridge, api_fn/bridge.rs, the BridgeLock and          *)
(* BridgeMint arms of persist.rs).                                         *)
(*                                                                         *)
(* Each ledger has its own cache, window and persist queue: a transfer is  *)
(* a lock on one and a mint on the other, each visible at once and stored  *)
(* later, in no order between the two.  The process may end in between.    *)
(* A block enters a ledger's memory and its queue in one step here, which  *)
(* PersistPipeline takes apart.                                            *)
(***************************************************************************)
EXTENDS Integers, Sequences, FiniteSets, Functions

CONSTANTS
    BLedger,        \* ledgers
    Configured,     \* those of the settings
    CfgOwner,       \* owner_pubkey in the settings
    BCoinId,        \* ids of the coins there are at the start
    BStart,         \* those coins, by ledger
    BAmount,        \* amounts asked, and minted
    BAddr,          \* destination addresses
    Transfer,       \* calls of admin_bridge_transfer
    LedgerOp,       \* calls that create a ledger or hand it over
    BOwner, NoOwner, \* owners
    CrossFee,       \* fee a transfer adds to the pool
    MaxResubmits, MaxToggles, MaxBridgeCrashes \* bounds

\* A coin of a transfer has the id of the transfer, which names its mint.
BCoin == [id : BCoinId \cup Transfer, amt : Nat]
NoDef == "none"

ASSUME BridgeAssumption ==
    /\ IsFiniteSet(BLedger) /\ IsFiniteSet(Transfer)
    /\ Configured \subseteq BLedger
    /\ CfgOwner \in [Configured -> BOwner \cup {NoOwner}]
    /\ NoDef \notin BOwner \cup {NoOwner}
    /\ BStart \in [BLedger -> SUBSET BCoin]
    /\ \A l \in BLedger : IsFiniteSet(BStart[l]) /\ \A x \in BStart[l] : x.id \notin Transfer
    /\ BAmount \subseteq Nat \ {0}
    /\ {CrossFee, MaxResubmits, MaxToggles, MaxBridgeCrashes} \subseteq Nat

VARIABLES
    brCoins, brSaved,       \* coins of each ledger: in memory, stored
    brLocks, brSavedLocks,  \* BridgeLock blocks of each ledger
    brKeys, brSavedKeys,    \* locks minted on each ledger: claim, bridge_consumed
    brQueue,                \* persist queue of each ledger
    brLink,                 \* the link of each pair
    brMintEnabled,          \* the kill switch
    brStatus,               \* bridge_consumed of the main ledger: an index
    brPool,                 \* cross-ledger fees added to the fee pool
    brPc, brPlan,           \* transfers under way
    brDefs, brSavedDefs,    \* definitions: the manager's, CF ledger_defs
    brOpPc, brOp,           \* ledger operations under way
    brLoose,                \* ledgers whose definition was raced or not saved
    brResubmits, brToggles, brCrashes

brLedgerVars == <<brCoins, brSaved, brLocks, brSavedLocks, brKeys, brSavedKeys, brQueue>>
brCallVars == <<brStatus, brPool, brPc, brPlan>>
brDefVars == <<brDefs, brSavedDefs, brOpPc, brOp, brLoose>>
brCtlVars == <<brLink, brMintEnabled, brResubmits, brToggles, brCrashes>>
brVars == <<brLedgerVars, brCallVars, brDefVars, brCtlVars>>

NoPlan == [from |-> "none"]
NoLink == [enabled |-> FALSE, from |-> {}]
Pairs == {p \in SUBSET BLedger : Cardinality(p) = 2}

\* bootstrap: the ledgers of the settings, then load_persisted_ledgers adds
\* the stored ones and takes the stored owner where it differs.
LoadDefs(stored) ==
    [l \in BLedger |->
        IF stored[l] # NoDef THEN stored[l]
        ELSE IF l \in Configured THEN CfgOwner[l] ELSE NoDef]

BridgeInit ==
    /\ brCoins = BStart /\ brSaved = BStart
    /\ brLocks = [l \in BLedger |-> {}] /\ brSavedLocks = [l \in BLedger |-> {}]
    /\ brKeys = [l \in BLedger |-> {}] /\ brSavedKeys = [l \in BLedger |-> {}]
    /\ brQueue = [l \in BLedger |-> <<>>]
    /\ brLink = [p \in Pairs |-> NoLink]
    /\ brMintEnabled = TRUE
    /\ brStatus = {} /\ brPool = 0
    /\ brPc = [c \in Transfer |-> "idle"]
    /\ brPlan = [c \in Transfer |-> NoPlan]
    /\ brSavedDefs = [l \in BLedger |-> NoDef]
    /\ brDefs = LoadDefs(brSavedDefs)
    /\ brOpPc = [t \in LedgerOp |-> "idle"]
    /\ brOp = [t \in LedgerOp |-> [ledger |-> "none"]]
    /\ brLoose = {}
    /\ brResubmits = 0 /\ brToggles = 0 /\ brCrashes = 0

Known == {l \in BLedger : brDefs[l] # NoDef}

-----------------------------------------------------------------------------
(* Links.                                                                  *)

\* enable_bridge: both ledgers exist and the link is not enabled yet; the
\* direction is the set of ledgers a transfer may leave from.
EnableBridge(p, dir) ==
    /\ p \subseteq Known /\ ~brLink[p].enabled
    /\ brToggles < MaxToggles /\ brToggles' = brToggles + 1
    /\ brLink' = [brLink EXCEPT ![p] = [enabled |-> TRUE, from |-> dir]]
    /\ UNCHANGED <<brMintEnabled, brResubmits, brCrashes, brLedgerVars, brCallVars, brDefVars>>

DisableBridge(p) ==
    /\ p \subseteq Known /\ brLink[p].enabled
    /\ brLink' = [brLink EXCEPT ![p].enabled = FALSE]
    /\ UNCHANGED <<brMintEnabled, brResubmits, brToggles, brCrashes, brLedgerVars, brCallVars, brDefVars>>

AllowsTransfer(from, to) ==
    from # to /\ brLink[{from, to}].enabled /\ from \in brLink[{from, to}].from

SwitchMint ==
    /\ brToggles < MaxToggles /\ brToggles' = brToggles + 1
    /\ brMintEnabled' = ~brMintEnabled
    /\ UNCHANGED <<brLink, brResubmits, brCrashes, brLedgerVars, brCallVars, brDefVars>>

-----------------------------------------------------------------------------
(* Blocks of a ledger.                                                     *)

Worth(S) == SumFunction([x \in S |-> x.amt])

\* persist_block: memory first, the job behind it.
Apply(l, spent, made, lock, key) ==
    /\ brCoins' = [brCoins EXCEPT ![l] = (@ \ spent) \cup made]
    /\ brLocks' = [brLocks EXCEPT ![l] = @ \cup lock]
    /\ brKeys' = [brKeys EXCEPT ![l] = @ \cup key]
    /\ brQueue' = [brQueue EXCEPT ![l] =
         Append(@, [spent |-> spent, made |-> made, lock |-> lock, key |-> key])]
    /\ UNCHANGED <<brSaved, brSavedLocks, brSavedKeys>>

\* The background task of a ledger stores a job; the marker of a mint is in
\* the batch of its block.
StoreJob(l) ==
    /\ brQueue[l] # <<>>
    /\ LET j == Head(brQueue[l])
       IN /\ brSaved' = [brSaved EXCEPT ![l] = (@ \ j.spent) \cup j.made]
          /\ brSavedLocks' = [brSavedLocks EXCEPT ![l] = @ \cup j.lock]
          /\ brSavedKeys' = [brSavedKeys EXCEPT ![l] = @ \cup j.key]
    /\ brQueue' = [brQueue EXCEPT ![l] = Tail(@)]
    /\ UNCHANGED <<brCoins, brLocks, brKeys, brCallVars, brDefVars, brCtlVars>>

\* resolve_bridge_lock: the lock in the source ledger, stored or not.
ResolveBridgeLock(from, id) == {k \in brLocks[from] : k.id = id}

\* reconcile_bridge_mint: this ledger, the locked amount, the address.  A
\* mutant lets a mint create more than was locked.
ReconcileAtLeast(l, k, amt, addr) == k.dest = l /\ amt >= k.amt /\ addr = k.addr
Reconcile(l, k, amt, addr) == k.dest = l /\ amt = k.amt /\ addr = k.addr

\* The BridgeMint arm and its claim at the commit point.
MintAccepted(l, from, id, amt, addr) ==
    /\ \A m \in brKeys[l] \cup brSavedKeys[l] : m.id # id
    /\ \E k \in ResolveBridgeLock(from, id) : Reconcile(l, k, amt, addr)

ApplyMint(l, id, amt) ==
    Apply(l, {}, {[id |-> id, amt |-> amt]}, {}, {[id |-> id, amt |-> amt]})

-----------------------------------------------------------------------------
(* execute_transfer.                                                       *)

\* Coins are taken from the largest until the amount is reached.
Largest(coins, amt) ==
    {S \in SUBSET coins :
        /\ Worth(S) >= amt
        /\ \A x \in S : \A y \in coins \ S : y.amt <= x.amt
        /\ \E x \in S : Worth(S \ {x}) < amt /\ \A y \in S : x.amt <= y.amt}

\* The kill switch and the link are read once, before the coins.
StartTransfer(c, from, to, amt, addr) ==
    /\ brPc[c] = "idle" /\ brPlan[c] = NoPlan
    /\ brMintEnabled
    /\ {from, to} \subseteq Known /\ AllowsTransfer(from, to)
    /\ \E S \in Largest(brCoins[from], amt) :
         brPlan' = [brPlan EXCEPT ![c] =
            [from |-> from, to |-> to, amt |-> amt, addr |-> addr, coins |-> S]]
    /\ brPc' = [brPc EXCEPT ![c] = "lock"]
    /\ UNCHANGED <<brStatus, brPool, brLedgerVars, brDefVars, brCtlVars>>

\* The BridgeLock block of a transfer.
LockOf(c, p) ==
    [id |-> c, amt |-> p.amt, dest |-> p.to, addr |-> p.addr, surplus |-> Worth(p.coins) - p.amt]

\* validate_bridge_lock_async and the claims: the inputs are there and worth
\* at least the amount.  They are spent and nothing is created: what exceeds
\* the amount leaves circulation.
PersistLock(c) ==
    LET p == brPlan[c]
    IN /\ brPc[c] = "lock"
       /\ p.coins \subseteq brCoins[p.from]
       /\ Apply(p.from, p.coins, {}, {LockOf(c, p)}, {})
       /\ brPc' = [brPc EXCEPT ![c] = "mint"]
       /\ UNCHANGED <<brStatus, brPool, brPlan, brDefVars, brCtlVars>>

PersistMint(c) ==
    LET p == brPlan[c]
    IN /\ brPc[c] = "mint"
       /\ MintAccepted(p.to, p.from, c, p.amt, p.addr)
       /\ ApplyMint(p.to, c, p.amt)
       /\ brPc' = [brPc EXCEPT ![c] = "mark"]
       /\ UNCHANGED <<brStatus, brPool, brPlan, brDefVars, brCtlVars>>

\* mark_bridge_lock_consumed, then the handler charges the fee to the pool.
MarkConsumed(c) ==
    /\ brPc[c] = "mark"
    /\ brStatus' = brStatus \cup {c}
    /\ brPool' = brPool + CrossFee
    /\ brPc' = [brPc EXCEPT ![c] = "done"]
    /\ UNCHANGED <<brPlan, brLedgerVars, brDefVars, brCtlVars>>

\* A rejected lock or mint, no tip, an error, a client that left: the transfer
\* ends where it is and nothing is undone.
AbandonTransfer(c) ==
    /\ brPc[c] \in {"lock", "mint", "mark"}
    /\ brPc' = [brPc EXCEPT ![c] = "done"]
    /\ UNCHANGED <<brStatus, brPool, brPlan, brLedgerVars, brDefVars, brCtlVars>>

\* A mint of a lock is signed and submitted again, well formed or not.
ResubmitMint(l, from, id, amt, addr) ==
    /\ brResubmits < MaxResubmits /\ brResubmits' = brResubmits + 1
    /\ MintAccepted(l, from, id, amt, addr)
    /\ ApplyMint(l, id, amt)
    /\ UNCHANGED <<brLink, brMintEnabled, brToggles, brCrashes, brCallVars, brDefVars>>

-----------------------------------------------------------------------------
(* Ledger definitions.                                                     *)

\* A definition is raced while two operations on its ledger are under way.
Contended(t, l) ==
    {m \in {l} : \E u \in LedgerOp \ {t} : brOpPc[u] # "idle" /\ brOp[u].ledger = m}

\* admin_create_ledger: not known yet; the bootstrap takes time.
CreateLedger(t, l, owner) ==
    /\ brOpPc[t] = "idle" /\ l \notin Known
    /\ brOpPc' = [brOpPc EXCEPT ![t] = "added"]
    /\ brOp' = [brOp EXCEPT ![t] = [ledger |-> l, owner |-> owner]]
    /\ brLoose' = brLoose \cup Contended(t, l)
    /\ UNCHANGED <<brDefs, brSavedDefs, brLedgerVars, brCallVars, brCtlVars>>

\* transfer_ledger_ownership: the definition is copied, a block is accepted.
TransferOwnership(t, l, owner) ==
    /\ brOpPc[t] = "idle" /\ l \in Known
    /\ brOpPc' = [brOpPc EXCEPT ![t] = "handed"]
    /\ brOp' = [brOp EXCEPT ![t] = [ledger |-> l, owner |-> owner]]
    /\ brLoose' = brLoose \cup Contended(t, l)
    /\ UNCHANGED <<brDefs, brSavedDefs, brLedgerVars, brCallVars, brCtlVars>>

\* A mutant: a ledger handed over keeps its definition in memory only.
PutNothing(t) == UNCHANGED brSavedDefs

\* put_ledger_def.
PutLedgerDef(t) == brSavedDefs' = [brSavedDefs EXCEPT ![brOp[t].ledger] = brOp[t].owner]

DefGoto(t, step) == brOpPc' = [brOpPc EXCEPT ![t] = step]

\* add_ledger puts the instance first, the definition is stored after it; a
\* transfer stores first.
LedgerAdded(t) ==
    /\ brOpPc[t] = "added"
    /\ brDefs' = [brDefs EXCEPT ![brOp[t].ledger] = brOp[t].owner]
    /\ DefGoto(t, "save")
    /\ UNCHANGED <<brSavedDefs, brOp, brLoose, brLedgerVars, brCallVars, brCtlVars>>

\* A definition that cannot be stored is only logged: the new ledger stays.
LedgerSaved(t) ==
    /\ brOpPc[t] = "save"
    /\ \/ PutLedgerDef(t) /\ UNCHANGED brLoose
       \/ UNCHANGED brSavedDefs /\ brLoose' = brLoose \cup {brOp[t].ledger}
    /\ DefGoto(t, "idle")
    /\ UNCHANGED <<brDefs, brOp, brLedgerVars, brCallVars, brCtlVars>>

\* A transfer whose definition cannot be stored answers 500 and ends there, its
\* block accepted.
OwnershipSaved(t) ==
    /\ brOpPc[t] = "handed"
    /\ \/ PutLedgerDef(t) /\ DefGoto(t, "update")
       \/ UNCHANGED brSavedDefs /\ DefGoto(t, "idle")
    /\ UNCHANGED <<brDefs, brOp, brLoose, brLedgerVars, brCallVars, brCtlVars>>

\* The bootstrap of the ledger fails, the block of a transfer is refused, or the
\* request is dropped while one of the two is awaited.
AbandonDef(t) ==
    /\ brOpPc[t] \in {"added", "handed"}
    /\ DefGoto(t, "idle")
    /\ UNCHANGED <<brDefs, brSavedDefs, brOp, brLoose, brLedgerVars, brCallVars, brCtlVars>>

\* update_def keeps the window, the coins and the adapter of the instance.
UpdateDef(t) ==
    /\ brOpPc[t] = "update"
    /\ brDefs' = [brDefs EXCEPT ![brOp[t].ledger] = brOp[t].owner]
    /\ DefGoto(t, "idle")
    /\ UNCHANGED <<brSavedDefs, brOp, brLoose, brLedgerVars, brCallVars, brCtlVars>>

\* The process ends: every ledger is rebuilt from its own column families.
BridgeCrash ==
    /\ brCrashes < MaxBridgeCrashes /\ brCrashes' = brCrashes + 1
    /\ brCoins' = brSaved /\ brLocks' = brSavedLocks /\ brKeys' = brSavedKeys
    /\ brQueue' = [l \in BLedger |-> <<>>]
    /\ brPc' = [c \in Transfer |-> IF brPlan[c] = NoPlan THEN "idle" ELSE "done"]
    /\ brPool' = 0
    /\ brDefs' = LoadDefs(brSavedDefs)
    /\ brOpPc' = [t \in LedgerOp |-> "idle"]
    /\ brLoose' = {}
    /\ UNCHANGED <<brSaved, brSavedLocks, brSavedKeys, brStatus, brPlan, brSavedDefs, brOp,
                   brLink, brMintEnabled, brResubmits, brToggles>>

TransferNext ==
    \/ \E p \in Pairs : \E dir \in SUBSET p \ {{}} : EnableBridge(p, dir)
    \/ \E p \in Pairs : DisableBridge(p)
    \/ SwitchMint
    \/ \E c \in Transfer, from, to \in BLedger, amt \in BAmount, addr \in BAddr :
          StartTransfer(c, from, to, amt, addr)
    \/ \E c \in Transfer : PersistLock(c) \/ PersistMint(c)
    \/ \E c \in Transfer : MarkConsumed(c)
    \/ \E c \in Transfer : AbandonTransfer(c)
    \/ \E l, from \in BLedger, id \in Transfer, amt \in BAmount, addr \in BAddr :
          ResubmitMint(l, from, id, amt, addr)
    \/ \E l \in BLedger : StoreJob(l)
    \/ BridgeCrash

DefNext ==
    \/ \E t \in LedgerOp, l \in BLedger, owner \in BOwner \cup {NoOwner} :
          CreateLedger(t, l, owner) \/ TransferOwnership(t, l, owner)
    \/ \E t \in LedgerOp : LedgerAdded(t) \/ LedgerSaved(t)
    \/ \E t \in LedgerOp : OwnershipSaved(t) \/ UpdateDef(t) \/ AbandonDef(t)
    \/ BridgeCrash

BridgeSpec == BridgeInit /\ [][TransferNext \/ DefNext]_brVars

-----------------------------------------------------------------------------
(* Properties.                                                             *)

AllLocks == UNION {brLocks[l] : l \in BLedger}
Total(f) == SumFunction([l \in BLedger |-> Worth(f[l])])
Surplus(locks) == SumFunction([k \in locks |-> k.surplus])
Stranded == {k \in AllLocks : \A m \in brKeys[k.dest] : m.id # k.id}
Torn == {m \in UNION {brKeys[l] : l \in BLedger} : \A k \in AllLocks : k.id # m.id}

\* What the ledgers hold, with what is locked and not minted and what locks
\* took beyond their amount, is what they held at the start; only the end of
\* the process adds to it, by a mint that was stored when its lock was not.
\* Covers the selection of coins, concurrent transfers, mints signed again,
\* reconcile_bridge_mint and the claim across restarts.
BridgeConserves ==
    /\ Total(brCoins) + Worth(Stranded) + Surplus(AllLocks)
         = Total(BStart) + Worth(Torn)
    /\ brCrashes = 0 => Torn = {}

\* A ledger and its owner are what the next start will load, when no operation
\* on it is under way, unless two overlapped on it or it was created and the write
\* of its definition failed; a transfer whose write fails leaves both as they were:
\* add_ledger, transfer_ledger_ownership, load_persisted_ledgers.
LedgersSurvive ==
    \A l \in BLedger \ brLoose :
        (\A t \in LedgerOp : brOpPc[t] = "idle" \/ brOp[t].ledger # l)
            => brDefs[l] = LoadDefs(brSavedDefs)[l]

-----------------------------------------------------------------------------
(* Inductive strengthenings, for the proofs.                               *)

BPlan == [from : BLedger, to : BLedger, amt : Nat, addr : BAddr, coins : SUBSET BCoin]
BLock == [id : Transfer, amt : Nat, dest : BLedger, addr : BAddr, surplus : Int]
BJob == [spent : SUBSET BCoin, made : SUBSET BCoin, lock : SUBSET BLock, key : SUBSET BCoin]

BridgeLedgerTypes ==
    /\ {brCoins, brSaved, brKeys, brSavedKeys} \subseteq [BLedger -> SUBSET BCoin]
    /\ {brLocks, brSavedLocks} \subseteq [BLedger -> SUBSET BLock]
    /\ brQueue \in [BLedger -> Seq(BJob)]
BridgeCallTypes ==
    /\ brPc \in [Transfer -> {"idle", "lock", "mint", "mark", "done"}]
    /\ brPlan \in [Transfer -> BPlan \cup {NoPlan}]
    /\ \A c \in Transfer : brPc[c] # "idle" => brPlan[c] # NoPlan
    /\ brCrashes \in Nat
BridgeTypes == BridgeLedgerTypes /\ BridgeCallTypes

\* What the plans of some locks spend, and the mint of a transfer.
Taken(plan, locks) == UNION {plan[k.id].coins : k \in locks}
MintOf(c, p) == [id |-> c, amt |-> p.amt]

\* The coins of a ledger are those it started with and those minted on it,
\* without those its locks took; each was taken once, and after it was there.
LedgerBooks(plan, l, coins, locks, keys) ==
    /\ coins = (BStart[l] \cup keys) \ Taken(plan, locks)
    /\ \A k \in locks : /\ plan[k.id] # NoPlan /\ plan[k.id].from = l /\ k = LockOf(k.id, plan[k.id])
                        /\ plan[k.id].coins \subseteq BStart[l] \cup keys
    /\ \A j, k \in locks : j # k => plan[j.id].coins \cap plan[k.id].coins = {}
    /\ \A m \in keys : /\ m.id \in Transfer /\ plan[m.id] # NoPlan
                       /\ plan[m.id].to = l /\ m = MintOf(m.id, plan[m.id])

\* What is stored and what waits make up the memory, and a job spends only
\* what is stored or created by a job before it.
JobsBefore(q, i) == UNION {q[j].key : j \in 1 .. i - 1}
QueueBooks(plan, l, q, locks, keys, savedLocks, savedKeys) ==
    /\ locks = savedLocks \cup UNION {q[i].lock : i \in DOMAIN q}
    /\ keys = savedKeys \cup UNION {q[i].key : i \in DOMAIN q}
    /\ \A i \in DOMAIN q :
         /\ q[i].spent = Taken(plan, q[i].lock) /\ q[i].made = q[i].key
         /\ q[i].spent \subseteq BStart[l] \cup savedKeys \cup JobsBefore(q, i)
         /\ q[i].key \cap savedKeys = {}
         /\ \A j \in DOMAIN q : j # i => q[i].key \cap q[j].key = {}

BooksInv ==
    /\ \A l \in BLedger :
         /\ LedgerBooks(brPlan, l, brCoins[l], brLocks[l], brKeys[l])
         /\ LedgerBooks(brPlan, l, brSaved[l], brSavedLocks[l], brSavedKeys[l])
         /\ QueueBooks(brPlan, l, brQueue[l], brLocks[l], brKeys[l], brSavedLocks[l], brSavedKeys[l])
    /\ brCrashes = 0 => \A l \in BLedger : \A m \in brKeys[l] : \E k \in AllLocks : k.id = m.id

\* A ledger under one operation that is neither raced nor failed: the memory
\* and the store agree until the first of the two is written.
Busy(t, l) == brOpPc[t] # "idle" /\ brOp[t].ledger = l
DefTypes ==
    /\ {brDefs, brSavedDefs} \subseteq [BLedger -> BOwner \cup {NoOwner, NoDef}]
    /\ brOpPc \in [LedgerOp -> {"idle", "added", "save", "handed", "update"}]
    /\ DOMAIN brOp = LedgerOp
    /\ \A t \in LedgerOp : brOpPc[t] # "idle" => brOp[t].ledger \in BLedger /\ brOp[t].owner \in BOwner \cup {NoOwner}
DefInv ==
    /\ \A l \in BLedger \ brLoose : \A t \in LedgerOp : Busy(t, l) =>
         /\ \A u \in LedgerOp : Busy(u, l) => u = t
         /\ brOpPc[t] = "save" => brDefs[l] = brOp[t].owner
         /\ brOpPc[t] = "update" => brSavedDefs[l] = brOp[t].owner
         /\ brOpPc[t] \in {"added", "handed"} => brDefs[l] = LoadDefs(brSavedDefs)[l]
    /\ LedgersSurvive
=============================================================================
