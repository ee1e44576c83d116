----------------------------- MODULE MCLedgers ------------------------------
(***************************************************************************)
(* What keeps a set of ledgers: Governance with the updates of             *)
(* MCGovernance, Bridge with two ledgers that hold coins and a third that  *)
(* is created, and Maintenance with the store of one ledger being opened.  *)
(* They share no state; part says which one a behaviour follows, and of    *)
(* Bridge whether its transfers or its definitions.                        *)
(***************************************************************************)
EXTENDS MCGovernance, Bridge, Maintenance

VARIABLE part

MCStart == ("A" :> {[id |-> "a1", amt |-> 1], [id |-> "a2", amt |-> 2]} @@
            "B" :> {} @@ "C" :> {})
MCCfgOwner == ("A" :> "nobody" @@ "B" :> "ann")

\* Block 4 is the genesis block: its children sort before it.
MCParents == (1 :> {3, 4} @@ 2 :> {3, 4} @@ 3 :> {4} @@ 4 :> {})
MCNewTyped == (1 :> {<<"x", "transfer">>, <<"y", "fee">>} @@
               2 :> {<<"x", "mint">>} @@ 3 :> {} @@ 4 :> {})
MCOldTyped == (1 :> {<<"x", "transfer">>, <<"y", "transfer">>} @@
               2 :> {<<"x", "mint">>} @@ 3 :> {} @@ 4 :> {})
MCStores == {<<1, NoVersion>>, <<2, <<2, 0>>>>, <<3, <<2, 0>>>>, <<5, <<2, 0>>>>,
             <<12, <<3, 14>>>>, <<13, <<3, 16>>>>, <<14, <<3, 17>>>>}

\* Bound: a start leaves at most one delete undone, and at most two blocks were
\* cut off the time index.
OneIgnored == Cardinality(keptTips') + Cardinality(keptEntries') <= 1
TwoCutOff == Cardinality(disk.blocks \ DOMAIN disk.id2ts) <= 2

LedgersInit ==
    /\ Init
    /\ BridgeInit
    /\ MaintenanceInit
    /\ part \in {"governance", "transfers", "definitions", "stores"}
    /\ TwoCutOff
    /\ part # "stores" => disk.blocks = {}

\* Bound: every transfer goes to x; a mint that is signed again also tries y.
ToX == \A c \in Transfer : brPlan'[c] # NoPlan => brPlan'[c].addr = "x"

\* Bound: the definitions that change are B, of the settings, and C, created; they
\* go to bob or to nobody.
OfBAndC == \A t \in LedgerOp : /\ brOp'[t].ledger # "A"
                               /\ brOpPc'[t] # "idle" => brOp'[t].owner # "ann"

\* Bound: a crash comes after a config was written; before, it leaves what calls whose
\* writes fail leave.
CrashAfterWrite == crashes' > crashes => dbCfg # InitialCfg

LedgersNext ==
    /\ \/ part = "governance" /\ Next /\ CrashAfterWrite /\ UNCHANGED <<brVars, mtVars>>
       \/ part = "transfers" /\ TransferNext /\ ToX /\ UNCHANGED <<vars, mtVars>>
       \/ part = "definitions" /\ DefNext /\ OfBAndC /\ UNCHANGED <<vars, mtVars>>
       \/ part = "stores" /\ MaintenanceNext /\ OneIgnored /\ UNCHANGED <<vars, brVars>>
    /\ UNCHANGED part

LedgersSpec == LedgersInit /\ [][LedgersNext]_<<vars, brVars, mtVars, part>>
=============================================================================
