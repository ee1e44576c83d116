------------------------- MODULE MCPersistPipeline -------------------------
(***************************************************************************)
(* Instances of PersistPipeline.  gen, the genesis, creates x and y; pair  *)
(* spends both and creates z; clash spends y (a conflict with pair in the  *)
(* middle of a multi-input claim); child and rival both spend z; mintA and *)
(* mintB are two mints of one bridge lock; plain is a mint without a key   *)
(* (Mint, Reward).                                                         *)
(***************************************************************************)
EXTENDS PersistPipeline, TLC

CONSTANTS gen, pair, clash, child, rival, mintA, mintB, plain, x, y, z, w, v, k

MCSpends == [e \in Block |-> CASE e = pair -> {x, y}
                               [] e = clash -> {y}
                               [] e \in {child, rival} -> {z}
                               [] OTHER -> {}]
MCCreates == [e \in Block |-> CASE e = gen -> {x, y}
                                [] e = pair -> {z}
                                [] e = mintA -> {w}
                                [] e = plain -> {v}
                                [] OTHER -> {}]
MCKeyOf == [e \in Block |-> IF e \in {mintA, mintB} THEN k ELSE NoKey]

\* The blocks hang on the genesis, except those that spend z, which follow
\* pair, and clash, which follows plain where there is one.
MCParentOf == [e \in Block \ {gen} |-> CASE e \in {child, rival} -> pair
                                         [] e = clash /\ plain \in Block -> plain
                                         [] OTHER -> gen]

TaskSymmetry == Permutations(Task)
=============================================================================
