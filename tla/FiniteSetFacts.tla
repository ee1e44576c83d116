--------------------------- MODULE FiniteSetFacts ---------------------------
(***************************************************************************)
(* Facts about finite sets that the proofs of the components share: an     *)
(* induction over the subsets of a finite set, the maximum of a set of     *)
(* integers (the parent count that append_blocks_batch writes, the last    *)
(* setting of a parameter in a batch of config updates), and the sums      *)
(* SumFunctionOnSet(f, S) in which the ledgers account for their value.    *)
(***************************************************************************)
EXTENDS Integers, FiniteSets, Functions, FiniteSetTheorems, WellFoundedInduction, TLAPS

\* The predicate of an induction is given by the set of the subsets that have
\* it: a minimal subset outside Good would be put into it by its own subsets.
LEMMA SubsetInduction ==
    ASSUME NEW S, IsFiniteSet(S), NEW Good, {} \in Good,
           \A T \in SUBSET S : T # {} /\ (\A x \in T : T \ {x} \in Good) => T \in Good
    PROVE  \A T \in SUBSET S : T \in Good
<1> DEFINE Bad == (SUBSET S) \ Good
<1>1. SUFFICES ASSUME Bad # {} PROVE FALSE
  OBVIOUS
<1>2. IsWellFoundedOn(StrictSubsetOrdering(S), SUBSET S)
  BY FS_StrictSubsetOrderingWellFounded, FS_FiniteSubsetsOfFinite
<1>3. PICK T \in Bad : \A U \in Bad : <<U, T>> \notin StrictSubsetOrdering(S)
  <2> HIDE DEF Bad
  <2>1. Bad \subseteq SUBSET S BY DEF Bad
  <2> QED BY <1>1, <1>2, <2>1, WFMin
<1>4. \A x \in T : T \ {x} \in Good
  <2> SUFFICES ASSUME NEW x \in T, T \ {x} \notin Good PROVE FALSE
    OBVIOUS
  <2>1. T \ {x} \in Bad /\ <<T \ {x}, T>> \in StrictSubsetOrdering(S)
    BY DEF StrictSubsetOrdering
  <2> QED BY <1>3, <2>1
<1> QED BY <1>4

-----------------------------------------------------------------------------
(* Maxima.                                                                 *)

HasMax(S) == \E m \in S : \A n \in S : n <= m

LEMMA FiniteMax ==
    ASSUME NEW S \in SUBSET Int, S # {}, IsFiniteSet(S)
    PROVE  HasMax(S)
<1> DEFINE Good == {T \in SUBSET S : T # {} => HasMax(T)}
<1>1. ASSUME NEW T \in SUBSET S, T # {}, \A x \in T : T \ {x} \in Good
      PROVE  HasMax(T)
  <2>1. PICK x \in T : TRUE
    BY <1>1
  <2>2. CASE T \ {x} = {}
    <3>1. \A n \in T : n <= x BY <2>2
    <3> QED BY <3>1, <2>1 DEF HasMax
  <2>3. CASE T \ {x} # {}
    <3>1. PICK m \in T \ {x} : \A n \in T \ {x} : n <= m
      BY <1>1, <2>3 DEF HasMax
    <3>2. CASE x <= m
      <4>1. m \in T /\ \A n \in T : n <= m BY <3>1, <3>2
      <4> QED BY <4>1 DEF HasMax
    <3>3. CASE m < x
      <4>1. \A n \in T : n <= x BY <3>1, <3>3
      <4> QED BY <4>1, <2>1 DEF HasMax
    <3> QED BY <3>2, <3>3
  <2> QED BY <2>2, <2>3
<1>2. {} \in Good
  OBVIOUS
<1>3. \A T \in SUBSET S : T # {} /\ (\A x \in T : T \ {x} \in Good) => T \in Good
  BY <1>1
<1> HIDE DEF Good
<1>4. \A T \in SUBSET S : T \in Good
  BY <1>2, <1>3, SubsetInduction, Zenon
<1> QED BY <1>4 DEF Good

-----------------------------------------------------------------------------
(* Sums.                                                                   *)

Pick(s) == CHOOSE x \in s : TRUE

\* g is a table of the sums of f over the subsets of S.
SumTable(f, S, g) ==
    g = [s \in SUBSET S |-> IF s = {} THEN 0 ELSE f[Pick(s)] + g[s \ {Pick(s)}]]

LEMMA SumUnfold ==
    ASSUME NEW f, NEW S
    PROVE  SumFunctionOnSet(f, S) = (CHOOSE g : SumTable(f, S, g))[S]
BY DEF SumFunctionOnSet, FoldFunctionOnSet, MapThenFoldSet, SumTable, Pick

\* The recursion that defines a sum has a solution on a finite set.
LEMMA SumPick ==
    ASSUME NEW f, NEW S, IsFiniteSet(S)
    PROVE  SumFunctionOnSet(f, S) =
             IF S = {} THEN 0 ELSE f[Pick(S)] + SumFunctionOnSet(f, S \ {Pick(S)})
<1> DEFINE v(T) == SumFunctionOnSet(f, T)
           Holds(T) == v(T) = IF T = {} THEN 0 ELSE f[Pick(T)] + v(T \ {Pick(T)})
           Good == {T \in SUBSET S : \A U \in SUBSET T : Holds(U)}
<1>1. ASSUME NEW T \in SUBSET S, \A U \in SUBSET T : U # T => Holds(U)
      PROVE  Holds(T)
  <2> DEFINE h == [s \in SUBSET T |-> IF s = {} THEN 0 ELSE f[Pick(s)] + v(s \ {Pick(s)})]
  <2>1. \A s \in SUBSET T : s # {} => Pick(s) \in s /\ s \ {Pick(s)} \in SUBSET T /\ s \ {Pick(s)} # T
    BY DEF Pick
  <2>2. \A s \in SUBSET T : s # T => h[s] = v(s)
    BY <1>1
  <2>3. SumTable(f, T, h)
    <3>1. \A s \in SUBSET T : s # {} => v(s \ {Pick(s)}) = h[s \ {Pick(s)}]
      BY <2>1, <2>2
    <3> HIDE DEF v
    <3>2. h = [s \in SUBSET T |-> IF s = {} THEN 0 ELSE f[Pick(s)] + h[s \ {Pick(s)}]]
      BY <3>1
    <3> QED BY <3>2 DEF SumTable
  <2> DEFINE g == CHOOSE k : SumTable(f, T, k)
  <2>4. SumTable(f, T, g)
    <3> HIDE DEF h
    <3> QED BY <2>3
  <2>5. v(T) = g[T]
    BY SumUnfold
  <2> HIDE DEF g, v
  <2>6. \A s \in SUBSET T : g[s] = IF s = {} THEN 0 ELSE f[Pick(s)] + g[s \ {Pick(s)}]
    BY <2>4 DEF SumTable
  <2>7. \A s \in SUBSET T : h[s] = IF s = {} THEN 0 ELSE f[Pick(s)] + h[s \ {Pick(s)}]
    BY <2>3 DEF SumTable
  <2> HIDE DEF h
  <2> DEFINE Same == {s \in SUBSET T : g[s] = h[s]}
  <2>8. {} \in Same
    BY <2>6, <2>7
  <2>9. \A s \in SUBSET T : s # {} /\ (\A x \in s : s \ {x} \in Same) => s \in Same
    BY <2>1, <2>6, <2>7
  <2>10. IsFiniteSet(T)
    BY FS_Subset
  <2> HIDE DEF Same
  <2>11. \A s \in SUBSET T : s \in Same
    BY <2>8, <2>9, <2>10, SubsetInduction
  <2>12. CASE T = {}
    BY <2>5, <2>6, <2>12
  <2>13. CASE T # {}
    <3>1. g[T \ {Pick(T)}] = v(T \ {Pick(T)})
      BY <2>1, <2>2, <2>11, <2>13 DEF Same
    <3> QED BY <2>5, <2>6, <2>13, <3>1
  <2> QED BY <2>12, <2>13
<1> HIDE DEF v, Holds
<1>2. {} \in Good
  BY <1>1
<1>3. ASSUME NEW T \in SUBSET S, T # {}, \A x \in T : T \ {x} \in Good
      PROVE  T \in Good
  <2>1. \A U \in SUBSET T : U # T => Holds(U)
    <3> SUFFICES ASSUME NEW U \in SUBSET T, U # T PROVE Holds(U)
      OBVIOUS
    <3>1. PICK x \in T : x \notin U
      OBVIOUS
    <3>2. T \ {x} \in Good /\ U \in SUBSET (T \ {x})
      BY <1>3, <3>1
    <3> QED BY <3>2
  <2> QED BY <1>1, <2>1
<1>4. \A T \in SUBSET S : T \in Good
  <2> HIDE DEF Good
  <2> QED BY <1>2, <1>3, SubsetInduction, Zenon
<1> QED BY <1>4 DEF v, Holds

LEMMA SumEmpty ==
    ASSUME NEW f
    PROVE  SumFunctionOnSet(f, {}) = 0
BY SumPick, FS_EmptySet

LEMMA SumInt ==
    ASSUME NEW f, NEW S, IsFiniteSet(S), \A x \in S : f[x] \in Int
    PROVE  SumFunctionOnSet(f, S) \in Int
<1> DEFINE Good == {T \in SUBSET S : SumFunctionOnSet(f, T) \in Int}
<1>1. {} \in Good
  BY SumEmpty
<1>2. ASSUME NEW T \in SUBSET S, T # {}, \A x \in T : T \ {x} \in Good
      PROVE  T \in Good
  <2>1. Pick(T) \in T
    BY <1>2 DEF Pick
  <2>2. SumFunctionOnSet(f, T) = f[Pick(T)] + SumFunctionOnSet(f, T \ {Pick(T)})
    BY <1>2, SumPick, FS_Subset
  <2>3. f[Pick(T)] \in Int /\ SumFunctionOnSet(f, T \ {Pick(T)}) \in Int
    BY <1>2, <2>1
  <2>4. SumFunctionOnSet(f, T) \in Int
    BY <2>2, <2>3
  <2> QED BY <2>4
<1>3. \A T \in SUBSET S : T # {} /\ (\A x \in T : T \ {x} \in Good) => T \in Good
  BY <1>2
<1> HIDE DEF Good
<1>4. \A T \in SUBSET S : T \in Good
  BY <1>1, <1>3, SubsetInduction, Zenon
<1> QED BY <1>4 DEF Good

\* Any element may be taken out of a sum first.
LEMMA SumRemove ==
    ASSUME NEW f, NEW S, IsFiniteSet(S), \A x \in S : f[x] \in Int, NEW a \in S
    PROVE  SumFunctionOnSet(f, S) = f[a] + SumFunctionOnSet(f, S \ {a})
<1> DEFINE v(T) == SumFunctionOnSet(f, T)
           Good == {T \in SUBSET S : \A x \in T : v(T) = f[x] + v(T \ {x})}
<1>1. {} \in Good
  OBVIOUS
<1>2. ASSUME NEW T \in SUBSET S, T # {}, \A x \in T : T \ {x} \in Good
      PROVE  T \in Good
  <2> SUFFICES ASSUME NEW x \in T PROVE v(T) = f[x] + v(T \ {x})
    OBVIOUS
  <2> DEFINE p == Pick(T)
  <2>1. p \in T
    BY DEF Pick
  <2>2. v(T) = f[p] + v(T \ {p})
    BY <1>2, SumPick, FS_Subset
  <2>3. ASSUME x # p PROVE v(T) = f[x] + v(T \ {x})
    <3>1. v(T \ {p}) = f[x] + v((T \ {p}) \ {x})
      BY <1>2, <2>1, <2>3
    <3>2. v(T \ {x}) = f[p] + v((T \ {x}) \ {p})
      BY <1>2, <2>1, <2>3
    <3>3. (T \ {p}) \ {x} = (T \ {x}) \ {p}
      OBVIOUS
    <3>4. v((T \ {x}) \ {p}) \in Int /\ f[x] \in Int /\ f[p] \in Int
      BY <2>1, SumInt, FS_Subset
    <3> HIDE DEF v, p
    <3>5. v(T) = f[p] + (f[x] + v((T \ {x}) \ {p}))
      BY <2>2, <3>1, <3>3, Zenon
    <3> QED BY <3>2, <3>4, <3>5
  <2> QED BY <2>2, <2>3
<1> HIDE DEF v
<1>3. \A T \in SUBSET S : T # {} /\ (\A x \in T : T \ {x} \in Good) => T \in Good
  BY <1>2
<1>4. \A T \in SUBSET S : T \in Good
  <2> HIDE DEF Good
  <2> QED BY <1>1, <1>3, SubsetInduction, Zenon
<1> QED BY <1>4 DEF v

LEMMA SumAdd ==
    ASSUME NEW f, NEW S, IsFiniteSet(S), \A x \in S : f[x] \in Int, NEW a, a \notin S, f[a] \in Int
    PROVE  SumFunctionOnSet(f, S \cup {a}) = f[a] + SumFunctionOnSet(f, S)
<1>1. IsFiniteSet(S \cup {a})
  BY FS_AddElement
<1>2. (S \cup {a}) \ {a} = S
  OBVIOUS
<1> QED BY <1>1, <1>2, SumRemove

\* A sum depends on f within the set only.
LEMMA SumSame ==
    ASSUME NEW f, NEW g, NEW S, IsFiniteSet(S), \A x \in S : f[x] = g[x]
    PROVE  SumFunctionOnSet(f, S) = SumFunctionOnSet(g, S)
<1> DEFINE Good == {T \in SUBSET S : SumFunctionOnSet(f, T) = SumFunctionOnSet(g, T)}
<1>1. {} \in Good
  BY SumEmpty
<1>2. ASSUME NEW T \in SUBSET S, T # {}, \A x \in T : T \ {x} \in Good
      PROVE  T \in Good
  <2>1. Pick(T) \in T
    BY <1>2 DEF Pick
  <2>2. /\ SumFunctionOnSet(f, T) = f[Pick(T)] + SumFunctionOnSet(f, T \ {Pick(T)})
        /\ SumFunctionOnSet(g, T) = g[Pick(T)] + SumFunctionOnSet(g, T \ {Pick(T)})
    BY <1>2, SumPick, FS_Subset
  <2>3. f[Pick(T)] = g[Pick(T)]
    BY <2>1
  <2>4. SumFunctionOnSet(f, T \ {Pick(T)}) = SumFunctionOnSet(g, T \ {Pick(T)})
    BY <1>2, <2>1
  <2> QED BY <2>2, <2>3, <2>4
<1>3. \A T \in SUBSET S : T # {} /\ (\A x \in T : T \ {x} \in Good) => T \in Good
  BY <1>2
<1> HIDE DEF Good
<1>4. \A T \in SUBSET S : T \in Good
  BY <1>1, <1>3, SubsetInduction, Zenon
<1> QED BY <1>4 DEF Good

\* One entry of f changes.
LEMMA SumUpdate ==
    ASSUME NEW f, NEW g, NEW S, IsFiniteSet(S), NEW a \in S,
           \A x \in S : f[x] \in Int, g[a] \in Int,
           \A x \in S : x # a => g[x] = f[x]
    PROVE  SumFunctionOnSet(g, S) = SumFunctionOnSet(f, S) - f[a] + g[a]
<1>1. IsFiniteSet(S \ {a})
  BY FS_Subset
<1>2. \A x \in S : g[x] \in Int
  OBVIOUS
<1>3. SumFunctionOnSet(f, S) = f[a] + SumFunctionOnSet(f, S \ {a})
  BY SumRemove
<1>4. SumFunctionOnSet(g, S) = g[a] + SumFunctionOnSet(g, S \ {a})
  BY <1>2, SumRemove
<1>5. SumFunctionOnSet(g, S \ {a}) = SumFunctionOnSet(f, S \ {a})
  BY <1>1, SumSame
<1>6. SumFunctionOnSet(f, S \ {a}) \in Int
  BY <1>1, SumInt
<1> QED BY <1>3, <1>4, <1>5, <1>6

LEMMA SumNat ==
    ASSUME NEW f, NEW S, IsFiniteSet(S), \A x \in S : f[x] \in Nat
    PROVE  SumFunctionOnSet(f, S) \in Nat
<1> DEFINE Good == {T \in SUBSET S : SumFunctionOnSet(f, T) \in Nat}
<1>1. {} \in Good
  BY SumEmpty
<1>2. ASSUME NEW T \in SUBSET S, T # {}, \A x \in T : T \ {x} \in Good
      PROVE  T \in Good
  <2>1. Pick(T) \in T
    BY <1>2 DEF Pick
  <2>2. SumFunctionOnSet(f, T) = f[Pick(T)] + SumFunctionOnSet(f, T \ {Pick(T)})
    BY <1>2, SumPick, FS_Subset
  <2>3. f[Pick(T)] \in Nat /\ SumFunctionOnSet(f, T \ {Pick(T)}) \in Nat
    BY <1>2, <2>1
  <2>4. SumFunctionOnSet(f, T) \in Nat
    BY <2>2, <2>3
  <2> QED BY <2>4
<1>3. \A T \in SUBSET S : T # {} /\ (\A x \in T : T \ {x} \in Good) => T \in Good
  BY <1>2
<1> HIDE DEF Good
<1>4. \A T \in SUBSET S : T \in Good
  BY <1>1, <1>3, SubsetInduction, Zenon
<1> QED BY <1>4 DEF Good

\* Sums over two sets of natural numbers without a common element.
LEMMA SumUnion ==
    ASSUME NEW f, NEW S, IsFiniteSet(S), NEW R, IsFiniteSet(R), S \cap R = {},
           \A x \in S \cup R : f[x] \in Int
    PROVE  SumFunctionOnSet(f, S \cup R) = SumFunctionOnSet(f, S) + SumFunctionOnSet(f, R)
<1> DEFINE v(T) == SumFunctionOnSet(f, T)
           Good == {T \in SUBSET R : v(S \cup T) = v(S) + v(T)}
<1>0. \A T \in SUBSET R : v(T) \in Int
  BY SumInt, FS_Subset
<1>00. v(S) \in Int
  BY SumInt
<1>1. {} \in Good
  <2>1. v(S \cup {}) = v(S) /\ v({}) = 0
    BY SumEmpty
  <2> QED BY <1>00, <2>1
<1>2. ASSUME NEW T \in SUBSET R, T # {}, \A x \in T : T \ {x} \in Good
      PROVE  T \in Good
  <2>1. PICK x \in T : TRUE
    BY <1>2
  <2>2. IsFiniteSet(T) /\ IsFiniteSet(S \cup T) /\ IsFiniteSet(S \cup (T \ {x}))
    BY FS_Subset, FS_Union
  <2>3. v(T) = f[x] + v(T \ {x})
    BY <2>2, SumRemove
  <2>4. v(S \cup T) = f[x] + v((S \cup T) \ {x})
    BY <2>2, SumRemove
  <2>5. (S \cup T) \ {x} = S \cup (T \ {x})
    OBVIOUS
  <2>6. v(S \cup (T \ {x})) = v(S) + v(T \ {x})
    BY <1>2
  <2>7. f[x] \in Int /\ v(T \ {x}) \in Int
    BY <1>0
  <2> HIDE DEF v
  <2>9. v(S \cup T) = f[x] + (v(S) + v(T \ {x}))
    BY <2>4, <2>5, <2>6, Zenon
  <2>8. v(S \cup T) = v(S) + v(T)
    BY <1>00, <2>3, <2>7, <2>9
  <2> QED BY <2>8
<1> HIDE DEF v
<1>3. \A T \in SUBSET R : T # {} /\ (\A x \in T : T \ {x} \in Good) => T \in Good
  BY <1>2
<1>4. \A T \in SUBSET R : T \in Good
  <2> HIDE DEF Good
  <2> QED BY <1>1, <1>3, SubsetInduction, Zenon
<1> QED BY <1>4 DEF v

LEMMA SumSubset ==
    ASSUME NEW f, NEW S, IsFiniteSet(S), NEW R \in SUBSET S, \A x \in S : f[x] \in Nat
    PROVE  SumFunctionOnSet(f, R) <= SumFunctionOnSet(f, S)
<1>1. IsFiniteSet(R) /\ IsFiniteSet(S \ R)
  BY FS_Subset
<1>2. R \cup (S \ R) = S
  OBVIOUS
<1>3. SumFunctionOnSet(f, S) = SumFunctionOnSet(f, R) + SumFunctionOnSet(f, S \ R)
  BY <1>1, <1>2, SumUnion
<1>4. SumFunctionOnSet(f, R) \in Nat /\ SumFunctionOnSet(f, S \ R) \in Nat
  BY <1>1, SumNat
<1> QED BY <1>3, <1>4

LEMMA ImageFinite ==
    ASSUME NEW h, NEW S, IsFiniteSet(S)
    PROVE  IsFiniteSet({h[x] : x \in S})
<1> DEFINE T == {h[x] : x \in S}
           g == [x \in S |-> h[x]]
<1>1. g \in [S -> T] /\ \A y \in T : \E x \in S : g[x] = y
  OBVIOUS
<1>2. g \in Surjection(S, T)
  <2> HIDE DEF g, T
  <2> QED BY <1>1 DEF Surjection
<1> HIDE DEF g
<1> QED BY <1>2, FS_Surjection

\* A sum may be taken over the names of its elements.
LEMMA SumImage ==
    ASSUME NEW f, NEW g, NEW h, NEW S, IsFiniteSet(S),
           \A x, y \in S : h[x] = h[y] => x = y,
           \A x \in S : f[x] \in Int /\ g[h[x]] = f[x]
    PROVE  SumFunctionOnSet(g, {h[x] : x \in S}) = SumFunctionOnSet(f, S)
<1> DEFINE Im(T) == {h[x] : x \in T}
           Good == {T \in SUBSET S : SumFunctionOnSet(g, Im(T)) = SumFunctionOnSet(f, T)}
<1>1. {} \in Good
  <2>1. Im({}) = {}
    OBVIOUS
  <2> HIDE DEF Im
  <2> QED BY <2>1, SumEmpty
<1>2. ASSUME NEW T \in SUBSET S, T # {}, \A x \in T : T \ {x} \in Good
      PROVE  T \in Good
  <2>1. PICK x \in T : TRUE
    BY <1>2
  <2>2. IsFiniteSet(T) /\ IsFiniteSet(Im(T))
    BY FS_Subset, ImageFinite
  <2>3. h[x] \in Im(T) /\ Im(T) \ {h[x]} = Im(T \ {x})
    BY <2>1
  <2>4. \A y \in Im(T) : g[y] \in Int
    OBVIOUS
  <2>5. SumFunctionOnSet(g, Im(T \ {x})) = SumFunctionOnSet(f, T \ {x})
    BY <1>2, <2>1
  <2> HIDE DEF Im
  <2>6. SumFunctionOnSet(g, Im(T)) = g[h[x]] + SumFunctionOnSet(g, Im(T) \ {h[x]})
    BY <2>2, <2>3, <2>4, SumRemove
  <2>7. SumFunctionOnSet(f, T) = f[x] + SumFunctionOnSet(f, T \ {x})
    BY <2>2, SumRemove
  <2>8. SumFunctionOnSet(g, Im(T)) = SumFunctionOnSet(f, T)
    BY <2>1, <2>3, <2>5, <2>6, <2>7
  <2> QED BY <2>8
<1>3. \A T \in SUBSET S : T # {} /\ (\A x \in T : T \ {x} \in Good) => T \in Good
  BY <1>2
<1>4. \A T \in SUBSET S : T \in Good
  <2> HIDE DEF Good
  <2> QED BY <1>1, <1>3, SubsetInduction, Zenon
<1> QED BY <1>4

LEMMA FamilyFinite ==
    ASSUME NEW S, NEW I, IsFiniteSet(I), \A i \in I : IsFiniteSet(S[i])
    PROVE  IsFiniteSet(UNION {S[i] : i \in I})
<1>1. IsFiniteSet({S[i] : i \in I})
  BY ImageFinite
<1> QED BY <1>1, FS_UNION

\* A sum over a family of sets without common elements, set by set.
LEMMA SumFamily ==
    ASSUME NEW f, NEW g, NEW S, NEW I, IsFiniteSet(I),
           \A i \in I : IsFiniteSet(S[i]) /\ g[i] = SumFunctionOnSet(f, S[i]),
           \A i \in I : \A x \in S[i] : f[x] \in Int,
           \A i, j \in I : i # j => S[i] \cap S[j] = {}
    PROVE  SumFunctionOnSet(g, I) = SumFunctionOnSet(f, UNION {S[i] : i \in I})
<1> DEFINE U(J) == UNION {S[i] : i \in J}
           Good == {J \in SUBSET I : SumFunctionOnSet(g, J) = SumFunctionOnSet(f, U(J))}
<1>1. {} \in Good
  <2>1. U({}) = {}
    OBVIOUS
  <2> HIDE DEF U
  <2> QED BY <2>1, SumEmpty
<1>2. ASSUME NEW J \in SUBSET I, J # {}, \A i \in J : J \ {i} \in Good
      PROVE  J \in Good
  <2>1. PICK i \in J : TRUE
    BY <1>2
  <2>2. IsFiniteSet(J) /\ IsFiniteSet(S[i]) /\ IsFiniteSet(U(J \ {i}))
    <3>1. IsFiniteSet(J) /\ IsFiniteSet(J \ {i})
      BY FS_Subset
    <3> QED BY <3>1, FamilyFinite
  <2>3. U(J) = U(J \ {i}) \cup S[i] /\ U(J \ {i}) \cap S[i] = {}
    BY <2>1
  <2>4. \A x \in U(J \ {i}) \cup S[i] : f[x] \in Int
    BY <2>1
  <2>5. SumFunctionOnSet(g, J \ {i}) = SumFunctionOnSet(f, U(J \ {i}))
    BY <1>2, <2>1
  <2> HIDE DEF U
  <2>6. SumFunctionOnSet(f, U(J)) = SumFunctionOnSet(f, U(J \ {i})) + SumFunctionOnSet(f, S[i])
    <3> DEFINE A == U(J \ {i})
               B == S[i]
    <3>1. IsFiniteSet(A) /\ IsFiniteSet(B) /\ A \cap B = {} /\ \A x \in A \cup B : f[x] \in Int
      BY <2>2, <2>3, <2>4
    <3> HIDE DEF A, B
    <3>2. SumFunctionOnSet(f, A \cup B) = SumFunctionOnSet(f, A) + SumFunctionOnSet(f, B)
      BY <3>1, SumUnion
    <3> QED BY <2>3, <3>2 DEF A, B
  <2>7. \A j \in J : g[j] \in Int
    BY SumInt
  <2>8. SumFunctionOnSet(g, J) = g[i] + SumFunctionOnSet(g, J \ {i})
    BY <2>2, <2>7, SumRemove
  <2>9. g[i] = SumFunctionOnSet(f, S[i]) /\ g[i] \in Int /\ SumFunctionOnSet(f, U(J \ {i})) \in Int
    BY <2>2, <2>4, <2>7, SumInt
  <2>10. SumFunctionOnSet(g, J) = SumFunctionOnSet(f, U(J))
    BY <2>5, <2>6, <2>8, <2>9
  <2> QED BY <2>10
<1>3. \A J \in SUBSET I : J # {} /\ (\A i \in J : J \ {i} \in Good) => J \in Good
  BY <1>2
<1>4. \A J \in SUBSET I : J \in Good
  <2> HIDE DEF Good
  <2> QED BY <1>1, <1>3, SubsetInduction, Zenon
<1> QED BY <1>4

\* A sum of sums.
LEMMA SumPlus ==
    ASSUME NEW f, NEW g, NEW h, NEW S, IsFiniteSet(S),
           \A x \in S : f[x] \in Int /\ g[x] \in Int /\ h[x] = f[x] + g[x]
    PROVE  SumFunctionOnSet(h, S) = SumFunctionOnSet(f, S) + SumFunctionOnSet(g, S)
<1> DEFINE Good == {T \in SUBSET S :
             SumFunctionOnSet(h, T) = SumFunctionOnSet(f, T) + SumFunctionOnSet(g, T)}
<1>1. {} \in Good
  BY SumEmpty
<1>2. ASSUME NEW T \in SUBSET S, T # {}, \A x \in T : T \ {x} \in Good
      PROVE  T \in Good
  <2>1. PICK x \in T : TRUE
    BY <1>2
  <2>2. IsFiniteSet(T) /\ IsFiniteSet(T \ {x})
    BY FS_Subset
  <2>3. /\ SumFunctionOnSet(f, T) = f[x] + SumFunctionOnSet(f, T \ {x})
        /\ SumFunctionOnSet(g, T) = g[x] + SumFunctionOnSet(g, T \ {x})
        /\ SumFunctionOnSet(h, T) = h[x] + SumFunctionOnSet(h, T \ {x})
    <3>1. SumFunctionOnSet(f, T) = f[x] + SumFunctionOnSet(f, T \ {x})
      BY <2>2, SumRemove
    <3>2. SumFunctionOnSet(g, T) = g[x] + SumFunctionOnSet(g, T \ {x})
      BY <2>2, SumRemove
    <3>3. \A y \in T : h[y] \in Int
      OBVIOUS
    <3>4. SumFunctionOnSet(h, T) = h[x] + SumFunctionOnSet(h, T \ {x})
      BY <2>2, <3>3, SumRemove
    <3> QED BY <3>1, <3>2, <3>4
  <2>4. SumFunctionOnSet(f, T \ {x}) \in Int /\ SumFunctionOnSet(g, T \ {x}) \in Int
    BY <2>2, SumInt
  <2>5. SumFunctionOnSet(h, T \ {x}) = SumFunctionOnSet(f, T \ {x}) + SumFunctionOnSet(g, T \ {x})
    BY <1>2
  <2>6. SumFunctionOnSet(h, T) = SumFunctionOnSet(f, T) + SumFunctionOnSet(g, T)
    BY <2>1, <2>3, <2>4, <2>5
  <2> QED BY <2>6
<1>3. \A T \in SUBSET S : T # {} /\ (\A x \in T : T \ {x} \in Good) => T \in Good
  BY <1>2
<1>4. \A T \in SUBSET S : T \in Good
  <2> HIDE DEF Good
  <2> QED BY <1>1, <1>3, SubsetInduction, Zenon
<1> QED BY <1>4

LEMMA SumZero ==
    ASSUME NEW f, NEW S, IsFiniteSet(S), \A x \in S : f[x] = 0
    PROVE  SumFunctionOnSet(f, S) = 0
<1> DEFINE Good == {T \in SUBSET S : SumFunctionOnSet(f, T) = 0}
<1>1. {} \in Good
  BY SumEmpty
<1>2. ASSUME NEW T \in SUBSET S, T # {}, \A x \in T : T \ {x} \in Good
      PROVE  T \in Good
  <2>1. PICK x \in T : TRUE
    BY <1>2
  <2>2. SumFunctionOnSet(f, T) = f[x] + SumFunctionOnSet(f, T \ {x})
    BY FS_Subset, SumRemove
  <2> QED BY <1>2, <2>1, <2>2
<1> HIDE DEF Good
<1>3. \A T \in SUBSET S : T \in Good
  BY <1>1, <1>2, SubsetInduction
<1> QED BY <1>3 DEF Good

\* A sum of natural numbers is at least each of them.
LEMMA SumTerm ==
    ASSUME NEW f, NEW S, IsFiniteSet(S), \A x \in S : f[x] \in Nat, NEW a \in S
    PROVE  f[a] <= SumFunctionOnSet(f, S)
<1>1. SumFunctionOnSet(f, S) = f[a] + SumFunctionOnSet(f, S \ {a})
  BY SumRemove
<1>2. SumFunctionOnSet(f, S \ {a}) \in Nat
  BY FS_Subset, SumNat
<1> QED BY <1>1, <1>2

\* Sums of functions one under the other.
LEMMA SumLe ==
    ASSUME NEW f, NEW g, NEW S, IsFiniteSet(S),
           \A x \in S : f[x] \in Int /\ g[x] \in Int /\ f[x] <= g[x]
    PROVE  SumFunctionOnSet(f, S) <= SumFunctionOnSet(g, S)
<1> DEFINE h == [x \in S |-> g[x] - f[x]]
<1>1. \A x \in S : h[x] \in Nat /\ g[x] = f[x] + h[x]
  OBVIOUS
<1> HIDE DEF h
<1>2. SumFunctionOnSet(g, S) = SumFunctionOnSet(f, S) + SumFunctionOnSet(h, S)
  BY <1>1, SumPlus
<1>3. SumFunctionOnSet(f, S) \in Int /\ SumFunctionOnSet(h, S) \in Nat
  BY <1>1, SumInt, SumNat
<1> QED BY <1>2, <1>3
-----------------------------------------------------------------------------
(* Folds that have no closed form.                                         *)

\* g is a table of the folds of F over the subsets of S, from base.
FoldTable(F, base, S, g) ==
    g = [s \in SUBSET S |-> IF s = {} THEN base ELSE F[<<Pick(s), g[s \ {Pick(s)}]>>]]

FoldOf(F, base, S) == (CHOOSE g : FoldTable(F, base, S, g))[S]

\* The recursion that defines a fold has a solution on a finite set.
LEMMA FoldPick ==
    ASSUME NEW F, NEW base, NEW S, IsFiniteSet(S)
    PROVE  FoldOf(F, base, S) =
             IF S = {} THEN base ELSE F[<<Pick(S), FoldOf(F, base, S \ {Pick(S)})>>]
<1> DEFINE v(T) == FoldOf(F, base, T)
           Holds(T) == v(T) = IF T = {} THEN base ELSE F[<<Pick(T), v(T \ {Pick(T)})>>]
           Good == {T \in SUBSET S : \A U \in SUBSET T : Holds(U)}
<1>1. ASSUME NEW T \in SUBSET S, \A U \in SUBSET T : U # T => Holds(U)
      PROVE  Holds(T)
  <2> DEFINE h == [s \in SUBSET T |-> IF s = {} THEN base ELSE F[<<Pick(s), v(s \ {Pick(s)})>>]]
  <2>1. \A s \in SUBSET T : s # {} => Pick(s) \in s /\ s \ {Pick(s)} \in SUBSET T /\ s \ {Pick(s)} # T
    BY DEF Pick
  <2>2. \A s \in SUBSET T : s # T => h[s] = v(s)
    BY <1>1
  <2>3. FoldTable(F, base, T, h)
    <3>1. \A s \in SUBSET T : s # {} => v(s \ {Pick(s)}) = h[s \ {Pick(s)}]
      BY <2>1, <2>2
    <3> HIDE DEF v
    <3>2. h = [s \in SUBSET T |-> IF s = {} THEN base ELSE F[<<Pick(s), h[s \ {Pick(s)}]>>]]
      BY <3>1
    <3> QED BY <3>2 DEF FoldTable
  <2> DEFINE g == CHOOSE k : FoldTable(F, base, T, k)
  <2>4. FoldTable(F, base, T, g)
    <3> HIDE DEF h
    <3> QED BY <2>3
  <2>5. v(T) = g[T]
    BY DEF FoldOf
  <2> HIDE DEF g, v
  <2>6. \A s \in SUBSET T : g[s] = IF s = {} THEN base ELSE F[<<Pick(s), g[s \ {Pick(s)}]>>]
    BY <2>4 DEF FoldTable
  <2>7. \A s \in SUBSET T : h[s] = IF s = {} THEN base ELSE F[<<Pick(s), h[s \ {Pick(s)}]>>]
    BY <2>3 DEF FoldTable
  <2> HIDE DEF h
  <2> DEFINE Same == {s \in SUBSET T : g[s] = h[s]}
  <2>8. {} \in Same
    BY <2>6, <2>7
  <2>9. \A s \in SUBSET T : s # {} /\ (\A x \in s : s \ {x} \in Same) => s \in Same
    BY <2>1, <2>6, <2>7
  <2>10. IsFiniteSet(T)
    BY FS_Subset
  <2> HIDE DEF Same
  <2>11. \A s \in SUBSET T : s \in Same
    BY <2>8, <2>9, <2>10, SubsetInduction
  <2>12. CASE T = {}
    BY <2>5, <2>6, <2>12
  <2>13. CASE T # {}
    <3>1. g[T \ {Pick(T)}] = v(T \ {Pick(T)})
      BY <2>1, <2>2, <2>11, <2>13 DEF Same
    <3> QED BY <2>5, <2>6, <2>13, <3>1
  <2> QED BY <2>12, <2>13
<1> HIDE DEF v, Holds
<1>2. {} \in Good
  BY <1>1
<1>3. ASSUME NEW T \in SUBSET S, T # {}, \A x \in T : T \ {x} \in Good
      PROVE  T \in Good
  <2>1. \A U \in SUBSET T : U # T => Holds(U)
    <3> SUFFICES ASSUME NEW U \in SUBSET T, U # T PROVE Holds(U)
      OBVIOUS
    <3>1. PICK x \in T : x \notin U
      OBVIOUS
    <3>2. T \ {x} \in Good /\ U \in SUBSET (T \ {x})
      BY <1>3, <3>1
    <3> QED BY <3>2
  <2> QED BY <1>1, <2>1
<1>4. \A T \in SUBSET S : T \in Good
  <2> HIDE DEF Good
  <2> QED BY <1>2, <1>3, SubsetInduction, Zenon
<1> QED BY <1>4 DEF v, Holds

\* A fold of a function on D has a table with values in D.
LEMMA FoldExists ==
    ASSUME NEW S, IsFiniteSet(S), NEW D, NEW F \in [S \X D -> D], NEW base \in D
    PROVE  \E h \in [SUBSET S -> D] : FoldTable(F, base, S, h)
<1> DEFINE h == [s \in SUBSET S |-> FoldOf(F, base, s)]
           Good == {s \in SUBSET S : h[s] \in D}
<1>1. \A s \in SUBSET S : s # {} => Pick(s) \in s /\ s \ {Pick(s)} \in SUBSET S
  BY DEF Pick
<1>2. ASSUME NEW s \in SUBSET S
      PROVE  h[s] = IF s = {} THEN base ELSE F[<<Pick(s), h[s \ {Pick(s)}]>>]
  <2>1. IsFiniteSet(s)
    BY FS_Subset
  <2>2. FoldOf(F, base, s) = IF s = {} THEN base ELSE F[<<Pick(s), FoldOf(F, base, s \ {Pick(s)})>>]
    BY <2>1, FoldPick
  <2> QED BY <1>1, <2>2
<1>3. h = [s \in SUBSET S |-> h[s]]
  OBVIOUS
<1> HIDE DEF h
<1>4. {} \in Good
  BY <1>2
<1>5. \A s \in SUBSET S : s # {} /\ (\A x \in s : s \ {x} \in Good) => s \in Good
  BY <1>1, <1>2
<1> HIDE DEF Good
<1>6. \A s \in SUBSET S : s \in Good
  BY <1>4, <1>5, SubsetInduction
<1>7. h = [s \in SUBSET S |-> IF s = {} THEN base ELSE F[<<Pick(s), h[s \ {Pick(s)}]>>]]
  BY <1>2, <1>3
<1>8. h \in [SUBSET S -> D]
  BY <1>3, <1>6 DEF Good
<1> QED BY <1>7, <1>8 DEF FoldTable
==============================================================================
