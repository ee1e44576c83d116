---------------------------- MODULE ValueFlowProofs ----------------------------
(***************************************************************************)
(* Theorems about ValueFlow, for every set of wallets, assets, royalty     *)
(* accounts, calls and requests, every table of caps and royalties and     *)
(* every bound: a coin leaves a wallet only by a right over it, a resale   *)
(* pays the royalty, the cap of an asset holds until two mints raced, and  *)
(* what was issued is what is held and what was burnt.                     *)
(***************************************************************************)
EXTENDS ValueFlow, FiniteSetFacts, SequenceTheorems, TLAPS

-----------------------------------------------------------------------------
(* Amounts of sets of coins.                                               *)

LEMMA WorthOn ==
    ASSUME NEW T, IsFiniteSet(T), NEW S \in SUBSET T
    PROVE  Worth(S) = SumFunctionOnSet([x \in T |-> x.amt], S)
<1>1. IsFiniteSet(S)
  BY FS_Subset
<1>2. DOMAIN [x \in S |-> x.amt] = S
  OBVIOUS
<1>3. Worth(S) = SumFunctionOnSet([x \in S |-> x.amt], S)
  BY <1>2 DEF Worth, SumFunction
<1>4. \A x \in S : [y \in S |-> y.amt][x] = [y \in T |-> y.amt][x]
  OBVIOUS
<1> QED BY <1>1, <1>3, <1>4, SumSame

LEMMA WorthNat ==
    ASSUME NEW S, IsFiniteSet(S), \A x \in S : x.amt \in Nat
    PROVE  Worth(S) \in Nat
<1>1. Worth(S) = SumFunctionOnSet([x \in S |-> x.amt], S)
  BY WorthOn
<1>2. \A x \in S : [y \in S |-> y.amt][x] \in Nat
  OBVIOUS
<1> QED BY <1>1, <1>2, SumNat

LEMMA WorthEmpty == Worth({}) = 0
BY WorthOn, FS_EmptySet, SumEmpty

LEMMA WorthUnion ==
    ASSUME NEW S, NEW R, IsFiniteSet(S), IsFiniteSet(R), S \cap R = {},
           \A x \in S \cup R : x.amt \in Nat
    PROVE  Worth(S \cup R) = Worth(S) + Worth(R)
<1> DEFINE f == [x \in S \cup R |-> x.amt]
<1>1. IsFiniteSet(S \cup R)
  BY FS_Union
<1>2. /\ Worth(S \cup R) = SumFunctionOnSet(f, S \cup R)
      /\ Worth(S) = SumFunctionOnSet(f, S)
      /\ Worth(R) = SumFunctionOnSet(f, R)
  BY <1>1, WorthOn
<1>3. \A x \in S \cup R : f[x] \in Int
  OBVIOUS
<1> QED BY <1>2, <1>3, SumUnion

\* A change of the coins that keeps the amounts keeps their sum.
LEMMA WorthImage ==
    ASSUME NEW S, IsFiniteSet(S), NEW h, \A x, y \in S : h[x] = h[y] => x = y,
           \A x \in S : h[x].amt = x.amt /\ x.amt \in Nat
    PROVE  Worth({h[x] : x \in S}) = Worth(S)
<1> DEFINE T == {h[x] : x \in S}
           f == [x \in S |-> x.amt]
           g == [y \in T |-> y.amt]
<1>1. IsFiniteSet(T)
  BY ImageFinite
<1>2. Worth(T) = SumFunctionOnSet(g, T) /\ Worth(S) = SumFunctionOnSet(f, S)
  BY <1>1, WorthOn
<1>3. \A x \in S : f[x] \in Int /\ g[h[x]] = f[x]
  OBVIOUS
<1> HIDE DEF f, g
<1>4. SumFunctionOnSet(g, {h[x] : x \in S}) = SumFunctionOnSet(f, S)
  BY <1>3, SumImage
<1> QED BY <1>2, <1>4

LEMMA AmountNat ==
    ASSUME NEW S, IsFiniteSet(S), \A x \in S : x.amt \in Nat, NEW a
    PROVE  AmountIn(S, a) \in Nat
<1>1. IsFiniteSet({x \in S : x.asset = a})
  BY FS_Subset
<1> QED BY <1>1, WorthNat DEF AmountIn

LEMMA AmountUnion ==
    ASSUME NEW S, NEW R, IsFiniteSet(S), IsFiniteSet(R), S \cap R = {},
           \A x \in S \cup R : x.amt \in Nat, NEW a
    PROVE  AmountIn(S \cup R, a) = AmountIn(S, a) + AmountIn(R, a)
<1> DEFINE P(T) == {x \in T : x.asset = a}
<1>1. P(S \cup R) = P(S) \cup P(R) /\ P(S) \cap P(R) = {}
  OBVIOUS
<1>2. IsFiniteSet(P(S)) /\ IsFiniteSet(P(R)) /\ \A x \in P(S) \cup P(R) : x.amt \in Nat
  BY FS_Subset
<1>3. Worth(P(S \cup R)) = Worth(P(S)) + Worth(P(R))
  BY <1>1, <1>2, WorthUnion
<1> QED BY <1>3 DEF AmountIn

\* What is left when some coins are taken.
LEMMA AmountMinus ==
    ASSUME NEW S, IsFiniteSet(S), \A x \in S : x.amt \in Nat, NEW R \in SUBSET S, NEW a
    PROVE  /\ AmountIn(S \ R, a) = AmountIn(S, a) - AmountIn(R, a)
           /\ AmountIn(R, a) \in Nat /\ AmountIn(S \ R, a) \in Nat
<1>1. IsFiniteSet(R) /\ IsFiniteSet(S \ R) /\ (S \ R) \cap R = {} /\ (S \ R) \cup R = S
  BY FS_Subset
<1>2. AmountIn((S \ R) \cup R, a) = AmountIn(S \ R, a) + AmountIn(R, a)
  BY <1>1, AmountUnion
<1>3. AmountIn(R, a) \in Nat /\ AmountIn(S \ R, a) \in Nat
  BY <1>1, AmountNat
<1>4. AmountIn(S, a) = AmountIn(S \ R, a) + AmountIn(R, a)
  BY <1>1, <1>2
<1> QED BY <1>3, <1>4

LEMMA AmountSame ==
    ASSUME NEW S, NEW a, \A x \in S : x.asset = a
    PROVE  AmountIn(S, a) = Worth(S)
<1>1. {x \in S : x.asset = a} = S
  OBVIOUS
<1> QED BY <1>1 DEF AmountIn

LEMMA AmountOther ==
    ASSUME NEW S, NEW a, \A x \in S : x.asset # a
    PROVE  AmountIn(S, a) = 0
<1>1. {x \in S : x.asset = a} = {}
  OBVIOUS
<1> QED BY <1>1, WorthEmpty DEF AmountIn

LEMMA AmountImage ==
    ASSUME NEW S, IsFiniteSet(S), NEW h, \A x, y \in S : h[x] = h[y] => x = y,
           \A x \in S : h[x].asset = x.asset /\ h[x].amt = x.amt /\ x.amt \in Nat, NEW a
    PROVE  AmountIn({h[x] : x \in S}, a) = AmountIn(S, a)
<1> DEFINE P == {x \in S : x.asset = a}
<1>1. {y \in {h[x] : x \in S} : y.asset = a} = {h[x] : x \in P}
  OBVIOUS
<1>2. IsFiniteSet(P)
  BY FS_Subset
<1>3. Worth({h[x] : x \in P}) = Worth(P)
  BY <1>2, WorthImage
<1> QED BY <1>1, <1>3 DEF AmountIn

-----------------------------------------------------------------------------
(* Amounts of outputs.                                                     *)

\* The outputs paid, as a function on the whole sequence.
Amounts(outs) == [i \in DOMAIN outs |-> outs[i].amt]

LEMMA AmountsFact ==
    ASSUME NEW O, NEW outs \in Seq(O), \A o \in O : o.amt \in Nat
    PROVE  /\ IsFiniteSet(DOMAIN outs) /\ DOMAIN outs = 1..Len(outs)
           /\ \A i \in DOMAIN outs : Amounts(outs)[i] \in Nat
           /\ \A i \in DOMAIN outs : outs[i] \in O
<1>1. DOMAIN outs = 1..Len(outs) /\ Len(outs) \in Nat
  OBVIOUS
<1>2. IsFiniteSet(DOMAIN outs)
  BY <1>1, FS_Interval
<1>3. \A i \in DOMAIN outs : outs[i] \in O
  BY <1>1
<1> QED BY <1>1, <1>2, <1>3 DEF Amounts

LEMMA PaidNat ==
    ASSUME NEW O, NEW outs \in Seq(O), \A o \in O : o.amt \in Nat, NEW which \in SUBSET DOMAIN outs
    PROVE  Paid(outs, which) \in Nat
<1>1. IsFiniteSet(which) /\ \A i \in which : Amounts(outs)[i] \in Nat
  BY AmountsFact, FS_Subset
<1>2. SumFunctionOnSet(Amounts(outs), which) \in Nat
  BY <1>1, SumNat
<1> QED BY <1>2 DEF Paid, Amounts

LEMMA TotalNat ==
    ASSUME NEW O, NEW outs \in Seq(O), \A o \in O : o.amt \in Nat, NEW a
    PROVE  Total(outs, a) \in Nat
BY PaidNat DEF Total

LEMMA TotalEmpty ==
    ASSUME NEW a PROVE Total(<<>>, a) = 0
<1>1. {i \in DOMAIN <<>> : <<>>[i].asset = a} = {}
  OBVIOUS
<1> QED BY <1>1, SumEmpty DEF Total, Paid

LEMMA TotalOther ==
    ASSUME NEW outs, NEW a, \A i \in DOMAIN outs : outs[i].asset # a
    PROVE  Total(outs, a) = 0
<1>1. {i \in DOMAIN outs : outs[i].asset = a} = {}
  OBVIOUS
<1> QED BY <1>1, SumEmpty DEF Total, Paid

LEMMA TotalOne ==
    ASSUME NEW o, o.amt \in Nat, NEW a
    PROVE  Total(<< o >>, a) = IF o.asset = a THEN o.amt ELSE 0
<1> DEFINE f == [i \in DOMAIN << o >> |-> << o >>[i].amt]
<1>1. DOMAIN << o >> = {1} /\ << o >>[1] = o
  OBVIOUS
<1>2. f[1] = o.amt /\ \A i \in {1} : f[i] \in Int
  BY <1>1
<1>3. SumFunctionOnSet(f, {1}) = f[1] + SumFunctionOnSet(f, {1} \ {1})
  <2>1. IsFiniteSet({1})
    BY FS_Singleton
  <2> HIDE DEF f
  <2> QED BY <1>2, <2>1, SumRemove
<1>4. {1} \ {1} = {}
  OBVIOUS
<1>5. SumFunctionOnSet(f, {1}) = o.amt
  BY <1>2, <1>3, <1>4, SumEmpty
<1>6. CASE o.asset = a
  <2>1. {i \in DOMAIN << o >> : << o >>[i].asset = a} = {1}
    BY <1>1, <1>6
  <2> QED BY <2>1, <1>5, <1>6 DEF Total, Paid
<1>7. CASE o.asset # a
  BY <1>1, <1>7, TotalOther
<1> QED BY <1>6, <1>7

\* The amounts of two lists of outputs add up.
LEMMA TotalConcat ==
    ASSUME NEW O, NEW s \in Seq(O), NEW t \in Seq(O), \A o \in O : o.amt \in Nat, NEW a
    PROVE  Total(s \o t, a) = Total(s, a) + Total(t, a)
<1> DEFINE u == s \o t
           m == Len(s)
           k == Len(t)
           fu == Amounts(u)
           ft == Amounts(t)
           fs == Amounts(s)
           S == {i \in 1..m : s[i].asset = a}
           T == {i \in 1..k : t[i].asset = a}
           h == [i \in T |-> i + m]
           R == {h[i] : i \in T}
<1>1. /\ m \in Nat /\ k \in Nat /\ u \in Seq(O) /\ Len(u) = m + k
      /\ \A i \in 1..m : u[i] = s[i]
      /\ \A i \in 1..k : u[i + m] = t[i]
      /\ DOMAIN s = 1..m /\ DOMAIN t = 1..k /\ DOMAIN u = 1..(m + k)
  <2>1. u \in Seq(O) /\ Len(u) = m + k
        /\ \A i \in 1..(m + k) : u[i] = IF i <= m THEN s[i] ELSE t[i - m]
    BY ConcatProperties
  <2>2. m \in Nat /\ k \in Nat /\ DOMAIN s = 1..m /\ DOMAIN t = 1..k
    OBVIOUS
  <2> HIDE DEF u, m, k
  <2>3. DOMAIN u = 1..(m + k)
    BY <2>1
  <2>4. \A i \in 1..k : i + m \in 1..(m + k) /\ (i + m) - m = i /\ ~(i + m <= m)
    BY <2>2
  <2> QED BY <2>1, <2>2, <2>3, <2>4
<1>2. /\ IsFiniteSet(DOMAIN u) /\ \A i \in DOMAIN u : fu[i] \in Nat
      /\ IsFiniteSet(DOMAIN t) /\ \A i \in DOMAIN t : ft[i] \in Nat
      /\ IsFiniteSet(DOMAIN s)
  <2> HIDE DEF u
  <2> QED BY <1>1, AmountsFact
<1>3. /\ Total(u, a) = SumFunctionOnSet(fu, {i \in DOMAIN u : u[i].asset = a})
      /\ Total(s, a) = SumFunctionOnSet(fs, {i \in DOMAIN s : s[i].asset = a})
      /\ Total(t, a) = SumFunctionOnSet(ft, {i \in DOMAIN t : t[i].asset = a})
  BY DEF Total, Paid, Amounts
<1>4. \A i \in T : h[i] = i + m
  OBVIOUS
<1>5. {i \in DOMAIN u : u[i].asset = a} = S \cup R
  <2> HIDE DEF u, m, k, h
  <2>1. ASSUME NEW i \in DOMAIN u, u[i].asset = a PROVE i \in S \cup R
    <3>1. CASE i <= m
      BY <1>1, <2>1, <3>1
    <3>2. CASE ~(i <= m)
      <4>1. i - m \in 1..k /\ (i - m) + m = i
        BY <1>1, <3>2
      <4>2. i - m \in T
        BY <1>1, <2>1, <4>1
      <4> QED BY <1>4, <4>1, <4>2
    <3> QED BY <3>1, <3>2
  <2>2. S \subseteq DOMAIN u /\ R \subseteq DOMAIN u
    BY <1>1, <1>4
  <2>3. \A i \in S : u[i].asset = a
    BY <1>1
  <2>4. \A i \in R : u[i].asset = a
    BY <1>1, <1>4
  <2> QED BY <2>1, <2>2, <2>3, <2>4
<1>6. S \cap R = {} /\ S \subseteq DOMAIN u /\ R \subseteq DOMAIN u
  <2> HIDE DEF u, m, k, h
  <2>1. \A i \in S : i <= m
    BY <1>1
  <2>2. \A i \in R : i > m
    BY <1>1, <1>4
  <2>3. S \subseteq DOMAIN u /\ R \subseteq DOMAIN u
    BY <1>1, <1>4
  <2>4. \A i \in S : ~(i > m)
    BY <1>1, <2>1
  <2> QED BY <2>2, <2>3, <2>4
<1>7. IsFiniteSet(S) /\ IsFiniteSet(R) /\ IsFiniteSet(T)
  <2>1. S \subseteq DOMAIN s /\ T \subseteq DOMAIN t
    BY <1>1
  <2> QED BY <1>2, <1>6, <2>1, FS_Subset
<1>8. SumFunctionOnSet(fu, S \cup R) = SumFunctionOnSet(fu, S) + SumFunctionOnSet(fu, R)
  <2>1. \A i \in S \cup R : fu[i] \in Int
    <3> HIDE DEF u, S, R
    <3> QED BY <1>2, <1>6
  <2> HIDE DEF fu, S, R
  <2> QED BY <1>6, <1>7, <2>1, SumUnion
<1>9. SumFunctionOnSet(fu, S) = SumFunctionOnSet(fs, S)
  <2>1. \A i \in S : fu[i] = fs[i]
    BY <1>1, <1>6 DEF Amounts
  <2> HIDE DEF fu, fs, S
  <2> QED BY <1>7, <2>1, SumSame
<1>10. SumFunctionOnSet(fu, R) = SumFunctionOnSet(ft, T)
  <2>1. \A i \in T : ft[i] \in Int /\ fu[h[i]] = ft[i]
    <3>1. \A i \in T : i \in 1..k /\ h[i] \in DOMAIN u
      BY <1>6
    <3>2. \A i \in T : u[h[i]] = t[i]
      BY <1>1, <1>4, <3>1
    <3>3. \A i \in T : fu[h[i]] = u[h[i]].amt /\ ft[i] = t[i].amt
      BY <1>1, <3>1 DEF Amounts
    <3>4. \A i \in T : ft[i] \in Nat
      BY <1>1, <1>2
    <3> HIDE DEF fu, ft, h, T, u
    <3> QED BY <3>2, <3>3, <3>4
  <2>2. \A i, j \in T : h[i] = h[j] => i = j
    BY <1>1, <1>4
  <2> HIDE DEF fu, ft, T, h
  <2> QED BY <1>7, <2>1, <2>2, SumImage
<1>11. S = {i \in DOMAIN s : s[i].asset = a} /\ T = {i \in DOMAIN t : t[i].asset = a}
  BY <1>1
<1> QED BY <1>3, <1>5, <1>8, <1>9, <1>10, <1>11

\* Coins that stand for the outputs, one each.
LEMMA OutputsImage ==
    ASSUME NEW O, NEW outs \in Seq(O), \A o \in O : o.amt \in Nat, NEW h,
           \A i, j \in DOMAIN outs : h[i] = h[j] => i = j,
           \A i \in DOMAIN outs : h[i].asset = outs[i].asset /\ h[i].amt = outs[i].amt,
           NEW a
    PROVE  AmountIn({h[i] : i \in DOMAIN outs}, a) = Total(outs, a)
<1> DEFINE D == DOMAIN outs
           P == {i \in D : outs[i].asset = a}
           Im == {h[i] : i \in D}
           f == Amounts(outs)
           g == [y \in Im |-> y.amt]
<1>1. IsFiniteSet(D) /\ \A i \in D : f[i] \in Nat
  BY AmountsFact
<1>2. IsFiniteSet(P) /\ IsFiniteSet(Im)
  BY <1>1, FS_Subset, ImageFinite
<1>3. {y \in Im : y.asset = a} = {h[i] : i \in P}
  OBVIOUS
<1>4. {h[i] : i \in P} \in SUBSET Im
  OBVIOUS
<1>5. Worth({h[i] : i \in P}) = SumFunctionOnSet(g, {h[i] : i \in P})
  BY <1>2, <1>4, WorthOn
<1>6. \A i \in P : f[i] \in Int /\ g[h[i]] = f[i]
  BY <1>1 DEF Amounts
<1>7. \A i, j \in P : h[i] = h[j] => i = j
  OBVIOUS
<1> HIDE DEF f, g, P
<1>8. SumFunctionOnSet(g, {h[i] : i \in P}) = SumFunctionOnSet(f, P)
  BY <1>2, <1>6, <1>7, SumImage
<1>9. AmountIn(Im, a) = Worth({h[i] : i \in P})
  BY <1>3 DEF AmountIn
<1>10. Total(outs, a) = SumFunctionOnSet(f, P)
  BY DEF Total, Paid, Amounts, f, P
<1> QED BY <1>5, <1>8, <1>9, <1>10

LEMMA SetToSeqFact ==
    ASSUME NEW S, IsFiniteSet(S)
    PROVE  /\ SetToSeq(S) \in Seq(S)
           /\ {SetToSeq(S)[i] : i \in DOMAIN SetToSeq(S)} = S
           /\ \A i, j \in DOMAIN SetToSeq(S) : SetToSeq(S)[i] = SetToSeq(S)[j] => i = j
           /\ Len(SetToSeq(S)) = Cardinality(S)
<1> DEFINE n == Cardinality(S)
           f == SetToSeq(S)
<1>1. n \in Nat /\ ExistsBijection(1..n, S)
  BY FS_CardinalityType
<1>2. \E g \in [1..n -> S] : IsInjective(g)
  BY <1>1 DEF ExistsBijection, Bijection, Injection
<1>3. f \in [1..n -> S] /\ IsInjective(f)
  BY <1>2 DEF SetToSeq
<1> HIDE DEF f, n
<1>4. f \in Injection(1..n, S)
  BY <1>3 DEF Injection
<1>5. IsFiniteSet(1..n) /\ Cardinality(1..n) = n
  <2>1. IsFiniteSet(1..n) /\ Cardinality(1..n) = IF 1 > n THEN 0 ELSE n - 1 + 1
    BY <1>1, FS_Interval
  <2> QED BY <1>1, <2>1
<1>6. f \in Surjection(1..n, S)
  <2>1. Cardinality(1..n) = Cardinality(S)
    BY <1>5 DEF n
  <2> QED BY <1>4, <2>1, FS_Injection
<1>7. f \in Seq(S) /\ Len(f) = n /\ DOMAIN f = 1..n
  BY <1>1, <1>3
<1>8. {f[i] : i \in DOMAIN f} = S
  BY <1>3, <1>6, <1>7 DEF Surjection
<1>9. \A i, j \in DOMAIN f : f[i] = f[j] => i = j
  BY <1>3 DEF IsInjective
<1> QED BY <1>7, <1>8, <1>9 DEF f, n

LEMMA TotalSet ==
    ASSUME NEW S, IsFiniteSet(S), \A x \in S : x.amt \in Nat, NEW a
    PROVE  Total(SetToSeq(S), a) = AmountIn(S, a)
<1> DEFINE f == SetToSeq(S)
<1>1. /\ f \in Seq(S) /\ {f[i] : i \in DOMAIN f} = S
      /\ \A i, j \in DOMAIN f : f[i] = f[j] => i = j
  BY SetToSeqFact
<1> HIDE DEF f
<1>2. AmountIn({f[i] : i \in DOMAIN f}, a) = Total(f, a)
  BY <1>1, OutputsImage
<1> QED BY <1>1, <1>2 DEF f

LEMMA OutTypeFact ==
    \A o \in OutType : o.amt \in Nat /\ o.asset \in AnyAsset /\ o.addr \in Addr /\ o.lock \in Nat
BY DEF OutType

\* Lists of outputs one after the other.
LEMMA Outputs ==
    \A s, t \in Seq(OutType) : /\ s \o t \in Seq(OutType) /\ Len(s \o t) = Len(s) + Len(t)
                              /\ \A a : Total(s \o t, a) = Total(s, a) + Total(t, a)
<1> TAKE s, t \in Seq(OutType)
<1>1. s \o t \in Seq(OutType) /\ Len(s \o t) = Len(s) + Len(t)
  BY ConcatProperties
<1>2. \A o \in OutType : o.amt \in Nat
  BY OutTypeFact
<1>3. ASSUME NEW a PROVE Total(s \o t, a) = Total(s, a) + Total(t, a)
  BY <1>2, TotalConcat
<1> QED BY <1>1, <1>3

LEMMA OutFact ==
    ASSUME NEW addr \in Addr, NEW a \in AnyAsset, NEW n \in Nat
    PROVE  /\ Out(addr, a, n) \in OutType
           /\ Out(addr, a, n).asset = a /\ Out(addr, a, n).amt = n
           /\ << Out(addr, a, n) >> \in Seq(OutType)
<1>1. Out(addr, a, n) \in OutType /\ Out(addr, a, n).asset = a /\ Out(addr, a, n).amt = n
  BY DEF Out, OutType, NoLock
<1> QED BY <1>1

LEMMA TotalOut ==
    ASSUME NEW addr \in Addr, NEW a \in AnyAsset, NEW n \in Nat, NEW b
    PROVE  Total(<< Out(addr, a, n) >>, b) = IF a = b THEN n ELSE 0
BY OutFact, TotalOne

LEMMA PayFact ==
    ASSUME NEW addr \in Addr, NEW a \in AnyAsset, NEW n \in Int
    PROVE  /\ Pay(addr, a, n) \in Seq(OutType)
           /\ \A i \in DOMAIN Pay(addr, a, n) : Pay(addr, a, n)[i].asset = a
           /\ \A b : n >= 0 => Total(Pay(addr, a, n), b) = IF a = b THEN n ELSE 0
<1>1. CASE n > 0
  <2>1. n \in Nat
    BY <1>1
  <2>2. Pay(addr, a, n) = << Out(addr, a, n) >>
    BY <1>1 DEF Pay
  <2>3. \A b : Total(<< Out(addr, a, n) >>, b) = IF a = b THEN n ELSE 0
    BY <2>1, TotalOut
  <2>4. << Out(addr, a, n) >> \in Seq(OutType) /\ Out(addr, a, n).asset = a
    BY <2>1, OutFact
  <2> QED BY <2>2, <2>3, <2>4
<1>2. CASE ~(n > 0)
  <2>1. Pay(addr, a, n) = <<>>
    BY <1>2 DEF Pay
  <2>2. \A b : Total(<<>>, b) = 0
    BY TotalEmpty
  <2>3. n >= 0 => n = 0
    BY <1>2
  <2>4. Pay(addr, a, n) \in Seq(OutType)
    BY <2>1
  <2>5. \A i \in DOMAIN Pay(addr, a, n) : Pay(addr, a, n)[i].asset = a
    BY <2>1
  <2>6. \A b : n >= 0 => Total(Pay(addr, a, n), b) = IF a = b THEN n ELSE 0
    BY <2>1, <2>2, <2>3
  <2> QED BY <2>4, <2>5, <2>6
<1> QED BY <1>1, <1>2

-----------------------------------------------------------------------------
(* Requests, addresses, selections.                                        *)

LEMMA RequestShape ==
    ASSUME NEW r \in FlowRequest
    PROVE  /\ r.op = "send" => r.from \in Wallet /\ r.to \in Addr /\ r.asset \in AnyAsset /\ r.amt \in Nat
           /\ r.op = "own" => r.from \in Wallet
           /\ r.op = "settle" => /\ r.seller \in Wallet /\ r.buyer \in Wallet /\ r.asset \in FlowAsset
                                 /\ r.qty \in Nat /\ r.priceAsset \in AnyAsset /\ r.price \in Nat
           /\ r.op = "burn" => r.from \in Wallet /\ r.asset \in AnyAsset /\ r.amt \in Nat
           /\ r.op \in {"mint", "mintSft"} => r.to \in Addr /\ r.asset \in AnyAsset /\ r.amt \in Nat
           /\ r.op = "custodial" => /\ r.by \in Wallet /\ r.to \in Addr /\ r.asset \in FlowAsset
                                    /\ r.amt \in Nat /\ r.lock \in Nat
           /\ r.op = "faucet" => r.to \in Addr /\ r.asset = Pms /\ r.amt \in Nat /\ r.lock \in Nat
           /\ r.op \in {"seize", "freeze"} => r.address \in Addr
<1>1. r \in RequestType
  BY FlowAssumption
<1> QED BY <1>1 DEF RequestType

LEMMA Constants ==
    /\ Pms \notin FlowAsset /\ IsFiniteSet(FlowCall) /\ IsFiniteSet(FlowStart)
    /\ FullRate \in Nat /\ FullRate > 0 /\ BaseFee \in Nat /\ MintFee \in Nat /\ TreasuryRate \in Nat
    /\ EmissionLeft \in Nat /\ MaxFlowCalls \in Nat /\ MaxFlowEvents \in Nat
    /\ \A a \in FlowAsset : CapOf[a] \in Nat /\ DecayOf[a] \in Nat /\ ConversionOf[a] \in Nat
    /\ Pms \in AnyAsset /\ \A a \in FlowAsset : a \in AnyAsset /\ a # Pms
    /\ \A a \in AnyAsset : a # Pms => a \in FlowAsset
BY FlowAssumption DEF AnyAsset

LEMMA Addresses ==
    /\ TreasuryAddr \in Addr /\ FeeAddr \in Addr
    /\ \A w \in Wallet : Primary(w) \in Addr /\ Primary(w) \in Range(FormsOf[w])
<1>1. ASSUME NEW w \in Wallet PROVE Primary(w) \in Range(FormsOf[w])
  <2> DEFINE f == FormsOf[w]
             X == Range(f)
  <2>1. Len(f) > 0 /\ f \in Seq(X)
    BY FlowAssumption
  <2> HIDE DEF X, f
  <2>2. 1 \in DOMAIN f
    BY <2>1
  <2> QED BY <2>2 DEF Primary, Range, f
<1>2. ASSUME NEW w \in Wallet PROVE Range(FormsOf[w]) \subseteq Addr
  <2> DEFINE Forms == {Range(FormsOf[v]) : v \in Wallet}
  <2>0. Addr = (UNION Forms) \cup {TreasuryAddr, FeeAddr}
    BY DEF Addr
  <2>1. Range(FormsOf[w]) \in Forms
    OBVIOUS
  <2> HIDE DEF Forms
  <2>2. Range(FormsOf[w]) \subseteq UNION Forms
    BY <2>1
  <2> QED BY <2>0, <2>2
<1>3. TreasuryAddr \in Addr /\ FeeAddr \in Addr
  <2> DEFINE Forms == UNION {Range(FormsOf[v]) : v \in Wallet}
  <2>1. Addr = Forms \cup {TreasuryAddr, FeeAddr}
    BY DEF Addr
  <2> HIDE DEF Forms
  <2> QED BY <2>1
<1> QED BY <1>1, <1>2, <1>3

LEMMA SelectionFact ==
    ASSUME NEW addrs, NEW a, NEW n, NEW S \in SelectUtxos(addrs, a, n)
    PROVE  /\ S \subseteq flCoins /\ Worth(S) >= n
           /\ \A x \in S : x.asset = a /\ x.lock <= flNow
BY DEF SelectUtxos, Spendable

LEMMA SelectionMultiFact ==
    ASSUME NEW w, NEW a, NEW n, NEW S \in SelectUtxosMulti(w, a, n)
    PROVE  /\ S \subseteq flCoins /\ Worth(S) >= n
           /\ \A x \in S : x.asset = a /\ x.lock <= flNow
<1>1. S \in SelectUtxos({Primary(w)}, a, n) \/ S \in SelectUtxos(Range(FormsOf[w]), a, n)
  BY DEF SelectUtxosMulti
<1> QED BY <1>1, SelectionFact

\* Coins of the UTXO set.
LEMMA CoinsFact ==
    ASSUME FlowTypes, NEW S, S \subseteq flCoins
    PROVE  /\ IsFiniteSet(S) /\ S \subseteq CoinType /\ Worth(S) \in Nat
           /\ \A x \in S : /\ x.amt \in Nat /\ x.asset \in AnyAsset /\ x.addr \in Addr /\ x.id \in CoinId
                           /\ x.lock \in Nat /\ x.born \in Nat
           /\ \A a : AmountIn(S, a) \in Nat
           /\ {x.id : x \in S} \subseteq CoinId
<1>1. IsFiniteSet(S) /\ S \subseteq CoinType
  BY FS_Subset DEF FlowTypes
<1>2. \A x \in S : /\ x.amt \in Nat /\ x.asset \in AnyAsset /\ x.addr \in Addr /\ x.id \in CoinId
                   /\ x.lock \in Nat /\ x.born \in Nat
  BY <1>1 DEF CoinType
<1>3. Worth(S) \in Nat /\ \A a : AmountIn(S, a) \in Nat
  BY <1>1, <1>2, WorthNat, AmountNat
<1>4. {x.id : x \in S} \subseteq CoinId
  BY <1>2
<1> QED BY <1>1, <1>2, <1>3, <1>4

\* Coins named by their numbers are found again.
LEMMA NamedCoins ==
    ASSUME CoinsKnown, NEW S, S \subseteq flCoins
    PROVE  {x \in flCoins : x.id \in {y.id : y \in S}} = S
BY DEF CoinsKnown

\* The numbers of a set of coins.
Ids(S) == {x.id : x \in S}

LEMMA InputsOfPlan ==
    ASSUME CoinsKnown, NEW p, NEW S, S \subseteq flCoins, p.spend = Ids(S)
    PROVE  Inputs(p) = S /\ Present(p)
<1>1. Inputs(p) = S
  BY NamedCoins DEF Inputs, Ids
<1> QED BY <1>1 DEF Present, Ids

-----------------------------------------------------------------------------
(* Types and stages: a handler enters with a plan.                         *)

LEMMA PlanFact ==
    ASSUME FlowTypes, NEW k \in Kind, NEW r \in FlowRequest, NEW signers \in SUBSET Wallet,
           NEW S, S \subseteq flCoins, NEW outs \in Seq(OutType), NEW fee \in Nat
    PROVE  LET p == Plan(k, r, signers, S, outs, fee)
           IN  /\ p \in PlanType
               /\ p.kind = k /\ p.req = r /\ p.signers = signers /\ p.spend = Ids(S)
               /\ p.outs = outs /\ p.fee = fee /\ p.reserved = 0 /\ p.due = 0
<1> DEFINE ids == {x.id : x \in S}
           p == [kind |-> k, req |-> r, signers |-> signers, spend |-> ids,
                 outs |-> outs, fee |-> fee, reserved |-> 0, due |-> 0]
<1>1. ids \in SUBSET CoinId /\ ids = Ids(S)
  BY CoinsFact DEF Ids
<1>2. Plan(k, r, signers, S, outs, fee) = p
  BY DEF Plan
<1> HIDE DEF ids
<1>3. p \in PlanType
  BY <1>1 DEF PlanType
<1>4. /\ p.kind = k /\ p.req = r /\ p.signers = signers /\ p.spend = ids
      /\ p.outs = outs /\ p.fee = fee /\ p.reserved = 0 /\ p.due = 0
  OBVIOUS
<1> HIDE DEF p
<1> QED BY <1>1, <1>2, <1>3, <1>4

LEMMA EnterBase ==
    ASSUME FlowBase, NEW c \in FlowCall, NEW p, NEW pc \in {"prepared", "handler", "lock", "arm"},
           Enter(c, p, pc), Stage(p, pc), p \in PlanType, NEW S, S \subseteq flCoins, p.spend = Ids(S),
           flEmitted' \in Int
    PROVE  FlowBase'
<1>1. flPc' = [flPc EXCEPT ![c] = pc] /\ flPlan' = [flPlan EXCEPT ![c] = p]
  BY DEF Enter
<1>2. /\ flPc \in [FlowCall -> {"idle", "prepared", "handler", "lock", "arm", "commit", "post"}]
      /\ flPlan \in [FlowCall -> PlanType \cup {Idle}]
  BY DEF FlowBase, FlowTypes
<1>3. /\ flPc'[c] = pc /\ flPlan'[c] = p
      /\ \A d \in FlowCall : d # c => flPc'[d] = flPc[d] /\ flPlan'[d] = flPlan[d]
  BY <1>1, <1>2
<1>4. FlowTypes'
  <2>1. /\ flPc' \in [FlowCall -> {"idle", "prepared", "handler", "lock", "arm", "commit", "post"}]
        /\ flPlan' \in [FlowCall -> PlanType \cup {Idle}]
    BY <1>1, <1>2
  <2> QED BY <2>1 DEF FlowBase, FlowTypes, Enter
<1>5. CoinsKnown'
  <2>1. \A i \in p.spend : i[1] <= Len(flBlocks)
    BY DEF FlowBase, CoinsKnown, Ids
  <2>2. \A d \in FlowCall : d # c /\ flPc'[d] # "idle" => \A i \in flPlan'[d].spend : i[1] <= Len(flBlocks)
    BY <1>3 DEF FlowBase, CoinsKnown, FlowInFlight
  <2>3. \A d \in FlowInFlight' : \A i \in flPlan'[d].spend : i[1] <= Len(flBlocks)
    BY <1>3, <2>1, <2>2 DEF FlowInFlight
  <2> QED BY <2>3 DEF FlowBase, CoinsKnown, Enter
<1>6. \A d \in FlowCall : Stage(flPlan[d], flPc[d])'
  <2>1. \A d \in FlowCall : d # c => Stage(flPlan[d], flPc[d])'
    BY <1>3 DEF FlowBase
  <2>2. Stage(flPlan[c], flPc[c])'
    BY <1>3
  <2> QED BY <2>1, <2>2
<1> QED BY <1>4, <1>5, <1>6 DEF FlowBase

-----------------------------------------------------------------------------
(* What the handlers bring in.                                             *)

LEMMA WorthOne ==
    ASSUME NEW x, x.amt \in Nat
    PROVE  Worth({x}) = x.amt
<1> DEFINE f == [y \in {x} |-> y.amt]
<1>0. IsFiniteSet({x})
  BY FS_Singleton
<1>1. {x} \ {x} = {} /\ f[x] = x.amt /\ \A y \in {x} : f[y] \in Int
  OBVIOUS
<1>2. Worth({x}) = SumFunctionOnSet(f, {x})
  BY <1>0, WorthOn
<1> HIDE DEF f
<1>3. SumFunctionOnSet(f, {x}) = f[x] + SumFunctionOnSet(f, {x} \ {x})
  BY <1>0, <1>1, SumRemove
<1> QED BY <1>1, <1>2, <1>3, SumEmpty

LEMMA DivFact ==
    ASSUME NEW n \in Nat
    PROVE  n \div FullRate \in Nat /\ n \div FullRate <= n
BY Constants

\* A mint of an asset of which another mint is under way, one of them without
\* the lock of the asset.
Races(p, a) ==
    /\ p.kind \in CappedMint /\ p.req.asset = a
    /\ \E d \in FlowInFlight : /\ flPlan[d].kind \in CappedMint /\ flPlan[d].req.asset = a
                              /\ (flPlan[d].kind = "mint" \/ p.kind = "mint")

\* The entry of a call whose plan is fit for the step it goes to, names coins
\* it selected, and balances.
Entered(c, p, pc) ==
    /\ Enter(c, p, pc)
    /\ pc \in {"prepared", "handler", "lock", "arm"}
    /\ pc = "lock" <=> p.kind = "custodial"
    /\ p \in PlanType /\ Stage(p, pc)
    /\ \E S : S \subseteq flCoins /\ p.spend = Ids(S)
    /\ flEmitted' = flEmitted + p.reserved
    /\ Books(p)
    /\ \A a \in FlowAsset : a \in flCapRaced' <=> a \in flCapRaced \/ Races(p, a)

LEMMA EffectiveNat ==
    ASSUME FlowTypes, NEW x \in CoinType, x.born <= flNow
    PROVE  /\ EffectiveValue(x) \in Nat /\ EffectiveValue(x) <= x.amt
           /\ x.asset = Pms \/ DecayOf[x.asset] = 0 => EffectiveValue(x) = x.amt
<1>1. x.amt \in Nat /\ x.asset \in AnyAsset /\ flNow \in Nat /\ x.born \in Nat
  BY DEF CoinType, FlowTypes
<1>2. CASE x.asset = Pms
  BY <1>1, <1>2 DEF EffectiveValue
<1>3. CASE x.asset # Pms
  <2> DEFINE d == DecayOf[x.asset]
             age == flNow - x.born
             loss == (x.amt * d * age) \div FullRate
             v == x.amt - loss
  <2>1. d \in Nat /\ age \in Nat
    BY <1>1, <1>3, Constants
  <2>2. x.amt * d \in Nat
    BY <1>1, <2>1
  <2>3. x.amt * d * age \in Nat
    BY <2>1, <2>2
  <2>4. loss \in Nat
    BY <2>3, DivFact
  <2>5. EffectiveValue(x) = IF v > 0 THEN v ELSE 0
    BY <1>3 DEF EffectiveValue
  <2>6. d = 0 => loss = 0
    <3> SUFFICES ASSUME d = 0 PROVE loss = 0
      OBVIOUS
    <3>1. x.amt * d = 0
      BY <1>1
    <3>2. x.amt * d * age = 0
      BY <2>1, <3>1
    <3> QED BY <3>2, Constants
  <2> HIDE DEF loss
  <2>7. EffectiveValue(x) \in Nat /\ EffectiveValue(x) <= x.amt
    BY <1>1, <2>4, <2>5
  <2>8. d = 0 => EffectiveValue(x) = x.amt
    BY <1>1, <2>5, <2>6
  <2> QED BY <1>3, <2>7, <2>8
<1> QED BY <1>2, <1>3

\* The asset coins and the native coins that pay for a transfer and its fee.
PaysFor(r, S, F, fee) ==
    /\ S \subseteq flCoins /\ F \subseteq flCoins
    /\ \A x \in S : x.asset = r.asset
    /\ \A x \in F : x.asset = Pms
    /\ r.asset = Pms => F = {} /\ Worth(S) >= r.amt + fee
    /\ r.asset # Pms => Worth(F) >= fee /\ Worth(S) >= r.amt

LEMMA PaymentBase ==
    ASSUME FlowBase, NEW r \in FlowRequest, r.op = "send", NEW fee \in Nat,
           NEW S, NEW F, PaysFor(r, S, F, fee),
           NEW p, p = PaymentPlan("sealed", r, S, F, fee), NEW pc \in {"prepared", "handler"}
    PROVE  /\ p \in PlanType /\ p.kind = "sealed" /\ p.spend = Ids(S \cup F) /\ p.reserved = 0
           /\ Stage(p, pc) /\ Books(p)
<1> DEFINE native == r.asset = Pms
           need == IF native THEN r.amt + fee ELSE r.amt
           to == << Out(r.to, r.asset, r.amt) >>
           change == Pay(Primary(r.from), r.asset, Worth(S) - need)
           back == IF native THEN <<>> ELSE Pay(Primary(r.from), Pms, Worth(F) - fee)
           outs == to \o change \o back
<1>0. /\ S \subseteq flCoins /\ F \subseteq flCoins
      /\ \A x \in S : x.asset = r.asset
      /\ \A x \in F : x.asset = Pms
      /\ native => F = {} /\ Worth(S) >= r.amt + fee
      /\ ~native => Worth(F) >= fee /\ Worth(S) >= r.amt
  BY DEF PaysFor
<1>1. r.from \in Wallet /\ r.to \in Addr /\ r.asset \in AnyAsset /\ r.amt \in Nat /\ Pms \in AnyAsset
  BY RequestShape, Constants
<1>2. FlowTypes /\ CoinsKnown
  BY DEF FlowBase
<1>3. /\ S \cup F \subseteq flCoins /\ Worth(S) \in Nat /\ Worth(F) \in Nat
  BY <1>0, <1>2, CoinsFact
<1>4. /\ need \in Nat /\ Worth(S) - need >= 0 /\ Worth(S) - need \in Int
      /\ ~native => Worth(F) - fee >= 0
  BY <1>0, <1>1, <1>3
<1>5. to \in Seq(OutType) /\ \A b : Total(to, b) = IF r.asset = b THEN r.amt ELSE 0
  BY <1>1, OutFact, TotalOut
<1>6. /\ change \in Seq(OutType)
      /\ \A b : Total(change, b) = IF r.asset = b THEN Worth(S) - need ELSE 0
  <2> DEFINE n == Worth(S) - need
             w == Primary(r.from)
             a == r.asset
  <2>1. n \in Int /\ n >= 0 /\ w \in Addr /\ a \in AnyAsset
    BY <1>1, <1>4, Addresses
  <2> HIDE DEF n, w, a
  <2>2. Pay(w, a, n) \in Seq(OutType) /\ \A b : Total(Pay(w, a, n), b) = IF a = b THEN n ELSE 0
    BY <2>1, PayFact
  <2> QED BY <2>2 DEF n, w, a
<1>7. back \in Seq(OutType) /\ \A b : Total(back, b) = IF ~native /\ b = Pms THEN Worth(F) - fee ELSE 0
  <2>1. CASE native
    BY <2>1, TotalEmpty
  <2>2. CASE ~native
    <3> DEFINE n == Worth(F) - fee
               w == Primary(r.from)
    <3>1. n \in Int /\ n >= 0 /\ w \in Addr /\ Pms \in AnyAsset
      BY <1>1, <1>3, <2>2, <1>4, Addresses
    <3>2. back = Pay(w, Pms, n)
      BY <2>2
    <3> HIDE DEF n, w, back
    <3>3. Pay(w, Pms, n) \in Seq(OutType) /\ \A b : Total(Pay(w, Pms, n), b) = IF Pms = b THEN n ELSE 0
      BY <3>1, PayFact
    <3> QED BY <2>2, <3>2, <3>3 DEF n
  <2> QED BY <2>1, <2>2
<1>8. p = Plan("sealed", r, {r.from}, S \cup F, outs, fee)
  BY DEF PaymentPlan
<1> HIDE DEF to, change, back
<1>9. /\ to \o change \in Seq(OutType) /\ outs \in Seq(OutType)
      /\ Total(to \o change, Pms) = Total(to, Pms) + Total(change, Pms)
      /\ Total(outs, Pms) = Total(to \o change, Pms) + Total(back, Pms)
      /\ Len(to \o change) = Len(to) + Len(change) /\ Len(outs) = Len(to \o change) + Len(back)
  <2>1. to \in Seq(OutType) /\ change \in Seq(OutType) /\ back \in Seq(OutType)
    BY <1>5, <1>6, <1>7
  <2> DEFINE u == to \o change
  <2>2. u \in Seq(OutType) /\ Total(u, Pms) = Total(to, Pms) + Total(change, Pms) /\ Len(u) = Len(to) + Len(change)
    BY <2>1, Outputs
  <2> HIDE DEF u
  <2>3. /\ u \o back \in Seq(OutType) /\ Total(u \o back, Pms) = Total(u, Pms) + Total(back, Pms)
        /\ Len(u \o back) = Len(u) + Len(back)
    BY <2>1, <2>2, Outputs
  <2> QED BY <2>2, <2>3 DEF u
<1>10. outs # <<>>
  <2>1. Len(to) = 1
    BY DEF to
  <2>3. Len(change) \in Nat /\ Len(back) \in Nat
    BY <1>6, <1>7
  <2> HIDE DEF outs
  <2>4. Len(outs) # 0
    BY <1>9, <2>1, <2>3
  <2> QED BY <2>4
<1>11. /\ p \in PlanType /\ p.kind = "sealed" /\ p.spend = Ids(S \cup F) /\ p.reserved = 0
       /\ p.outs = outs /\ p.fee = fee
  <2> DEFINE A == S \cup F
             g == {r.from}
  <2>1. "sealed" \in Kind /\ g \in SUBSET Wallet
    BY <1>1 DEF Kind, Transfer
  <2>2. FlowTypes /\ A \subseteq flCoins /\ outs \in Seq(OutType)
    BY <1>2, <1>3, <1>9
  <2>3. p = Plan("sealed", r, g, A, outs, fee)
    BY <1>8
  <2> HIDE DEF A, g, outs
  <2> QED BY <2>1, <2>2, <2>3, PlanFact DEF A
<1> HIDE DEF outs
<1>13. Inputs(p) = S \cup F
  BY <1>2, <1>3, <1>11, InputsOfPlan
<1>14. AmountIn(S \cup F, Pms) = IF native THEN Worth(S) ELSE Worth(F)
  <2>1. CASE native
    BY <1>0, <2>1, AmountSame
  <2>2. CASE ~native
    <3>1. {x \in S \cup F : x.asset = Pms} = F
      BY <1>0, <2>2
    <3> QED BY <2>2, <3>1 DEF AmountIn
  <2> QED BY <2>1, <2>2
<1>15. AmountIn(Inputs(p), Pms) = Total(p.outs, Pms) + p.fee
  <2> DEFINE ws == Worth(S)
             wf == Worth(F)
             t == Total(outs, Pms)
  <2>1. CASE native
    <3>1. t = r.amt + (ws - (r.amt + fee)) + 0
      BY <2>1, <1>5, <1>6, <1>7, <1>9
    <3>2. ws \in Nat /\ r.amt \in Nat
      BY <1>1, <1>3
    <3>3. AmountIn(Inputs(p), Pms) = ws
      BY <1>13, <1>14, <2>1
    <3> HIDE DEF ws, t
    <3>4. ws = t + fee
      BY <3>1, <3>2
    <3> QED BY <1>11, <3>3, <3>4 DEF t
  <2>2. CASE ~native
    <3>1. t = 0 + 0 + (wf - fee)
      BY <2>2, <1>5, <1>6, <1>7, <1>9
    <3>2. wf \in Nat
      BY <1>3
    <3>3. AmountIn(Inputs(p), Pms) = wf
      BY <1>13, <1>14, <2>2
    <3> HIDE DEF wf, t
    <3>4. wf = t + fee
      BY <3>1, <3>2
    <3> QED BY <1>11, <3>3, <3>4 DEF t
  <2> QED BY <2>1, <2>2
<1>16. Books(p)
  BY <1>11, <1>15 DEF Books, Transfer
<1>17. Stage(p, pc)
  BY <1>10, <1>11 DEF Stage, Transfer, CappedMint
<1> QED BY <1>11, <1>16, <1>17

LEMMA SealedEntered ==
    ASSUME FlowBase, NEW c \in FlowCall, NEW p \in PlanType, p.kind = "sealed", p.reserved = 0,
           NEW pc \in {"prepared", "handler"}, Stage(p, pc), Books(p),
           NEW S, S \subseteq flCoins, p.spend = Ids(S), EnterFree(c, p, pc)
    PROVE  Entered(c, p, pc)
<1>1. Enter(c, p, pc) /\ flEmitted' = flEmitted /\ flCapRaced' = flCapRaced
  BY DEF EnterFree
<1>2. flEmitted' = flEmitted + p.reserved
  BY <1>1 DEF FlowBase, FlowTypes
<1>3. p.kind \notin CappedMint /\ p.kind # "custodial"
  BY DEF CappedMint
<1> QED BY <1>1, <1>2, <1>3 DEF Entered, Races

LEMMA SendEntered ==
    ASSUME FlowBase, NEW c \in FlowCall, NEW r \in FlowRequest,
           WalletSendSimple(c, r) \/ PrepareTx(c, r)
    PROVE  \E p, pc : Entered(c, p, pc)
<1> DEFINE fee == ComputeFee(r.amt)
           target == IF r.asset = Pms THEN r.amt + fee ELSE r.amt
<1>1. r.op = "send" /\ r.amt \in Nat /\ fee \in Nat
  BY RequestShape, Constants DEF WalletSendSimple, PrepareTx, ComputeFee
<1> HIDE DEF fee
<1>2. FlowTypes
  BY DEF FlowBase
<1>3. ASSUME NEW S, S \subseteq flCoins /\ Worth(S) >= target /\ (\A x \in S : x.asset = r.asset),
             NEW F, F \subseteq flCoins /\ (\A x \in F : x.asset = Pms), NEW f \in {0, fee}, r.asset # Pms => Worth(F) >= f,
             r.asset = Pms => F = {} /\ f = fee,
             NEW pc \in {"prepared", "handler"}, EnterFree(c, PaymentPlan("sealed", r, S, F, f), pc)
      PROVE  \E p, q : Entered(c, p, q)
  <2> PICK p : p = PaymentPlan("sealed", r, S, F, f)
    OBVIOUS
  <2>1. f \in Nat
    BY <1>1
  <2>2. /\ r.asset = Pms => F = {} /\ Worth(S) >= r.amt + f
        /\ r.asset # Pms => Worth(F) >= f /\ Worth(S) >= r.amt
    BY <1>3
  <2>3. /\ p \in PlanType /\ p.kind = "sealed" /\ p.spend = Ids(S \cup F) /\ p.reserved = 0
        /\ Stage(p, pc) /\ Books(p)
    <3>1. PaysFor(r, S, F, f)
      BY <1>3, <2>2 DEF PaysFor
    <3>2. r.op = "send"
      BY <1>1
    <3> HIDE DEF target
    <3> QED BY <2>1, <3>1, <3>2, PaymentBase
  <2>4. S \cup F \subseteq flCoins
    BY <1>3
  <2>5. EnterFree(c, p, pc)
    BY <1>3
  <2>6. Entered(c, p, pc)
    BY <2>3, <2>4, <2>5, SealedEntered
  <2> QED BY <2>6
<1>4. Worth({}) = 0
  BY WorthEmpty
<1>5. ASSUME NEW X, \A F \in X : F \subseteq flCoins /\ Worth(F) >= fee /\ (\A x \in F : x.asset = Pms),
             NEW F \in IF r.asset = Pms \/ fee = 0 THEN {{}} ELSE X
      PROVE  /\ F \subseteq flCoins /\ (\A x \in F : x.asset = Pms)
             /\ r.asset # Pms => Worth(F) >= fee
             /\ r.asset = Pms => F = {}
  <2>1. CASE r.asset = Pms
    BY <1>5, <2>1
  <2>2. CASE r.asset # Pms /\ fee = 0
    <3>1. F = {}
      BY <1>5, <2>2
    <3> QED BY <1>4, <2>2, <3>1
  <2>3. CASE r.asset # Pms /\ fee # 0
    BY <1>5, <2>3
  <2> QED BY <2>1, <2>2, <2>3
<1>6. CASE WalletSendSimple(c, r)
  <2> DEFINE X == SelectUtxosMulti(r.from, Pms, fee)
             feeSets == IF r.asset = Pms \/ fee = 0 THEN {{}} ELSE X
  <2>1. PICK S \in SelectUtxosMulti(r.from, r.asset, target) :
          IF feeSets = {}
          THEN EnterFree(c, PaymentPlan("sealed", r, S, {}, 0), "handler")
          ELSE \E f \in feeSets : EnterFree(c, PaymentPlan("sealed", r, S, f, fee), "handler")
    BY <1>6 DEF WalletSendSimple, fee
  <2>2. S \subseteq flCoins /\ Worth(S) >= target /\ (\A x \in S : x.asset = r.asset)
    <3> HIDE DEF target
    <3> QED BY SelectionMultiFact
  <2>3. CASE feeSets = {}
    <3>1. r.asset # Pms
      BY <2>3
    <3>2. EnterFree(c, PaymentPlan("sealed", r, S, {}, 0), "handler")
      BY <2>1, <2>3
    <3>3. Worth({}) >= 0
      BY <1>4
    <3>4. {} \subseteq flCoins /\ \A x \in {} : x.asset = Pms
      OBVIOUS
    <3> HIDE DEF target
    <3> QED BY <1>3, <2>2, <3>1, <3>2, <3>3, <3>4
  <2>4. CASE feeSets # {}
    <3>1. PICK F \in feeSets : EnterFree(c, PaymentPlan("sealed", r, S, F, fee), "handler")
      BY <2>1, <2>4
    <3>2. \A T \in X : T \subseteq flCoins /\ Worth(T) >= fee /\ (\A x \in T : x.asset = Pms)
      BY SelectionMultiFact
    <3> HIDE DEF target, X
    <3>3. /\ F \subseteq flCoins /\ (\A x \in F : x.asset = Pms)
          /\ r.asset # Pms => Worth(F) >= fee
          /\ r.asset = Pms => F = {}
      BY <1>5, <3>2
    <3> QED BY <1>3, <2>2, <3>1, <3>3
  <2> QED BY <2>3, <2>4
<1>7. CASE PrepareTx(c, r)
  <2> DEFINE X == SelectUtxos({Primary(r.from)}, Pms, fee)
  <2>1. PICK S \in SelectUtxos({Primary(r.from)}, r.asset, target) :
          \E F \in IF r.asset = Pms \/ fee = 0 THEN {{}} ELSE X :
             EnterFree(c, PaymentPlan("sealed", r, S, F, fee), "prepared")
    BY <1>7 DEF PrepareTx, fee
  <2>2. S \subseteq flCoins /\ Worth(S) >= target /\ (\A x \in S : x.asset = r.asset)
    <3> HIDE DEF target
    <3> QED BY SelectionFact
  <2>3. PICK F \in IF r.asset = Pms \/ fee = 0 THEN {{}} ELSE X :
          EnterFree(c, PaymentPlan("sealed", r, S, F, fee), "prepared")
    BY <2>1
  <2>4. \A T \in X : T \subseteq flCoins /\ Worth(T) >= fee /\ (\A x \in T : x.asset = Pms)
    BY SelectionFact
  <2> HIDE DEF target, X
  <2>5. /\ F \subseteq flCoins /\ (\A x \in F : x.asset = Pms)
        /\ r.asset # Pms => Worth(F) >= fee
        /\ r.asset = Pms => F = {}
    BY <1>5, <2>4
  <2> QED BY <1>3, <2>2, <2>3, <2>5
<1> QED BY <1>6, <1>7

LEMMA OwnEntered ==
    ASSUME FlowBase, NEW c \in FlowCall, NEW r \in FlowRequest, NEW x \in flCoins, SubmitOwnTx(c, r, x)
    PROVE  \E p, pc : Entered(c, p, pc)
<1>1. FlowTypes /\ CoinsKnown /\ r.from \in Wallet /\ Primary(r.from) \in Addr
  BY RequestShape, Addresses DEF SubmitOwnTx, FlowBase
<1>2. x \in CoinType /\ x.born <= flNow /\ x.amt \in Nat /\ x.asset \in AnyAsset
  BY <1>1, CoinsFact DEF CoinsKnown, CoinType
<1>3. EffectiveValue(x) \in Nat /\ (x.asset = Pms => EffectiveValue(x) = x.amt)
  BY <1>1, <1>2, EffectiveNat
<1>4. PICK n \in {x.amt, EffectiveValue(x)} \ {0} :
        EnterFree(c, Plan("plain", r, {r.from}, {x}, << Out(Primary(r.from), x.asset, n) >>, 0), "arm")
  BY DEF SubmitOwnTx
<1> DEFINE outs == << Out(Primary(r.from), x.asset, n) >>
           S == {x}
           g == {r.from}
           p == Plan("plain", r, g, S, outs, 0)
<1>5. n \in Nat /\ (x.asset = Pms => n = x.amt)
  BY <1>2, <1>3
<1>6. /\ outs \in Seq(OutType) /\ outs # <<>>
      /\ Total(outs, Pms) = IF x.asset = Pms THEN n ELSE 0
  BY <1>1, <1>2, <1>5, OutFact, TotalOut
<1>7. "plain" \in Kind /\ g \in SUBSET Wallet /\ S \subseteq flCoins
  BY <1>1 DEF Kind, Transfer
<1>8. EnterFree(c, p, "arm")
  BY <1>4
<1>9. AmountIn(S, Pms) = IF x.asset = Pms THEN n ELSE 0
  <2>1. CASE x.asset = Pms
    BY <1>2, <1>5, <2>1, AmountSame, WorthOne
  <2>2. CASE x.asset # Pms
    BY <2>2, AmountOther
  <2> QED BY <2>1, <2>2
<1> HIDE DEF outs, S, g
<1>10. /\ p \in PlanType /\ p.kind = "plain" /\ p.req = r /\ p.spend = Ids(S)
       /\ p.outs = outs /\ p.fee = 0 /\ p.reserved = 0
  BY <1>1, <1>6, <1>7, PlanFact
<1> HIDE DEF p
<1>11. Inputs(p) = S
  BY <1>1, <1>7, <1>10, InputsOfPlan
<1>12. AmountIn(Inputs(p), Pms) = Total(p.outs, Pms) + p.fee
  BY <1>5, <1>6, <1>9, <1>10, <1>11
<1>13. Books(p)
  BY <1>10, <1>12 DEF Books
<1>14. Stage(p, "arm")
  BY <1>6, <1>10 DEF Stage, Transfer, CappedMint
<1>15. Enter(c, p, "arm") /\ flEmitted' = flEmitted + p.reserved /\ flCapRaced' = flCapRaced
  BY <1>1, <1>8, <1>10 DEF EnterFree, FlowTypes
<1>16. Entered(c, p, "arm")
  BY <1>7, <1>10, <1>13, <1>14, <1>15 DEF Entered, Races, CappedMint
<1> QED BY <1>16

LEMMA SixOutputs ==
    ASSUME NEW s, NEW t, NEW u, NEW v, NEW w, NEW x, NEW a,
           s \in Seq(OutType), t \in Seq(OutType), u \in Seq(OutType), v \in Seq(OutType),
           w \in Seq(OutType), x \in Seq(OutType)
    PROVE  /\ s \o t \o u \o v \o w \o x \in Seq(OutType)
           /\ Total(s \o t \o u \o v \o w \o x, a) =
                Total(s, a) + Total(t, a) + Total(u, a) + Total(v, a) + Total(w, a) + Total(x, a)
<1> DEFINE s2 == s \o t
           s3 == s2 \o u
           s4 == s3 \o v
           s5 == s4 \o w
<1>1. s2 \in Seq(OutType) /\ Total(s2, a) = Total(s, a) + Total(t, a)
  BY Outputs
<1> HIDE DEF s2
<1>2. s3 \in Seq(OutType) /\ Total(s3, a) = Total(s2, a) + Total(u, a)
  BY <1>1, Outputs
<1> HIDE DEF s3
<1>3. s4 \in Seq(OutType) /\ Total(s4, a) = Total(s3, a) + Total(v, a)
  BY <1>2, Outputs
<1> HIDE DEF s4
<1>4. s5 \in Seq(OutType) /\ Total(s5, a) = Total(s4, a) + Total(w, a)
  BY <1>3, Outputs
<1> HIDE DEF s5
<1>5. s5 \o x \in Seq(OutType) /\ Total(s5 \o x, a) = Total(s5, a) + Total(x, a)
  BY <1>4, Outputs
<1> QED BY <1>1, <1>2, <1>3, <1>4, <1>5 DEF s2, s3, s4, s5

LEMMA RoyaltyFact ==
    ASSUME FlowTypes, NEW a \in FlowAsset, NEW price \in Nat
    PROVE  /\ ComputeRoyalty(price, flRoyalty[a].bps) \in Nat
           /\ ComputeRoyalty(price, flRoyalty[a].bps) <= price
           /\ flRoyalty[a].to \in Addr
<1>1. flRoyalty[a].bps \in {0, 1} /\ flRoyalty[a].to \in Addr
  BY DEF FlowTypes
<1>2. CASE flRoyalty[a].bps = 0
  <2>1. price * flRoyalty[a].bps = 0
    BY <1>2
  <2> QED BY <1>1, <2>1, DivFact DEF ComputeRoyalty
<1>3. CASE flRoyalty[a].bps = 1
  <2>1. price * flRoyalty[a].bps = price
    BY <1>3
  <2> QED BY <1>1, <2>1, DivFact DEF ComputeRoyalty
<1> QED BY <1>1, <1>2, <1>3

LEMMA PayInPms ==
    ASSUME NEW addr \in Addr, NEW a \in AnyAsset, NEW n \in Int, n >= 0
    PROVE  /\ Pay(addr, a, n) \in Seq(OutType)
           /\ Total(Pay(addr, a, n), Pms) = IF a = Pms THEN n ELSE 0
BY PayFact

\* The outputs of a settlement that takes coins worth item, pay and gas, and
\* the native coins among them.
SaleOuts(r, to, royalty, item, pay, gas, fee) ==
    Pay(Primary(r.buyer), r.asset, r.qty)
      \o Pay(Primary(r.seller), r.asset, item - r.qty)
      \o Pay(to, r.priceAsset, royalty)
      \o Pay(Primary(r.seller), r.priceAsset, r.price - royalty)
      \o Pay(Primary(r.buyer), r.priceAsset, pay - r.price - (IF r.priceAsset = Pms THEN fee ELSE 0))
      \o (IF r.priceAsset = Pms THEN <<>> ELSE Pay(Primary(r.buyer), Pms, gas - fee))

LEMMA SaleOutputs ==
    ASSUME NEW r, NEW to, NEW royalty, NEW item, NEW pay, NEW gas, NEW fee,
           r \in FlowRequest, r.op = "settle", to \in Addr, royalty \in Nat, royalty <= r.price,
           item \in Nat, item >= r.qty, pay \in Nat, gas \in Nat, fee \in Nat,
           r.priceAsset = Pms => pay >= r.price + fee,
           r.priceAsset # Pms => pay >= r.price /\ gas >= fee
    PROVE  LET outs == SaleOuts(r, to, royalty, item, pay, gas, fee)
           IN  /\ outs \in Seq(OutType)
               /\ Total(outs, Pms) + fee = IF r.priceAsset = Pms THEN pay ELSE gas
<1> DEFINE outs == SaleOuts(r, to, royalty, item, pay, gas, fee)
           buyer == Primary(r.buyer)
           seller == Primary(r.seller)
           a == r.asset
           pa == r.priceAsset
           price == r.price
           rest == item - r.qty
           net == price - royalty
           left == pay - price - (IF pa = Pms THEN fee ELSE 0)
           back == gas - fee
           qty == r.qty
           o1 == Pay(buyer, a, qty)
           o2 == Pay(seller, a, rest)
           o3 == Pay(to, pa, royalty)
           o4 == Pay(seller, pa, net)
           o5 == Pay(buyer, pa, left)
           o6 == IF pa = Pms THEN <<>> ELSE Pay(buyer, Pms, back)
<1>a. /\ r.seller \in Wallet /\ r.buyer \in Wallet /\ a \in FlowAsset
      /\ r.qty \in Nat /\ pa \in AnyAsset /\ price \in Nat
  BY RequestShape
<1>b. buyer \in Addr /\ seller \in Addr /\ a \in AnyAsset /\ a # Pms /\ Pms \in AnyAsset
  BY <1>a, Constants, Addresses
<1>c. /\ rest \in Int /\ rest >= 0 /\ net \in Int /\ net >= 0 /\ left \in Int /\ left >= 0
      /\ back \in Int /\ (pa # Pms => back >= 0)
  BY <1>a
<1>d. outs = o1 \o o2 \o o3 \o o4 \o o5 \o o6
  BY DEF SaleOuts
<1>e. left = pay - price - (IF pa = Pms THEN fee ELSE 0) /\ net = price - royalty /\ back = gas - fee
  OBVIOUS
<1>f. qty \in Int /\ qty >= 0
  BY <1>a
<1> HIDE DEF buyer, seller, a, pa, price, qty, rest, net, left, back, outs
<1>1. o1 \in Seq(OutType) /\ Total(o1, Pms) = 0
  BY <1>f, <1>b, PayInPms
<1>2. o2 \in Seq(OutType) /\ Total(o2, Pms) = 0
  BY <1>b, <1>c, PayInPms
<1>3. o3 \in Seq(OutType) /\ Total(o3, Pms) = IF pa = Pms THEN royalty ELSE 0
  BY <1>a, PayInPms
<1>4. o4 \in Seq(OutType) /\ Total(o4, Pms) = IF pa = Pms THEN net ELSE 0
  BY <1>a, <1>b, <1>c, PayInPms
<1>5. o5 \in Seq(OutType) /\ Total(o5, Pms) = IF pa = Pms THEN left ELSE 0
  BY <1>a, <1>b, <1>c, PayInPms
<1>6. o6 \in Seq(OutType) /\ Total(o6, Pms) = IF pa = Pms THEN 0 ELSE back
  <2>1. CASE pa = Pms
    BY <2>1, TotalEmpty
  <2>2. CASE pa # Pms
    BY <1>b, <1>c, <2>2, PayInPms
  <2> QED BY <2>1, <2>2
<1> HIDE DEF o1, o2, o3, o4, o5, o6
<1>8. o1 \in Seq(OutType) /\ o2 \in Seq(OutType) /\ o3 \in Seq(OutType)
      /\ o4 \in Seq(OutType) /\ o5 \in Seq(OutType) /\ o6 \in Seq(OutType)
  BY <1>1, <1>2, <1>3, <1>4, <1>5, <1>6
<1>9. /\ outs \in Seq(OutType)
      /\ Total(outs, Pms) = Total(o1, Pms) + Total(o2, Pms) + Total(o3, Pms) + Total(o4, Pms)
                               + Total(o5, Pms) + Total(o6, Pms)
  <2> DEFINE u == o1 \o o2 \o o3 \o o4 \o o5 \o o6
  <2>1. u \in Seq(OutType)
        /\ Total(u, Pms) = Total(o1, Pms) + Total(o2, Pms) + Total(o3, Pms) + Total(o4, Pms)
                               + Total(o5, Pms) + Total(o6, Pms)
    BY <1>8, SixOutputs
  <2>2. outs = u
    BY <1>d
  <2> HIDE DEF u
  <2> QED BY <2>1, <2>2
<1> DEFINE t == Total(outs, Pms)
<1>10. CASE pa = Pms
  <2>1. t = 0 + 0 + royalty + net + left + 0
    BY <1>1, <1>2, <1>3, <1>4, <1>5, <1>6, <1>9, <1>10
  <2>2. left = pay - price - fee /\ net = price - royalty /\ price \in Nat
    BY <1>a, <1>e, <1>10
  <2> HIDE DEF t
  <2>3. t + fee = pay
    BY <2>1, <2>2
  <2> QED BY <1>9, <1>10, <2>3 DEF t, outs, pa
<1>11. CASE pa # Pms
  <2>1. t = 0 + 0 + 0 + 0 + 0 + back
    BY <1>1, <1>2, <1>3, <1>4, <1>5, <1>6, <1>9, <1>11
  <2> HIDE DEF t
  <2>2. t + fee = gas
    BY <1>e, <2>1
  <2> QED BY <1>9, <1>11, <2>2 DEF t, outs, pa
<1> QED BY <1>10, <1>11

LEMMA SettleEntered ==
    ASSUME FlowBase, NEW c \in FlowCall, NEW r \in FlowRequest, MarketSettle(c, r)
    PROVE  \E p, pc : Entered(c, p, pc)
<1> DEFINE royalty == ComputeRoyalty(r.price, flRoyalty[r.asset].bps)
           native == r.priceAsset = Pms
           gas == ComputeFee(r.price)
           target == IF native THEN r.price + gas ELSE r.price
           X == SelectUtxosMulti(r.buyer, Pms, gas)
           gasSets == IF native \/ gas = 0 THEN {{}} ELSE X
           paid == IF gasSets = {} THEN 0 ELSE gas
<1>1. r.op = "settle"
  BY DEF MarketSettle
<1>2. /\ r.seller \in Wallet /\ r.buyer \in Wallet /\ r.asset \in FlowAsset
      /\ r.qty \in Nat /\ r.priceAsset \in AnyAsset /\ r.price \in Nat
  BY <1>1, RequestShape
<1>3. FlowTypes /\ CoinsKnown
  BY DEF FlowBase
<1>4. royalty \in Nat /\ royalty <= r.price /\ flRoyalty[r.asset].to \in Addr
  BY <1>2, <1>3, RoyaltyFact
<1>5. gas \in Nat /\ r.asset \in AnyAsset /\ r.asset # Pms /\ Pms \in AnyAsset
      /\ Primary(r.buyer) \in Addr /\ Primary(r.seller) \in Addr
  BY <1>2, Constants, Addresses DEF ComputeFee
<1>6. PICK item \in SelectUtxosMulti(r.seller, r.asset, r.qty),
           pay \in SelectUtxosMulti(r.buyer, r.priceAsset, target),
           g \in IF gasSets = {} THEN {{}} ELSE gasSets :
             EnterFree(c,
               Plan("settle", r, {r.seller, r.buyer}, item \cup pay \cup g,
                 Pay(Primary(r.buyer), r.asset, r.qty)
                   \o Pay(Primary(r.seller), r.asset, Worth(item) - r.qty)
                   \o Pay(flRoyalty[r.asset].to, r.priceAsset, royalty)
                   \o Pay(Primary(r.seller), r.priceAsset, r.price - royalty)
                   \o Pay(Primary(r.buyer), r.priceAsset,
                          Worth(pay) - r.price - (IF native THEN gas ELSE 0))
                   \o (IF native THEN <<>> ELSE Pay(Primary(r.buyer), Pms, Worth(g) - paid)),
                 paid), "arm")
  BY DEF MarketSettle
<1>7. /\ item \subseteq flCoins /\ Worth(item) >= r.qty /\ (\A x \in item : x.asset = r.asset)
      /\ pay \subseteq flCoins /\ Worth(pay) >= target /\ (\A x \in pay : x.asset = r.priceAsset)
  <2> HIDE DEF target
  <2> QED BY SelectionMultiFact
<1>8. /\ g \subseteq flCoins /\ (\A x \in g : x.asset = Pms)
      /\ native => g = {} /\ paid = gas
      /\ Worth(g) >= 0 /\ (~native => Worth(g) >= paid)
  <2>1. Worth({}) = 0
    BY WorthEmpty
  <2>2. CASE native
    <3>1. g = {} /\ gasSets # {}
      BY <2>2
    <3> QED BY <2>1, <2>2, <3>1
  <2>3. CASE ~native /\ (gas = 0 \/ X = {})
    <3>1. g = {} /\ paid = 0
      BY <2>3
    <3> QED BY <2>1, <2>3, <3>1
  <2>4. CASE ~native /\ gas # 0 /\ X # {}
    <3>1. g \in X /\ paid = gas
      BY <2>4
    <3>2. g \subseteq flCoins /\ Worth(g) >= gas /\ (\A x \in g : x.asset = Pms)
      BY <3>1, SelectionMultiFact
    <3> HIDE DEF X, gas, gasSets, paid
    <3>3. Worth(g) >= paid
      BY <3>1, <3>2
    <3>4. Worth(g) \in Nat
      BY <1>3, <3>2, CoinsFact
    <3>5. Worth(g) >= 0
      BY <3>4
    <3> QED BY <2>4, <3>2, <3>3, <3>5
  <2> QED BY <2>2, <2>3, <2>4
<1>9. paid \in Nat
  BY <1>5
<1> HIDE DEF royalty, gas, gasSets, paid, X
<1>10. Worth(item) \in Nat /\ Worth(pay) \in Nat /\ Worth(g) \in Nat
  BY <1>3, <1>7, <1>8, CoinsFact
<1> DEFINE to == flRoyalty[r.asset].to
           wi == Worth(item)
           wp == Worth(pay)
           wg == Worth(g)
           outs == SaleOuts(r, to, royalty, wi, wp, wg, paid)
           coins == item \cup pay \cup g
           who == {r.seller, r.buyer}
           p == Plan("settle", r, who, coins, outs, paid)
<1>11. /\ wi >= r.qty
       /\ native => wp >= r.price + paid
       /\ ~native => wp >= r.price /\ wg >= paid
  BY <1>7, <1>8
<1>12. outs \in Seq(OutType) /\ Total(outs, Pms) + paid = IF native THEN wp ELSE wg
  <2>1. wi \in Nat /\ wp \in Nat /\ wg \in Nat /\ to \in Addr
    BY <1>4, <1>10
  <2> HIDE DEF wi, wp, wg, to
  <2> QED BY <1>1, <1>4, <1>9, <1>11, <2>1, SaleOutputs
<1> HIDE DEF outs
<1>19. EnterFree(c, p, "arm")
  <2>1. native => paid = gas
    BY <1>8
  <2>2. wp - r.price - (IF native THEN paid ELSE 0) = wp - r.price - (IF native THEN gas ELSE 0)
    BY <2>1
  <2> QED BY <1>6, <2>2 DEF outs, SaleOuts
<1>20. coins \subseteq flCoins /\ who \in SUBSET Wallet /\ "settle" \in Kind
  BY <1>2, <1>7, <1>8 DEF Kind, Transfer
<1>21. AmountIn(coins, Pms) = IF native THEN wp ELSE wg
  <2>1. CASE native
    <3>1. {x \in coins : x.asset = Pms} = pay
      BY <1>5, <1>7, <1>8, <2>1
    <3> QED BY <2>1, <3>1 DEF AmountIn
  <2>2. CASE ~native
    <3>1. {x \in coins : x.asset = Pms} = g
      BY <1>5, <1>7, <1>8, <2>2
    <3> QED BY <2>2, <3>1 DEF AmountIn
  <2> QED BY <2>1, <2>2
<1> HIDE DEF coins, who, target, wi, wp, wg
<1>22. /\ p \in PlanType /\ p.kind = "settle" /\ p.req = r /\ p.spend = Ids(coins)
       /\ p.outs = outs /\ p.fee = paid /\ p.reserved = 0
  BY <1>3, <1>9, <1>12, <1>20, PlanFact
<1> HIDE DEF p
<1>23. Inputs(p) = coins
  BY <1>3, <1>20, <1>22, InputsOfPlan
<1>24. AmountIn(Inputs(p), Pms) = Total(p.outs, Pms) + p.fee
  BY <1>12, <1>21, <1>22, <1>23
<1>25. Books(p)
  BY <1>22, <1>24 DEF Books
<1>26. Stage(p, "arm")
  BY <1>1, <1>22 DEF Stage, Transfer, CappedMint
<1>27. Enter(c, p, "arm") /\ flEmitted' = flEmitted + p.reserved /\ flCapRaced' = flCapRaced
  BY <1>3, <1>19, <1>22 DEF EnterFree, FlowTypes
<1>28. Entered(c, p, "arm")
  BY <1>20, <1>22, <1>25, <1>26, <1>27 DEF Entered, Races, CappedMint
<1> QED BY <1>28

LEMMA BurnEntered ==
    ASSUME FlowBase, NEW c \in FlowCall, NEW r \in FlowRequest, WalletBurnToken(c, r)
    PROVE  \E p, pc : Entered(c, p, pc)
<1> DEFINE convert == IF r.asset = Pms THEN 0 ELSE r.amt * ConversionOf[r.asset]
           w == Primary(r.from)
           a == r.asset
           who == {r.from}
<1>1. r.op = "burn"
  BY DEF WalletBurnToken
<1>2. r.from \in Wallet /\ a \in AnyAsset /\ r.amt \in Nat /\ w \in Addr
  BY <1>1, RequestShape, Addresses
<1>3. FlowTypes /\ CoinsKnown
  BY DEF FlowBase
<1>4. convert \in Nat
  <2>1. CASE a = Pms
    BY <2>1
  <2>2. CASE a # Pms
    <3>1. ConversionOf[a] \in Nat
      BY <1>2, <2>2, Constants
    <3> QED BY <1>2, <2>2, <3>1
  <2> QED BY <2>1, <2>2
<1>5. PICK S \in SelectUtxosMulti(r.from, a, r.amt) :
        Enter(c, [Plan("burn", r, who, S, Pay(w, a, Worth(S) - r.amt), 0) EXCEPT !.reserved = convert], "arm")
  BY DEF WalletBurnToken
<1>6. flEmitted' = flEmitted + convert /\ flCapRaced' = flCapRaced
  BY DEF WalletBurnToken
<1>7. S \subseteq flCoins
  BY SelectionMultiFact
<1> DEFINE n == Worth(S) - r.amt
           outs == Pay(w, a, n)
           q == Plan("burn", r, who, S, outs, 0)
           p == [q EXCEPT !.reserved = convert]
<1>8. n \in Int
  BY <1>2, <1>3, <1>7, CoinsFact
<1>9. outs \in Seq(OutType) /\ \A i \in DOMAIN outs : outs[i].asset = a
  <2> HIDE DEF n, w, a
  <2> QED BY <1>2, <1>8, PayFact
<1>10. "burn" \in Kind /\ who \in SUBSET Wallet
  BY <1>2 DEF Kind
<1> HIDE DEF outs, who, convert
<1>11. /\ q \in PlanType /\ q.kind = "burn" /\ q.req = r /\ q.spend = Ids(S)
       /\ q.outs = outs /\ q.fee = 0
  BY <1>3, <1>7, <1>9, <1>10, PlanFact
<1> HIDE DEF q
<1>12. /\ p \in PlanType /\ p.kind = "burn" /\ p.req = r /\ p.spend = Ids(S)
       /\ p.outs = outs /\ p.fee = 0 /\ p.reserved = convert
  BY <1>4, <1>11 DEF PlanType
<1>13. Enter(c, p, "arm")
  BY <1>5 DEF q, outs
<1> HIDE DEF p
<1>14. Books(p)
  BY <1>12 DEF Books, Transfer
<1>15. Stage(p, "arm")
  BY <1>1, <1>9, <1>12 DEF Stage, Transfer, CappedMint
<1>16. Entered(c, p, "arm")
  BY <1>6, <1>7, <1>12, <1>13, <1>14, <1>15 DEF Entered, Races, CappedMint
<1> QED BY <1>16

\* The plan of an issue: it spends nothing.
LEMMA IssueFact ==
    ASSUME FlowBase, NEW k, k \in CappedMint, NEW r, r \in FlowRequest, NEW who, who \in SUBSET Wallet,
           NEW outs, outs \in Seq(OutType), NEW pc, pc \in {"lock", "arm"}, pc = "lock" <=> k = "custodial",
           k = "mint" => r.op \in {"mint", "mintSft", "faucet"}, k = "custodial" => r.op = "custodial",
           \A i \in DOMAIN outs : outs[i].asset \in {r.asset, Pms},
           NEW p, p = Plan(k, r, who, {}, outs, 0), NEW c, c \in FlowCall, Enter(c, p, pc),
           flEmitted' = flEmitted,
           \/ r.asset = Pms /\ flCapRaced' = flCapRaced
           \/ k = "mint" /\ MintRace(r.asset, FALSE)
           \/ k = "custodial" /\ MintRace(r.asset, TRUE)
    PROVE  Entered(c, p, pc)
<1>1. FlowTypes /\ {} \subseteq flCoins /\ k \in Kind
  BY DEF FlowBase, Kind
<1>2. /\ p \in PlanType /\ p.kind = k /\ p.req = r /\ p.spend = Ids({})
      /\ p.outs = outs /\ p.fee = 0 /\ p.reserved = 0
  BY <1>1, PlanFact
<1>3. p.spend = {}
  BY <1>2 DEF Ids
<1>4. k \in {"mint", "custodial"}
  BY DEF CappedMint
<1>5. Books(p)
  BY <1>2, <1>4 DEF Books, Transfer
<1>6. Stage(p, pc)
  BY <1>2, <1>3, <1>4 DEF Stage, Transfer, CappedMint
<1>7. flEmitted' = flEmitted + p.reserved
  BY <1>1, <1>2 DEF FlowTypes
<1>8. ASSUME NEW a \in FlowAsset PROVE a \in flCapRaced' <=> a \in flCapRaced \/ Races(p, a)
  <2>1. a # Pms
    BY Constants
  <2>2. CASE r.asset = Pms /\ flCapRaced' = flCapRaced
    BY <1>2, <2>1, <2>2 DEF Races
  <2>3. CASE k = "mint" /\ MintRace(r.asset, FALSE)
    <3> DEFINE other == \E d \in FlowInFlight : flPlan[d].kind \in CappedMint /\ flPlan[d].req.asset = r.asset
    <3>1. flCapRaced' = IF other THEN flCapRaced \cup {r.asset} ELSE flCapRaced
      BY <2>3 DEF MintRace, CappedMint
    <3>2. Races(p, a) <=> (r.asset = a /\ other)
      BY <1>2, <2>3 DEF Races, CappedMint
    <3> HIDE DEF other
    <3> QED BY <3>1, <3>2
  <2>4. CASE k = "custodial" /\ MintRace(r.asset, TRUE)
    <3> DEFINE other == \E d \in FlowInFlight : flPlan[d].kind = "mint" /\ flPlan[d].req.asset = r.asset
    <3>1. flCapRaced' = IF other THEN flCapRaced \cup {r.asset} ELSE flCapRaced
      BY <2>4 DEF MintRace
    <3>2. Races(p, a) <=> (r.asset = a /\ other)
      BY <1>2, <2>4 DEF Races, CappedMint
    <3> HIDE DEF other
    <3> QED BY <3>1, <3>2
  <2> QED BY <2>2, <2>3, <2>4
<1> QED BY <1>1, <1>2, <1>5, <1>6, <1>7, <1>8 DEF Entered

LEMMA MintEntered ==
    ASSUME FlowBase, NEW c \in FlowCall, NEW r \in FlowRequest,
           \/ AdminMintToken(c, r) \/ AdminMintSft(c, r) \/ CustodialMint(c, r) \/ FaucetMint(c, r)
    PROVE  \E p, pc : Entered(c, p, pc)
<1> DEFINE Issue(k, who, outs) == Plan(k, r, who, {}, outs, 0)
<1>1. CASE AdminMintToken(c, r)
  <2> DEFINE o == << Out(r.to, r.asset, r.amt) >>
             f == Pay(FeeAddr, Pms, MintFee)
             outs == o \o f
  <2>1. r.op = "mint" /\ r.to \in Addr /\ r.asset \in AnyAsset /\ r.amt \in Nat
    BY <1>1, RequestShape DEF AdminMintToken
  <2>2. o \in Seq(OutType) /\ Len(o) = 1 /\ o[1].asset = r.asset
    BY <2>1, OutFact
  <2>3. f \in Seq(OutType) /\ \A i \in DOMAIN f : f[i].asset = Pms
    <3>1. FeeAddr \in Addr /\ Pms \in AnyAsset /\ MintFee \in Int
      BY Constants, Addresses
    <3> QED BY <3>1, PayFact
  <2>4. Enter(c, Issue("mint", {}, outs), "arm") /\ MintRace(r.asset, FALSE) /\ flEmitted' = flEmitted
    BY <1>1 DEF AdminMintToken
  <2> HIDE DEF o, f
  <2>5. outs \in Seq(OutType) /\ \A i \in DOMAIN outs : outs[i].asset \in {r.asset, Pms}
    <3>1. /\ outs \in Seq(OutType) /\ Len(outs) = Len(o) + Len(f)
          /\ \A i \in 1..(Len(o) + Len(f)) : outs[i] = IF i <= Len(o) THEN o[i] ELSE f[i - Len(o)]
      BY <2>2, <2>3, ConcatProperties
    <3> HIDE DEF outs
    <3>2. ASSUME NEW i \in DOMAIN outs PROVE outs[i].asset \in {r.asset, Pms}
      <4>1. i \in 1..(1 + Len(f)) /\ outs[i] = IF i <= 1 THEN o[i] ELSE f[i - 1]
        BY <2>2, <3>1
      <4>2. Len(f) \in Nat /\ DOMAIN f = 1..Len(f)
        BY <2>3
      <4>3. CASE i <= 1
        <5>1. i = 1
          BY <4>1, <4>2, <4>3
        <5> QED BY <2>2, <4>1, <5>1
      <4>4. CASE ~(i <= 1)
        <5>1. i - 1 \in DOMAIN f
          BY <4>1, <4>2, <4>4
        <5> QED BY <2>3, <4>1, <4>4, <5>1
      <4> QED BY <4>3, <4>4
    <3> QED BY <3>1, <3>2
  <2> HIDE DEF outs
  <2>6. PICK p : p = Issue("mint", {}, outs)
    OBVIOUS
  <2>7. "mint" \in CappedMint /\ {} \in SUBSET Wallet /\ Enter(c, p, "arm")
    BY <2>4, <2>6 DEF CappedMint
  <2>8. Entered(c, p, "arm")
    BY <2>1, <2>4, <2>5, <2>6, <2>7, IssueFact
  <2> QED BY <2>8
<1>2. CASE AdminMintSft(c, r)
  <2> DEFINE outs == << Out(r.to, r.asset, r.amt) >>
  <2>1. r.op = "mintSft" /\ r.to \in Addr /\ r.asset \in AnyAsset /\ r.amt \in Nat
    BY <1>2, RequestShape DEF AdminMintSft
  <2>2. outs \in Seq(OutType) /\ \A i \in DOMAIN outs : outs[i].asset \in {r.asset, Pms}
    BY <2>1, OutFact
  <2>3. Enter(c, Issue("mint", {}, outs), "arm") /\ MintRace(r.asset, FALSE) /\ flEmitted' = flEmitted
    BY <1>2 DEF AdminMintSft
  <2> HIDE DEF outs
  <2>4. PICK p : p = Issue("mint", {}, outs)
    OBVIOUS
  <2>5. "mint" \in CappedMint /\ {} \in SUBSET Wallet /\ Enter(c, p, "arm")
    BY <2>3, <2>4 DEF CappedMint
  <2>6. Entered(c, p, "arm")
    BY <2>1, <2>2, <2>3, <2>4, <2>5, IssueFact
  <2> QED BY <2>6
<1>3. CASE CustodialMint(c, r)
  <2> DEFINE o == [Out(r.to, r.asset, r.amt) EXCEPT !.lock = r.lock]
             outs == << o >>
             who == {r.by}
  <2>1. r.op = "custodial" /\ r.by \in Wallet /\ r.to \in Addr /\ r.asset \in AnyAsset
        /\ r.amt \in Nat /\ r.lock \in Nat
    BY <1>3, RequestShape, Constants DEF CustodialMint
  <2>2. o = [addr |-> r.to, asset |-> r.asset, amt |-> r.amt, lock |-> r.lock]
    BY DEF Out
  <2>3. o \in OutType /\ o.asset = r.asset
    BY <2>1, <2>2 DEF OutType
  <2>4. Enter(c, Issue("custodial", who, outs), "lock") /\ MintRace(r.asset, TRUE) /\ flEmitted' = flEmitted
    BY <1>3 DEF CustodialMint
  <2> HIDE DEF o
  <2>5. outs \in Seq(OutType) /\ \A i \in DOMAIN outs : outs[i].asset \in {r.asset, Pms}
    BY <2>3
  <2>6. PICK p : p = Issue("custodial", who, outs)
    OBVIOUS
  <2>7. "custodial" \in CappedMint /\ who \in SUBSET Wallet /\ Enter(c, p, "lock")
    BY <2>1, <2>4, <2>6 DEF CappedMint
  <2> HIDE DEF outs, who
  <2>8. Entered(c, p, "lock")
    BY <2>1, <2>4, <2>5, <2>6, <2>7, IssueFact
  <2> QED BY <2>8
<1>4. CASE FaucetMint(c, r)
  <2> DEFINE o == [Out(r.to, Pms, r.amt) EXCEPT !.lock = r.lock]
             outs == << o >>
  <2>1. r.op = "faucet" /\ r.to \in Addr /\ r.asset = Pms /\ Pms \in AnyAsset
        /\ r.amt \in Nat /\ r.lock \in Nat
    BY <1>4, RequestShape, Constants DEF FaucetMint
  <2>2. o = [addr |-> r.to, asset |-> Pms, amt |-> r.amt, lock |-> r.lock]
    BY DEF Out
  <2>3. o \in OutType /\ o.asset = r.asset
    BY <2>1, <2>2 DEF OutType
  <2>4. Enter(c, Issue("mint", {}, outs), "arm") /\ flCapRaced' = flCapRaced /\ flEmitted' = flEmitted
    BY <1>4 DEF FaucetMint, EnterFree
  <2> HIDE DEF o
  <2>5. outs \in Seq(OutType) /\ \A i \in DOMAIN outs : outs[i].asset \in {r.asset, Pms}
    BY <2>3
  <2>6. PICK p : p = Issue("mint", {}, outs)
    OBVIOUS
  <2>7. "mint" \in CappedMint /\ {} \in SUBSET Wallet /\ Enter(c, p, "arm")
    BY <2>1, <2>4, <2>6 DEF CappedMint
  <2> HIDE DEF outs
  <2>8. Entered(c, p, "arm")
    BY <2>1, <2>4, <2>5, <2>6, <2>7, IssueFact
  <2> QED BY <2>8
<1> QED BY <1>1, <1>2, <1>3, <1>4

\* One output per asset takes all the coins.
AssetsOf(S) == {x.asset : x \in S}
Gathered(to, S) == {Out(to, a, AmountIn(S, a)) : a \in AssetsOf(S)}

LEMMA GatherFact ==
    ASSUME FlowTypes, NEW S, S \subseteq flCoins, NEW to, to \in Addr
    PROVE  /\ SetToSeq(Gathered(to, S)) \in Seq(OutType)
           /\ \A a : Total(SetToSeq(Gathered(to, S)), a) = AmountIn(S, a)
<1> DEFINE As == AssetsOf(S)
           O == Gathered(to, S)
           h == [a \in As |-> Out(to, a, AmountIn(S, a))]
<1>1. IsFiniteSet(S) /\ \A a : AmountIn(S, a) \in Nat
  BY CoinsFact
<1>2. IsFiniteSet(As)
  <2> DEFINE k == [x \in S |-> x.asset]
  <2>1. As = {k[x] : x \in S}
    BY DEF AssetsOf
  <2>2. IsFiniteSet({k[x] : x \in S})
    BY <1>1, ImageFinite
  <2> QED BY <2>1, <2>2
<1>3. As \subseteq AnyAsset /\ \A x \in S : x.asset \in As
  BY CoinsFact DEF AssetsOf
<1>4. O = {h[a] : a \in As}
  BY DEF Gathered
<1>5. IsFiniteSet(O)
  <2> HIDE DEF h, As
  <2> QED BY <1>2, <1>4, ImageFinite
<1>6. ASSUME NEW a \in As
      PROVE  h[a] \in OutType /\ h[a].asset = a /\ h[a].amt = AmountIn(S, a)
  <2>1. AmountIn(S, a) \in Nat /\ a \in AnyAsset
    BY <1>1, <1>3
  <2>2. h[a] = Out(to, a, AmountIn(S, a))
    OBVIOUS
  <2> QED BY <2>1, <2>2, OutFact
<1> HIDE DEF h, As
<1>7. \A o : o \in O <=> \E a \in As : o = h[a]
  BY <1>4
<1> HIDE DEF O
<1>8. O \subseteq OutType /\ \A o \in O : o.amt \in Nat
  BY <1>1, <1>6, <1>7
<1>9. SetToSeq(O) \in Seq(OutType)
  <2>1. SetToSeq(O) \in Seq(O)
    BY <1>5, SetToSeqFact
  <2> QED BY <1>8, <2>1, SeqMonotonic
<1>10. ASSUME NEW a PROVE Total(SetToSeq(O), a) = AmountIn(S, a)
  <2>1. Total(SetToSeq(O), a) = AmountIn(O, a)
    BY <1>5, <1>8, TotalSet
  <2>2. CASE a \in As
    <3>1. {o \in O : o.asset = a} = {h[a]}
      BY <1>7, <1>6, <2>2
    <3>2. Worth({h[a]}) = AmountIn(S, a)
      BY <1>1, <1>6, <2>2, WorthOne
    <3> QED BY <2>1, <3>1, <3>2 DEF AmountIn
  <2>3. CASE a \notin As
    <3>1. \A o \in O : o.asset # a
      BY <1>7, <1>6, <2>3
    <3>2. \A x \in S : x.asset # a
      BY <1>3, <2>3
    <3> QED BY <2>1, <3>1, <3>2, AmountOther
  <2> QED BY <2>2, <2>3
<1> QED BY <1>9, <1>10 DEF O

LEMMA SeizeEntered ==
    ASSUME FlowBase, NEW c \in FlowCall, NEW r \in FlowRequest, AdminSeize(c, r)
    PROVE  \E p, pc : Entered(c, p, pc)
<1> DEFINE S == {x \in flCoins : x.addr = r.address}
           outs == SetToSeq(Gathered(TreasuryAddr, S))
<1>1. FlowTypes /\ CoinsKnown /\ S \subseteq flCoins
  BY DEF FlowBase
<1>2. TreasuryAddr \in Addr
  BY Addresses
<1>3. EnterFree(c, Plan("seize", r, {}, S, outs, 0), "arm")
  BY DEF AdminSeize, Gathered, AssetsOf
<1> HIDE DEF S
<1>4. outs \in Seq(OutType) /\ \A a : Total(outs, a) = AmountIn(S, a)
  BY <1>1, <1>2, GatherFact
<1> HIDE DEF outs
<1>5. PICK p : p = Plan("seize", r, {}, S, outs, 0)
  OBVIOUS
<1>6. "seize" \in Kind /\ {} \in SUBSET Wallet
  BY DEF Kind
<1>7. /\ p \in PlanType /\ p.kind = "seize" /\ p.spend = Ids(S)
      /\ p.outs = outs /\ p.fee = 0 /\ p.reserved = 0
  BY <1>1, <1>4, <1>5, <1>6, PlanFact
<1>8. Inputs(p) = S
  BY <1>1, <1>7, InputsOfPlan
<1>9. Books(p)
  BY <1>4, <1>7, <1>8 DEF Books, Transfer
<1>10. Stage(p, "arm")
  BY <1>7 DEF Stage, Transfer, CappedMint
<1>11. Enter(c, p, "arm") /\ flEmitted' = flEmitted + p.reserved /\ flCapRaced' = flCapRaced
  BY <1>1, <1>3, <1>5, <1>7 DEF EnterFree, FlowTypes
<1>12. Entered(c, p, "arm")
  BY <1>1, <1>7, <1>9, <1>10, <1>11 DEF Entered, Races, CappedMint
<1> QED BY <1>12

\* The coins of a block that are as many as its outputs are its outputs.
CoinsOf(n) == {x \in flCoins : x.id[1] = n}
IdsOf(n) == {<<n, i>> : i \in DOMAIN flBlocks[n].outs}

LEMMA WholeBlock ==
    ASSUME FlowBase, NEW n, n \in DOMAIN flBlocks,
           Cardinality(CoinsOf(n)) = Len(flBlocks[n].outs)
    PROVE  Ids(CoinsOf(n)) = IdsOf(n)
<1> DEFINE S == CoinsOf(n)
           outs == flBlocks[n].outs
           D == DOMAIN outs
           h == [x \in S |-> x.id[2]]
           J == {h[x] : x \in S}
<1>1. FlowTypes /\ CoinsKnown /\ n \in Nat /\ n > 0
  BY DEF FlowBase, FlowTypes
<1>2. outs \in Seq(OutType) /\ D = 1..Len(outs) /\ Len(outs) \in Nat
  <2>1. flBlocks[n] \in BlockType
    BY <1>1 DEF FlowTypes
  <2>2. outs \in Seq(OutType)
    BY <2>1 DEF BlockType
  <2> QED BY <2>2
<1>3. IsFiniteSet(S) /\ \A x \in S : x.id \in CoinId /\ x \in flCoins /\ x.id[1] = n
  <2>1. S \subseteq flCoins
    BY DEF CoinsOf
  <2> QED BY <1>1, <2>1, CoinsFact DEF CoinsOf
<1>4. \A x \in S : x.id = <<n, h[x]>> /\ h[x] \in D
  BY <1>1, <1>3 DEF CoinsKnown, CoinId
<1> HIDE DEF h
<1>5. \A x, y \in S : h[x] = h[y] => x = y
  <2>1. \A x, y \in flCoins : x.id = y.id => x = y
    BY <1>1 DEF CoinsKnown
  <2> QED BY <1>3, <1>4, <2>1
<1> HIDE DEF S
<1>6. \A j : j \in J <=> \E x \in S : j = h[x]
  OBVIOUS
<1> HIDE DEF J, D
<1>7. Cardinality(J) = Cardinality(S)
  <2> DEFINE g == [x \in S |-> h[x]]
  <2>1. g \in [S -> J] /\ IsInjective(g)
    BY <1>5, <1>6 DEF IsInjective
  <2>2. \A j \in J : \E x \in S : g[x] = j
    BY <1>6
  <2> HIDE DEF g
  <2>3. g \in Bijection(S, J)
    BY <2>1, <2>2 DEF Bijection, Injection, Surjection
  <2>4. ExistsBijection(S, J)
    BY <2>3 DEF ExistsBijection
  <2> QED BY <1>3, <2>4, FS_Bijection
<1>8. IsFiniteSet(D) /\ Cardinality(D) = Len(outs)
  <2> DEFINE m == Len(outs)
  <2>1. m \in Nat /\ D = 1..m
    BY <1>2
  <2> HIDE DEF m
  <2>2. IsFiniteSet(1..m) /\ Cardinality(1..m) = IF 1 > m THEN 0 ELSE m - 1 + 1
    BY <2>1, FS_Interval
  <2>3. Cardinality(1..m) = m
    BY <2>1, <2>2
  <2> QED BY <2>1, <2>2, <2>3 DEF m
<1>9. J = D
  <2>1. J \in SUBSET D
    BY <1>4, <1>6
  <2>2. Cardinality(D) = Cardinality(J)
    BY <1>7, <1>8 DEF S
  <2> QED BY <1>8, <2>1, <2>2, FS_Subset
<1>10. \A i \in D : \E x \in S : x.id = <<n, i>>
  BY <1>4, <1>6, <1>9
<1>11. \A i : i \in Ids(S) <=> \E x \in S : i = x.id
  BY DEF Ids
<1>12. \A i : i \in IdsOf(n) <=> \E j \in D : i = <<n, j>>
  BY DEF IdsOf, D
<1>13. Ids(S) = IdsOf(n)
  <2>1. ASSUME NEW i, i \in Ids(S) PROVE i \in IdsOf(n)
    <3>1. PICK x \in S : i = x.id
      BY <1>11, <2>1
    <3>2. i = <<n, h[x]>> /\ h[x] \in D
      BY <1>4, <3>1
    <3> QED BY <1>12, <3>2
  <2>2. ASSUME NEW i, i \in IdsOf(n) PROVE i \in Ids(S)
    BY <1>10, <1>11, <1>12, <2>2
  <2> QED BY <2>1, <2>2
<1> QED BY <1>13 DEF S

LEMMA ReverseEntered ==
    ASSUME FlowBase, NEW c \in FlowCall, NEW n, n \in DOMAIN flBlocks, AdminReverse(c, n)
    PROVE  \E p, pc : Entered(c, p, pc)
<1> DEFINE old == flBlocks[n]
           S == CoinsOf(n)
           q == Plan("reverse", old.req, {}, S, old.refund, 0)
<1>1. FlowTypes /\ CoinsKnown /\ S \subseteq flCoins
  BY DEF FlowBase, CoinsOf
<1>2. old \in BlockType
  BY <1>1 DEF FlowTypes
<1>3. old.kind = "plain" /\ old.req \in FlowRequest /\ old.refund \in Seq(OutType) /\ old.fee \in Nat
  BY <1>2 DEF AdminReverse, BlockType
<1>4. Cardinality(S) = Len(old.outs) /\ EnterFree(c, [q EXCEPT !.due = old.fee], "arm")
  BY DEF AdminReverse, CoinsOf
<1>5. Ids(S) = {<<n, i>> : i \in DOMAIN old.outs}
  BY <1>4, WholeBlock DEF IdsOf
<1>6. "reverse" \in Kind /\ {} \in SUBSET Wallet
  BY DEF Kind
<1> HIDE DEF S
<1>7. /\ q \in PlanType /\ q.kind = "reverse" /\ q.spend = Ids(S)
      /\ q.outs = old.refund /\ q.fee = 0 /\ q.reserved = 0
  <2> DEFINE r == old.req
             outs == old.refund
  <2>1. r \in FlowRequest /\ outs \in Seq(OutType)
    BY <1>3
  <2> HIDE DEF r, outs, q
  <2>2. q = Plan("reverse", r, {}, S, outs, 0)
    BY DEF q, r, outs
  <2> QED BY <1>1, <1>6, <2>1, <2>2, PlanFact DEF outs
<1> HIDE DEF q
<1>8. PICK p : p = [q EXCEPT !.due = old.fee]
  OBVIOUS
<1>9. /\ p \in PlanType /\ p.kind = "reverse" /\ p.spend = Ids(S)
      /\ p.outs = old.refund /\ p.fee = 0 /\ p.reserved = 0 /\ p.due = old.fee
  <2> HIDE DEF old
  <2> QED BY <1>3, <1>7, <1>8 DEF PlanType
<1>10. p.spend = {<<n, i>> : i \in DOMAIN old.outs}
  BY <1>5, <1>9
<1>11. Books(p)
  BY <1>3, <1>9, <1>10 DEF Books, Transfer
<1>12. Stage(p, "arm")
  BY <1>9 DEF Stage, Transfer, CappedMint
<1>13. Enter(c, p, "arm") /\ flEmitted' = flEmitted + p.reserved /\ flCapRaced' = flCapRaced
  BY <1>1, <1>4, <1>8, <1>9 DEF EnterFree, FlowTypes
<1>14. Entered(c, p, "arm")
  BY <1>1, <1>9, <1>11, <1>12, <1>13 DEF Entered, Races, CappedMint
<1> QED BY <1>14

\* Whatever a handler brings in.
Entry(c) ==
    \/ \E r \in FlowRequest :
         \/ WalletSendSimple(c, r) \/ PrepareTx(c, r) \/ MarketSettle(c, r)
         \/ WalletBurnToken(c, r) \/ AdminMintToken(c, r) \/ AdminMintSft(c, r)
         \/ CustodialMint(c, r) \/ FaucetMint(c, r) \/ AdminSeize(c, r)
         \/ \E x \in flCoins : SubmitOwnTx(c, r, x)
    \/ \E n \in DOMAIN flBlocks : AdminReverse(c, n)

LEMMA EntryFact ==
    ASSUME FlowBase, NEW c, c \in FlowCall, Entry(c)
    PROVE  \E p, pc : Entered(c, p, pc)
<1>1. ASSUME NEW r \in FlowRequest, NEW x \in flCoins, SubmitOwnTx(c, r, x)
      PROVE  \E p, pc : Entered(c, p, pc)
  BY <1>1, OwnEntered
<1>2. ASSUME NEW n \in DOMAIN flBlocks, AdminReverse(c, n)
      PROVE  \E p, pc : Entered(c, p, pc)
  BY <1>2, ReverseEntered
<1>3. ASSUME NEW r \in FlowRequest, WalletSendSimple(c, r) \/ PrepareTx(c, r)
      PROVE  \E p, pc : Entered(c, p, pc)
  BY <1>3, SendEntered
<1>4. ASSUME NEW r \in FlowRequest, MarketSettle(c, r)
      PROVE  \E p, pc : Entered(c, p, pc)
  BY <1>4, SettleEntered
<1>5. ASSUME NEW r \in FlowRequest, WalletBurnToken(c, r)
      PROVE  \E p, pc : Entered(c, p, pc)
  BY <1>5, BurnEntered
<1>6. ASSUME NEW r \in FlowRequest,
             \/ AdminMintToken(c, r) \/ AdminMintSft(c, r) \/ CustodialMint(c, r) \/ FaucetMint(c, r)
      PROVE  \E p, pc : Entered(c, p, pc)
  BY <1>6, MintEntered
<1>7. ASSUME NEW r \in FlowRequest, AdminSeize(c, r)
      PROVE  \E p, pc : Entered(c, p, pc)
  BY <1>7, SeizeEntered
<1> QED BY <1>1, <1>2, <1>3, <1>4, <1>5, <1>6, <1>7 DEF Entry

-----------------------------------------------------------------------------
(* The base invariant is inductive.                                        *)

Steps == {"idle", "prepared", "handler", "lock", "arm", "commit", "post"}

\* A step that moves one call and neither the coins nor the blocks.
Moved(c, p, pc) ==
    /\ flPc' = [flPc EXCEPT ![c] = pc] /\ flPlan' = [flPlan EXCEPT ![c] = p]
    /\ UNCHANGED <<flCoins, flBlocks, flRoyalty, flNow, flIssued, flBurnt, flConverted, flForgone,
                   flUnpooled, flUndone, flSales, flEarly, flFrozen, flCapRaced>>

LEMMA Elsewhere ==
    ASSUME FlowTypes, NEW c, c \in FlowCall, NEW p, NEW pc,
           flPc' = [flPc EXCEPT ![c] = pc], flPlan' = [flPlan EXCEPT ![c] = p]
    PROVE  /\ flPc'[c] = pc /\ flPlan'[c] = p
           /\ \A d \in FlowCall : d # c => flPc'[d] = flPc[d] /\ flPlan'[d] = flPlan[d]
BY DEF FlowTypes

LEMMA StepBase ==
    ASSUME FlowBase, NEW c, c \in FlowCall, NEW p, NEW pc, pc \in Steps, Stage(p, pc),
           flPc' = [flPc EXCEPT ![c] = pc], flPlan' = [flPlan EXCEPT ![c] = p],
           flCoins' = flCoins, flBlocks' = flBlocks, flNow' = flNow,
           \A i \in p.spend : pc # "idle" => i[1] <= Len(flBlocks),
           flRoyalty' = flRoyalty, flIssued' = flIssued, flBurnt' = flBurnt, flEmitted' \in Int,
           {flPool', flUnpooled', flUndone', flConverted', flForgone'} \subseteq Nat
    PROVE  FlowBase'
<1>1. /\ FlowTypes
      /\ flPc \in [FlowCall -> Steps] /\ flPlan \in [FlowCall -> PlanType \cup {Idle}]
  BY DEF FlowBase, FlowTypes, Steps
<1>2. /\ flPc'[c] = pc /\ flPlan'[c] = p
      /\ \A d \in FlowCall : d # c => flPc'[d] = flPc[d] /\ flPlan'[d] = flPlan[d]
  BY <1>1, Elsewhere
<1>3. p \in PlanType \cup {Idle}
  BY DEF Stage
<1>4. FlowTypes'
  <2>1. flPc' \in [FlowCall -> Steps] /\ flPlan' \in [FlowCall -> PlanType \cup {Idle}]
    BY <1>1, <1>3
  <2> QED BY <1>1, <2>1 DEF FlowTypes, Steps
<1>5. CoinsKnown'
  <2>1. \A d \in FlowCall : d # c /\ flPc'[d] # "idle" => \A i \in flPlan'[d].spend : i[1] <= Len(flBlocks)
    BY <1>2 DEF FlowBase, CoinsKnown, FlowInFlight
  <2>2. \A d \in FlowInFlight' : \A i \in flPlan'[d].spend : i[1] <= Len(flBlocks)
    BY <1>2, <2>1 DEF FlowInFlight
  <2> QED BY <2>2 DEF FlowBase, CoinsKnown
<1>6. \A d \in FlowCall : Stage(flPlan[d], flPc[d])'
  <2>1. \A d \in FlowCall : d # c => Stage(flPlan[d], flPc[d])'
    BY <1>2 DEF FlowBase
  <2>2. Stage(flPlan[c], flPc[c])'
    BY <1>2
  <2> QED BY <2>1, <2>2
<1> QED BY <1>4, <1>5, <1>6 DEF FlowBase

\* The numbers a call in flight names are of blocks that are there.
LEMMA KnownSpend ==
    ASSUME FlowBase, NEW c, c \in FlowCall, flPc[c] # "idle"
    PROVE  /\ flPlan[c] \in PlanType /\ Stage(flPlan[c], flPc[c])
           /\ \A i \in flPlan[c].spend : i[1] <= Len(flBlocks)
           /\ flPc[c] \in Steps \ {"idle"}
           /\ flPlan[c].reserved \in Nat /\ flPlan[c].fee \in Nat /\ flPlan[c].due \in Nat
           /\ flPlan[c].outs \in Seq(OutType) /\ flPlan[c].req \in FlowRequest /\ flPlan[c].kind \in Kind
           /\ flPlan[c].signers \in SUBSET Wallet
<1>1. Stage(flPlan[c], flPc[c]) /\ flPlan[c] \in PlanType /\ flPc[c] \in Steps
  BY DEF FlowBase, FlowTypes, Stage, Steps
<1>2. \A i \in flPlan[c].spend : i[1] <= Len(flBlocks)
  BY DEF FlowBase, CoinsKnown, FlowInFlight
<1> QED BY <1>1, <1>2 DEF PlanType

LEMMA EnteredBase ==
    ASSUME FlowBase, NEW c, c \in FlowCall, NEW p, NEW pc, Entered(c, p, pc)
    PROVE  FlowBase'
<1>1. PICK S : S \subseteq flCoins /\ p.spend = Ids(S)
  BY DEF Entered
<1>2. Enter(c, p, pc) /\ pc \in {"prepared", "handler", "lock", "arm"} /\ Stage(p, pc) /\ p \in PlanType
  BY DEF Entered
<1>3. flEmitted' \in Int
  <2>1. p.reserved \in Nat /\ flEmitted \in Int
    BY <1>2 DEF PlanType, FlowBase, FlowTypes
  <2> QED BY <2>1 DEF Entered
<1> QED BY <1>1, <1>2, <1>3, EnterBase

LEMMA RefusedBase ==
    ASSUME FlowBase, NEW c, c \in FlowCall, flPc[c] # "idle", Refused(c)
    PROVE  FlowBase'
<1>1. Stage(Idle, "idle") /\ "idle" \in Steps
  BY DEF Stage, Steps
<1>2. flEmitted' \in Int
  BY KnownSpend DEF Refused, FlowBase, FlowTypes
<1>3. {flPool', flUnpooled', flUndone', flConverted', flForgone'} \subseteq Nat
  BY DEF Refused, FlowBase, FlowTypes, flGhost
<1> QED BY <1>1, <1>2, <1>3, StepBase DEF Refused, Leave, flGhost, flBound

LEMMA LeaveBase ==
    ASSUME FlowBase, NEW c, c \in FlowCall, flPc[c] # "idle", Leave(c),
           UNCHANGED <<flCoins, flBlocks, flRoyalty, flEmitted, flGhost, flNow>>, flPool' \in Nat
    PROVE  FlowBase'
<1>1. Stage(Idle, "idle") /\ "idle" \in Steps
  BY DEF Stage, Steps
<1>2. flEmitted' \in Int
  BY DEF FlowBase, FlowTypes
<1>3. {flPool', flUnpooled', flUndone', flConverted', flForgone'} \subseteq Nat
  BY DEF FlowBase, FlowTypes, flGhost
<1> QED BY <1>1, <1>2, <1>3, StepBase DEF Leave, flGhost

\* A step of a handler towards its block.
LEMMA OnwardBase ==
    ASSUME FlowBase, NEW c, c \in FlowCall, flPc[c] # "idle", NEW p, NEW pc, pc \in Steps \ {"idle"},
           Stage(p, pc), p.spend \subseteq flPlan[c].spend,
           flPc' = [flPc EXCEPT ![c] = pc], flPlan' = [flPlan EXCEPT ![c] = p],
           UNCHANGED <<flCoins, flBlocks, flRoyalty, flEmitted, flPool, flGhost, flNow>>
    PROVE  FlowBase'
<1>1. \A i \in p.spend : i[1] <= Len(flBlocks)
  BY KnownSpend
<1>2. flEmitted' \in Int
  BY DEF FlowBase, FlowTypes
<1>3. {flPool', flUnpooled', flUndone', flConverted', flForgone'} \subseteq Nat
  BY DEF FlowBase, FlowTypes, flGhost
<1> QED BY <1>1, <1>2, <1>3, StepBase DEF flGhost

\* What a step of a handler before its block does.
Onward(c, p, pc) ==
    /\ flPc' = [flPc EXCEPT ![c] = pc] /\ flPlan' = [flPlan EXCEPT ![c] = p]
    /\ flPc[c] # "idle" /\ pc \in Steps \ {"idle"} /\ Stage(p, pc)
    /\ p.spend \subseteq flPlan[c].spend
    /\ UNCHANGED <<flCoins, flBlocks, flFrozen, flRoyalty, flEmitted, flPool, flGhost, flBound>>

LEMMA SamePlan ==
    ASSUME FlowTypes, NEW c, c \in FlowCall
    PROVE  flPlan = [flPlan EXCEPT ![c] = flPlan[c]]
BY DEF FlowTypes

\* Each step of a handler, as a step towards its block.
LEMMA ResealFact ==
    ASSUME FlowBase, NEW c, c \in FlowCall, WalletSendTx(c)
    PROVE  Onward(c, flPlan[c], "handler")
<1>1. flPc[c] = "prepared" /\ flPlan[c] \in PlanType /\ Stage(flPlan[c], "prepared")
  BY KnownSpend DEF WalletSendTx
<1>2. Stage(flPlan[c], "handler")
  BY <1>1 DEF Stage
<1>3. flPlan = [flPlan EXCEPT ![c] = flPlan[c]]
  BY SamePlan DEF FlowBase
<1> QED BY <1>1, <1>2, <1>3 DEF WalletSendTx, Onward, Steps, flShared

LEMMA OpenFact ==
    ASSUME FlowBase, NEW c, c \in FlowCall, SubmitPlainTx(c)
    PROVE  Onward(c, [flPlan[c] EXCEPT !.kind = "plain"], "arm")
<1> DEFINE q == flPlan[c]
           p == [q EXCEPT !.kind = "plain"]
<1>1. flPc[c] = "prepared" /\ q \in PlanType /\ Stage(q, "prepared")
  BY KnownSpend DEF SubmitPlainTx
<1>2. /\ p \in PlanType /\ p.kind = "plain" /\ p.req = q.req /\ p.spend = q.spend /\ p.outs = q.outs
      /\ p.fee = q.fee /\ p.reserved = q.reserved
  <2> HIDE DEF q
  <2> QED BY <1>1 DEF PlanType, Kind, Transfer
<1>3. flPlan' = [flPlan EXCEPT ![c] = p]
  BY DEF SubmitPlainTx, FlowBase, FlowTypes
<1>4. Stage(p, "arm")
  <2>1. q.kind = "sealed" /\ q.reserved = 0 /\ q.outs # <<>>
    BY <1>1 DEF Stage
  <2> HIDE DEF p, q
  <2> QED BY <1>2, <2>1 DEF Stage, Transfer, CappedMint
<1>5. flPc' = [flPc EXCEPT ![c] = "arm"]
      /\ UNCHANGED <<flCoins, flBlocks, flFrozen, flRoyalty, flEmitted, flPool, flGhost, flBound>>
  BY DEF SubmitPlainTx, flShared
<1> HIDE DEF p
<1>6. Onward(c, p, "arm")
  BY <1>1, <1>2, <1>3, <1>4, <1>5 DEF Onward, Steps
<1> QED BY <1>6 DEF p

LEMMA ValidFact ==
    ASSUME FlowBase, NEW c, c \in FlowCall, ValidateInHandler(c)
    PROVE  \/ Onward(c, flPlan[c], "commit") /\ ValidTx(flPlan[c])
           \/ /\ Leave(c) /\ flPc[c] # "idle" /\ flPlan[c].kind = "sealed"
              /\ UNCHANGED <<flShared, flGhost, flBound>>
<1>1. flPc[c] = "handler" /\ flPlan[c] \in PlanType /\ Stage(flPlan[c], "handler")
  BY KnownSpend DEF ValidateInHandler
<1>2. Stage(flPlan[c], "commit") /\ flPlan[c].kind = "sealed"
  BY <1>1 DEF Stage
<1>3. flPlan = [flPlan EXCEPT ![c] = flPlan[c]]
  BY SamePlan DEF FlowBase
<1> QED BY <1>1, <1>2, <1>3 DEF ValidateInHandler, Onward, Steps, flShared

LEMMA LockFact ==
    ASSUME FlowBase, NEW c, c \in FlowCall, LockCap(c)
    PROVE  Onward(c, flPlan[c], "arm") /\ flPlan[c].kind = "custodial"
<1>1. flPc[c] = "lock" /\ flPlan[c] \in PlanType /\ Stage(flPlan[c], "lock")
  BY KnownSpend DEF LockCap
<1>2. Stage(flPlan[c], "arm") /\ flPlan[c].kind = "custodial"
  BY <1>1 DEF Stage
<1>3. flPlan = [flPlan EXCEPT ![c] = flPlan[c]]
  BY SamePlan DEF FlowBase
<1> QED BY <1>1, <1>2, <1>3 DEF LockCap, Onward, Steps

LEMMA RoyaltyNat ==
    ASSUME FlowBase, NEW p, p \in PlanType, p.req.op = "settle"
    PROVE  RoyaltyDue(p) \in Nat
<1> DEFINE r == p.req
           bps == flRoyalty[r.asset].bps
<1>1. r.price \in Nat /\ r.asset \in FlowAsset
  BY RequestShape DEF PlanType
<1>2. bps \in {0, 1}
  BY <1>1 DEF FlowBase, FlowTypes
<1>3. RoyaltyDue(p) = (r.price * bps) \div FullRate
  BY DEF RoyaltyDue, ComputeRoyalty
<1> HIDE DEF bps, r
<1>4. r.price * bps \in Nat
  BY <1>1, <1>2
<1> QED BY <1>3, <1>4, DivFact

\* What the arm of a payload accepts goes on to its block.
Accepted(q) == IF q.kind = "settle" THEN [q EXCEPT !.due = RoyaltyDue(q)] ELSE q

LEMMA AcceptedFact ==
    ASSUME FlowBase, NEW q, q \in PlanType, q.kind = "settle" => q.req.op = "settle"
    PROVE  LET p == Accepted(q)
           IN /\ p \in PlanType /\ p.kind = q.kind /\ p.req = q.req /\ p.spend = q.spend
              /\ p.outs = q.outs /\ p.fee = q.fee /\ p.reserved = q.reserved
              /\ p.signers = q.signers
              /\ q.kind = "settle" => p.due = RoyaltyDue(q)
              /\ q.kind # "settle" => p.due = q.due
<1>1. CASE q.kind = "settle"
  <2> DEFINE n == RoyaltyDue(q)
  <2>1. n \in Nat
    BY <1>1, RoyaltyNat
  <2>2. Accepted(q) = [q EXCEPT !.due = n]
    BY <1>1 DEF Accepted
  <2> HIDE DEF n
  <2>3. LET p == [q EXCEPT !.due = n]
        IN /\ p \in PlanType /\ p.kind = q.kind /\ p.req = q.req /\ p.spend = q.spend
           /\ p.outs = q.outs /\ p.fee = q.fee /\ p.reserved = q.reserved
           /\ p.signers = q.signers /\ p.due = n
    BY <2>1 DEF PlanType
  <2> QED BY <1>1, <2>2, <2>3 DEF n
<1>2. CASE q.kind # "settle"
  BY <1>2 DEF Accepted
<1> QED BY <1>1, <1>2

LEMMA AcceptFact ==
    ASSUME FlowBase, NEW c, c \in FlowCall, ArmAccept(c)
    PROVE  /\ Onward(c, Accepted(flPlan[c]), "commit")
           /\ ValidPayload(flPlan[c]) /\ flPc[c] = "arm" /\ Stage(flPlan[c], "arm")
<1> DEFINE q == flPlan[c]
           p == Accepted(q)
<1>1. flPc[c] = "arm" /\ q \in PlanType /\ Stage(q, "arm")
  BY KnownSpend DEF ArmAccept
<1>2. flPlan' = [flPlan EXCEPT ![c] = p]
  BY SamePlan DEF ArmAccept, Accepted, FlowBase, FlowTypes
<1>3. q.kind = "settle" => q.req.op = "settle"
  BY <1>1 DEF Stage
<1> HIDE DEF q
<1>4. /\ p \in PlanType /\ p.kind = q.kind /\ p.req = q.req /\ p.spend = q.spend /\ p.outs = q.outs
      /\ p.fee = q.fee /\ p.reserved = q.reserved
  BY <1>1, <1>3, AcceptedFact
<1> HIDE DEF p
<1>5. Stage(p, "commit")
  BY <1>1, <1>4 DEF Stage
<1>6. ValidPayload(q) /\ flPc' = [flPc EXCEPT ![c] = "commit"]
      /\ UNCHANGED <<flCoins, flBlocks, flFrozen, flRoyalty, flEmitted, flPool, flGhost, flBound>>
  BY DEF ArmAccept, q
<1>7. Onward(c, p, "commit")
  BY <1>1, <1>2, <1>4, <1>5, <1>6 DEF Onward, Steps, q
<1> QED BY <1>1, <1>6, <1>7 DEF q, p

\* The conversion of a burn, minted in a second block.
Conversion(q) ==
    [Plan("conversion", q.req, {}, {}, << Out(Primary(q.req.from), Pms, q.reserved) >>, 0)
     EXCEPT !.reserved = q.reserved]

LEMMA ConversionFact ==
    ASSUME FlowBase, NEW c, c \in FlowCall, MintConversion(c)
    PROVE  LET q == flPlan[c]
               p == Conversion(q)
           IN /\ Onward(c, p, "arm") /\ flPc[c] = "post" /\ q.kind = "burn"
              /\ p \in PlanType /\ p.kind = "conversion" /\ p.spend = {} /\ p.reserved = q.reserved
              /\ p.req = q.req /\ p.due = 0 /\ p.fee = 0
              /\ \A a : Total(p.outs, a) = IF a = Pms THEN p.reserved ELSE 0
              /\ UNCHANGED <<flMintLock, flTreasury>>
<1> DEFINE q == flPlan[c]
           p == Conversion(q)
           o == Out(Primary(q.req.from), Pms, q.reserved)
           outs == << o >>
           b == Plan("conversion", q.req, {}, {}, outs, 0)
           n == q.reserved
           r == q.req
<1>1. flPc[c] = "post" /\ q \in PlanType /\ Stage(q, "post") /\ q.kind = "burn"
  BY KnownSpend DEF MintConversion
<1>2. r \in FlowRequest /\ r.op = "burn" /\ n \in Nat
  BY <1>1 DEF Stage, PlanType
<1>3. Primary(r.from) \in Addr
  BY <1>2, RequestShape, Addresses
<1>4. flPlan' = [flPlan EXCEPT ![c] = p]
  BY DEF MintConversion, Conversion, FlowBase, FlowTypes
<1>5. flPc' = [flPc EXCEPT ![c] = "arm"]
      /\ UNCHANGED <<flCoins, flBlocks, flFrozen, flRoyalty, flEmitted, flPool, flGhost, flBound, flMintLock, flTreasury>>
  BY DEF MintConversion, flShared
<1>6. p = [b EXCEPT !.reserved = n]
  BY DEF Conversion
<1> HIDE DEF q, r, n, p
<1>7. outs \in Seq(OutType) /\ o.asset = Pms /\ \A a : Total(outs, a) = IF a = Pms THEN n ELSE 0
  <2> DEFINE addr == Primary(r.from)
  <2>1. addr \in Addr /\ Pms \in AnyAsset
    BY <1>3, Constants
  <2>2. o = Out(addr, Pms, n)
    BY DEF r, n
  <2> HIDE DEF addr
  <2>3. << Out(addr, Pms, n) >> \in Seq(OutType) /\ Out(addr, Pms, n).asset = Pms
    BY <1>2, <2>1, OutFact
  <2>4. \A a : Total(<< Out(addr, Pms, n) >>, a) = IF Pms = a THEN n ELSE 0
    BY <1>2, <2>1, TotalOut
  <2> QED BY <2>2, <2>3, <2>4
<1>8. \A i \in DOMAIN outs : outs[i].asset = Pms
  BY <1>7
<1> HIDE DEF o, outs
<1>9. /\ b \in PlanType /\ b.kind = "conversion" /\ b.req = r /\ b.spend = {} /\ b.outs = outs
      /\ b.fee = 0 /\ b.reserved = 0 /\ b.due = 0
  <2>1. b = Plan("conversion", r, {}, {}, outs, 0)
    BY DEF r
  <2>2. "conversion" \in Kind /\ {} \in SUBSET Wallet /\ {} \subseteq flCoins /\ 0 \in Nat /\ Ids({}) = {}
    BY DEF Kind, Ids
  <2> HIDE DEF b
  <2>3. FlowTypes
    BY DEF FlowBase
  <2> QED BY <1>2, <1>7, <2>1, <2>2, <2>3, PlanFact
<1> HIDE DEF b
<1>10. /\ p \in PlanType /\ p.kind = "conversion" /\ p.req = r /\ p.spend = {} /\ p.outs = outs
       /\ p.fee = 0 /\ p.reserved = n /\ p.due = 0
  BY <1>2, <1>6, <1>9 DEF PlanType
<1>11. Stage(p, "arm")
  BY <1>2, <1>8, <1>10 DEF Stage, Transfer, CappedMint
<1>12. Onward(c, p, "arm")
  BY <1>1, <1>4, <1>5, <1>10, <1>11 DEF Onward, Steps, q
<1>13. \A a : Total(p.outs, a) = IF a = Pms THEN p.reserved ELSE 0
  BY <1>7, <1>10
<1> QED BY <1>1, <1>5, <1>10, <1>12, <1>13 DEF q, r, n, p

LEMMA OnwardKeeps ==
    ASSUME FlowBase, NEW c, c \in FlowCall, NEW p, NEW pc, Onward(c, p, pc)
    PROVE  FlowBase'
<1>1. UNCHANGED <<flCoins, flBlocks, flRoyalty, flEmitted, flPool, flGhost, flNow>>
  BY DEF Onward, flBound
<1> QED BY <1>1, OnwardBase DEF Onward

-----------------------------------------------------------------------------
(* The commit.                                                             *)

BlockOf(p) ==
    [kind |-> p.kind, req |-> p.req, outs |-> p.outs, fee |-> p.fee,
     refund |-> IF p.kind = "plain" THEN Refund(p) ELSE <<>>]

CoinAt(p, i) ==
    [id |-> <<Len(flBlocks) + 1, i>>, addr |-> p.outs[i].addr, asset |-> p.outs[i].asset,
     amt |-> p.outs[i].amt, lock |-> p.outs[i].lock, born |-> flNow]

\* The coins a block creates stand for its outputs.
LEMMA CreatedFact ==
    ASSUME FlowBase, NEW p, p.outs \in Seq(OutType)
    PROVE  /\ Created(p) \subseteq CoinType /\ IsFiniteSet(Created(p))
           /\ \A x \in Created(p) : /\ x.id[1] = Len(flBlocks) + 1 /\ x.id[2] \in DOMAIN p.outs /\ x.born = flNow
                                    /\ x.asset = p.outs[x.id[2]].asset /\ x.amt = p.outs[x.id[2]].amt
           /\ \A x, y \in Created(p) : x.id = y.id => x = y
           /\ \A i \in DOMAIN p.outs : \E x \in Created(p) : x.id = <<Len(flBlocks) + 1, i>>
           /\ \A a : AmountIn(Created(p), a) = Total(p.outs, a)
<1> DEFINE outs == p.outs
           D == DOMAIN outs
           n == Len(flBlocks) + 1
           h == [i \in D |-> CoinAt(p, i)]
<1>1. n \in Nat /\ flNow \in Nat
  BY DEF FlowBase, FlowTypes
<1>2. IsFiniteSet(D) /\ D \subseteq Nat /\ \A i \in D : outs[i] \in OutType
  <2>1. \A o \in OutType : o.amt \in Nat
    BY OutTypeFact
  <2>2. IsFiniteSet(D) /\ D = 1..Len(outs) /\ \A i \in D : outs[i] \in OutType
    BY <2>1, AmountsFact
  <2> QED BY <2>2
<1>3. \A i \in D : h[i] = [id |-> <<n, i>>, addr |-> outs[i].addr, asset |-> outs[i].asset,
                           amt |-> outs[i].amt, lock |-> outs[i].lock, born |-> flNow]
  BY DEF CoinAt
<1>4. Created(p) = {h[i] : i \in D}
  BY DEF Created, CoinAt
<1> HIDE DEF h
<1>5. ASSUME NEW i \in D
      PROVE  /\ h[i] \in CoinType /\ h[i].id = <<n, i>> /\ h[i].born = flNow
             /\ h[i].asset = outs[i].asset /\ h[i].amt = outs[i].amt
  <2> DEFINE o == outs[i]
  <2>1. o.addr \in Addr /\ o.asset \in AnyAsset /\ o.amt \in Nat /\ o.lock \in Nat /\ i \in Nat
    BY <1>2, OutTypeFact
  <2>2. h[i] = [id |-> <<n, i>>, addr |-> o.addr, asset |-> o.asset,
                amt |-> o.amt, lock |-> o.lock, born |-> flNow]
    BY <1>3
  <2> HIDE DEF o, n
  <2>3. h[i] \in CoinType
    BY <1>1, <2>1, <2>2 DEF CoinType, CoinId
  <2> QED BY <2>2, <2>3 DEF o, n
<1> HIDE DEF D, n
<1>6. \A x : x \in Created(p) <=> \E i \in D : x = h[i]
  BY <1>4
<1>7. IsFiniteSet(Created(p))
  BY <1>2, <1>4, ImageFinite
<1>8. \A i, j \in D : h[i] = h[j] => i = j
  BY <1>5
<1>9. ASSUME NEW a PROVE AmountIn(Created(p), a) = Total(p.outs, a)
  <2>1. outs \in Seq(OutType) /\ \A o \in OutType : o.amt \in Nat
    BY OutTypeFact
  <2>2. \A i, j \in DOMAIN outs : h[i] = h[j] => i = j
    BY <1>8 DEF D
  <2>3. \A i \in DOMAIN outs : h[i].asset = outs[i].asset /\ h[i].amt = outs[i].amt
    BY <1>5 DEF D
  <2>4. Created(p) = {h[i] : i \in DOMAIN outs}
    BY <1>4 DEF D
  <2> HIDE DEF outs
  <2>5. AmountIn({h[i] : i \in DOMAIN outs}, a) = Total(outs, a)
    BY ONLY <2>1, <2>2, <2>3, OutputsImage
  <2> QED BY <2>4, <2>5 DEF outs
<1>10. Created(p) \subseteq CoinType
  BY <1>5, <1>6
<1>11. ASSUME NEW x \in Created(p)
       PROVE  /\ x.id[1] = n /\ x.id[2] \in D /\ x.born = flNow
              /\ x.asset = outs[x.id[2]].asset /\ x.amt = outs[x.id[2]].amt
  <2>1. PICK i \in D : x = h[i]
    BY <1>6
  <2> QED BY <1>5, <2>1
<1>12. ASSUME NEW x \in Created(p), NEW y \in Created(p), x.id = y.id PROVE x = y
  <2>1. PICK i \in D : x = h[i]
    BY <1>6
  <2>2. PICK j \in D : y = h[j]
    BY <1>6
  <2>3. i = j
    BY <1>5, <1>12, <2>1, <2>2
  <2> QED BY <2>1, <2>2, <2>3
<1>13. ASSUME NEW i \in D PROVE \E x \in Created(p) : x.id = <<n, i>>
  BY <1>5, <1>6
<1> QED BY <1>7, <1>9, <1>10, <1>11, <1>12, <1>13 DEF D, n

\* A reversal gives back what the block took.
LEMMA RefundFact ==
    ASSUME FlowBase, NEW p
    PROVE  /\ Refund(p) \in Seq(OutType)
           /\ \A a : Total(Refund(p), a) = AmountIn(Inputs(p), a)
<1> DEFINE S == Inputs(p)
           h == [x \in S |-> [addr |-> x.addr, asset |-> x.asset, amt |-> x.amt, lock |-> NoLock, id |-> x.id]]
           O == {h[x] : x \in S}
<1>1. FlowTypes /\ CoinsKnown /\ S \subseteq flCoins
  BY DEF FlowBase, Inputs
<1>2. IsFiniteSet(S)
      /\ \A x \in S : x.amt \in Nat /\ x.asset \in AnyAsset /\ x.addr \in Addr /\ x.id \in CoinId
  BY <1>1, CoinsFact
<1>3. Refund(p) = SetToSeq(O)
  BY DEF Refund
<1>4. \A x \in S : h[x] = [addr |-> x.addr, asset |-> x.asset, amt |-> x.amt, lock |-> NoLock, id |-> x.id]
  OBVIOUS
<1> HIDE DEF h
<1>5. \A x, y \in S : h[x] = h[y] => x = y
  <2>1. \A x, y \in flCoins : x.id = y.id => x = y
    BY <1>1 DEF CoinsKnown
  <2>2. ASSUME NEW x \in S PROVE h[x].id = x.id
    <3> DEFINE y == [addr |-> x.addr, asset |-> x.asset, amt |-> x.amt, lock |-> NoLock, id |-> x.id]
    <3>1. h[x] = y
      BY <1>4
    <3>2. y.id = x.id
      OBVIOUS
    <3> HIDE DEF y
    <3> QED BY <3>1, <3>2
  <2> HIDE DEF S
  <2> QED BY <1>1, <2>1, <2>2
<1> HIDE DEF S
<1>6. \A x \in S : h[x].asset = x.asset /\ h[x].amt = x.amt /\ x.amt \in Nat /\ h[x] \in OutType
  <2> TAKE x \in S
  <2> DEFINE id == x.id
             addr == x.addr
             asset == x.asset
             amt == x.amt
  <2>1. amt \in Nat /\ asset \in AnyAsset /\ addr \in Addr /\ id \in CoinId /\ NoLock \in Nat
    BY <1>2 DEF NoLock
  <2>2. h[x] = [addr |-> addr, asset |-> asset, amt |-> amt, lock |-> NoLock, id |-> id]
    BY <1>4
  <2> HIDE DEF id, addr, asset, amt
  <2>3. h[x] \in [addr : Addr, asset : AnyAsset, amt : Nat, lock : Nat, id : CoinId]
    BY <2>1, <2>2
  <2>4. h[x] \in OutType
    BY <2>3 DEF OutType
  <2>5. h[x].asset = asset /\ h[x].amt = amt
    BY <2>2
  <2> QED BY <2>1, <2>4, <2>5 DEF asset, amt
<1>7. IsFiniteSet(O)
  BY <1>2, ImageFinite
<1>8. O \subseteq OutType /\ \A o \in O : o.amt \in Nat
  BY <1>6
<1>9. ASSUME NEW a PROVE AmountIn(O, a) = AmountIn(S, a)
  BY <1>2, <1>5, <1>6, AmountImage
<1> HIDE DEF O
<1>10. SetToSeq(O) \in Seq(OutType)
  <2>1. SetToSeq(O) \in Seq(O)
    BY <1>7, SetToSeqFact
  <2> QED BY <1>8, <2>1, SeqMonotonic
<1>11. ASSUME NEW a PROVE Total(SetToSeq(O), a) = AmountIn(S, a)
  BY <1>7, <1>8, <1>9, TotalSet
<1> QED BY <1>3, <1>10, <1>11 DEF S

\* What is left to do after the block, and where the call goes.
Rests(p) == (p.fee > 0 /\ p.kind \in {"sealed", "settle"}) \/ (p.reserved > 0 /\ p.kind = "burn")
After(c, p, q, pc) ==
    /\ flPc' = [flPc EXCEPT ![c] = pc] /\ flPlan' = [flPlan EXCEPT ![c] = q]
    /\ (~Rests(p) /\ pc = "idle" /\ q = Idle) \/ (Rests(p) /\ pc = "post" /\ q = p)

\* After the block: where the call goes, the block, the coins.
LEMMA CommitFact ==
    ASSUME FlowBase, NEW c, c \in FlowCall, Commit(c), NEW p, p = flPlan[c]
    PROVE  /\ flPc[c] = "commit" /\ Present(p) /\ p \in PlanType /\ Stage(p, "commit")
           /\ flCoins' = (flCoins \ Inputs(p)) \cup Created(p)
           /\ BlockOf(p) \in BlockType /\ flBlocks' = Append(flBlocks, BlockOf(p))
           /\ flBlocks' \in Seq(BlockType) /\ Len(flBlocks') = Len(flBlocks) + 1
           /\ flBlocks'[Len(flBlocks) + 1] = BlockOf(p)
           /\ \A n \in DOMAIN flBlocks : n \in DOMAIN flBlocks' /\ flBlocks'[n] = flBlocks[n]
           /\ DOMAIN flBlocks' = DOMAIN flBlocks \cup {Len(flBlocks) + 1} /\ Len(flBlocks) \in Nat
           /\ DOMAIN flBlocks = 1..Len(flBlocks)
           /\ \E q, pc : After(c, p, q, pc)
<1>1. flPc[c] = "commit" /\ Present(p)
  BY DEF Commit
<1>2. p \in PlanType /\ Stage(p, "commit")
  BY <1>1, KnownSpend
<1>3. flCoins' = (flCoins \ Inputs(p)) \cup Created(p)
  BY DEF Commit
<1>4. flBlocks' = Append(flBlocks, BlockOf(p))
  BY DEF Commit, BlockOf
<1>5. BlockOf(p) \in BlockType
  <2> DEFINE z == IF p.kind = "plain" THEN Refund(p) ELSE <<>>
  <2>1. z \in Seq(OutType)
    BY RefundFact
  <2> HIDE DEF z
  <2>2. BlockOf(p) = [kind |-> p.kind, req |-> p.req, outs |-> p.outs, fee |-> p.fee, refund |-> z]
    BY DEF BlockOf, z
  <2> QED BY <1>2, <2>1, <2>2 DEF BlockType, PlanType
<1>6. /\ flBlocks' \in Seq(BlockType) /\ Len(flBlocks') = Len(flBlocks) + 1
      /\ flBlocks'[Len(flBlocks) + 1] = BlockOf(p)
      /\ \A n \in DOMAIN flBlocks : n \in DOMAIN flBlocks' /\ flBlocks'[n] = flBlocks[n]
      /\ DOMAIN flBlocks' = DOMAIN flBlocks \cup {Len(flBlocks) + 1} /\ Len(flBlocks) \in Nat
      /\ DOMAIN flBlocks = 1..Len(flBlocks)
  <2> DEFINE b == BlockOf(p)
  <2> HIDE DEF b
  <2>1. flBlocks \in Seq(BlockType) /\ b \in BlockType
    BY <1>5 DEF FlowBase, FlowTypes, b
  <2>2. /\ Append(flBlocks, b) \in Seq(BlockType) /\ Len(Append(flBlocks, b)) = Len(flBlocks) + 1
        /\ Append(flBlocks, b)[Len(flBlocks) + 1] = b
        /\ \A n \in 1..Len(flBlocks) : Append(flBlocks, b)[n] = flBlocks[n]
    BY <2>1, AppendProperties
  <2>3. DOMAIN flBlocks = 1..Len(flBlocks) /\ Len(flBlocks) \in Nat
    BY <2>1
  <2>4. DOMAIN flBlocks' = 1..(Len(flBlocks) + 1)
    BY <1>4, <2>2 DEF b
  <2> QED BY <1>4, <2>2, <2>3, <2>4 DEF b
<1>7. \E q, pc : After(c, p, q, pc)
  <2>1. IF Rests(p) THEN flPc' = [flPc EXCEPT ![c] = "post"] /\ UNCHANGED flPlan ELSE Leave(c)
    BY DEF Commit, Rests
  <2>2. flPlan = [flPlan EXCEPT ![c] = p]
    BY SamePlan DEF FlowBase
  <2>3. CASE Rests(p)
    <3>1. After(c, p, p, "post")
      BY <2>1, <2>2, <2>3 DEF After
    <3> QED BY <3>1
  <2>4. CASE ~Rests(p)
    <3>1. After(c, p, Idle, "idle")
      BY <2>1, <2>4 DEF After, Leave
    <3> QED BY <3>1
  <2> QED BY <2>3, <2>4
<1> QED BY <1>1, <1>2, <1>3, <1>4, <1>5, <1>6, <1>7

LEMMA CommitBase ==
    ASSUME FlowBase, NEW c, c \in FlowCall, Commit(c)
    PROVE  FlowBase'
<1>1. PICK p : p = flPlan[c]
  OBVIOUS
<1>2. /\ flPc[c] = "commit" /\ Present(p) /\ p \in PlanType /\ Stage(p, "commit")
      /\ flCoins' = (flCoins \ Inputs(p)) \cup Created(p)
      /\ flBlocks' \in Seq(BlockType) /\ Len(flBlocks') = Len(flBlocks) + 1
      /\ flBlocks'[Len(flBlocks) + 1] = BlockOf(p)
      /\ \A n \in DOMAIN flBlocks : flBlocks'[n] = flBlocks[n]
      /\ DOMAIN flBlocks' = DOMAIN flBlocks \cup {Len(flBlocks) + 1} /\ Len(flBlocks) \in Nat
      /\ DOMAIN flBlocks = 1..Len(flBlocks)
  BY <1>1, CommitFact
<1>30. PICK q, pc : After(c, p, q, pc)
  BY <1>1, CommitFact
<1>3. /\ flPc' = [flPc EXCEPT ![c] = pc] /\ flPlan' = [flPlan EXCEPT ![c] = q]
      /\ \/ pc = "idle" /\ q = Idle
         \/ pc = "post" /\ q = p /\ p.kind \in {"sealed", "settle", "burn"}
  BY <1>30 DEF After, Rests
<1>4. FlowTypes /\ CoinsKnown /\ flNow' = flNow /\ flRoyalty' = flRoyalty
  BY DEF FlowBase, Commit, flBound
<1>5. Stage(q, pc) /\ pc \in Steps
  <2>1. CASE pc = "idle" /\ q = Idle
    BY <2>1 DEF Stage, Steps
  <2>2. CASE pc = "post" /\ q = p /\ p.kind \in {"sealed", "settle", "burn"}
    <3>1. Stage(p, "post")
      BY <1>2, <2>2 DEF Stage
    <3> QED BY <2>2, <3>1 DEF Steps
  <2> QED BY <1>3, <2>1, <2>2
<1>6. /\ flPc'[c] = pc /\ flPlan'[c] = q
      /\ \A d \in FlowCall : d # c => flPc'[d] = flPc[d] /\ flPlan'[d] = flPlan[d]
  BY <1>3, <1>4, Elsewhere
<1>7. /\ Created(p) \subseteq CoinType /\ IsFiniteSet(Created(p))
      /\ \A x \in Created(p) : /\ x.id[1] = Len(flBlocks) + 1 /\ x.id[2] \in DOMAIN p.outs /\ x.born = flNow
                               /\ x.asset = p.outs[x.id[2]].asset /\ x.amt = p.outs[x.id[2]].amt
      /\ \A x, y \in Created(p) : x.id = y.id => x = y
  BY <1>2, CreatedFact DEF PlanType
<1>8. flCoins' \subseteq CoinType /\ IsFiniteSet(flCoins')
  <2>1. flCoins \ Inputs(p) \subseteq CoinType /\ IsFiniteSet(flCoins \ Inputs(p))
    BY <1>4, FS_Subset DEF FlowTypes
  <2> QED BY <1>2, <1>7, <2>1, FS_Union
<1>9. {flPool', flUnpooled', flUndone', flConverted', flForgone', flNow'} \subseteq Nat
  BY <1>1, <1>2, <1>4 DEF Commit, FlowTypes, PlanType
<1>10. flIssued' \in [AnyAsset -> Nat]
  <2>1. flIssued' = [a \in AnyAsset |-> flIssued[a] + Minted(p, a)]
    BY <1>1 DEF Commit
  <2>2. \A a \in AnyAsset : Minted(p, a) \in Nat
    <3>1. \A o \in OutType : o.amt \in Nat
      BY OutTypeFact
    <3>2. \A a : Total(p.outs, a) \in Nat
      BY <1>2, <3>1, TotalNat DEF PlanType
    <3> QED BY <3>2 DEF Minted
  <2> QED BY <1>4, <2>1, <2>2 DEF FlowTypes
<1>11. flBurnt' \in [AnyAsset -> Nat]
  <2>1. flBurnt' = [a \in AnyAsset |-> flBurnt[a] + IF p.kind = "burn" /\ p.req.asset = a THEN p.req.amt ELSE 0]
    BY <1>1 DEF Commit
  <2>2. p.kind = "burn" => p.req.amt \in Nat
    BY <1>2, RequestShape DEF Stage, PlanType
  <2> QED BY <1>4, <2>1, <2>2 DEF FlowTypes
<1>12. FlowTypes'
  <2>1. flPc' \in [FlowCall -> Steps]
    BY <1>3, <1>4, <1>5 DEF FlowTypes, Steps
  <2>2. q \in PlanType \cup {Idle}
    BY <1>2, <1>3
  <2>3. flPlan' \in [FlowCall -> PlanType \cup {Idle}]
    BY <1>3, <1>4, <2>2 DEF FlowTypes
  <2>4. flEmitted' \in Int
    BY <1>4 DEF FlowTypes, Commit
  <2> QED BY <1>2, <1>4, <1>8, <1>9, <1>10, <1>11, <2>1, <2>3, <2>4 DEF FlowTypes, Steps
<1>13. \A x, y \in flCoins' : x.id = y.id => x = y
  BY <1>2, <1>4, <1>7 DEF CoinsKnown
<1>14. ASSUME NEW x \in flCoins'
       PROVE  /\ x.id[1] <= Len(flBlocks') /\ x.born <= flNow'
              /\ x.id[1] > 0 => LET outs == flBlocks'[x.id[1]].outs
                                IN /\ x.id[2] \in DOMAIN outs
                                   /\ x.asset = outs[x.id[2]].asset /\ x.amt = outs[x.id[2]].amt
  <2>1. CASE x \in Created(p)
    <3>1. flBlocks'[x.id[1]].outs = p.outs
      BY <1>2, <1>7, <2>1 DEF BlockOf
    <3>2. flNow \in Nat
      BY <1>4 DEF FlowTypes
    <3> QED BY <1>2, <1>4, <1>7, <2>1, <3>1, <3>2
  <2>2. CASE x \in flCoins
    <3>1. x.id[1] \in Nat /\ x.id[1] <= Len(flBlocks) /\ x.born <= flNow
      BY <1>4, <2>2 DEF CoinsKnown, FlowTypes, CoinType, CoinId
    <3>2. x.id[1] > 0 => x.id[1] \in DOMAIN flBlocks /\ flBlocks'[x.id[1]] = flBlocks[x.id[1]]
      BY <1>2, <3>1
    <3>3. x.id[1] > 0 => LET outs == flBlocks[x.id[1]].outs
                         IN /\ x.id[2] \in DOMAIN outs
                            /\ x.asset = outs[x.id[2]].asset /\ x.amt = outs[x.id[2]].amt
      BY <1>4, <2>2 DEF CoinsKnown
    <3>4. x.id[1] <= Len(flBlocks')
      BY <1>2, <3>1
    <3> QED BY <1>4, <3>1, <3>2, <3>3, <3>4
  <2> QED BY <1>2, <2>1, <2>2
<1>15. ASSUME NEW d, d \in FlowInFlight', NEW i, i \in flPlan'[d].spend
       PROVE  i[1] <= Len(flBlocks')
  <2>1. flPc[d] # "idle" /\ d \in FlowCall /\ flPlan'[d] = flPlan[d]
    BY <1>1, <1>2, <1>3, <1>6, <1>15 DEF FlowInFlight
  <2>2. i[1] <= Len(flBlocks) /\ i \in CoinId
    BY <1>15, <2>1, KnownSpend DEF PlanType
  <2> QED BY <1>2, <2>2 DEF CoinId
<1>16. \A d \in FlowCall : Stage(flPlan[d], flPc[d])'
  <2>1. \A d \in FlowCall : d # c => Stage(flPlan[d], flPc[d])'
    BY <1>6 DEF FlowBase
  <2>2. Stage(flPlan[c], flPc[c])'
    BY <1>5, <1>6
  <2> QED BY <2>1, <2>2
<1> QED BY <1>12, <1>13, <1>14, <1>15, <1>16 DEF FlowBase, CoinsKnown

-----------------------------------------------------------------------------
(* The whole machine.                                                      *)

\* The steps of one call, the entries in one.
CallStep(c) ==
    \/ \E p, pc : Entered(c, p, pc)
    \/ WalletSendTx(c) \/ SubmitPlainTx(c) \/ ValidateInHandler(c) \/ LockCap(c)
    \/ ArmAccept(c) \/ ArmReject(c) \/ Commit(c) \/ CommitLoses(c) \/ AccumulateTxFee(c)
    \/ MintConversion(c) \/ ConversionFails(c)

EventStep ==
    \/ \E r \in FlowRequest : r.op = "freeze" /\ Edict(r.address)
    \/ \E a \in FlowAsset : RoyaltyChange(a)
    \/ FlowTick \/ FlowExit

LEMMA StepCases ==
    ASSUME FlowBase, FlowNext
    PROVE  (\E c \in FlowCall : CallStep(c)) \/ EventStep
<1>1. ASSUME NEW c \in FlowCall, Entry(c) PROVE CallStep(c)
  BY <1>1, EntryFact DEF CallStep
<1>2. FlowNext => \/ \E c \in FlowCall : Entry(c)
                  \/ \E c \in FlowCall :
                       \/ WalletSendTx(c) \/ SubmitPlainTx(c) \/ ValidateInHandler(c) \/ LockCap(c)
                       \/ ArmAccept(c) \/ ArmReject(c) \/ Commit(c) \/ CommitLoses(c) \/ AccumulateTxFee(c)
                       \/ MintConversion(c) \/ ConversionFails(c)
                  \/ EventStep
  BY DEF FlowNext, Entry, EventStep
<1>3. CASE \E c \in FlowCall : Entry(c)
  BY <1>1, <1>3
<1>4. CASE EventStep
  BY <1>4
<1>5. ASSUME NEW c \in FlowCall,
             \/ WalletSendTx(c) \/ SubmitPlainTx(c) \/ ValidateInHandler(c) \/ LockCap(c)
             \/ ArmAccept(c) \/ ArmReject(c) \/ Commit(c) \/ CommitLoses(c) \/ AccumulateTxFee(c)
             \/ MintConversion(c) \/ ConversionFails(c)
      PROVE  CallStep(c)
  BY <1>5 DEF CallStep
<1> QED BY <1>2, <1>3, <1>4, <1>5

\* The fees on their way and the reservations in flight are amounts.
LEMMA PendingFact ==
    ASSUME FlowBase
    PROVE  /\ \A c \in FlowCall : FeeOnItsWay[c] \in Nat /\ Reservation[c] \in Nat
           /\ Pending = SumFunctionOnSet(FeeOnItsWay, FlowCall) /\ Pending \in Nat
           /\ Reserved = SumFunctionOnSet(Reservation, FlowCall) /\ Reserved \in Nat
           /\ IsFiniteSet(FlowCall)
<1>1. ASSUME NEW c \in FlowCall PROVE FeeOnItsWay[c] \in Nat /\ Reservation[c] \in Nat
  <2>1. flPc[c] # "idle" => flPlan[c].fee \in Nat /\ flPlan[c].reserved \in Nat
    BY KnownSpend
  <2> QED BY <2>1 DEF FeeOnItsWay, Reservation
<1>2. DOMAIN FeeOnItsWay = FlowCall /\ DOMAIN Reservation = FlowCall
  BY DEF FeeOnItsWay, Reservation
<1>3. Pending = SumFunctionOnSet(FeeOnItsWay, FlowCall) /\ Reserved = SumFunctionOnSet(Reservation, FlowCall)
  BY <1>2 DEF Pending, Reserved, SumFunction, SumFunctionOnSet, FoldFunction
<1>4. IsFiniteSet(FlowCall)
  BY Constants
<1> QED BY <1>1, <1>3, <1>4, SumNat

LEMMA EventBase ==
    ASSUME FlowBase, EventStep
    PROVE  FlowBase'
<1>0. FlowTypes /\ CoinsKnown
  BY DEF FlowBase
<1>1. ASSUME NEW r \in FlowRequest, Edict(r.address) PROVE FlowBase'
  BY <1>1 DEF Edict, FlowBase, FlowTypes, CoinsKnown, FlowInFlight
<1>2. ASSUME NEW a \in FlowAsset, RoyaltyChange(a) PROVE FlowBase'
  <2> DEFINE new == [flRoyalty EXCEPT ![a].bps = IF @ = 0 THEN 1 ELSE 0]
  <2>1. new \in [FlowAsset -> [bps : {0, 1}, to : Addr]]
    <3>1. flRoyalty \in [FlowAsset -> [bps : {0, 1}, to : Addr]]
      BY <1>0 DEF FlowTypes
    <3> QED BY <3>1
  <2> HIDE DEF new
  <2>2. flRoyalty' = new /\ UNCHANGED <<flCoins, flBlocks, flEmitted, flPool, flPc, flPlan, flGhost, flNow>>
    BY <1>2 DEF RoyaltyChange, new
  <2> QED BY <2>1, <2>2 DEF FlowBase, FlowTypes, CoinsKnown, FlowInFlight, flGhost
<1>3. CASE FlowTick
  <2>1. flNow' = flNow + 1 /\ UNCHANGED <<flCoins, flBlocks, flEmitted, flRoyalty, flPool, flPc, flPlan, flGhost>>
    BY <1>3 DEF FlowTick, flShared
  <2>2. flNow \in Nat /\ \A x \in flCoins : x.born \in Nat
    BY <1>0, CoinsFact DEF FlowTypes
  <2>3. CoinsKnown'
    BY <1>0, <2>1, <2>2 DEF CoinsKnown, FlowInFlight
  <2>4. FlowTypes'
    BY <1>0, <2>1, <2>2 DEF FlowTypes, flGhost
  <2> QED BY <2>1, <2>3, <2>4 DEF FlowBase
<1>4. CASE FlowExit
  <2>1. /\ flPc' = [c \in FlowCall |-> "idle"] /\ flPlan' = [c \in FlowCall |-> Idle]
        /\ flUnpooled' = flUnpooled + Pending /\ flForgone' = flForgone + Reserved
        /\ UNCHANGED <<flCoins, flBlocks, flRoyalty, flPool, flEmitted, flIssued, flBurnt, flUndone, flConverted, flNow>>
    BY <1>4 DEF FlowExit
  <2>2. Pending \in Nat /\ Reserved \in Nat
    BY PendingFact
  <2>3. FlowTypes'
    BY <1>0, <2>1, <2>2 DEF FlowTypes
  <2>4. CoinsKnown'
    BY <1>0, <2>1 DEF CoinsKnown, FlowInFlight
  <2>5. \A c \in FlowCall : Stage(flPlan[c], flPc[c])'
    BY <2>1 DEF Stage
  <2> QED BY <2>3, <2>4, <2>5 DEF FlowBase
<1> QED BY <1>1, <1>2, <1>3, <1>4 DEF EventStep

LEMMA CallBase ==
    ASSUME FlowBase, NEW c, c \in FlowCall, CallStep(c)
    PROVE  FlowBase'
<1>1. CASE \E p, pc : Entered(c, p, pc)
  BY <1>1, EnteredBase
<1>2. CASE WalletSendTx(c)
  BY <1>2, ResealFact, OnwardKeeps
<1>3. CASE SubmitPlainTx(c)
  BY <1>3, OpenFact, OnwardKeeps
<1>4. CASE ValidateInHandler(c)
  <2>1. CASE Onward(c, flPlan[c], "commit")
    BY <2>1, OnwardKeeps
  <2>2. CASE Leave(c) /\ flPc[c] # "idle" /\ UNCHANGED <<flShared, flGhost, flBound>>
    <3>1. flPool' \in Nat /\ UNCHANGED <<flCoins, flBlocks, flRoyalty, flEmitted, flGhost, flNow>>
      BY <2>2 DEF flShared, flBound, FlowBase, FlowTypes
    <3> QED BY <2>2, <3>1, LeaveBase
  <2> QED BY <1>4, <2>1, <2>2, ValidFact
<1>5. CASE LockCap(c)
  BY <1>5, LockFact, OnwardKeeps
<1>6. CASE ArmAccept(c)
  BY <1>6, AcceptFact, OnwardKeeps
<1>7. CASE ArmReject(c)
  BY <1>7, RefusedBase DEF ArmReject
<1>8. CASE Commit(c)
  BY <1>8, CommitBase
<1>9. CASE CommitLoses(c)
  BY <1>9, RefusedBase DEF CommitLoses
<1>10. CASE AccumulateTxFee(c)
  <2>1. flPc[c] # "idle" /\ Leave(c) /\ flPool' = flPool + flPlan[c].fee
        /\ UNCHANGED <<flCoins, flBlocks, flRoyalty, flEmitted, flGhost, flNow>>
    BY <1>10 DEF AccumulateTxFee, flBound
  <2>2. flPool' \in Nat
    BY <2>1, KnownSpend DEF FlowBase, FlowTypes
  <2> QED BY <2>1, <2>2, LeaveBase
<1>11. CASE MintConversion(c)
  BY <1>11, ConversionFact, OnwardKeeps
<1>12. CASE ConversionFails(c)
  BY <1>12, RefusedBase DEF ConversionFails
<1> QED BY <1>1, <1>2, <1>3, <1>4, <1>5, <1>6, <1>7, <1>8, <1>9, <1>10, <1>11, <1>12 DEF CallStep

LEMMA FlowBaseInit == FlowInit => FlowBase
<1> SUFFICES ASSUME FlowInit PROVE FlowBase
  OBVIOUS
<1>1. /\ FlowStart \subseteq CoinType /\ IsFiniteSet(FlowStart)
      /\ \A x \in FlowStart : x.id[1] = 0 /\ x.born = 0
      /\ \A x, y \in FlowStart : x.id = y.id => x = y
  BY FlowAssumption
<1>2. \A a : AmountIn(FlowStart, a) \in Nat
  BY <1>1, AmountNat DEF CoinType
<1>3. FlowTypes
  <2>1. flRoyalty \in [FlowAsset -> [bps : {0, 1}, to : Addr]]
    BY Addresses DEF FlowInit
  <2>2. {flIssued, flBurnt} \subseteq [AnyAsset -> Nat]
    BY <1>2 DEF FlowInit, Zero
  <2>3. flBlocks \in Seq(BlockType)
    BY DEF FlowInit
  <2> QED BY <1>1, <2>1, <2>2, <2>3 DEF FlowInit, FlowTypes
<1>4. CoinsKnown
  BY <1>1 DEF FlowInit, CoinsKnown, FlowInFlight
<1>5. \A c \in FlowCall : Stage(flPlan[c], flPc[c])
  BY DEF FlowInit, Stage
<1> QED BY <1>3, <1>4, <1>5 DEF FlowBase

LEMMA FlowBaseStep == FlowBase /\ [FlowNext]_flVars => FlowBase'
<1>1. ASSUME FlowBase, FlowNext PROVE FlowBase'
  <2>1. ASSUME NEW c \in FlowCall, CallStep(c) PROVE FlowBase'
    BY <1>1, <2>1, CallBase
  <2>2. CASE EventStep
    BY <1>1, <2>2, EventBase
  <2> QED BY <1>1, <2>1, <2>2, StepCases
<1>2. ASSUME FlowBase, UNCHANGED flVars PROVE FlowBase'
  BY <1>2 DEF flVars, flShared, flGhost, flBound, FlowBase, FlowTypes, CoinsKnown, FlowInFlight
<1> QED BY <1>1, <1>2

LEMMA FlowBaseAlways == FlowSpec => []FlowBase
BY FlowBaseInit, FlowBaseStep, PTL DEF FlowSpec

-----------------------------------------------------------------------------
(* What the other calls see of a step.                                     *)

LEMMA CallFrame ==
    ASSUME FlowBase, NEW c, c \in FlowCall, CallStep(c)
    PROVE  /\ \A d \in FlowCall : d # c => flPc'[d] = flPc[d] /\ flPlan'[d] = flPlan[d]
           /\ flFrozen' = flFrozen /\ flRoyalty' = flRoyalty /\ flNow' = flNow
           /\ \A d \in FlowCall : d # c => (d \in flEarly' <=> d \in flEarly)
           /\ (flCoins' = flCoins /\ flBlocks' = flBlocks) \/ Commit(c)
<1>0. FlowTypes
  BY DEF FlowBase
<1>1. CASE \E p, pc : Entered(c, p, pc)
  <2>1. PICK p, pc : Enter(c, p, pc)
    BY <1>1 DEF Entered
  <2> QED BY <1>0, <2>1, Elsewhere DEF Enter
<1>2. ASSUME NEW p, NEW pc, Onward(c, p, pc)
      PROVE  /\ \A d \in FlowCall : d # c => flPc'[d] = flPc[d] /\ flPlan'[d] = flPlan[d]
             /\ flFrozen' = flFrozen /\ flRoyalty' = flRoyalty /\ flNow' = flNow
             /\ flEarly' = flEarly /\ flCoins' = flCoins /\ flBlocks' = flBlocks
  BY <1>0, <1>2, Elsewhere DEF Onward, flGhost, flBound
<1>3. ASSUME Leave(c), UNCHANGED <<flCoins, flBlocks, flFrozen, flRoyalty, flGhost, flBound>>
      PROVE  /\ \A d \in FlowCall : d # c => flPc'[d] = flPc[d] /\ flPlan'[d] = flPlan[d]
             /\ flFrozen' = flFrozen /\ flRoyalty' = flRoyalty /\ flNow' = flNow
             /\ flEarly' = flEarly /\ flCoins' = flCoins /\ flBlocks' = flBlocks
  BY <1>0, <1>3, Elsewhere DEF Leave, flGhost, flBound
<1>4. CASE WalletSendTx(c)
  BY <1>2, <1>4, ResealFact
<1>5. CASE SubmitPlainTx(c)
  BY <1>2, <1>5, OpenFact
<1>6. CASE ValidateInHandler(c)
  BY <1>2, <1>3, <1>6, ValidFact DEF flShared
<1>7. CASE LockCap(c)
  BY <1>2, <1>7, LockFact
<1>8. CASE ArmAccept(c)
  BY <1>2, <1>8, AcceptFact
<1>9. CASE Refused(c)
  BY <1>3, <1>9 DEF Refused
<1>10. CASE ArmReject(c) \/ CommitLoses(c) \/ ConversionFails(c)
  BY <1>9, <1>10 DEF ArmReject, CommitLoses, ConversionFails
<1>11. CASE AccumulateTxFee(c)
  BY <1>3, <1>11 DEF AccumulateTxFee
<1>12. CASE MintConversion(c)
  BY <1>2, <1>12, ConversionFact
<1>13. CASE Commit(c)
  <2>1. PICK p : p = flPlan[c]
    OBVIOUS
  <2>2. PICK q, pc : After(c, p, q, pc)
    BY <1>13, <2>1, CommitFact
  <2>3. \A d \in FlowCall : d # c => flPc'[d] = flPc[d] /\ flPlan'[d] = flPlan[d]
    BY <1>0, <2>2, Elsewhere DEF After
  <2> QED BY <1>13, <2>3 DEF Commit, flBound
<1> QED BY <1>1, <1>4, <1>5, <1>6, <1>7, <1>8, <1>10, <1>11, <1>12, <1>13 DEF CallStep

\* A call is at its commit because it was, or because it is validated now.
LEMMA AtCommit ==
    ASSUME FlowBase, NEW c, c \in FlowCall, CallStep(c), flPc'[c] = "commit"
    PROVE  \/ /\ ValidateInHandler(c) /\ ValidTx(flPlan[c]) /\ Onward(c, flPlan[c], "commit")
              /\ flPlan'[c] = flPlan[c] /\ flPlan[c].kind = "sealed" /\ flPlan[c] \in PlanType
           \/ /\ ArmAccept(c) /\ ValidPayload(flPlan[c]) /\ Onward(c, Accepted(flPlan[c]), "commit")
              /\ flPlan'[c] = Accepted(flPlan[c]) /\ Stage(flPlan[c], "arm") /\ flPlan[c] \in PlanType
<1>0. FlowTypes
  BY DEF FlowBase
<1>1. CASE \E p, pc : Entered(c, p, pc)
  <2>1. PICK p, pc : Enter(c, p, pc) /\ pc \in {"prepared", "handler", "lock", "arm"}
    BY <1>1 DEF Entered
  <2>2. flPc'[c] = pc
    BY <1>0, <2>1 DEF Enter, FlowTypes
  <2> QED BY <2>1, <2>2
<1>2. ASSUME NEW p, NEW pc, Onward(c, p, pc)
      PROVE  flPc'[c] = pc /\ flPlan'[c] = p /\ flPc[c] # "idle" /\ flPlan[c] \in PlanType
  BY <1>0, <1>2, Elsewhere, KnownSpend DEF Onward
<1>3. ASSUME Leave(c) PROVE flPc'[c] = "idle"
  BY <1>0, <1>3 DEF Leave, FlowTypes
<1>4. CASE WalletSendTx(c)
  BY <1>2, <1>4, ResealFact
<1>5. CASE SubmitPlainTx(c)
  BY <1>2, <1>5, OpenFact
<1>6. CASE ValidateInHandler(c)
  <2>1. Onward(c, flPlan[c], "commit") /\ ValidTx(flPlan[c])
    BY <1>3, <1>6, ValidFact
  <2>2. flPc[c] = "handler" /\ flPc[c] # "idle"
    BY <1>6 DEF ValidateInHandler
  <2>3. Stage(flPlan[c], "handler")
    BY <2>2, KnownSpend
  <2> QED BY <1>2, <1>6, <2>1, <2>3 DEF Stage
<1>7. CASE LockCap(c)
  BY <1>2, <1>7, LockFact
<1>8. CASE ArmAccept(c)
  BY <1>2, <1>8, AcceptFact
<1>10. CASE ArmReject(c) \/ CommitLoses(c) \/ ConversionFails(c)
  BY <1>3, <1>10 DEF ArmReject, CommitLoses, ConversionFails, Refused
<1>11. CASE AccumulateTxFee(c)
  BY <1>3, <1>11 DEF AccumulateTxFee
<1>12. CASE MintConversion(c)
  BY <1>2, <1>12, ConversionFact
<1>13. CASE Commit(c)
  <2>1. PICK p : p = flPlan[c]
    OBVIOUS
  <2>2. PICK q, pc : After(c, p, q, pc)
    BY <1>13, <2>1, CommitFact
  <2>3. flPc'[c] = pc /\ pc # "commit"
    BY <1>0, <2>2 DEF After, FlowTypes
  <2> QED BY <2>3
<1> QED BY <1>1, <1>4, <1>5, <1>6, <1>7, <1>8, <1>10, <1>11, <1>12, <1>13 DEF CallStep

\* A block takes coins out of the inputs of a plan and adds none to them.
LEMMA InputsAfter ==
    ASSUME FlowBase, NEW c, c \in FlowCall, Commit(c), NEW q, \A i \in q.spend : i[1] <= Len(flBlocks)
    PROVE  /\ Inputs(q)' = Inputs(q) \ Inputs(flPlan[c])
           /\ Present(q)' => Present(q) /\ Inputs(q)' = Inputs(q)
<1>1. PICK p : p = flPlan[c]
  OBVIOUS
<1>2. flCoins' = (flCoins \ Inputs(p)) \cup Created(p) /\ Len(flBlocks) \in Nat /\ p.outs \in Seq(OutType)
  BY <1>1, CommitFact DEF PlanType
<1>3. \A x \in Created(p) : x.id[1] = Len(flBlocks) + 1
  BY <1>2, CreatedFact
<1>4. \A x \in Created(p) : x.id \notin q.spend
  BY <1>2, <1>3
<1>5. Inputs(q)' = {x \in flCoins' : x.id \in q.spend}
  BY DEF Inputs
<1>6. Inputs(q)' = Inputs(q) \ Inputs(p)
  BY <1>2, <1>4, <1>5 DEF Inputs
<1>7. ASSUME Present(q)' PROVE Present(q) /\ Inputs(q)' = Inputs(q)
  <2>1. Ids(Inputs(q)') = q.spend
    BY <1>7 DEF Present, Ids
  <2>2. \A x, y \in flCoins : x.id = y.id => x = y
    BY DEF FlowBase, CoinsKnown
  <2>3. ASSUME NEW x \in Inputs(q) PROVE x \in Inputs(q)'
    <3>1. x \in flCoins /\ x.id \in q.spend
      BY DEF Inputs
    <3>2. PICK y \in Inputs(q)' : y.id = x.id
      BY <2>1, <3>1 DEF Ids
    <3>3. y \in flCoins
      BY <1>6 DEF Inputs
    <3> QED BY <2>2, <3>1, <3>2, <3>3
  <2>4. Inputs(q)' = Inputs(q)
    BY <1>6, <2>3
  <2> QED BY <2>1, <2>4 DEF Present, Ids
<1> QED BY <1>1, <1>6, <1>7

\* The inputs of another call before and after a step.
LEMMA OtherInputs ==
    ASSUME FlowBase, NEW c, c \in FlowCall, CallStep(c), NEW d, d \in FlowCall, d # c, flPc'[d] # "idle",
           NEW q, q = flPlan[d]
    PROVE  /\ flPlan'[d] = q /\ flPc'[d] = flPc[d]
           /\ Inputs(q)' \subseteq Inputs(q)
           /\ Present(q)' => Present(q) /\ Inputs(q)' = Inputs(q)
<1>1. flPlan'[d] = q /\ flPc'[d] = flPc[d] /\ flPc[d] # "idle"
  BY CallFrame
<1>2. \A i \in q.spend : i[1] <= Len(flBlocks)
  BY <1>1, KnownSpend
<1>3. CASE Commit(c)
  BY <1>1, <1>2, <1>3, InputsAfter
<1>4. CASE flCoins' = flCoins
  BY <1>1, <1>4 DEF Inputs, Present
<1> QED BY <1>3, <1>4, CallFrame, <1>1

-----------------------------------------------------------------------------
(* Coins move by right.                                                    *)

Orders == {"seize", "reverse"}

\* The inputs of a plan are spent by right.
Rightful(c, p) ==
    p.kind \notin Orders =>
        \A x \in Inputs(p) : Owner(x) \subseteq p.signers /\ (x.addr \in flFrozen => c \in flEarly)

LEMMA ByRightAs == ByRight <=> \A c \in FlowCall : flPc[c] = "commit" => Rightful(c, flPlan[c])
BY DEF ByRight, Rightful, Orders

LEMMA ValidRightful ==
    ASSUME NEW c, NEW p, p \in PlanType,
           ValidTx(p) \/ (ValidPayload(p) /\ Stage(p, "arm"))
    PROVE  Rightful(c, p)
<1>1. ASSUME ValidTx(p) PROVE Rightful(c, p)
  BY <1>1 DEF ValidTx, SpendAuthorized, NoFrozenParty, Rightful
<1>2. ASSUME ValidPayload(p), Stage(p, "arm") PROVE Rightful(c, p)
  <2>1. p.kind \in {"plain", "settle", "burn", "mint", "custodial", "conversion", "seize", "reverse"}
    <3>1. p.kind \in Kind /\ p.kind # "sealed"
      BY <1>2 DEF Stage, PlanType
    <3> QED BY <3>1 DEF Kind, Transfer, CappedMint
  <2>2. CASE p.kind = "plain" \/ p.kind = "settle"
    <3>1. ValidTx(p)
      BY <1>2, <2>2 DEF ValidPayload
    <3> QED BY <1>1, <3>1
  <2>3. CASE p.kind = "burn"
    <3>1. ValidBurn(p)
      BY <1>2, <2>3 DEF ValidPayload
    <3> QED BY <3>1 DEF ValidBurn, SpendAuthorized, Rightful
  <2>4. CASE p.kind \in {"mint", "custodial", "conversion"}
    <3>1. Inputs(p) = {}
      BY <1>2, <2>4 DEF Stage, CappedMint, Inputs
    <3> QED BY <3>1 DEF Rightful
  <2>5. CASE p.kind \in Orders
    BY <2>5 DEF Rightful
  <2> QED BY <2>1, <2>2, <2>3, <2>4, <2>5 DEF Orders
<1> QED BY <1>1, <1>2

LEMMA ByRightCall ==
    ASSUME FlowBase, ByRight, NEW c, c \in FlowCall, CallStep(c)
    PROVE  ByRight'
<1> SUFFICES ASSUME NEW d, d \in FlowCall, flPc'[d] = "commit" PROVE Rightful(d, flPlan[d])'
  BY DEF ByRight, Rightful, Orders
<1>1. CASE d # c
  <2>1. PICK q : q = flPlan[d]
    OBVIOUS
  <2>2. flPlan'[d] = q /\ flPc[d] = "commit" /\ Inputs(q)' \subseteq Inputs(q)
        /\ flFrozen' = flFrozen /\ (d \in flEarly' <=> d \in flEarly)
    BY <1>1, <2>1, OtherInputs, CallFrame
  <2>3. Rightful(d, q)
    BY <2>1, <2>2, ByRightAs
  <2> QED BY <2>2, <2>3 DEF Rightful, Inputs
<1>2. CASE d = c
  <2>1. PICK p : p = flPlan[c]
    OBVIOUS
  <2>2. PICK q : q = flPlan'[c]
    OBVIOUS
  <2>3. /\ p \in PlanType /\ (ValidTx(p) \/ (ValidPayload(p) /\ Stage(p, "arm")))
        /\ \E r : Onward(c, r, "commit")
        /\ q = p \/ (q = Accepted(p) /\ Stage(p, "arm"))
    BY <1>2, <2>1, <2>2, AtCommit
  <2>4. q.kind = p.kind /\ q.spend = p.spend /\ q.signers = p.signers
    <3>1. CASE q = p
      BY <3>1
    <3>2. CASE q = Accepted(p) /\ Stage(p, "arm")
      BY <2>3, <3>2, AcceptedFact DEF Stage
    <3> QED BY <2>3, <3>1, <3>2
  <2>5. Rightful(c, p)
    BY <2>3, ValidRightful
  <2>6. flCoins' = flCoins /\ flFrozen' = flFrozen /\ flEarly' = flEarly
    BY <2>3 DEF Onward, flGhost
  <2>7. Rightful(c, q)'
    BY <2>4, <2>5, <2>6 DEF Rightful, Inputs
  <2> QED BY <1>2, <2>2, <2>7 DEF Rightful, Inputs
<1> QED BY <1>1, <1>2

LEMMA ByRightEvent ==
    ASSUME FlowBase, ByRight, EventStep
    PROVE  ByRight'
<1>1. ASSUME NEW r \in FlowRequest, Edict(r.address) PROVE ByRight'
  BY <1>1 DEF Edict, ByRight, Late, Inputs
<1>2. ASSUME NEW a \in FlowAsset, RoyaltyChange(a) PROVE ByRight'
  BY <1>2 DEF RoyaltyChange, flGhost, ByRight, Inputs
<1>3. CASE FlowTick
  BY <1>3 DEF FlowTick, flShared, flGhost, ByRight, Inputs
<1>4. CASE FlowExit
  BY <1>4 DEF FlowExit, ByRight
<1> QED BY <1>1, <1>2, <1>3, <1>4 DEF EventStep

LEMMA ByRightStep == FlowBase /\ ByRight /\ [FlowNext]_flVars => ByRight'
<1>1. ASSUME FlowBase, ByRight, FlowNext PROVE ByRight'
  <2>1. ASSUME NEW c \in FlowCall, CallStep(c) PROVE ByRight'
    BY <1>1, <2>1, ByRightCall
  <2>2. CASE EventStep
    BY <1>1, <2>2, ByRightEvent
  <2> QED BY <1>1, <2>1, <2>2, StepCases
<1>2. ASSUME ByRight, UNCHANGED flVars PROVE ByRight'
  BY <1>2 DEF flVars, flShared, flGhost, flBound, ByRight, Inputs
<1> QED BY <1>1, <1>2

LEMMA ByRightAlways == FlowSpec => []ByRight
<1>1. FlowInit => ByRight
  BY DEF FlowInit, ByRight
<1> QED BY <1>1, FlowBaseAlways, ByRightStep, PTL DEF FlowSpec

MovesByRight ==
    \A x \in flCoins \ flCoins' : \E c \in FlowCall :
        /\ flPc[c] = "commit" /\ x.id \in flPlan[c].spend
        /\ \/ flPlan[c].kind \in {"seize", "reverse"}
           \/ /\ Owner(x) \subseteq flPlan[c].signers
              /\ x.addr \in flFrozen => c \in flEarly

LEMMA MovesByRightStep == FlowBase /\ ByRight /\ [FlowNext]_flVars => MovesByRight
<1>1. ASSUME FlowBase, ByRight, FlowNext, NEW x \in flCoins \ flCoins'
      PROVE  \E c \in FlowCall :
                /\ flPc[c] = "commit" /\ x.id \in flPlan[c].spend
                /\ \/ flPlan[c].kind \in {"seize", "reverse"}
                   \/ /\ Owner(x) \subseteq flPlan[c].signers
                      /\ x.addr \in flFrozen => c \in flEarly
  <2>1. ~EventStep
    BY <1>1 DEF EventStep, Edict, RoyaltyChange, FlowTick, FlowExit, flShared
  <2>2. PICK c \in FlowCall : CallStep(c)
    BY <1>1, <2>1, StepCases
  <2>3. Commit(c)
    BY <1>1, <2>2, CallFrame
  <2>4. PICK p : p = flPlan[c]
    OBVIOUS
  <2>5. flCoins' = (flCoins \ Inputs(p)) \cup Created(p) /\ flPc[c] = "commit"
    BY <1>1, <2>3, <2>4, CommitFact
  <2>6. x \in Inputs(p) /\ x.id \in p.spend
    BY <1>1, <2>5 DEF Inputs
  <2>7. Rightful(c, p)
    BY <1>1, <2>4, <2>5, ByRightAs
  <2>8. p.kind \in {"seize", "reverse"} \/ (Owner(x) \subseteq p.signers /\ (x.addr \in flFrozen => c \in flEarly))
    BY <2>6, <2>7 DEF Rightful, Orders
  <2> QED BY <2>4, <2>5, <2>6, <2>8
<1>2. ASSUME UNCHANGED flVars PROVE MovesByRight
  BY <1>2 DEF flVars, flShared, MovesByRight
<1> QED BY <1>1, <1>2 DEF MovesByRight

THEOREM NoCoinTaken == FlowSpec => CoinsMoveByRight
<1>1. FlowBase /\ ByRight /\ [FlowNext]_flVars => [MovesByRight]_flVars
  BY MovesByRightStep
<1>2. FlowSpec => [][MovesByRight]_flVars
  BY <1>1, FlowBaseAlways, ByRightAlways, PTL DEF FlowSpec
<1> QED BY <1>2 DEF CoinsMoveByRight, MovesByRight

-----------------------------------------------------------------------------
(* The emission counter.                                                   *)

\* The sums over the calls, before and after a step.
SumsDefined ==
    /\ \A c \in FlowCall : FeeOnItsWay[c] \in Nat /\ Reservation[c] \in Nat
    /\ Pending = SumFunctionOnSet(FeeOnItsWay, FlowCall) /\ Pending \in Nat
    /\ Reserved = SumFunctionOnSet(Reservation, FlowCall) /\ Reserved \in Nat

LEMMA SumsNow == FlowBase => SumsDefined
BY PendingFact DEF SumsDefined

LEMMA SumsNext == FlowBase' => SumsDefined'
BY SumsNow, PTL

\* A step of a call changes its own term of the sums, and no other.
LEMMA SumsAfter ==
    ASSUME FlowBase, FlowBase', NEW c, c \in FlowCall,
           \A d \in FlowCall : d # c => flPc'[d] = flPc[d] /\ flPlan'[d] = flPlan[d]
    PROVE  /\ Reserved' = Reserved - Reservation[c] + Reservation'[c]
           /\ Pending' = Pending - FeeOnItsWay[c] + FeeOnItsWay'[c]
           /\ Reservation[c] \in Nat /\ Reservation'[c] \in Nat /\ Reserved \in Nat
           /\ FeeOnItsWay[c] \in Nat /\ FeeOnItsWay'[c] \in Nat /\ Pending \in Nat
<1> DEFINE f == Reservation
           g == Reservation'
           h == FeeOnItsWay
           k == FeeOnItsWay'
<1>1. /\ \A d \in FlowCall : f[d] \in Nat /\ h[d] \in Nat
      /\ Pending = SumFunctionOnSet(h, FlowCall) /\ Pending \in Nat
      /\ Reserved = SumFunctionOnSet(f, FlowCall) /\ Reserved \in Nat
      /\ IsFiniteSet(FlowCall)
  BY PendingFact
<1>2. /\ \A d \in FlowCall : g[d] \in Nat /\ k[d] \in Nat
      /\ Pending' = SumFunctionOnSet(k, FlowCall) /\ Reserved' = SumFunctionOnSet(g, FlowCall)
  BY SumsNext DEF SumsDefined
<1>3. \A d \in FlowCall : d # c => g[d] = f[d] /\ k[d] = h[d]
  BY DEF Reservation, FeeOnItsWay
<1> HIDE DEF f, g, h, k
<1>4. SumFunctionOnSet(g, FlowCall) = SumFunctionOnSet(f, FlowCall) - f[c] + g[c]
  BY <1>1, <1>2, <1>3, SumUpdate
<1>5. SumFunctionOnSet(k, FlowCall) = SumFunctionOnSet(h, FlowCall) - h[c] + k[c]
  BY <1>1, <1>2, <1>3, SumUpdate
<1> QED BY <1>1, <1>2, <1>4, <1>5 DEF f, g, h, k

\* The terms of one call.
LEMMA TermOf ==
    ASSUME NEW c, c \in FlowCall
    PROVE  /\ Reservation[c] = IF flPc[c] # "idle" THEN flPlan[c].reserved ELSE 0
           /\ FeeOnItsWay[c] = IF flPc[c] = "post" THEN flPlan[c].fee ELSE 0
BY DEF Reservation, FeeOnItsWay

LEMMA TermOfNext ==
    ASSUME NEW c, c \in FlowCall
    PROVE  /\ Reservation'[c] = IF flPc'[c] # "idle" THEN flPlan'[c].reserved ELSE 0
           /\ FeeOnItsWay'[c] = IF flPc'[c] = "post" THEN flPlan'[c].fee ELSE 0
BY DEF Reservation, FeeOnItsWay

\* What each step of a call does to the counter.
LEMMA CounterAfter ==
    ASSUME FlowBase, NEW c, c \in FlowCall, CallStep(c)
    PROVE  flEmitted' - flConverted' - Reservation'[c] = flEmitted - flConverted - Reservation[c]
           /\ flForgone' = flForgone
<1>0. FlowTypes /\ flEmitted \in Int /\ flConverted \in Int
  BY DEF FlowBase, FlowTypes
<1>1. CASE \E p, pc : Entered(c, p, pc)
  <2>1. PICK p, pc : Entered(c, p, pc)
    BY <1>1
  <2>2. /\ flPc[c] = "idle" /\ flPc'[c] = pc /\ pc # "idle" /\ flPlan'[c] = p /\ p.reserved \in Nat
        /\ flEmitted' = flEmitted + p.reserved /\ flConverted' = flConverted /\ flForgone' = flForgone
    BY <1>0, <2>1, Elsewhere DEF Entered, Enter, Free, PlanType
  <2> QED BY <1>0, <2>2, TermOf, TermOfNext
<1>2. ASSUME NEW p, NEW pc, Onward(c, p, pc), p.reserved = flPlan[c].reserved
      PROVE  flEmitted' - flConverted' - Reservation'[c] = flEmitted - flConverted - Reservation[c]
             /\ flForgone' = flForgone
  <2>1. /\ flPc[c] # "idle" /\ flPc'[c] # "idle" /\ flPlan'[c].reserved = flPlan[c].reserved
        /\ flEmitted' = flEmitted /\ flConverted' = flConverted /\ flForgone' = flForgone
    BY <1>0, <1>2, Elsewhere DEF Onward, flGhost
  <2> QED BY <1>0, <2>1, TermOf, TermOfNext
<1>3. ASSUME Leave(c), flPc[c] # "idle", flPlan[c].reserved = 0, UNCHANGED <<flEmitted, flGhost>>
      PROVE  flEmitted' - flConverted' - Reservation'[c] = flEmitted - flConverted - Reservation[c]
             /\ flForgone' = flForgone
  <2>1. flPc'[c] = "idle"
    BY <1>0, <1>3 DEF Leave, FlowTypes
  <2> QED BY <1>0, <1>3, <2>1, TermOf, TermOfNext DEF flGhost
<1>4. CASE WalletSendTx(c)
  BY <1>2, <1>4, ResealFact
<1>5. CASE SubmitPlainTx(c)
  <2>1. Onward(c, [flPlan[c] EXCEPT !.kind = "plain"], "arm") /\ flPlan[c] \in PlanType
    BY <1>5, OpenFact, KnownSpend DEF SubmitPlainTx
  <2>2. [flPlan[c] EXCEPT !.kind = "plain"].reserved = flPlan[c].reserved
    BY <2>1 DEF PlanType
  <2> QED BY <1>2, <2>1, <2>2
<1>6. CASE ValidateInHandler(c)
  <2>1. CASE Onward(c, flPlan[c], "commit")
    BY <1>2, <2>1
  <2>2. CASE Leave(c) /\ flPc[c] # "idle" /\ flPlan[c].kind = "sealed" /\ UNCHANGED <<flShared, flGhost, flBound>>
    <3>1. flPlan[c].reserved = 0
      BY <2>2, KnownSpend DEF Stage
    <3> QED BY <1>3, <2>2, <3>1 DEF flShared
  <2> QED BY <1>6, <2>1, <2>2, ValidFact
<1>7. CASE LockCap(c)
  BY <1>2, <1>7, LockFact
<1>8. CASE ArmAccept(c)
  <2>1. Onward(c, Accepted(flPlan[c]), "commit") /\ flPlan[c] \in PlanType /\ Stage(flPlan[c], "arm")
    BY <1>8, AcceptFact, KnownSpend
  <2>2. Accepted(flPlan[c]).reserved = flPlan[c].reserved
    BY <2>1, AcceptedFact DEF Stage
  <2> QED BY <1>2, <2>1, <2>2
<1>9. CASE flPc[c] # "idle" /\ Refused(c)
  <2>1. flPc'[c] = "idle"
    BY <1>0, <1>9 DEF Refused, Leave, FlowTypes
  <2>2. flPlan[c].reserved \in Nat
    BY <1>9, KnownSpend
  <2> QED BY <1>0, <1>9, <2>1, <2>2, TermOf, TermOfNext DEF Refused, flGhost
<1>10. CASE ArmReject(c) \/ CommitLoses(c) \/ ConversionFails(c)
  BY <1>9, <1>10 DEF ArmReject, CommitLoses, ConversionFails
<1>11. CASE AccumulateTxFee(c)
  <2>1. Leave(c) /\ flPc[c] = "post" /\ flPlan[c].kind # "burn" /\ UNCHANGED <<flEmitted, flGhost>>
    BY <1>11 DEF AccumulateTxFee
  <2>2. flPlan[c].reserved = 0
    BY <2>1, KnownSpend DEF Stage
  <2> QED BY <1>3, <2>1, <2>2
<1>12. CASE MintConversion(c)
  BY <1>2, <1>12, ConversionFact
<1>13. CASE Commit(c)
  <2>1. PICK p : p = flPlan[c]
    OBVIOUS
  <2>2. PICK q, pc : After(c, p, q, pc)
    BY <1>13, <2>1, CommitFact
  <2>3. flPc'[c] = pc /\ flPlan'[c] = q /\ flPc[c] = "commit" /\ Stage(p, "commit") /\ p.reserved \in Nat
    <3>1. flPc[c] = "commit" /\ Stage(p, "commit") /\ p \in PlanType
      BY <1>13, <2>1, CommitFact
    <3>2. flPc'[c] = pc /\ flPlan'[c] = q
      BY <1>0, <2>2, Elsewhere DEF After
    <3> QED BY <3>1, <3>2 DEF PlanType
  <2>4. /\ flEmitted' = flEmitted /\ flForgone' = flForgone
        /\ flConverted' = flConverted + (IF p.kind = "conversion" THEN p.reserved ELSE 0)
    BY <1>13, <2>1 DEF Commit
  <2>5. p.kind \notin {"burn", "conversion"} => p.reserved = 0
    BY <2>3 DEF Stage
  <2>6. CASE Rests(p)
    <3>1. p.kind # "conversion" /\ pc = "post" /\ q = p
      BY <2>2, <2>6 DEF Rests, After
    <3> QED BY <1>0, <2>1, <2>3, <2>4, <3>1, TermOf, TermOfNext
  <2>7. CASE ~Rests(p)
    <3>1. pc = "idle" /\ (p.kind = "conversion" \/ p.reserved = 0)
      BY <2>2, <2>3, <2>5, <2>7 DEF Rests, After
    <3> QED BY <1>0, <2>1, <2>3, <2>4, <3>1, TermOf, TermOfNext
  <2> QED BY <2>6, <2>7
<1> QED BY <1>1, <1>4, <1>5, <1>6, <1>7, <1>8, <1>10, <1>11, <1>12, <1>13 DEF CallStep

LEMMA BackedCall ==
    ASSUME FlowBase, ReservationsBacked, NEW c, c \in FlowCall, CallStep(c)
    PROVE  ReservationsBacked'
<1>1. FlowBase'
  BY CallBase
<1>2. \A d \in FlowCall : d # c => flPc'[d] = flPc[d] /\ flPlan'[d] = flPlan[d]
  BY CallFrame
<1>3. /\ Reserved' = Reserved - Reservation[c] + Reservation'[c]
      /\ Reservation[c] \in Nat /\ Reservation'[c] \in Nat /\ Reserved \in Nat
  BY <1>1, <1>2, SumsAfter
<1>4. flEmitted' - flConverted' - Reservation'[c] = flEmitted - flConverted - Reservation[c]
      /\ flForgone' = flForgone
  BY CounterAfter
<1>5. {flEmitted, flEmitted', flConverted, flConverted', flForgone} \subseteq Int
  BY <1>1 DEF FlowBase, FlowTypes
<1>6. flEmitted = flConverted + Reserved + flForgone
  BY DEF ReservationsBacked
<1>7. flEmitted' = flConverted' + Reserved' + flForgone'
  BY <1>3, <1>4, <1>5, <1>6
<1> QED BY <1>7 DEF ReservationsBacked

\* After the end of the process nothing is on its way.
LEMMA ExitSums ==
    ASSUME FlowBase, FlowExit
    PROVE  Reserved' = 0 /\ Pending' = 0
<1>1. \A c \in FlowCall : Reservation'[c] = 0 /\ FeeOnItsWay'[c] = 0
  BY DEF FlowExit, Reservation, FeeOnItsWay
<1>2. FlowBase'
  BY EventBase DEF EventStep
<1>3. Pending' = SumFunctionOnSet(FeeOnItsWay', FlowCall) /\ Reserved' = SumFunctionOnSet(Reservation', FlowCall)
  BY <1>2, SumsNext DEF SumsDefined
<1>4. IsFiniteSet(FlowCall)
  BY Constants
<1> QED BY <1>1, <1>3, <1>4, SumZero

LEMMA EventSums ==
    ASSUME UNCHANGED <<flPc, flPlan>>
    PROVE  Reserved' = Reserved /\ Pending' = Pending
BY DEF Reserved, Reservation, Pending, FeeOnItsWay

LEMMA BackedEvent ==
    ASSUME FlowBase, ReservationsBacked, EventStep
    PROVE  ReservationsBacked'
<1>1. CASE FlowExit
  <2>1. /\ Reserved' = 0 /\ flForgone' = flForgone + Reserved /\ flEmitted' = flEmitted
        /\ flConverted' = flConverted
    BY <1>1, ExitSums DEF FlowExit
  <2>2. flEmitted = flConverted + Reserved + flForgone
    BY DEF ReservationsBacked
  <2>3. Reserved \in Nat /\ flConverted \in Nat /\ flForgone \in Nat
    BY PendingFact DEF FlowBase, FlowTypes
  <2>4. flEmitted' = flConverted' + Reserved' + flForgone'
    BY <2>1, <2>2, <2>3
  <2> QED BY <2>4 DEF ReservationsBacked
<1>2. CASE UNCHANGED <<flPc, flPlan, flEmitted, flConverted, flForgone>>
  BY <1>2, EventSums DEF ReservationsBacked
<1> QED BY <1>1, <1>2 DEF EventStep, Edict, RoyaltyChange, FlowTick, flShared, flGhost

LEMMA BackedStep == FlowBase /\ ReservationsBacked /\ [FlowNext]_flVars => ReservationsBacked'
<1>1. ASSUME FlowBase, ReservationsBacked, FlowNext PROVE ReservationsBacked'
  <2>1. ASSUME NEW c \in FlowCall, CallStep(c) PROVE ReservationsBacked'
    BY <1>1, <2>1, BackedCall
  <2>2. CASE EventStep
    BY <1>1, <2>2, BackedEvent
  <2> QED BY <1>1, <2>1, <2>2, StepCases
<1>2. ASSUME ReservationsBacked, UNCHANGED flVars PROVE ReservationsBacked'
  BY <1>2, EventSums DEF flVars, flShared, flGhost, flBound, ReservationsBacked
<1> QED BY <1>1, <1>2

LEMMA BackedInit == FlowInit => ReservationsBacked
<1> SUFFICES ASSUME FlowInit PROVE ReservationsBacked
  OBVIOUS
<1>1. \A c \in FlowCall : Reservation[c] = 0
  BY DEF FlowInit, Reservation
<1>2. Reserved = SumFunctionOnSet(Reservation, FlowCall) /\ IsFiniteSet(FlowCall)
  BY FlowBaseInit, PendingFact
<1>3. Reserved = 0
  BY <1>1, <1>2, SumZero
<1> QED BY <1>3 DEF FlowInit, ReservationsBacked

LEMMA BackedAlways == FlowSpec => []ReservationsBacked
BY BackedInit, FlowBaseAlways, BackedStep, PTL DEF FlowSpec

-----------------------------------------------------------------------------
(* Royalties.                                                              *)

\* A plan settles what was validated.
Settles(p) ==
    p.kind = "settle" /\ Present(p) => p.req.price - Net(p, p.req.seller, p.req.priceAsset) = OwedBySeller(p)

LEMMA SettlingAs == Settling <=> \A c \in FlowCall : flPc[c] = "commit" => Settles(flPlan[c])
BY DEF Settling, Settles

LEMMA AcceptedSettles ==
    ASSUME FlowBase, NEW q, q \in PlanType, Stage(q, "arm"), ValidPayload(q)
    PROVE  Settles(Accepted(q))
<1> DEFINE p == Accepted(q)
           r == q.req
           due == RoyaltyDue(q)
           to == flRoyalty[r.asset].to
           net == Net(q, r.seller, r.priceAsset)
<1> SUFFICES ASSUME q.kind = "settle"
             PROVE  p.req.price - Net(p, p.req.seller, p.req.priceAsset) = OwedBySeller(p)
  <2>1. p.kind = q.kind
    BY AcceptedFact DEF Stage
  <2> QED BY <2>1 DEF Settles
<1>1. /\ p.req = r /\ p.spend = q.spend /\ p.outs = q.outs /\ p.due = due /\ r.op = "settle"
      /\ r \in FlowRequest
  BY AcceptedFact DEF Stage, PlanType
<1>2. due \in Nat /\ r.price \in Nat
  BY <1>1, RoyaltyNat, RequestShape
<1>3. ValidSettlement(q)
  BY DEF ValidPayload
<1>4. net = r.price - due + (IF r.seller \in Identity(to) THEN due ELSE 0)
  BY <1>3 DEF ValidSettlement
<1>5. Net(p, r.seller, r.priceAsset) = net
  BY <1>1 DEF Net, Inputs
<1>6. OwedBySeller(p) = IF r.seller \in Identity(to) THEN 0 ELSE due
  BY <1>1 DEF OwedBySeller
<1> HIDE DEF p, r, due, net, to
<1>7. r.price - net = OwedBySeller(p)
  BY <1>2, <1>4, <1>6
<1> QED BY <1>1, <1>5, <1>7

LEMMA SettlesKept ==
    ASSUME NEW p, Settles(p), Present(p)' => Present(p) /\ Inputs(p)' = Inputs(p),
           flRoyalty'[p.req.asset].to = flRoyalty[p.req.asset].to
    PROVE  Settles(p)'
<1> SUFFICES ASSUME p.kind = "settle", Present(p)'
             PROVE  p.req.price - Net(p, p.req.seller, p.req.priceAsset)' = OwedBySeller(p)'
  BY DEF Settles
<1>1. OwedBySeller(p)' = OwedBySeller(p)
  BY DEF OwedBySeller
<1>2. Net(p, p.req.seller, p.req.priceAsset)' = Net(p, p.req.seller, p.req.priceAsset)
  BY DEF Net
<1> QED BY <1>1, <1>2 DEF Settles

LEMMA SettlingCall ==
    ASSUME FlowBase, Settling, NEW c, c \in FlowCall, CallStep(c)
    PROVE  Settling'
<1> SUFFICES ASSUME NEW d, d \in FlowCall, flPc'[d] = "commit" PROVE Settles(flPlan[d])'
  BY DEF Settling, Settles
<1>1. CASE d # c
  <2>1. PICK q : q = flPlan[d]
    OBVIOUS
  <2>2. /\ flPlan'[d] = q /\ flPc[d] = "commit" /\ flRoyalty' = flRoyalty
        /\ Present(q)' => Present(q) /\ Inputs(q)' = Inputs(q)
    BY <1>1, <2>1, OtherInputs, CallFrame
  <2>3. Settles(q)
    BY <2>1, <2>2, SettlingAs
  <2>4. Settles(q)'
    BY <2>2, <2>3, SettlesKept
  <2> QED BY <2>2, <2>4 DEF Settles, Present, Inputs, Net, OwedBySeller
<1>2. CASE d = c
  <2>1. PICK p : p = flPlan[c]
    OBVIOUS
  <2>2. PICK q : q = flPlan'[c]
    OBVIOUS
  <2>3. /\ p \in PlanType /\ \E r : Onward(c, r, "commit")
        /\ (q = p /\ p.kind = "sealed") \/ (q = Accepted(p) /\ ValidPayload(p) /\ Stage(p, "arm"))
    BY <1>2, <2>1, <2>2, AtCommit
  <2>4. Settles(q)
    <3>1. CASE q = p /\ p.kind = "sealed"
      BY <3>1 DEF Settles
    <3>2. CASE q = Accepted(p) /\ ValidPayload(p) /\ Stage(p, "arm")
      BY <2>3, <3>2, AcceptedSettles
    <3> QED BY <2>3, <3>1, <3>2
  <2>5. flCoins' = flCoins /\ flRoyalty' = flRoyalty
    BY <2>3 DEF Onward
  <2>6. Present(q)' => Present(q) /\ Inputs(q)' = Inputs(q)
    BY <2>5 DEF Present, Inputs
  <2>7. Settles(q)'
    BY <2>4, <2>5, <2>6, SettlesKept
  <2> QED BY <1>2, <2>2, <2>7 DEF Settles, Present, Inputs, Net, OwedBySeller
<1> QED BY <1>1, <1>2

LEMMA SettlingEvent ==
    ASSUME FlowBase, Settling, EventStep
    PROVE  Settling'
<1>0. \A a \in FlowAsset : flRoyalty'[a].to = flRoyalty[a].to
  <2>1. flRoyalty \in [FlowAsset -> [bps : {0, 1}, to : Addr]]
    BY DEF FlowBase, FlowTypes
  <2>2. ASSUME NEW b \in FlowAsset, flRoyalty' = [flRoyalty EXCEPT ![b].bps = IF @ = 0 THEN 1 ELSE 0]
        PROVE  \A a \in FlowAsset : flRoyalty'[a].to = flRoyalty[a].to
    BY <2>1, <2>2
  <2>3. flRoyalty' = flRoyalty \/ \E b \in FlowAsset : flRoyalty' = [flRoyalty EXCEPT ![b].bps = IF @ = 0 THEN 1 ELSE 0]
    BY DEF EventStep, Edict, RoyaltyChange, FlowTick, FlowExit, flShared
  <2> QED BY <2>2, <2>3
<1>1. flCoins' = flCoins
  BY DEF EventStep, Edict, RoyaltyChange, FlowTick, FlowExit, flShared
<1>2. UNCHANGED <<flPc, flPlan>> \/ \A c \in FlowCall : flPc'[c] = "idle"
  BY DEF EventStep, Edict, RoyaltyChange, FlowTick, FlowExit
<1> SUFFICES ASSUME NEW d, d \in FlowCall, flPc'[d] = "commit" PROVE Settles(flPlan[d])'
  BY DEF Settling, Settles
<1>3. PICK q : q = flPlan[d]
  OBVIOUS
<1>4. flPlan'[d] = q /\ flPc[d] = "commit"
  BY <1>2, <1>3
<1>5. CASE q.kind = "settle"
  <2>1. q.req.asset \in FlowAsset
    BY <1>3, <1>4, <1>5, KnownSpend, RequestShape DEF Stage
  <2>2. Present(q)' => Present(q) /\ Inputs(q)' = Inputs(q)
    BY <1>1 DEF Present, Inputs
  <2>3. Settles(q)
    BY <1>3, <1>4, SettlingAs
  <2>4. Settles(q)'
    BY <1>0, <2>1, <2>2, <2>3, SettlesKept
  <2> QED BY <1>4, <2>4 DEF Settles, Present, Inputs, Net, OwedBySeller
<1>6. CASE q.kind # "settle"
  BY <1>4, <1>6 DEF Settles
<1> QED BY <1>5, <1>6

RoyaltyInv == Settling /\ RoyaltyPaid

LEMMA RoyaltyStep == FlowBase /\ RoyaltyInv /\ [FlowNext]_flVars => RoyaltyInv'
<1>1. ASSUME FlowBase, Settling, FlowNext PROVE Settling'
  <2>1. ASSUME NEW c \in FlowCall, CallStep(c) PROVE Settling'
    BY <1>1, <2>1, SettlingCall
  <2>2. CASE EventStep
    BY <1>1, <2>2, SettlingEvent
  <2> QED BY <1>1, <2>1, <2>2, StepCases
<1>2. ASSUME FlowBase, Settling, RoyaltyPaid, FlowNext PROVE RoyaltyPaid'
  <2>1. CASE flSales' = flSales
    BY <1>2, <2>1 DEF RoyaltyPaid
  <2>2. ASSUME NEW c \in FlowCall, Commit(c) PROVE RoyaltyPaid'
    <3>1. PICK p : p = flPlan[c]
      OBVIOUS
    <3>2. flPc[c] = "commit" /\ Present(p)
      BY <1>2, <2>2, <3>1, CommitFact
    <3>3. Settles(p)
      BY <1>2, <3>1, <3>2, SettlingAs
    <3>4. flSales' = IF p.kind # "settle" THEN flSales
                     ELSE flSales \cup {[due |-> OwedBySeller(p),
                                         paid |-> p.req.price - Net(p, p.req.seller, p.req.priceAsset)]}
      BY <2>2, <3>1 DEF Commit
    <3> QED BY <1>2, <3>2, <3>3, <3>4 DEF RoyaltyPaid, Settles
  <2>3. ASSUME NEW c \in FlowCall, CallStep(c) PROVE flSales' = flSales \/ Commit(c)
    <3>0. flGhost' = flGhost => flSales' = flSales
      BY DEF flGhost
    <3>1. CASE \E p, pc : Entered(c, p, pc)
      BY <3>1 DEF Entered, Enter
    <3> QED BY <2>3, <3>0, <3>1 DEF CallStep, WalletSendTx, SubmitPlainTx, ValidateInHandler, LockCap, ArmAccept,
                                   ArmReject, CommitLoses, ConversionFails, Refused, AccumulateTxFee, MintConversion
  <2>4. CASE EventStep
    <3>1. flSales' = flSales
      BY <2>4 DEF EventStep, Edict, RoyaltyChange, FlowTick, FlowExit, flGhost
    <3> QED BY <2>1, <3>1
  <2> QED BY <1>2, <2>1, <2>2, <2>3, <2>4, StepCases
<1>3. ASSUME RoyaltyInv, UNCHANGED flVars PROVE RoyaltyInv'
  BY <1>3 DEF flVars, flShared, flGhost, flBound, RoyaltyInv, Settling, RoyaltyPaid, Present, Inputs, Net, OwedBySeller
<1> QED BY <1>1, <1>2, <1>3 DEF RoyaltyInv

THEOREM RoyaltyAlwaysPaid == FlowSpec => []RoyaltyPaid
<1>1. FlowInit => RoyaltyInv
  BY DEF FlowInit, RoyaltyInv, Settling, RoyaltyPaid
<1>2. RoyaltyInv => RoyaltyPaid
  BY DEF RoyaltyInv
<1> QED BY <1>1, <1>2, FlowBaseAlways, RoyaltyStep, PTL DEF FlowSpec

-----------------------------------------------------------------------------
(* What plans and blocks balance.                                          *)

LEMMA PlanTotals ==
    ASSUME NEW p, p \in PlanType
    PROVE  \A a : Total(p.outs, a) \in Nat
<1>1. \A o \in OutType : o.amt \in Nat
  BY OutTypeFact
<1>2. p.outs \in Seq(OutType)
  BY DEF PlanType
<1> QED BY <1>1, <1>2, TotalNat

LEMMA ConservedFact ==
    ASSUME FlowBase, NEW p, p \in PlanType, AssetConserved(p), NEW a, a \in FlowAsset
    PROVE  /\ Total(p.outs, a) <= AmountIn(Inputs(p), a)
           /\ DecayOf[a] = 0 => Total(p.outs, a) = AmountIn(Inputs(p), a)
<1> DEFINE S == {y \in Inputs(p) : y.asset = a}
           f == [x \in S |-> EffectiveValue(x)]
           g == [x \in S |-> x.amt]
           in == SumFunction(f)
<1>1. a \in AnyAsset /\ a # Pms
  BY Constants
<1>2. IF DecayOf[a] > 0 THEN Total(p.outs, a) <= in ELSE Total(p.outs, a) = in
  BY <1>1 DEF AssetConserved
<1>3. S \subseteq flCoins /\ FlowTypes
  BY DEF Inputs, FlowBase
<1>4. IsFiniteSet(S) /\ S \subseteq CoinType /\ \A x \in S : x.amt \in Nat /\ x.born <= flNow
  BY <1>3, CoinsFact DEF FlowBase, CoinsKnown
<1>5. ASSUME NEW x \in S
      PROVE  f[x] \in Nat /\ f[x] <= g[x] /\ g[x] \in Nat /\ (DecayOf[a] = 0 => f[x] = g[x])
  <2>1. x.asset = a /\ f[x] = EffectiveValue(x) /\ g[x] = x.amt
    OBVIOUS
  <2>2. EffectiveValue(x) \in Nat /\ EffectiveValue(x) <= x.amt
        /\ (DecayOf[a] = 0 => EffectiveValue(x) = x.amt)
    BY <1>3, <1>4, <2>1, EffectiveNat
  <2> QED BY <1>4, <2>1, <2>2
<1>6. in = SumFunctionOnSet(f, S)
  BY DEF SumFunction
<1>7. AmountIn(Inputs(p), a) = SumFunctionOnSet(g, S)
  BY <1>4, WorthOn DEF AmountIn
<1> HIDE DEF f, g, S, in
<1>8. SumFunctionOnSet(f, S) <= SumFunctionOnSet(g, S)
  BY <1>4, <1>5, SumLe
<1>9. DecayOf[a] = 0 => SumFunctionOnSet(f, S) = SumFunctionOnSet(g, S)
  BY <1>4, <1>5, SumSame
<1>10. SumFunctionOnSet(f, S) \in Nat /\ SumFunctionOnSet(g, S) \in Nat /\ DecayOf[a] \in Nat
       /\ Total(p.outs, a) \in Nat
  BY <1>4, <1>5, SumNat, Constants, PlanTotals
<1> QED BY <1>2, <1>6, <1>7, <1>8, <1>9, <1>10

LEMMA InputAmounts ==
    ASSUME FlowBase, NEW p
    PROVE  IsFiniteSet(Inputs(p)) /\ Inputs(p) \subseteq flCoins /\ \A a : AmountIn(Inputs(p), a) \in Nat
<1>1. Inputs(p) \subseteq flCoins /\ FlowTypes
  BY DEF Inputs, FlowBase
<1> QED BY <1>1, CoinsFact

LEMMA TxChecked ==
    ASSUME FlowBase, NEW p, p \in PlanType, p.kind \in Transfer, ValidTx(p)
    PROVE  BooksChecked(p)
<1>1. AssetConserved(p)
  BY DEF ValidTx
<1>2. p.kind # "burn"
  BY DEF Transfer
<1>3. \A a \in FlowAsset : /\ Total(p.outs, a) <= AmountIn(Inputs(p), a)
                           /\ DecayOf[a] = 0 => Total(p.outs, a) = AmountIn(Inputs(p), a)
  BY <1>1, ConservedFact
<1> QED BY <1>2, <1>3 DEF BooksChecked

LEMMA ArmChecked ==
    ASSUME FlowBase, NEW p, p \in PlanType, Stage(p, "arm"), ValidPayload(p)
    PROVE  BooksChecked(p)
<1>1. CASE p.kind = "plain" \/ p.kind = "settle"
  <2>1. ValidTx(p) /\ p.kind \in Transfer
    BY <1>1 DEF ValidPayload, Transfer
  <2> QED BY <2>1, TxChecked
<1>2. CASE p.kind = "burn"
  <2> DEFINE a == p.req.asset
             m == p.req.amt
             S == Inputs(p)
  <2>1. ValidBurn(p)
    BY <1>2 DEF ValidPayload
  <2>2. \A x \in S : x.asset = a
    BY <2>1 DEF ValidBurn
  <2>3. Worth(S) - Total(p.outs, a) = m
    BY <2>1 DEF ValidBurn
  <2>4. AmountIn(S, a) = Worth(S)
    BY <2>2, AmountSame
  <2>5. AmountIn(S, a) \in Nat /\ Total(p.outs, a) \in Nat
    BY InputAmounts, PlanTotals
  <2>6. AmountIn(S, a) = Total(p.outs, a) + m
    BY <2>3, <2>4, <2>5
  <2> QED BY <1>2, <2>2, <2>6 DEF BooksChecked, Transfer
<1>3. CASE p.kind \notin Transfer /\ p.kind # "burn"
  BY <1>3 DEF BooksChecked
<1>4. p.kind # "sealed"
  BY DEF Stage
<1> QED BY <1>1, <1>2, <1>3, <1>4 DEF Transfer

\* What a plan takes and gives stays so while its inputs are there.
LEMMA BooksSame ==
    ASSUME NEW p, NEW q, Books(p), Inputs(q)' = Inputs(p),
           q.kind = p.kind \/ {p.kind, q.kind} \subseteq Transfer, q.spend = p.spend, q.outs = p.outs,
           q.fee = p.fee, q.due = p.due \/ p.kind # "reverse",
           \A n \in DOMAIN flBlocks : n \in DOMAIN flBlocks' /\ flBlocks'[n] = flBlocks[n]
    PROVE  Books(q)'
<1>1. q.kind = p.kind \/ (p.kind \in Transfer /\ q.kind \in Transfer)
  OBVIOUS
<1>2. q.kind \in Transfer => AmountIn(Inputs(q)', Pms) = Total(q.outs, Pms) + q.fee
  BY <1>1 DEF Books
<1>3. q.kind = "seize" => \A a \in AnyAsset : AmountIn(Inputs(q)', a) = Total(q.outs, a)
  BY <1>1 DEF Books, Transfer
<1>4. ASSUME q.kind = "reverse"
      PROVE  \E n \in DOMAIN flBlocks' :
               LET old == flBlocks'[n]
               IN /\ old.kind = "plain" /\ q.outs = old.refund /\ q.due = old.fee
                  /\ q.spend = {<<n, i>> : i \in DOMAIN old.outs}
  <2>1. p.kind = "reverse" /\ q.due = p.due
    BY <1>1, <1>4 DEF Transfer
  <2>2. PICK n \in DOMAIN flBlocks :
             LET old == flBlocks[n]
             IN /\ old.kind = "plain" /\ p.outs = old.refund /\ p.due = old.fee
                /\ p.spend = {<<n, i>> : i \in DOMAIN old.outs}
    BY <2>1 DEF Books
  <2> QED BY <2>1, <2>2
<1> QED BY <1>2, <1>3, <1>4 DEF Books

LEMMA CheckedSame ==
    ASSUME NEW p, NEW q, BooksChecked(p), Inputs(q)' = Inputs(p),
           q.kind = p.kind, q.req = p.req, q.outs = p.outs
    PROVE  BooksChecked(q)'
BY DEF BooksChecked

\* The books of the call that is at its place.
Balanced(c, p) == Present(p) => Books(p) /\ (flPc[c] = "commit" => BooksChecked(p))
BlocksBalanced == \A n \in DOMAIN flBlocks : BlockBooks(flBlocks[n])

LEMMA BooksKeptAs ==
    BooksKept <=> (\A c \in FlowCall : flPc[c] # "idle" => Balanced(c, flPlan[c])) /\ BlocksBalanced
BY DEF BooksKept, Balanced, BlocksBalanced, FlowInFlight

LEMMA BalancedOther ==
    ASSUME FlowBase, BooksKept, NEW c, c \in FlowCall, CallStep(c),
           NEW d, d \in FlowCall, d # c, flPc'[d] # "idle", NEW q, q = flPlan[d]
    PROVE  flPlan'[d] = q /\ Balanced(d, q)'
<1>1. /\ flPlan'[d] = q /\ flPc'[d] = flPc[d] /\ flPc[d] # "idle"
      /\ Present(q)' => Present(q) /\ Inputs(q)' = Inputs(q)
  BY OtherInputs
<1>2. Balanced(d, q)
  BY <1>1, BooksKeptAs
<1>3. \A n \in DOMAIN flBlocks : n \in DOMAIN flBlocks' /\ flBlocks'[n] = flBlocks[n]
  <2>1. CASE Commit(c)
    <3>1. PICK p : p = flPlan[c]
      OBVIOUS
    <3> QED BY <2>1, <3>1, CommitFact
  <2>2. CASE flBlocks' = flBlocks
    BY <2>2
  <2> QED BY <2>1, <2>2, CallFrame
<1>4. ASSUME Present(q)' PROVE Books(q)' /\ (flPc'[d] = "commit" => BooksChecked(q)')
  <2>1. Books(q) /\ (flPc[d] = "commit" => BooksChecked(q)) /\ Inputs(q)' = Inputs(q)
    BY <1>1, <1>2, <1>4 DEF Balanced
  <2>2. Books(q)'
    BY <1>3, <2>1, BooksSame
  <2>3. BooksChecked(q) => BooksChecked(q)'
    BY <2>1, CheckedSame
  <2> QED BY <1>1, <2>1, <2>2, <2>3
<1> QED BY <1>1, <1>4 DEF Balanced

LEMMA OnwardAt ==
    ASSUME FlowBase, NEW c, c \in FlowCall, NEW q, NEW pc, Onward(c, q, pc)
    PROVE  /\ flPlan'[c] = q /\ flPc'[c] = pc /\ flPc[c] # "idle"
           /\ flCoins' = flCoins /\ flBlocks' = flBlocks
<1>1. FlowTypes /\ flPc' = [flPc EXCEPT ![c] = pc] /\ flPlan' = [flPlan EXCEPT ![c] = q]
      /\ flPc[c] # "idle" /\ flCoins' = flCoins /\ flBlocks' = flBlocks
  BY DEF Onward, FlowBase
<1>2. flPc'[c] = pc /\ flPlan'[c] = q
  BY <1>1, Elsewhere
<1> QED BY <1>1, <1>2

\* A step of a handler before its block, the plan almost as it was.
LEMMA BalancedOnward ==
    ASSUME FlowBase, BooksKept, NEW c, c \in FlowCall, NEW q, NEW pc, Onward(c, q, pc),
           NEW p, p = flPlan[c], q.kind = p.kind \/ {p.kind, q.kind} \subseteq Transfer,
           q.spend = p.spend, q.outs = p.outs,
           q.fee = p.fee, q.due = p.due \/ p.kind # "reverse",
           pc = "commit" => BooksChecked(p) /\ q.kind = p.kind /\ q.req = p.req
    PROVE  flPlan'[c] = q /\ Balanced(c, q)'
<1>1. /\ flPlan'[c] = q /\ flPc'[c] = pc /\ flPc[c] # "idle" /\ flCoins' = flCoins /\ flBlocks' = flBlocks
  BY OnwardAt
<1>2. Balanced(c, p)
  BY <1>1, BooksKeptAs
<1>3. Inputs(q)' = Inputs(p) /\ (Present(q)' <=> Present(p))
  BY <1>1 DEF Inputs, Present
<1>4. ASSUME Present(q)' PROVE Books(q)' /\ (flPc'[c] = "commit" => BooksChecked(q)')
  <2>1. Books(p)
    BY <1>2, <1>3, <1>4 DEF Balanced
  <2>2. Books(q)'
    BY <1>1, <1>3, <2>1, BooksSame
  <2>3. pc = "commit" => BooksChecked(q)'
    BY <1>3, CheckedSame
  <2> QED BY <1>1, <2>2, <2>3
<1> QED BY <1>1, <1>4 DEF Balanced

LEMMA BooksSelf ==
    ASSUME FlowBase, BooksKept, NEW c, c \in FlowCall, CallStep(c), flPc'[c] # "idle"
    PROVE  Balanced(c, flPlan[c])'
<1>0. FlowTypes
  BY DEF FlowBase
<1>p. PICK p : p = flPlan[c]
  OBVIOUS
<1>1. CASE \E q, pc : Entered(c, q, pc)
  <2>1. PICK q, pc : Entered(c, q, pc)
    BY <1>1
  <2>2. /\ flPlan'[c] = q /\ flPc'[c] = pc /\ pc # "commit" /\ flCoins' = flCoins /\ flBlocks' = flBlocks
        /\ Books(q)
    BY <1>0, <2>1, Elsewhere DEF Entered, Enter
  <2>3. Inputs(q)' = Inputs(q)
    BY <2>2 DEF Inputs
  <2>4. Books(q)'
    BY <2>2, <2>3, BooksSame
  <2>5. Balanced(c, q)'
    BY <2>2, <2>4 DEF Balanced
  <2> QED BY <2>2, <2>5 DEF Balanced, Present, Inputs, Books, BooksChecked
<1>2. ASSUME NEW q, flPlan'[c] = q /\ Balanced(c, q)' PROVE Balanced(c, flPlan[c])'
  BY <1>2 DEF Balanced, Present, Inputs, Books, BooksChecked
<1>3. ASSUME Leave(c) PROVE FALSE
  BY <1>0, <1>3 DEF Leave, FlowTypes
<1>4. CASE WalletSendTx(c)
  <2>1. Onward(c, p, "handler")
    BY <1>4, <1>p, ResealFact
  <2> QED BY <1>2, <1>p, <2>1, BalancedOnward
<1>5. CASE SubmitPlainTx(c)
  <2>1. PICK q : q = [p EXCEPT !.kind = "plain"]
    OBVIOUS
  <2>2. Onward(c, q, "arm") /\ p \in PlanType /\ p.kind = "sealed"
    BY <1>5, <1>p, <2>1, OpenFact, KnownSpend DEF SubmitPlainTx, Stage
  <2>3. q.kind = "plain" /\ q.spend = p.spend /\ q.outs = p.outs /\ q.fee = p.fee /\ q.due = p.due
    BY <2>1, <2>2 DEF PlanType
  <2>4. {p.kind, q.kind} \subseteq Transfer
    BY <2>2, <2>3 DEF Transfer
  <2>5. flPlan'[c] = q /\ Balanced(c, q)'
    BY <1>p, <2>2, <2>3, <2>4, BalancedOnward
  <2> QED BY <1>2, <2>5
<1>6. CASE ValidateInHandler(c)
  <2>1. Onward(c, p, "commit") /\ ValidTx(p)
    BY <1>3, <1>6, <1>p, ValidFact
  <2>2. p \in PlanType /\ p.kind = "sealed"
    BY <1>6, <1>p, KnownSpend DEF ValidateInHandler, Stage
  <2>3. BooksChecked(p)
    BY <2>1, <2>2, TxChecked DEF Transfer
  <2>4. flPlan'[c] = p /\ Balanced(c, p)'
    BY <1>p, <2>1, <2>3, BalancedOnward
  <2> QED BY <1>2, <2>4
<1>7. CASE LockCap(c)
  <2>1. Onward(c, p, "arm")
    BY <1>7, <1>p, LockFact
  <2> QED BY <1>2, <1>p, <2>1, BalancedOnward
<1>8. CASE ArmAccept(c)
  <2>1. PICK q : q = Accepted(p)
    OBVIOUS
  <2>2. Onward(c, q, "commit") /\ ValidPayload(p) /\ Stage(p, "arm") /\ p \in PlanType
    BY <1>8, <1>p, <2>1, AcceptFact, KnownSpend
  <2>3. /\ q.kind = p.kind /\ q.spend = p.spend /\ q.outs = p.outs /\ q.fee = p.fee /\ q.req = p.req
        /\ q.due = p.due \/ p.kind # "reverse"
    BY <2>1, <2>2, AcceptedFact DEF Stage
  <2>4. BooksChecked(p)
    BY <2>2, ArmChecked
  <2>5. flPlan'[c] = q /\ Balanced(c, q)'
    BY <1>p, <2>2, <2>3, <2>4, BalancedOnward
  <2> QED BY <1>2, <2>5
<1>9. CASE ArmReject(c) \/ CommitLoses(c) \/ ConversionFails(c)
  BY <1>3, <1>9 DEF ArmReject, CommitLoses, ConversionFails, Refused
<1>10. CASE AccumulateTxFee(c)
  BY <1>3, <1>10 DEF AccumulateTxFee
<1>11. CASE MintConversion(c)
  <2>1. PICK q : q = flPlan'[c]
    OBVIOUS
  <2>2. flPlan'[c] = q /\ q.kind = "conversion" /\ flPc'[c] = "arm"
    <3>1. Onward(c, Conversion(flPlan[c]), "arm") /\ Conversion(flPlan[c]).kind = "conversion"
      BY <1>11, ConversionFact
    <3>2. flPlan'[c] = Conversion(flPlan[c]) /\ flPc'[c] = "arm"
      BY <1>0, <3>1, Elsewhere DEF Onward
    <3> QED BY <2>1, <3>1, <3>2
  <2>3. Books(q)'
    BY <2>2 DEF Books, Transfer
  <2>4. Balanced(c, q)'
    BY <2>2, <2>3 DEF Balanced
  <2> QED BY <1>2, <2>2, <2>4
<1>12. CASE Commit(c)
  <2>1. PICK q, pc : After(c, p, q, pc)
    BY <1>12, <1>p, CommitFact
  <2>2. flPlan'[c] = q /\ flPc'[c] = pc
    BY <1>0, <2>1, Elsewhere DEF After
  <2>3. pc = "post" /\ q = p
    BY <2>1, <2>2 DEF After
  <2>4. /\ flPc[c] = "commit" /\ Present(p)
        /\ \A n \in DOMAIN flBlocks : n \in DOMAIN flBlocks' /\ flBlocks'[n] = flBlocks[n]
    BY <1>12, <1>p, CommitFact
  <2>5. \A i \in p.spend : i[1] <= Len(flBlocks)
    BY <1>p, <2>4, KnownSpend
  <2>6. Present(p)' => Inputs(p)' = Inputs(p)
    BY <1>12, <2>5, InputsAfter
  <2>7. Books(p)
    BY <1>p, <2>4, BooksKeptAs DEF Balanced
  <2>8. Present(p)' => Books(p)'
    BY <2>4, <2>6, <2>7, BooksSame
  <2>9. Balanced(c, p)'
    BY <2>2, <2>3, <2>8 DEF Balanced
  <2> QED BY <1>2, <2>2, <2>3, <2>9
<1> QED BY <1>1, <1>4, <1>5, <1>6, <1>7, <1>8, <1>9, <1>10, <1>11, <1>12 DEF CallStep

LEMMA BlocksStep ==
    ASSUME FlowBase, BooksKept, NEW c, c \in FlowCall, CallStep(c)
    PROVE  BlocksBalanced'
<1>1. BlocksBalanced
  BY BooksKeptAs
<1>2. CASE flBlocks' = flBlocks
  BY <1>1, <1>2 DEF BlocksBalanced
<1>3. CASE Commit(c)
  <2>1. PICK p : p = flPlan[c]
    OBVIOUS
  <2>2. /\ flPc[c] = "commit" /\ Present(p) /\ p \in PlanType /\ Stage(p, "commit")
        /\ flBlocks'[Len(flBlocks) + 1] = BlockOf(p)
        /\ \A n \in DOMAIN flBlocks : flBlocks'[n] = flBlocks[n]
        /\ DOMAIN flBlocks' = DOMAIN flBlocks \cup {Len(flBlocks) + 1}
    BY <1>3, <2>1, CommitFact
  <2>3. BlockBooks(BlockOf(p))
    <3> SUFFICES ASSUME p.kind = "plain" PROVE BlockBooks(BlockOf(p))
      BY DEF BlockBooks, BlockOf
    <3>1. BlockOf(p).outs = p.outs /\ BlockOf(p).fee = p.fee /\ BlockOf(p).refund = Refund(p)
      BY DEF BlockOf
    <3>2. \A a : Total(Refund(p), a) = AmountIn(Inputs(p), a)
      BY RefundFact
    <3>3. Books(p) /\ BooksChecked(p) /\ p.outs # <<>> /\ p.kind \in Transfer
      BY <2>1, <2>2, BooksKeptAs DEF Balanced, Stage, Transfer
    <3>4. AmountIn(Inputs(p), Pms) = Total(p.outs, Pms) + p.fee
      BY <3>3 DEF Books
    <3>5. \A a \in FlowAsset : /\ Total(p.outs, a) <= AmountIn(Inputs(p), a)
                               /\ DecayOf[a] = 0 => Total(p.outs, a) = AmountIn(Inputs(p), a)
      BY <3>3 DEF BooksChecked
    <3> QED BY <3>1, <3>2, <3>3, <3>4, <3>5 DEF BlockBooks
  <2>4. ASSUME NEW n \in DOMAIN flBlocks' PROVE BlockBooks(flBlocks'[n])
    <3>1. CASE n \in DOMAIN flBlocks
      BY <1>1, <2>2, <3>1 DEF BlocksBalanced
    <3>2. CASE n = Len(flBlocks) + 1
      BY <2>2, <2>3, <3>2
    <3> QED BY <2>2, <3>1, <3>2
  <2> QED BY <2>4 DEF BlocksBalanced
<1> QED BY <1>2, <1>3, CallFrame

LEMMA BooksCall ==
    ASSUME FlowBase, BooksKept, NEW c, c \in FlowCall, CallStep(c)
    PROVE  BooksKept'
<1>1. ASSUME NEW d, d \in FlowCall, flPc'[d] # "idle" PROVE Balanced(d, flPlan[d])'
  <2>1. CASE d = c
    BY <1>1, <2>1, BooksSelf
  <2>2. CASE d # c
    <3>1. PICK q : q = flPlan[d]
      OBVIOUS
    <3>2. flPlan'[d] = q /\ Balanced(d, q)'
      BY <1>1, <2>2, <3>1, BalancedOther
    <3> QED BY <3>2 DEF Balanced, Present, Inputs, Books, BooksChecked
  <2> QED BY <2>1, <2>2
<1>2. BlocksBalanced'
  BY BlocksStep
<1> QED BY <1>1, <1>2 DEF BooksKept, Balanced, BlocksBalanced, FlowInFlight

LEMMA BooksEvent ==
    ASSUME FlowBase, BooksKept, EventStep
    PROVE  BooksKept'
<1>1. flCoins' = flCoins /\ flBlocks' = flBlocks
  BY DEF EventStep, Edict, RoyaltyChange, FlowTick, FlowExit, flShared
<1>2. UNCHANGED <<flPc, flPlan>> \/ \A c \in FlowCall : flPc'[c] = "idle"
  BY DEF EventStep, Edict, RoyaltyChange, FlowTick, FlowExit
<1>3. CASE UNCHANGED <<flPc, flPlan>>
  BY <1>1, <1>3 DEF BooksKept, FlowInFlight, Present, Inputs, Books, BooksChecked
<1>4. CASE \A c \in FlowCall : flPc'[c] = "idle"
  BY <1>1, <1>4 DEF BooksKept, FlowInFlight
<1> QED BY <1>2, <1>3, <1>4

LEMMA BooksStep == FlowBase /\ BooksKept /\ [FlowNext]_flVars => BooksKept'
<1>1. ASSUME FlowBase, BooksKept, FlowNext PROVE BooksKept'
  <2>1. ASSUME NEW c \in FlowCall, CallStep(c) PROVE BooksKept'
    BY <1>1, <2>1, BooksCall
  <2>2. CASE EventStep
    BY <1>1, <2>2, BooksEvent
  <2> QED BY <1>1, <2>1, <2>2, StepCases
<1>2. ASSUME BooksKept, UNCHANGED flVars PROVE BooksKept'
  BY <1>2 DEF flVars, flShared, flGhost, flBound, BooksKept, FlowInFlight, Present, Inputs, Books, BooksChecked
<1> QED BY <1>1, <1>2

LEMMA BooksAlways == FlowSpec => []BooksKept
<1>1. FlowInit => BooksKept
  BY DEF FlowInit, BooksKept, FlowInFlight
<1> QED BY <1>1, FlowBaseAlways, BooksStep, PTL DEF FlowSpec

-----------------------------------------------------------------------------
(* What a block takes and gives of each asset.                             *)

LEMMA HeldAfter ==
    ASSUME FlowBase, NEW c, c \in FlowCall, Commit(c), NEW p, p = flPlan[c], NEW a
    PROVE  /\ Held(a)' = Held(a) - AmountIn(Inputs(p), a) + Total(p.outs, a)
           /\ Held(a) \in Nat /\ AmountIn(Inputs(p), a) \in Nat /\ Total(p.outs, a) \in Nat
           /\ AmountIn(Inputs(p), a) <= Held(a)
<1> DEFINE R == Inputs(p)
           N == Created(p)
           K == flCoins \ R
<1>1. FlowTypes /\ CoinsKnown /\ R \subseteq flCoins
  BY DEF FlowBase, Inputs
<1>2. flCoins' = K \cup N /\ p \in PlanType /\ Len(flBlocks) \in Nat
  BY CommitFact
<1>3. /\ N \subseteq CoinType /\ IsFiniteSet(N)
      /\ \A x \in N : x.id[1] = Len(flBlocks) + 1
      /\ AmountIn(N, a) = Total(p.outs, a)
  BY <1>2, CreatedFact DEF PlanType
<1>4. IsFiniteSet(flCoins) /\ \A x \in flCoins : x.amt \in Nat
  BY <1>1, CoinsFact
<1>5. AmountIn(K, a) = AmountIn(flCoins, a) - AmountIn(R, a) /\ AmountIn(R, a) \in Nat /\ AmountIn(K, a) \in Nat
  BY <1>1, <1>4, AmountMinus
<1>6. K \cap N = {}
  <2>1. \A x \in flCoins : x.id[1] <= Len(flBlocks)
    BY <1>1 DEF CoinsKnown
  <2> QED BY <1>2, <1>3, <2>1
<1>7. IsFiniteSet(K) /\ \A x \in K \cup N : x.amt \in Nat
  BY <1>3, <1>4, FS_Subset DEF CoinType
<1>8. AmountIn(K \cup N, a) = AmountIn(K, a) + AmountIn(N, a)
  <2> HIDE DEF K, N
  <2> QED BY <1>3, <1>6, <1>7, AmountUnion
<1>9. AmountIn(flCoins, a) \in Nat /\ Total(p.outs, a) \in Nat
  BY <1>1, <1>2, CoinsFact, PlanTotals
<1>10. Held(a)' = AmountIn(K \cup N, a)
  BY <1>2 DEF Held
<1>11. Held(a) = AmountIn(flCoins, a)
  BY DEF Held
<1> HIDE DEF K, N, R
<1> QED BY <1>3, <1>5, <1>8, <1>9, <1>10, <1>11 DEF R

\* The block a reversal undoes, and what it gave.
LEMMA ReverseTakes ==
    ASSUME FlowBase, BooksKept, NEW p, p.kind = "reverse", Books(p), Present(p)
    PROVE  \E n \in DOMAIN flBlocks :
             /\ flBlocks[n].kind = "plain" /\ p.outs = flBlocks[n].refund /\ p.due = flBlocks[n].fee
             /\ p.spend = IdsOf(n) /\ BlockBooks(flBlocks[n]) /\ flBlocks[n] \in BlockType
             /\ \A a : AmountIn(Inputs(p), a) = Total(flBlocks[n].outs, a)
<1>1. PICK n \in DOMAIN flBlocks :
           LET old == flBlocks[n]
           IN /\ old.kind = "plain" /\ p.outs = old.refund /\ p.due = old.fee
              /\ p.spend = {<<n, i>> : i \in DOMAIN old.outs}
  BY DEF Books
<1> DEFINE outs == flBlocks[n].outs
           D == DOMAIN outs
           S == Inputs(p)
<1>2. FlowTypes /\ CoinsKnown /\ flBlocks[n] \in BlockType /\ n \in Nat /\ n > 0
  BY DEF FlowBase, FlowTypes
<1>3. outs \in Seq(OutType) /\ p.spend = IdsOf(n) /\ BlockBooks(flBlocks[n])
  BY <1>1, <1>2, BooksKeptAs DEF BlockType, IdsOf, BlocksBalanced
<1>4. \A i \in D : <<n, i>> \in p.spend
  BY <1>1
<1>5. \A i \in D : \E x \in S : x.id = <<n, i>>
  <2>1. Ids(S) = p.spend
    BY DEF Present, Ids
  <2> QED BY <1>4, <2>1 DEF Ids
<1> DEFINE h == [i \in D |-> CHOOSE x \in S : x.id = <<n, i>>]
<1>6. \A i \in D : h[i] \in S /\ h[i].id = <<n, i>>
  BY <1>5
<1> HIDE DEF h
<1>7. \A i, j \in D : h[i] = h[j] => i = j
  BY <1>6
<1>8. ASSUME NEW i \in D PROVE h[i].asset = outs[i].asset /\ h[i].amt = outs[i].amt
  <2>1. h[i] \in flCoins /\ h[i].id = <<n, i>>
    BY <1>6 DEF Inputs
  <2>2. h[i].id[1] = n /\ h[i].id[2] = i
    BY <2>1
  <2> QED BY <1>2, <2>1, <2>2 DEF CoinsKnown
<1>9. ASSUME NEW x \in S PROVE \E i \in D : x = h[i]
  <2>1. x \in flCoins /\ x.id \in p.spend
    BY DEF Inputs
  <2>2. PICK i \in D : x.id = <<n, i>>
    BY <1>1, <2>1
  <2>3. h[i] \in flCoins /\ h[i].id = <<n, i>>
    BY <1>6 DEF Inputs
  <2>4. x = h[i]
    BY <1>2, <2>1, <2>2, <2>3 DEF CoinsKnown
  <2> QED BY <2>4
<1>10. {h[i] : i \in D} = S
  BY <1>6, <1>9
<1>11. ASSUME NEW a PROVE AmountIn(S, a) = Total(outs, a)
  <2>1. \A o \in OutType : o.amt \in Nat
    BY OutTypeFact
  <2>2. outs \in Seq(OutType)
    BY <1>3
  <2>3. \A i, j \in DOMAIN outs : h[i] = h[j] => i = j
    BY <1>7
  <2>4. \A i \in DOMAIN outs : h[i].asset = outs[i].asset /\ h[i].amt = outs[i].amt
    BY <1>8
  <2> HIDE DEF outs
  <2>5. AmountIn({h[i] : i \in DOMAIN outs}, a) = Total(outs, a)
    BY <2>1, <2>2, <2>3, <2>4, OutputsImage
  <2> QED BY <1>10, <2>5
<1> QED BY <1>1, <1>2, <1>3, <1>11

-----------------------------------------------------------------------------
(* Supply caps.                                                            *)

CapPairs(a) ==
    \A c, d \in FlowCall : c # d /\ Minting(c, a) /\ Minting(d, a) =>
        \/ flPlan[c].kind = "custodial" /\ flPlan[d].kind = "custodial" /\ (flPc[c] = "lock" \/ flPc[d] = "lock")
        \/ a \in flCapRaced /\ ~(flPlan[c].kind = "custodial" /\ flPlan[d].kind = "custodial")
CapLocks(a) ==
    \A c \in FlowCall : Minting(c, a) /\ flPlan[c].kind = "custodial" /\ flPc[c] # "lock" => a \in flMintLock
CapSupply(a) ==
    a \notin flCapRaced /\ DecayOf[a] = 0 =>
        /\ Held(a) <= CapOf[a]
        /\ \A c \in FlowCall : Minting(c, a) /\ flPc[c] = "commit" => Held(a) + Total(flPlan[c].outs, a) <= CapOf[a]

LEMMA CapHeldAs == CapHeld <=> \A a \in FlowAsset : CapPairs(a) /\ CapLocks(a) /\ CapSupply(a)
<1>1. ASSUME CapHeld, NEW a \in FlowAsset PROVE CapPairs(a) /\ CapLocks(a) /\ CapSupply(a)
  <2>1. CapPairs(a)
    BY <1>1 DEF CapHeld, CapPairs
  <2>2. CapLocks(a)
    BY <1>1 DEF CapHeld, CapLocks
  <2>3. CapSupply(a)
    BY <1>1 DEF CapHeld, CapSupply
  <2> QED BY <2>1, <2>2, <2>3
<1>2. ASSUME \A a \in FlowAsset : CapPairs(a) /\ CapLocks(a) /\ CapSupply(a) PROVE CapHeld
  BY <1>2 DEF CapHeld, CapPairs, CapLocks, CapSupply
<1> QED BY <1>1, <1>2

LEMMA CapHeldNext == (CapHeld <=> \A a \in FlowAsset : CapPairs(a) /\ CapLocks(a) /\ CapSupply(a))'
BY CapHeldAs, PTL

\* What the other calls do not see, they do not lose.
LEMMA OthersMint ==
    ASSUME NEW c, \A d \in FlowCall : d # c => flPc'[d] = flPc[d] /\ flPlan'[d] = flPlan[d],
           NEW d, d \in FlowCall, d # c, NEW a
    PROVE  Minting(d, a)' <=> Minting(d, a)
BY DEF Minting

\* A step that makes no call a minting one and lets none pass its lock.
LEMMA PairsKept ==
    ASSUME NEW a, CapPairs(a), NEW c, c \in FlowCall,
           \A d \in FlowCall : d # c => flPc'[d] = flPc[d] /\ flPlan'[d] = flPlan[d],
           Minting(c, a)' => /\ Minting(c, a) /\ flPlan'[c].kind = flPlan[c].kind
                             /\ flPc[c] = "lock" => flPc'[c] = "lock",
           a \in flCapRaced => a \in flCapRaced'
    PROVE  CapPairs(a)'
<1> SUFFICES ASSUME NEW d, d \in FlowCall, NEW e, e \in FlowCall, d # e, Minting(d, a)', Minting(e, a)'
             PROVE  \/ flPlan'[d].kind = "custodial" /\ flPlan'[e].kind = "custodial"
                         /\ (flPc'[d] = "lock" \/ flPc'[e] = "lock")
                    \/ a \in flCapRaced' /\ ~(flPlan'[d].kind = "custodial" /\ flPlan'[e].kind = "custodial")
  BY DEF CapPairs
<1>1. ASSUME NEW x, x \in FlowCall, Minting(x, a)'
      PROVE  /\ Minting(x, a) /\ flPlan'[x].kind = flPlan[x].kind
             /\ flPc[x] = "lock" => flPc'[x] = "lock"
  BY <1>1, OthersMint
<1>2. /\ Minting(d, a) /\ flPlan'[d].kind = flPlan[d].kind /\ (flPc[d] = "lock" => flPc'[d] = "lock")
      /\ Minting(e, a) /\ flPlan'[e].kind = flPlan[e].kind /\ (flPc[e] = "lock" => flPc'[e] = "lock")
  BY <1>1
<1>3. \/ flPlan[d].kind = "custodial" /\ flPlan[e].kind = "custodial" /\ (flPc[d] = "lock" \/ flPc[e] = "lock")
      \/ a \in flCapRaced /\ ~(flPlan[d].kind = "custodial" /\ flPlan[e].kind = "custodial")
  BY <1>2 DEF CapPairs
<1>4. CASE flPlan[d].kind = "custodial" /\ flPlan[e].kind = "custodial" /\ (flPc[d] = "lock" \/ flPc[e] = "lock")
  <2>1. flPlan'[d].kind = "custodial" /\ flPlan'[e].kind = "custodial"
    BY <1>2, <1>4
  <2>2. flPc'[d] = "lock" \/ flPc'[e] = "lock"
    BY <1>2, <1>4
  <2> QED BY <2>1, <2>2
<1>5. CASE a \in flCapRaced /\ ~(flPlan[d].kind = "custodial" /\ flPlan[e].kind = "custodial")
  <2>1. a \in flCapRaced'
    BY <1>5
  <2>2. ~(flPlan'[d].kind = "custodial" /\ flPlan'[e].kind = "custodial")
    BY <1>2, <1>5
  <2> QED BY <2>1, <2>2
<1> QED BY <1>3, <1>4, <1>5

LEMMA LocksKept ==
    ASSUME NEW a, CapLocks(a), NEW c, c \in FlowCall,
           \A d \in FlowCall : d # c => flPc'[d] = flPc[d] /\ flPlan'[d] = flPlan[d],
           Minting(c, a)' => /\ Minting(c, a) /\ flPlan'[c].kind = flPlan[c].kind
                             /\ flPc[c] = "lock" => flPc'[c] = "lock",
           a \in flMintLock => a \in flMintLock'
    PROVE  CapLocks(a)'
<1> SUFFICES ASSUME NEW d, d \in FlowCall, Minting(d, a)', flPlan'[d].kind = "custodial", flPc'[d] # "lock"
             PROVE  a \in flMintLock'
  BY DEF CapLocks
<1>1. Minting(d, a) /\ flPlan[d].kind = "custodial" /\ flPc[d] # "lock"
  BY OthersMint
<1> QED BY <1>1 DEF CapLocks

\* A custodial mint that leaves opens the lock to those that wait for it.
LEMMA LocksOpened ==
    ASSUME NEW a, CapLocks(a), CapPairs(a), NEW c, c \in FlowCall, flPc[c] # "lock",
           \A d \in FlowCall : d # c => flPc'[d] = flPc[d] /\ flPlan'[d] = flPlan[d],
           ~Minting(c, a)', flPc[c] # "idle", Unlock(c)
    PROVE  CapLocks(a)'
<1> SUFFICES ASSUME NEW d, d \in FlowCall, Minting(d, a)', flPlan'[d].kind = "custodial", flPc'[d] # "lock"
             PROVE  a \in flMintLock'
  BY DEF CapLocks
<1>1. d # c /\ Minting(d, a) /\ flPlan[d].kind = "custodial" /\ flPc[d] # "lock"
  BY OthersMint
<1>2. a \in flMintLock
  BY <1>1 DEF CapLocks
<1>3. ~(flPlan[c].kind = "custodial" /\ flPlan[c].req.asset = a)
  <2> SUFFICES ASSUME flPlan[c].kind = "custodial", flPlan[c].req.asset = a PROVE FALSE
    OBVIOUS
  <2>1. Minting(c, a)
    BY DEF Minting, CappedMint
  <2> QED BY <1>1, <2>1 DEF CapPairs
<1> QED BY <1>2, <1>3 DEF Unlock

LEMMA SupplyKept ==
    ASSUME NEW a, CapSupply(a), NEW c, c \in FlowCall, Held(a)' = Held(a),
           \A d \in FlowCall : d # c => flPc'[d] = flPc[d] /\ flPlan'[d] = flPlan[d],
           Minting(c, a)' /\ flPc'[c] = "commit" /\ a \notin flCapRaced /\ DecayOf[a] = 0 =>
               Held(a) + Total(flPlan'[c].outs, a) <= CapOf[a],
           a \in flCapRaced => a \in flCapRaced'
    PROVE  CapSupply(a)'
<1> SUFFICES ASSUME a \notin flCapRaced', DecayOf[a] = 0
             PROVE  /\ Held(a)' <= CapOf[a]
                    /\ \A d \in FlowCall : Minting(d, a)' /\ flPc'[d] = "commit" =>
                         Held(a)' + Total(flPlan'[d].outs, a) <= CapOf[a]
  BY DEF CapSupply
<1>1. a \notin flCapRaced /\ Held(a) <= CapOf[a]
  BY DEF CapSupply
<1>2. ASSUME NEW d, d \in FlowCall, Minting(d, a)', flPc'[d] = "commit"
      PROVE  Held(a) + Total(flPlan'[d].outs, a) <= CapOf[a]
  <2>1. CASE d = c
    BY <1>1, <1>2, <2>1
  <2>2. CASE d # c
    <3>1. Minting(d, a) /\ flPc[d] = "commit" /\ flPlan'[d] = flPlan[d]
      BY <1>2, <2>2, OthersMint
    <3>2. \A e \in FlowCall : Minting(e, a) /\ flPc[e] = "commit" => Held(a) + Total(flPlan[e].outs, a) <= CapOf[a]
      BY <1>1 DEF CapSupply
    <3>3. Held(a) + Total(flPlan[d].outs, a) <= CapOf[a]
      BY <1>2, <3>1, <3>2
    <3>4. PICK p : p = flPlan[d] /\ p = flPlan'[d]
      BY <3>1
    <3> QED BY <3>3, <3>4
  <2> QED BY <2>1, <2>2
<1> QED BY <1>1, <1>2

\* What a validated plan takes of each asset is what it gives, with what it
\* mints, burns, pays as a fee and re-creates.
Burns(p, a) == IF p.kind = "burn" /\ p.req.asset = a THEN p.req.amt ELSE 0
Revived(p) == IF p.kind = "reverse" THEN p.due ELSE 0

LEMMA AmountOfNone ==
    ASSUME FlowBase, NEW p, p.spend = {}, NEW a
    PROVE  AmountIn(Inputs(p), a) = 0
<1>1. Inputs(p) = {}
  BY DEF Inputs
<1>2. {x \in Inputs(p) : x.asset = a} = {}
  BY <1>1
<1> QED BY <1>2, WorthEmpty DEF AmountIn

LEMMA InAndOut ==
    ASSUME FlowBase, BooksKept, NEW c, c \in FlowCall, flPc[c] = "commit", NEW p, p = flPlan[c], Present(p)
    PROVE  /\ AmountIn(Inputs(p), Pms) + Minted(p, Pms) + Revived(p) = Total(p.outs, Pms) + Burns(p, Pms) + p.fee
           /\ \A a \in FlowAsset :
                DecayOf[a] = 0 \/ p.kind \notin Transfer \cup {"reverse"} =>
                  AmountIn(Inputs(p), a) + Minted(p, a) = Total(p.outs, a) + Burns(p, a)
           /\ \A a \in AnyAsset : Minted(p, a) \in Nat /\ Burns(p, a) \in Nat
           /\ p.kind \in Transfer \cup {"reverse"} => \A a \in AnyAsset : Minted(p, a) = 0 /\ Burns(p, a) = 0
           /\ Revived(p) \in Nat
<1>0. /\ p \in PlanType /\ Stage(p, "commit") /\ p.fee \in Nat /\ p.due \in Nat /\ p.req \in FlowRequest
      /\ p.kind \in Kind
  BY KnownSpend
<1>1. Books(p) /\ BooksChecked(p)
  BY BooksKeptAs DEF Balanced
<1>2. \A a : Total(p.outs, a) \in Nat /\ AmountIn(Inputs(p), a) \in Nat
  BY <1>0, PlanTotals, InputAmounts
<1>3. \A a \in AnyAsset : Minted(p, a) \in Nat
  BY <1>2 DEF Minted
<1>4. \A a \in AnyAsset : Burns(p, a) \in Nat
  BY <1>0, RequestShape DEF Burns, Stage
<1>5. Revived(p) \in Nat
  BY <1>0 DEF Revived
<1>6. p.kind \in Transfer \cup {"reverse"} => \A a \in AnyAsset : Minted(p, a) = 0 /\ Burns(p, a) = 0
  BY DEF Transfer, Minted, Burns
<1>7. p.kind \notin Transfer => p.fee = 0
  BY <1>0 DEF Stage
<1>8. Pms \in AnyAsset /\ \A a \in FlowAsset : a \in AnyAsset /\ a # Pms
  BY Constants
<1> DEFINE In(a) == AmountIn(Inputs(p), a)
           Gives(a) == Total(p.outs, a)
           Goal == /\ In(Pms) + Minted(p, Pms) + Revived(p) = Gives(Pms) + Burns(p, Pms) + p.fee
                   /\ \A a \in FlowAsset : DecayOf[a] = 0 \/ p.kind \notin Transfer \cup {"reverse"} =>
                        In(a) + Minted(p, a) = Gives(a) + Burns(p, a)
<1>9. \A a : In(a) \in Nat /\ Gives(a) \in Nat
  BY <1>2
<1>10. ASSUME p.kind \in Transfer PROVE Goal
  <2>1. In(Pms) = Gives(Pms) + p.fee
    BY <1>1, <1>10 DEF Books
  <2>2. \A a \in FlowAsset : DecayOf[a] = 0 => Gives(a) = In(a)
    BY <1>1, <1>10 DEF BooksChecked
  <2>3. Revived(p) = 0
    BY <1>10 DEF Revived, Transfer
  <2> HIDE DEF In, Gives
  <2> QED BY <1>6, <1>8, <1>9, <1>0, <1>10, <2>1, <2>2, <2>3
<1>11. ASSUME p.kind = "seize" PROVE Goal
  <2>1. \A a \in AnyAsset : In(a) = Gives(a)
    BY <1>1, <1>11 DEF Books
  <2>2. Revived(p) = 0 /\ p.fee = 0 /\ \A a \in AnyAsset : Minted(p, a) = 0 /\ Burns(p, a) = 0
    BY <1>7, <1>11 DEF Revived, Transfer, Minted, Burns
  <2> HIDE DEF In, Gives
  <2> QED BY <1>8, <1>9, <2>1, <2>2
<1>12. ASSUME p.kind = "reverse" PROVE Goal
  <2>1. PICK n \in DOMAIN flBlocks :
             /\ flBlocks[n].kind = "plain" /\ p.outs = flBlocks[n].refund /\ p.due = flBlocks[n].fee
             /\ BlockBooks(flBlocks[n])
             /\ \A a : AmountIn(Inputs(p), a) = Total(flBlocks[n].outs, a)
    BY <1>1, <1>12, ReverseTakes
  <2>2. /\ Gives(Pms) = In(Pms) + p.due
        /\ \A a \in FlowAsset : DecayOf[a] = 0 => In(a) = Gives(a)
    BY <2>1 DEF BlockBooks
  <2>3. Revived(p) = p.due /\ p.fee = 0
    BY <1>7, <1>12 DEF Revived, Transfer
  <2> HIDE DEF In, Gives
  <2> QED BY <1>0, <1>6, <1>8, <1>9, <1>12, <2>2, <2>3
<1>13. ASSUME p.kind = "burn" PROVE Goal
  <2> DEFINE b == p.req.asset
  <2>1. (\A x \in Inputs(p) : x.asset = b) /\ In(b) = Gives(b) + p.req.amt
    BY <1>1, <1>13 DEF BooksChecked
  <2>2. ASSUME NEW a, a # b PROVE Gives(a) = 0 /\ In(a) = 0
    <3>1. \A i \in DOMAIN p.outs : p.outs[i].asset # a
      BY <1>0, <1>13, <2>2 DEF Stage
    <3>2. {x \in Inputs(p) : x.asset = a} = {}
      BY <2>1, <2>2
    <3> QED BY <3>1, <3>2, TotalOther, WorthEmpty DEF AmountIn
  <2>3. Revived(p) = 0 /\ p.fee = 0 /\ \A a \in AnyAsset : Minted(p, a) = 0
    BY <1>7, <1>13 DEF Revived, Transfer, Minted
  <2>4. \A a \in AnyAsset : In(a) = Gives(a) + Burns(p, a)
    BY <1>13, <2>1, <2>2 DEF Burns
  <2> HIDE DEF In, Gives, b
  <2> QED BY <1>4, <1>8, <1>9, <2>3, <2>4
<1>14. ASSUME p.kind \in CappedMint \cup {"conversion"} PROVE Goal
  <2>1. \A a : In(a) = 0
    BY <1>0, <1>14, AmountOfNone DEF Stage
  <2>2. \A a : Minted(p, a) = Gives(a) /\ Burns(p, a) = 0
    BY <1>14 DEF Minted, Burns, CappedMint
  <2>3. Revived(p) = 0 /\ p.fee = 0
    BY <1>7, <1>14 DEF Revived, Transfer, CappedMint
  <2> HIDE DEF In, Gives
  <2> QED BY <1>8, <1>9, <2>1, <2>2, <2>3
<1>15. Goal
  BY <1>0, <1>10, <1>11, <1>12, <1>13, <1>14 DEF Kind
<1> QED BY <1>3, <1>4, <1>5, <1>6, <1>15

\* One asset's part of the invariant, for each kind of step.
CapFor(a) == CapPairs(a) /\ CapLocks(a) /\ CapSupply(a)

\* A call that is over mints nothing.
LEMMA CapGone ==
    ASSUME FlowBase, NEW a, CapFor(a), NEW c, c \in FlowCall, flPc[c] \notin {"idle", "lock"}, Leave(c),
           flCoins' = flCoins, flCapRaced' = flCapRaced,
           Unlock(c) \/ (flPlan[c].kind \notin CappedMint /\ flMintLock' = flMintLock)
    PROVE  CapFor(a)'
<1>0. FlowTypes
  BY DEF FlowBase
<1>1. /\ flPc'[c] = "idle" /\ \A d \in FlowCall : d # c => flPc'[d] = flPc[d] /\ flPlan'[d] = flPlan[d]
  BY <1>0, Elsewhere DEF Leave
<1>2. ~Minting(c, a)'
  BY <1>1 DEF Minting
<1>3. CapPairs(a) /\ CapLocks(a) /\ CapSupply(a)
  BY DEF CapFor
<1>4. CapPairs(a)'
  BY <1>1, <1>2, <1>3, PairsKept
<1>5. CapLocks(a)'
  <2>1. CASE Unlock(c)
    BY <1>1, <1>2, <1>3, <2>1, LocksOpened
  <2>2. CASE flMintLock' = flMintLock
    BY <1>1, <1>2, <1>3, <2>2, LocksKept
  <2> QED BY <2>1, <2>2
<1>6. CapSupply(a)'
  <2>1. Held(a)' = Held(a)
    BY DEF Held
  <2> QED BY <1>1, <1>2, <1>3, <2>1, SupplyKept
<1> QED BY <1>4, <1>5, <1>6 DEF CapFor

\* A call that goes on: past its lock already, and minting only what it did.
LEMMA CapOnward ==
    ASSUME FlowBase, NEW a, CapFor(a), NEW c, c \in FlowCall, flPc[c] # "lock", NEW q, NEW pc, Onward(c, q, pc),
           flMintLock' = flMintLock,
           q.kind \in CappedMint => q.kind = flPlan[c].kind /\ q.req = flPlan[c].req,
           q.kind \in CappedMint /\ q.req.asset = a /\ pc = "commit" /\ a \notin flCapRaced =>
               Held(a) + Total(q.outs, a) <= CapOf[a]
    PROVE  CapFor(a)'
<1>0. FlowTypes
  BY DEF FlowBase
<1>1. /\ flPc'[c] = pc /\ flPlan'[c] = q
      /\ \A d \in FlowCall : d # c => flPc'[d] = flPc[d] /\ flPlan'[d] = flPlan[d]
  BY <1>0, Elsewhere DEF Onward
<1>2. /\ flPc[c] # "idle" /\ flCoins' = flCoins /\ flCapRaced' = flCapRaced
  BY DEF Onward, flGhost
<1>3. Minting(c, a)' => Minting(c, a) /\ flPlan'[c].kind = flPlan[c].kind
  BY <1>1, <1>2 DEF Minting
<1>4. CapPairs(a) /\ CapLocks(a) /\ CapSupply(a)
  BY DEF CapFor
<1>5. CapPairs(a)'
  BY <1>1, <1>2, <1>3, <1>4, PairsKept
<1>6. CapLocks(a)'
  BY <1>1, <1>2, <1>3, <1>4, LocksKept
<1>7. CapSupply(a)'
  <2>1. Held(a)' = Held(a)
    BY <1>2 DEF Held
  <2>2. Minting(c, a)' /\ flPc'[c] = "commit" /\ a \notin flCapRaced /\ DecayOf[a] = 0 =>
          Held(a) + Total(flPlan'[c].outs, a) <= CapOf[a]
    BY <1>1 DEF Minting
  <2> QED BY <1>1, <1>2, <1>4, <2>1, <2>2, SupplyKept
<1> QED BY <1>5, <1>6, <1>7 DEF CapFor

\* The lock of the asset: whoever holds it is the only one past it.
LEMMA CapLocked ==
    ASSUME FlowBase, NEW a, CapFor(a), NEW c, c \in FlowCall, LockCap(c)
    PROVE  CapFor(a)'
<1> DEFINE b == flPlan[c].req.asset
<1>0. FlowTypes /\ Onward(c, flPlan[c], "arm") /\ flPlan[c].kind = "custodial"
  BY LockFact DEF FlowBase
<1>1. /\ flPc'[c] = "arm" /\ flPlan'[c] = flPlan[c]
      /\ \A d \in FlowCall : d # c => flPc'[d] = flPc[d] /\ flPlan'[d] = flPlan[d]
  BY <1>0, Elsewhere DEF Onward
<1>2. /\ flPc[c] = "lock" /\ b \notin flMintLock /\ flMintLock' = flMintLock \cup {b}
      /\ flCoins' = flCoins /\ flCapRaced' = flCapRaced
  BY DEF LockCap, flGhost
<1>3. CapPairs(a) /\ CapLocks(a) /\ CapSupply(a)
  BY DEF CapFor
<1>4. \A d \in FlowCall : Minting(d, a)' <=> Minting(d, a)
  BY <1>1, <1>2 DEF Minting
<1>5. \A d \in FlowCall : flPlan'[d] = flPlan[d] /\ (d # c => flPc'[d] = flPc[d])
  BY <1>1
<1>6. ASSUME NEW d, d \in FlowCall, d # c, Minting(d, a), Minting(c, a), flPlan[d].kind = "custodial"
      PROVE  flPc'[d] = "lock"
  <2>1. a = b
    BY <1>6 DEF Minting
  <2>2. flPc[d] = "lock"
    BY <1>2, <1>3, <1>6, <2>1 DEF CapLocks
  <2> QED BY <1>1, <1>6, <2>2
<1>7. CapPairs(a)'
  <2> SUFFICES ASSUME NEW d, d \in FlowCall, NEW e, e \in FlowCall, d # e, Minting(d, a)', Minting(e, a)'
               PROVE  \/ flPlan'[d].kind = "custodial" /\ flPlan'[e].kind = "custodial"
                           /\ (flPc'[d] = "lock" \/ flPc'[e] = "lock")
                      \/ a \in flCapRaced' /\ ~(flPlan'[d].kind = "custodial" /\ flPlan'[e].kind = "custodial")
    BY DEF CapPairs
  <2>1. Minting(d, a) /\ Minting(e, a) /\ flPlan'[d] = flPlan[d] /\ flPlan'[e] = flPlan[e]
    BY <1>4, <1>5
  <2>2. \/ flPlan[d].kind = "custodial" /\ flPlan[e].kind = "custodial" /\ (flPc[d] = "lock" \/ flPc[e] = "lock")
        \/ a \in flCapRaced /\ ~(flPlan[d].kind = "custodial" /\ flPlan[e].kind = "custodial")
    BY <1>3, <2>1 DEF CapPairs
  <2>3. CASE flPlan[d].kind = "custodial" /\ flPlan[e].kind = "custodial" /\ (flPc[d] = "lock" \/ flPc[e] = "lock")
    <3>1. flPc'[d] = "lock" \/ flPc'[e] = "lock"
      BY <1>1, <1>6, <2>1, <2>3
    <3> QED BY <2>1, <2>3, <3>1
  <2>4. CASE a \in flCapRaced /\ ~(flPlan[d].kind = "custodial" /\ flPlan[e].kind = "custodial")
    BY <1>2, <2>1, <2>4
  <2> QED BY <2>2, <2>3, <2>4
<1>8. CapLocks(a)'
  <2> SUFFICES ASSUME NEW d, d \in FlowCall, Minting(d, a)', flPlan'[d].kind = "custodial", flPc'[d] # "lock"
               PROVE  a \in flMintLock'
    BY DEF CapLocks
  <2>1. Minting(d, a) /\ flPlan[d].kind = "custodial"
    BY <1>4, <1>5
  <2>2. CASE d = c
    <3>1. a = b
      BY <2>1, <2>2 DEF Minting
    <3> QED BY <1>2, <3>1
  <2>3. CASE d # c
    <3>1. a \in flMintLock
      BY <1>1, <1>3, <2>1, <2>3 DEF CapLocks
    <3> QED BY <1>2, <3>1
  <2> QED BY <2>2, <2>3
<1>9. CapSupply(a)'
  <2>1. Held(a)' = Held(a)
    BY <1>2 DEF Held
  <2> QED BY <1>1, <1>2, <1>3, <2>1, SupplyKept
<1> QED BY <1>7, <1>8, <1>9 DEF CapFor

\* A new call: a mint that comes beside another makes the asset a raced one,
\* unless both are custodial, and then the new one waits for the lock.
LEMMA CapEntered ==
    ASSUME FlowBase, NEW a \in FlowAsset, CapFor(a), NEW c, c \in FlowCall, NEW q, NEW pc, Entered(c, q, pc)
    PROVE  CapFor(a)'
<1>0. FlowTypes
  BY DEF FlowBase
<1>1. /\ flPc'[c] = pc /\ flPlan'[c] = q
      /\ \A d \in FlowCall : d # c => flPc'[d] = flPc[d] /\ flPlan'[d] = flPlan[d]
  BY <1>0, Elsewhere DEF Entered, Enter
<1>2. /\ flPc[c] = "idle" /\ flCoins' = flCoins /\ flMintLock' = flMintLock /\ pc # "commit"
      /\ (pc = "lock" <=> q.kind = "custodial")
      /\ (a \in flCapRaced' <=> a \in flCapRaced \/ Races(q, a))
  BY DEF Entered, Enter, Free
<1>3. CapPairs(a) /\ CapLocks(a) /\ CapSupply(a)
  BY DEF CapFor
<1>4. ASSUME NEW d, d \in FlowCall, d # c, Minting(d, a)', Minting(c, a)'
      PROVE  \/ flPlan'[d].kind = "custodial" /\ q.kind = "custodial" /\ pc = "lock"
             \/ a \in flCapRaced' /\ ~(flPlan'[d].kind = "custodial" /\ q.kind = "custodial")
  <2>1. q.kind \in CappedMint /\ q.req.asset = a
    BY <1>1, <1>4 DEF Minting
  <2>2. Minting(d, a) /\ flPlan'[d] = flPlan[d]
    BY <1>1, <1>4, OthersMint
  <2>3. d \in FlowInFlight /\ flPlan[d].kind \in CappedMint /\ flPlan[d].req.asset = a
    BY <1>4, <2>2 DEF Minting, FlowInFlight
  <2>4. CASE flPlan[d].kind = "custodial" /\ q.kind = "custodial"
    BY <1>2, <2>2, <2>4
  <2>5. CASE flPlan[d].kind = "mint" \/ q.kind = "mint"
    <3>1. Races(q, a)
      BY <2>1, <2>3, <2>5 DEF Races
    <3> QED BY <1>2, <2>2, <2>5, <3>1
  <2> QED BY <2>1, <2>3, <2>4, <2>5 DEF CappedMint
<1>5. CapPairs(a)'
  <2> SUFFICES ASSUME NEW d, d \in FlowCall, NEW e, e \in FlowCall, d # e, Minting(d, a)', Minting(e, a)'
               PROVE  \/ flPlan'[d].kind = "custodial" /\ flPlan'[e].kind = "custodial"
                           /\ (flPc'[d] = "lock" \/ flPc'[e] = "lock")
                      \/ a \in flCapRaced' /\ ~(flPlan'[d].kind = "custodial" /\ flPlan'[e].kind = "custodial")
    BY DEF CapPairs
  <2>1. CASE e = c
    BY <1>1, <1>4, <2>1
  <2>2. CASE d = c
    BY <1>1, <1>4, <2>2
  <2>3. CASE d # c /\ e # c
    <3>1. Minting(d, a) /\ Minting(e, a)
      BY <1>1, <2>3, OthersMint
    <3>2. \/ flPlan[d].kind = "custodial" /\ flPlan[e].kind = "custodial" /\ (flPc[d] = "lock" \/ flPc[e] = "lock")
          \/ a \in flCapRaced /\ ~(flPlan[d].kind = "custodial" /\ flPlan[e].kind = "custodial")
      BY <1>3, <3>1 DEF CapPairs
    <3>3. flPlan'[d] = flPlan[d] /\ flPlan'[e] = flPlan[e] /\ flPc'[d] = flPc[d] /\ flPc'[e] = flPc[e]
      BY <1>1, <2>3
    <3> QED BY <1>2, <3>2, <3>3
  <2> QED BY <2>1, <2>2, <2>3
<1>6. CapLocks(a)'
  <2> SUFFICES ASSUME NEW d, d \in FlowCall, Minting(d, a)', flPlan'[d].kind = "custodial", flPc'[d] # "lock"
               PROVE  a \in flMintLock'
    BY DEF CapLocks
  <2>1. d # c
    BY <1>1, <1>2
  <2>2. Minting(d, a) /\ flPlan[d].kind = "custodial" /\ flPc[d] # "lock"
    BY <1>1, <2>1, OthersMint
  <2> QED BY <1>2, <1>3, <2>2 DEF CapLocks
<1>7. CapSupply(a)'
  <2>1. Held(a)' = Held(a)
    BY <1>2 DEF Held
  <2> QED BY <1>1, <1>2, <1>3, <2>1, SupplyKept
<1> QED BY <1>5, <1>6, <1>7 DEF CapFor

\* A mint that passes the arm fits under the cap, with the supply of that step.
LEMMA CapAccepted ==
    ASSUME FlowBase, NEW a \in FlowAsset, CapFor(a), NEW c, c \in FlowCall, ArmAccept(c)
    PROVE  CapFor(a)'
<1>1. PICK p : p = flPlan[c]
  OBVIOUS
<1>2. PICK q : q = Accepted(p)
  OBVIOUS
<1>3. Onward(c, q, "commit") /\ ValidPayload(p) /\ flPc[c] = "arm" /\ Stage(p, "arm") /\ p \in PlanType
  BY <1>1, <1>2, AcceptFact, KnownSpend
<1>4. q.kind = p.kind /\ q.req = p.req /\ q.outs = p.outs
  BY <1>2, <1>3, AcceptedFact DEF Stage
<1>5. flMintLock' = flMintLock
  BY DEF ArmAccept
<1>6. ASSUME q.kind \in CappedMint, q.req.asset = a, a \notin flCapRaced, DecayOf[a] = 0
      PROVE  Held(a) + Total(q.outs, a) <= CapOf[a]
  <2>1. p.kind \in {"mint", "custodial"}
    BY <1>4, <1>6 DEF CappedMint
  <2>2. ValidMint(p)
    BY <1>3, <2>1 DEF ValidPayload, ValidCustodialMint
  <2>3. Total(p.outs, a) \in Nat /\ Held(a) \in Nat /\ a # Pms
    BY <1>3, PlanTotals, CoinsFact, Constants DEF FlowBase, Held
  <2>4. CASE Total(p.outs, a) > 0
    BY <1>4, <2>2, <2>3, <2>4 DEF ValidMint, UnderCap
  <2>5. CASE Total(p.outs, a) = 0
    <3>1. Held(a) <= CapOf[a]
      BY <1>6 DEF CapFor, CapSupply
    <3> QED BY <1>4, <2>3, <2>5, <3>1
  <2> QED BY <2>3, <2>4, <2>5
<1>7. CASE DecayOf[a] = 0
  <2>1. q.kind \in CappedMint /\ q.req.asset = a /\ "commit" = "commit" /\ a \notin flCapRaced =>
          Held(a) + Total(q.outs, a) <= CapOf[a]
    BY <1>6, <1>7
  <2> QED BY <1>1, <1>3, <1>4, <1>5, <2>1, CapOnward
<1>8. CASE DecayOf[a] # 0
  <2>1. CapPairs(a) /\ CapLocks(a) /\ FlowTypes
    BY DEF CapFor, FlowBase
  <2>2. /\ flPc'[c] = "commit" /\ flPlan'[c] = q
        /\ \A d \in FlowCall : d # c => flPc'[d] = flPc[d] /\ flPlan'[d] = flPlan[d]
    BY <1>3, <2>1, Elsewhere DEF Onward
  <2>3. Minting(c, a)' => Minting(c, a) /\ flPlan'[c].kind = flPlan[c].kind
    BY <1>1, <1>3, <1>4, <2>2 DEF Minting
  <2>4. flCapRaced' = flCapRaced
    BY <1>3 DEF Onward, flGhost
  <2>5. CapPairs(a)'
    BY <1>3, <2>1, <2>2, <2>3, <2>4, PairsKept
  <2>6. CapLocks(a)'
    BY <1>3, <1>5, <2>1, <2>2, <2>3, LocksKept
  <2>7. CapSupply(a)'
    BY <1>8 DEF CapSupply
  <2> QED BY <2>5, <2>6, <2>7 DEF CapFor
<1> QED BY <1>7, <1>8

\* A block of an asset without demurrage adds to the supply what it mints, and
\* the calls that mint beside it are not past their validation.
LEMMA CapCommit ==
    ASSUME FlowBase, BooksKept, NEW a \in FlowAsset, CapFor(a), NEW c, c \in FlowCall, Commit(c)
    PROVE  CapFor(a)'
<1>0. FlowTypes /\ CapPairs(a) /\ CapLocks(a) /\ CapSupply(a)
  BY DEF FlowBase, CapFor
<1>1. PICK p : p = flPlan[c]
  OBVIOUS
<1>2. flPc[c] = "commit" /\ Present(p) /\ p \in PlanType /\ Stage(p, "commit")
  BY <1>1, CommitFact
<1>3. PICK q, pc : After(c, p, q, pc)
  BY <1>1, CommitFact
<1>4. /\ flPc'[c] = pc /\ flPlan'[c] = q
      /\ \A d \in FlowCall : d # c => flPc'[d] = flPc[d] /\ flPlan'[d] = flPlan[d]
  BY <1>0, <1>3, Elsewhere DEF After
<1>5. ~Minting(c, a)'
  <2>1. p.kind \in CappedMint => ~Rests(p)
    BY <1>2 DEF Stage, Rests, CappedMint, Transfer
  <2> QED BY <1>3, <1>4, <2>1 DEF After, Minting
<1>6. Unlock(c) /\ flCapRaced' = flCapRaced
  BY DEF Commit
<1>7. CapPairs(a)'
  BY <1>0, <1>4, <1>5, <1>6, PairsKept
<1>8. CapLocks(a)'
  BY <1>0, <1>2, <1>4, <1>5, <1>6, LocksOpened
<1>9. CapSupply(a)'
  <2> SUFFICES ASSUME a \notin flCapRaced', DecayOf[a] = 0
               PROVE  /\ Held(a)' <= CapOf[a]
                      /\ \A d \in FlowCall : Minting(d, a)' /\ flPc'[d] = "commit" =>
                           Held(a)' + Total(flPlan'[d].outs, a) <= CapOf[a]
    BY DEF CapSupply
  <2>1. a \notin flCapRaced /\ Held(a) <= CapOf[a]
    BY <1>0, <1>6 DEF CapSupply
  <2>2. \A d \in FlowCall : Minting(d, a) /\ flPc[d] = "commit" => Held(a) + Total(flPlan[d].outs, a) <= CapOf[a]
    BY <1>0, <2>1 DEF CapSupply
  <2>3. /\ Held(a)' = Held(a) - AmountIn(Inputs(p), a) + Total(p.outs, a)
        /\ Held(a) \in Nat /\ AmountIn(Inputs(p), a) \in Nat /\ Total(p.outs, a) \in Nat
        /\ AmountIn(Inputs(p), a) <= Held(a)
    BY <1>1, HeldAfter
  <2>4. a \in AnyAsset /\ a # Pms /\ CapOf[a] \in Nat
    BY Constants
  <2>5. CASE Minting(c, a)
    <3>1. Held(a) + Total(p.outs, a) <= CapOf[a]
      BY <1>1, <1>2, <2>2, <2>5
    <3>2. Held(a)' <= CapOf[a]
      <4> HIDE DEF Held
      <4> QED BY <2>3, <2>4, <3>1
    <3>3. ASSUME NEW d, d \in FlowCall, Minting(d, a)', flPc'[d] = "commit" PROVE FALSE
      <4>1. d # c
        BY <1>5, <3>3
      <4>2. Minting(d, a) /\ flPc[d] = "commit"
        BY <1>4, <3>3, <4>1, OthersMint
      <4> QED BY <1>0, <1>2, <2>1, <2>5, <3>3, <4>1, <4>2 DEF CapPairs
    <3> QED BY <3>2, <3>3
  <2>6. CASE ~Minting(c, a)
    <3>1. Minted(p, a) = 0
      <4>1. CASE p.kind \in CappedMint \cup {"conversion"}
        <5>1. \A i \in DOMAIN p.outs : p.outs[i].asset # a
          BY <1>1, <1>2, <2>4, <2>6, <4>1 DEF Minting, Stage, CappedMint
        <5> QED BY <5>1, TotalOther DEF Minted
      <4>2. CASE p.kind \notin CappedMint \cup {"conversion"}
        BY <4>2 DEF Minted, CappedMint
      <4> QED BY <4>1, <4>2
    <3>2. AmountIn(Inputs(p), a) + Minted(p, a) = Total(p.outs, a) + Burns(p, a) /\ Burns(p, a) \in Nat
      BY <1>1, <1>2, <2>4, InAndOut
    <3>3. Held(a)' <= Held(a) /\ Held(a)' \in Int
      BY <2>3, <3>1, <3>2
    <3>4. ASSUME NEW d, d \in FlowCall, Minting(d, a)', flPc'[d] = "commit"
          PROVE  Held(a)' + Total(flPlan'[d].outs, a) <= CapOf[a]
      <4>1. d # c
        BY <1>5, <3>4
      <4>2. Minting(d, a) /\ flPc[d] = "commit"
        BY <1>4, <3>4, <4>1, OthersMint
      <4>3. PICK r : r = flPlan[d] /\ r = flPlan'[d]
        BY <1>4, <3>4, <4>1
      <4>4. Held(a) + Total(r.outs, a) <= CapOf[a]
        BY <2>2, <3>4, <4>2, <4>3
      <4>5. Total(r.outs, a) \in Nat
        BY <3>4, <4>2, <4>3, KnownSpend, PlanTotals
      <4> QED BY <2>3, <2>4, <3>3, <4>3, <4>4, <4>5
    <3> QED BY <2>1, <2>3, <2>4, <3>3, <3>4
  <2> QED BY <2>5, <2>6
<1> QED BY <1>7, <1>8, <1>9 DEF CapFor

LEMMA CapCall ==
    ASSUME FlowBase, BooksKept, NEW a \in FlowAsset, CapFor(a), NEW c, c \in FlowCall, CallStep(c)
    PROVE  CapFor(a)'
<1>p. PICK p : p = flPlan[c]
  OBVIOUS
<1>1. CASE \E q, pc : Entered(c, q, pc)
  BY <1>1, CapEntered
<1>2. CASE WalletSendTx(c)
  <2>1. Onward(c, p, "handler") /\ flPc[c] = "prepared" /\ flMintLock' = flMintLock
    BY <1>2, <1>p, ResealFact DEF WalletSendTx, flShared
  <2>2. flPc[c] # "lock" /\ p.kind = flPlan[c].kind /\ p.req = flPlan[c].req /\ "handler" # "commit"
    BY <1>p, <2>1
  <2> QED BY <2>1, <2>2, CapOnward
<1>3. CASE SubmitPlainTx(c)
  <2>1. PICK q : q = [p EXCEPT !.kind = "plain"]
    OBVIOUS
  <2>2. Onward(c, q, "arm") /\ flPc[c] = "prepared" /\ flMintLock' = flMintLock /\ p \in PlanType
    BY <1>3, <1>p, <2>1, OpenFact, KnownSpend DEF SubmitPlainTx, flShared
  <2>3. q.kind \notin CappedMint
    BY <2>1, <2>2 DEF PlanType, CappedMint
  <2>4. flPc[c] # "lock"
    BY <2>2
  <2> QED BY <2>2, <2>3, <2>4, CapOnward
<1>4. CASE ValidateInHandler(c)
  <2>1. flPc[c] = "handler" /\ flMintLock' = flMintLock /\ flCoins' = flCoins /\ flCapRaced' = flCapRaced
    BY <1>4 DEF ValidateInHandler, flShared, flGhost
  <2>2. p.kind \notin CappedMint
    BY <1>p, <2>1, KnownSpend DEF Stage, CappedMint
  <2>3. CASE Onward(c, flPlan[c], "commit")
    <3>1. flPc[c] # "lock" /\ Onward(c, p, "commit")
      BY <1>p, <2>1, <2>3
    <3> QED BY <2>1, <2>2, <3>1, CapOnward
  <2>4. CASE Leave(c)
    <3>1. flPc[c] \notin {"idle", "lock"}
      BY <2>1
    <3> QED BY <1>p, <2>1, <2>2, <2>4, <3>1, CapGone
  <2> QED BY <1>4, <2>3, <2>4, ValidFact
<1>5. CASE LockCap(c)
  BY <1>5, CapLocked
<1>6. CASE ArmAccept(c)
  BY <1>6, CapAccepted
<1>7. CASE ArmReject(c) \/ CommitLoses(c) \/ ConversionFails(c)
  <2>1. /\ flPc[c] \notin {"idle", "lock"} /\ Leave(c) /\ Unlock(c)
        /\ flCoins' = flCoins /\ flCapRaced' = flCapRaced
    BY <1>7 DEF ArmReject, CommitLoses, ConversionFails, Refused, flGhost
  <2> QED BY <2>1, CapGone
<1>8. CASE Commit(c)
  BY <1>8, CapCommit
<1>9. CASE AccumulateTxFee(c)
  <2>1. /\ flPc[c] \notin {"idle", "lock"} /\ Leave(c) /\ flMintLock' = flMintLock
        /\ flCoins' = flCoins /\ flCapRaced' = flCapRaced /\ flPc[c] = "post"
    BY <1>9 DEF AccumulateTxFee, flGhost
  <2>2. flPlan[c].kind \notin CappedMint
    BY <2>1, KnownSpend DEF Stage, CappedMint
  <2> QED BY <2>1, <2>2, CapGone
<1>10. CASE MintConversion(c)
  <2>1. PICK q : q = Conversion(flPlan[c])
    OBVIOUS
  <2>2. /\ Onward(c, q, "arm") /\ q.kind = "conversion" /\ flPc[c] = "post" /\ flMintLock' = flMintLock
    BY <1>10, <2>1, ConversionFact
  <2>3. q.kind \notin CappedMint /\ flPc[c] # "lock"
    BY <2>2 DEF CappedMint
  <2> QED BY <2>2, <2>3, CapOnward
<1> QED BY <1>1, <1>2, <1>3, <1>4, <1>5, <1>6, <1>7, <1>8, <1>9, <1>10 DEF CallStep

LEMMA CapEvent ==
    ASSUME NEW a, CapFor(a), EventStep
    PROVE  CapFor(a)'
<1>1. flCoins' = flCoins /\ flCapRaced' = flCapRaced
  BY DEF EventStep, Edict, RoyaltyChange, FlowTick, FlowExit, flShared, flGhost
<1>2. UNCHANGED <<flPc, flPlan, flMintLock>> \/ \A c \in FlowCall : flPc'[c] = "idle"
  BY DEF EventStep, Edict, RoyaltyChange, FlowTick, FlowExit, flShared
<1>3. Held(a)' = Held(a)
  BY <1>1 DEF Held
<1>4. CASE UNCHANGED <<flPc, flPlan, flMintLock>>
  BY <1>1, <1>4 DEF CapFor, CapPairs, CapLocks, CapSupply, Minting, Held
<1>5. CASE \A c \in FlowCall : flPc'[c] = "idle"
  <2>1. \A c \in FlowCall : ~Minting(c, a)'
    BY <1>5 DEF Minting
  <2> QED BY <1>1, <1>3, <2>1 DEF CapFor, CapPairs, CapLocks, CapSupply
<1> QED BY <1>2, <1>4, <1>5

LEMMA CapFors == CapHeld <=> \A a \in FlowAsset : CapFor(a)
BY CapHeldAs DEF CapFor

LEMMA CapForsNext == (CapHeld <=> \A a \in FlowAsset : CapFor(a))'
BY CapFors, PTL

LEMMA CapStep == FlowBase /\ BooksKept /\ CapHeld /\ [FlowNext]_flVars => CapHeld'
<1> SUFFICES ASSUME FlowBase, BooksKept, CapHeld, [FlowNext]_flVars PROVE CapHeld'
  OBVIOUS
<1>1. \A a \in FlowAsset : CapFor(a)
  BY CapFors
<1>2. ASSUME NEW a \in FlowAsset PROVE CapFor(a)'
  <2>1. CASE UNCHANGED flVars
    BY <1>1, <2>1 DEF flVars, flShared, flGhost, flBound, CapFor, CapPairs, CapLocks, CapSupply, Minting, Held
  <2>2. ASSUME NEW c \in FlowCall, CallStep(c) PROVE CapFor(a)'
    BY <1>1, <2>2, CapCall
  <2>3. CASE EventStep
    BY <1>1, <2>3, CapEvent
  <2> QED BY <2>1, <2>2, <2>3, StepCases
<1> QED BY <1>2, CapForsNext

LEMMA CapInit == FlowInit => CapHeld
<1> SUFFICES ASSUME FlowInit, NEW a \in FlowAsset PROVE CapFor(a)
  BY CapFors
<1>1. \A c \in FlowCall : ~Minting(c, a)
  BY DEF FlowInit, Minting
<1>2. Held(a) <= CapOf[a]
  BY FlowAssumption DEF FlowInit, Held
<1> QED BY <1>1, <1>2 DEF CapFor, CapPairs, CapLocks, CapSupply

\* Neither way of issuing goes over its limit: no custodial mint past the cap
\* while the lock of the asset is held from the check to the block, no
\* conversion that the emission counter does not hold.
THEOREM SupplyAlwaysRespected == FlowSpec => []SupplyRespected
<1>1. CapHeld => CapRespected
  BY CapHeldAs DEF CapSupply, CapRespected
<1>2. ReservationsBacked /\ CapHeld => SupplyRespected
  BY <1>1 DEF SupplyRespected
<1> QED BY <1>2, CapInit, CapStep, FlowBaseAlways, BooksAlways, BackedAlways, PTL DEF FlowSpec

-----------------------------------------------------------------------------
(* The accounts.                                                           *)

\* A fee waits in its call, then is pooled: once.
LEMMA FeeMoved ==
    ASSUME FlowBase, NEW c, c \in FlowCall, CallStep(c), ~Commit(c)
    PROVE  /\ flPool' + FeeOnItsWay'[c] = flPool + FeeOnItsWay[c] /\ flUnpooled' = flUnpooled
           /\ UNCHANGED <<flIssued, flBurnt, flUndone>>
<1>0. FlowTypes /\ flPool \in Int
  BY DEF FlowBase, FlowTypes
<1> DEFINE Goal == /\ flPool' + FeeOnItsWay'[c] = flPool + FeeOnItsWay[c] /\ flUnpooled' = flUnpooled
                   /\ UNCHANGED <<flIssued, flBurnt, flUndone>>
<1>1. ASSUME flPool' = flPool, UNCHANGED <<flUnpooled, flIssued, flBurnt, flUndone>>,
             FeeOnItsWay[c] = 0, FeeOnItsWay'[c] = 0
      PROVE  Goal
  BY <1>0, <1>1
<1>2. CASE \E p, pc : Entered(c, p, pc)
  <2>1. PICK p, pc : Entered(c, p, pc)
    BY <1>2
  <2>2. /\ flPc[c] = "idle" /\ flPc'[c] = pc /\ pc # "post"
        /\ flPool' = flPool /\ UNCHANGED <<flUnpooled, flIssued, flBurnt, flUndone>>
    BY <1>0, <2>1, Elsewhere DEF Entered, Enter, Free
  <2> QED BY <1>1, <2>2, TermOf, TermOfNext
<1>3. ASSUME NEW p, NEW pc, Onward(c, p, pc), pc # "post", flPc[c] # "post" \/ flPlan[c].fee = 0
      PROVE  Goal
  <2>1. /\ flPc'[c] = pc /\ flPool' = flPool /\ UNCHANGED <<flUnpooled, flIssued, flBurnt, flUndone>>
    BY <1>0, <1>3, Elsewhere DEF Onward, flGhost
  <2> QED BY <1>1, <1>3, <2>1, TermOf, TermOfNext
<1>4. ASSUME Leave(c), flPc[c] # "post", UNCHANGED <<flPool, flGhost>> PROVE Goal
  <2>1. /\ flPc'[c] = "idle" /\ flPool' = flPool /\ UNCHANGED <<flUnpooled, flIssued, flBurnt, flUndone>>
    BY <1>0, <1>4, Elsewhere DEF Leave, flGhost
  <2> QED BY <1>1, <1>4, <2>1, TermOf, TermOfNext
<1>5. CASE WalletSendTx(c)
  <2>1. flPc[c] # "post"
    BY <1>5 DEF WalletSendTx
  <2> QED BY <1>3, <1>5, <2>1, ResealFact
<1>6. CASE SubmitPlainTx(c)
  <2>1. flPc[c] # "post"
    BY <1>6 DEF SubmitPlainTx
  <2> QED BY <1>3, <1>6, <2>1, OpenFact
<1>7. CASE ValidateInHandler(c)
  <2>1. flPc[c] # "post"
    BY <1>7 DEF ValidateInHandler
  <2> QED BY <1>3, <1>4, <1>7, <2>1, ValidFact DEF flShared
<1>8. CASE LockCap(c)
  <2>1. flPc[c] # "post"
    BY <1>8 DEF LockCap
  <2> QED BY <1>3, <1>8, <2>1, LockFact
<1>9. CASE ArmAccept(c)
  <2>1. flPc[c] # "post"
    BY <1>9 DEF ArmAccept
  <2> QED BY <1>3, <1>9, <2>1, AcceptFact
<1>10. CASE ArmReject(c) \/ CommitLoses(c) \/ ConversionFails(c)
  BY <1>4, <1>10 DEF ArmReject, CommitLoses, ConversionFails, Refused
<1>11. CASE AccumulateTxFee(c)
  <2>1. /\ flPc[c] = "post" /\ flPool' = flPool + flPlan[c].fee /\ Leave(c)
        /\ UNCHANGED <<flUnpooled, flIssued, flBurnt, flUndone>>
    BY <1>11 DEF AccumulateTxFee, flGhost
  <2>2. flPlan[c].fee \in Nat
    BY <2>1, KnownSpend
  <2>3. flPc'[c] = "idle"
    BY <1>0, <2>1, Elsewhere DEF Leave
  <2> QED BY <1>0, <2>1, <2>2, <2>3, TermOf, TermOfNext
<1>12. CASE MintConversion(c)
  <2>1. flPc[c] = "post" /\ flPlan[c].kind = "burn" /\ Onward(c, Conversion(flPlan[c]), "arm")
    BY <1>12, ConversionFact
  <2>2. flPlan[c].fee = 0
    BY <2>1, KnownSpend DEF Stage, Transfer
  <2> QED BY <1>3, <2>1, <2>2
<1> QED BY <1>2, <1>5, <1>6, <1>7, <1>8, <1>9, <1>10, <1>11, <1>12 DEF CallStep

LEMMA FeeCommitted ==
    ASSUME FlowBase, NEW c, c \in FlowCall, Commit(c), NEW p, p = flPlan[c]
    PROVE  /\ flPool' = flPool /\ FeeOnItsWay[c] = 0
           /\ flUnpooled' + FeeOnItsWay'[c] = flUnpooled + p.fee
<1>1. /\ flPc[c] = "commit" /\ p \in PlanType /\ Stage(p, "commit") /\ \E q, pc : After(c, p, q, pc)
  BY CommitFact
<1>2. PICK q, pc : After(c, p, q, pc)
  BY <1>1
<1>3. flUnpooled \in Nat /\ p.fee \in Nat
  BY <1>1 DEF FlowBase, FlowTypes, PlanType
<1>4. flPc'[c] = pc /\ flPlan'[c] = q
  <2>1. FlowTypes /\ flPc' = [flPc EXCEPT ![c] = pc] /\ flPlan' = [flPlan EXCEPT ![c] = q]
    BY <1>2 DEF FlowBase, After
  <2> QED BY <2>1, Elsewhere
<1>5. flPool' = flPool /\ flUnpooled' = flUnpooled + (IF p.kind = "plain" THEN p.fee ELSE 0)
  BY DEF Commit
<1>6. FeeOnItsWay[c] = 0
  BY <1>1, TermOf
<1>7. CASE Rests(p)
  <2>1. FeeOnItsWay'[c] = p.fee
    BY <1>2, <1>4, <1>7, TermOfNext DEF After
  <2>2. p.kind # "plain"
    BY <1>7 DEF Rests
  <2> QED BY <1>3, <1>5, <1>6, <2>1, <2>2
<1>8. CASE ~Rests(p)
  <2>1. FeeOnItsWay'[c] = 0
    BY <1>2, <1>4, <1>8, TermOfNext DEF After
  <2>2. p.kind = "plain" \/ p.fee = 0
    BY <1>1, <1>3, <1>8 DEF Rests, Stage, Transfer
  <2> QED BY <1>3, <1>5, <1>6, <2>1, <2>2
<1> QED BY <1>7, <1>8

\* What a reversal of each block would add to what is held.
RecoverDefined(a) ==
    /\ SumFunction(Recoverable(a)) = SumFunctionOnSet(Recoverable(a), DOMAIN flBlocks)
    /\ IsFiniteSet(DOMAIN flBlocks)
    /\ \A n \in DOMAIN flBlocks : Recoverable(a)[n] \in Nat

LEMMA RecoverAt ==
    ASSUME NEW a, NEW n \in DOMAIN flBlocks
    PROVE  Recoverable(a)[n] = IF flBlocks[n].kind = "plain" /\ Whole(n)
                               THEN Total(flBlocks[n].refund, a) - Total(flBlocks[n].outs, a) ELSE 0
BY DEF Recoverable

LEMMA RecoverNow == FlowBase /\ BooksKept => \A a \in FlowAsset : RecoverDefined(a)
<1> SUFFICES ASSUME FlowBase, BooksKept, NEW a \in FlowAsset PROVE RecoverDefined(a)
  OBVIOUS
<1>1. flBlocks \in Seq(BlockType)
  BY DEF FlowBase, FlowTypes
<1>2. IsFiniteSet(DOMAIN flBlocks)
  <2>1. DOMAIN flBlocks = 1..Len(flBlocks) /\ Len(flBlocks) \in Nat
    BY <1>1
  <2> QED BY <2>1, FS_Interval
<1>3. ASSUME NEW n \in DOMAIN flBlocks PROVE Recoverable(a)[n] \in Nat
  <2>1. flBlocks[n] \in BlockType /\ BlockBooks(flBlocks[n])
    BY <1>1, BooksKeptAs DEF BlocksBalanced
  <2>2. PICK b : b = flBlocks[n]
    OBVIOUS
  <2>3. b.outs \in Seq(OutType) /\ b.refund \in Seq(OutType)
    BY <2>1, <2>2 DEF BlockType
  <2>4. Total(b.outs, a) \in Nat /\ Total(b.refund, a) \in Nat
    BY <2>3, OutTypeFact, TotalNat
  <2>5. b.kind = "plain" => Total(b.outs, a) <= Total(b.refund, a)
    BY <2>1, <2>2 DEF BlockBooks
  <2>6. Recoverable(a)[n] = IF b.kind = "plain" /\ Whole(n) THEN Total(b.refund, a) - Total(b.outs, a) ELSE 0
    BY <2>2, RecoverAt
  <2> QED BY <2>4, <2>5, <2>6
<1>4. DOMAIN Recoverable(a) = DOMAIN flBlocks
  BY DEF Recoverable
<1>5. SumFunction(Recoverable(a)) = SumFunctionOnSet(Recoverable(a), DOMAIN flBlocks)
  BY <1>4, SumUnfold DEF SumFunction
<1> QED BY <1>2, <1>3, <1>5 DEF RecoverDefined

LEMMA RecoverNext == (FlowBase /\ BooksKept)' => (\A a \in FlowAsset : RecoverDefined(a))'
BY RecoverNow, PTL

LEMMA RecoverAtNext ==
    ASSUME NEW a, NEW n \in DOMAIN flBlocks'
    PROVE  Recoverable(a)'[n] = IF flBlocks'[n].kind = "plain" /\ Whole(n)'
                                THEN Total(flBlocks'[n].refund, a) - Total(flBlocks'[n].outs, a) ELSE 0
BY DEF Recoverable

\* The outputs of an earlier block are all unspent only if they were.
LEMMA WholeBefore ==
    ASSUME FlowBase, NEW c, c \in FlowCall, Commit(c), NEW n \in DOMAIN flBlocks
    PROVE  /\ Whole(n)' => Whole(n)
           /\ \A x \in Inputs(flPlan[c]) : \A i \in DOMAIN flBlocks[n].outs : x.id = <<n, i>> => ~Whole(n)'
<1>1. PICK p : p = flPlan[c]
  OBVIOUS
<1>2. /\ flCoins' = (flCoins \ Inputs(p)) \cup Created(p) /\ p \in PlanType /\ Len(flBlocks) \in Nat
      /\ DOMAIN flBlocks = 1..Len(flBlocks) /\ flBlocks'[n] = flBlocks[n]
  BY <1>1, CommitFact
<1>3. \A x \in Created(p) : x.id[1] = Len(flBlocks) + 1
  <2>1. p.outs \in Seq(OutType)
    BY <1>2 DEF PlanType
  <2> QED BY <2>1, CreatedFact
<1>4. n # Len(flBlocks) + 1
  BY <1>2
<1>5. ASSUME NEW x \in flCoins', NEW i, x.id = <<n, i>> PROVE x \in flCoins /\ x \notin Inputs(p)
  <2>1. x.id[1] = n
    BY <1>5
  <2> QED BY <1>2, <1>3, <1>4, <2>1
<1>6. Whole(n)' => Whole(n)
  BY <1>2, <1>5 DEF Whole
<1>7. ASSUME NEW x \in Inputs(p), NEW i \in DOMAIN flBlocks[n].outs, x.id = <<n, i>>, Whole(n)' PROVE FALSE
  <2>1. PICK y \in flCoins' : y.id = <<n, i>>
    BY <1>2, <1>7 DEF Whole
  <2>2. y \in flCoins /\ y \notin Inputs(p)
    BY <1>5, <2>1
  <2>3. x \in flCoins /\ x.id = y.id
    BY <1>7, <2>1 DEF Inputs
  <2>4. x = y
    BY <2>2, <2>3 DEF FlowBase, CoinsKnown
  <2> QED BY <2>2, <2>4
<1> QED BY <1>1, <1>6, <1>7

\* What a block leaves to recover: a plain block adds what decayed of its
\* inputs, its reversal takes it back.
Recovered(p, a) == IF p.kind \in {"plain", "reverse"} THEN AmountIn(Inputs(p), a) - Total(p.outs, a) ELSE 0

LEMMA RecoverOld ==
    ASSUME FlowBase, BooksKept, NEW a \in FlowAsset, NEW c, c \in FlowCall, Commit(c), NEW n \in DOMAIN flBlocks
    PROVE  Recoverable(a)'[n] \in Nat /\ Recoverable(a)[n] \in Nat /\ Recoverable(a)'[n] <= Recoverable(a)[n]
<1>1. /\ n \in DOMAIN flBlocks' /\ flBlocks'[n] = flBlocks[n]
  <2>1. PICK p : p = flPlan[c]
    OBVIOUS
  <2> QED BY <2>1, CommitFact
<1>2. Recoverable(a)[n] \in Nat
  BY RecoverNow DEF RecoverDefined
<1>3. PICK b : b = flBlocks[n]
  OBVIOUS
<1>4. Recoverable(a)[n] = IF b.kind = "plain" /\ Whole(n) THEN Total(b.refund, a) - Total(b.outs, a) ELSE 0
  BY <1>3, RecoverAt
<1>5. Recoverable(a)'[n] = IF b.kind = "plain" /\ Whole(n)' THEN Total(b.refund, a) - Total(b.outs, a) ELSE 0
  BY <1>1, <1>3, RecoverAtNext
<1>6. Whole(n)' => Whole(n)
  BY WholeBefore
<1> QED BY <1>2, <1>4, <1>5, <1>6

LEMMA RecoverNew ==
    ASSUME FlowBase, BooksKept, NEW a \in FlowAsset, NEW c, c \in FlowCall, Commit(c), NEW p, p = flPlan[c]
    PROVE  /\ Recoverable(a)'[Len(flBlocks) + 1] <= (IF p.kind = "plain" THEN Recovered(p, a) ELSE 0)
           /\ Recoverable(a)'[Len(flBlocks) + 1] \in Int
           /\ p.kind = "plain" => Recovered(p, a) \in Nat
<1>1. /\ flPc[c] = "commit" /\ Present(p) /\ p \in PlanType
      /\ flBlocks'[Len(flBlocks) + 1] = BlockOf(p) /\ Len(flBlocks) + 1 \in DOMAIN flBlocks'
  BY CommitFact
<1>2. PICK n : n = Len(flBlocks) + 1
  OBVIOUS
<1>3. PICK b : b = BlockOf(p)
  OBVIOUS
<1>4. b.kind = p.kind /\ b.outs = p.outs /\ (p.kind = "plain" => b.refund = Refund(p))
  BY <1>3 DEF BlockOf
<1>5. Total(Refund(p), a) = AmountIn(Inputs(p), a)
  BY RefundFact
<1>6. Recoverable(a)'[n] = IF b.kind = "plain" /\ Whole(n)' THEN Total(b.refund, a) - Total(b.outs, a) ELSE 0
  BY <1>1, <1>2, <1>3, RecoverAtNext
<1>7. AmountIn(Inputs(p), a) \in Nat /\ Total(p.outs, a) \in Nat
  BY <1>1, PlanTotals, InputAmounts
<1>8. p.kind = "plain" => Total(p.outs, a) <= AmountIn(Inputs(p), a)
  <2>1. flPc[c] # "idle"
    BY <1>1
  <2>2. BooksChecked(p)
    BY <1>1, <2>1, BooksKeptAs DEF Balanced
  <2> QED BY <2>2 DEF BooksChecked, Transfer
<1> QED BY <1>2, <1>4, <1>5, <1>6, <1>7, <1>8 DEF Recovered

\* The block a reversal undoes can be undone no more.
LEMMA RecoverUndone ==
    ASSUME FlowBase, BooksKept, NEW a \in FlowAsset, NEW c, c \in FlowCall, Commit(c),
           NEW p, p = flPlan[c], p.kind = "reverse"
    PROVE  \E n \in DOMAIN flBlocks :
             Recoverable(a)'[n] = 0 /\ Recoverable(a)[n] = Total(p.outs, a) - AmountIn(Inputs(p), a)
<1>1. flPc[c] = "commit" /\ Present(p) /\ p \in PlanType
  BY CommitFact
<1>2. Books(p)
  <2>1. flPc[c] # "idle"
    BY <1>1
  <2> QED BY <1>1, <2>1, BooksKeptAs DEF Balanced
<1>3. PICK n \in DOMAIN flBlocks :
           /\ flBlocks[n].kind = "plain" /\ p.outs = flBlocks[n].refund
           /\ p.spend = IdsOf(n) /\ BlockBooks(flBlocks[n]) /\ flBlocks[n] \in BlockType
           /\ \A e : AmountIn(Inputs(p), e) = Total(flBlocks[n].outs, e)
  BY <1>1, <1>2, ReverseTakes
<1>4. PICK b : b = flBlocks[n]
  OBVIOUS
<1>5. b.outs \in Seq(OutType) /\ b.outs # <<>>
  BY <1>3, <1>4 DEF BlockType, BlockBooks
<1>6. ASSUME NEW i \in DOMAIN b.outs PROVE \E x \in Inputs(p) : x.id = <<n, i>>
  <2>1. <<n, i>> \in p.spend
    BY <1>3, <1>4 DEF IdsOf
  <2>2. Ids(Inputs(p)) = p.spend
    BY <1>1 DEF Present, Ids
  <2> QED BY <2>1, <2>2 DEF Ids
<1>7. Whole(n)
  BY <1>4, <1>6 DEF Whole, Inputs
<1>8. ~Whole(n)'
  <2>1. 1 \in DOMAIN b.outs
    BY <1>5
  <2>2. PICK x \in Inputs(p) : x.id = <<n, 1>>
    BY <1>6, <2>1
  <2> QED BY <1>4, <2>1, <2>2, WholeBefore
<1>9. Recoverable(a)[n] = IF b.kind = "plain" /\ Whole(n) THEN Total(b.refund, a) - Total(b.outs, a) ELSE 0
  BY <1>4, RecoverAt
<1>10. Recoverable(a)'[n] = 0
  <2>1. n \in DOMAIN flBlocks'
    BY CommitFact
  <2> QED BY <1>8, <2>1, RecoverAtNext
<1> QED BY <1>3, <1>4, <1>7, <1>9, <1>10

\* Sums over the blocks: an old block never gains, a reversed one loses all.
LEMMA RecoverAfter ==
    ASSUME FlowBase, FlowBase', BooksKept, BooksKept', NEW a \in FlowAsset, NEW c, c \in FlowCall, Commit(c),
           NEW p, p = flPlan[c]
    PROVE  /\ SumFunction(Recoverable(a))' <= SumFunction(Recoverable(a)) + Recovered(p, a)
           /\ SumFunction(Recoverable(a))' \in Int /\ SumFunction(Recoverable(a)) \in Int
<1>1. PICK f, g : f = Recoverable(a) /\ g = Recoverable(a)'
  OBVIOUS
<1>2. PICK D : D = DOMAIN flBlocks
  OBVIOUS
<1>3. PICK m : m = Len(flBlocks) + 1
  OBVIOUS
<1>4. /\ SumFunction(Recoverable(a)) = SumFunctionOnSet(f, D) /\ IsFiniteSet(D)
  BY <1>1, <1>2, RecoverNow DEF RecoverDefined
<1>5. DOMAIN flBlocks' = D \cup {m} /\ m \notin D /\ p \in PlanType
  <2>1. /\ DOMAIN flBlocks' = DOMAIN flBlocks \cup {Len(flBlocks) + 1} /\ Len(flBlocks) \in Nat
        /\ DOMAIN flBlocks = 1..Len(flBlocks) /\ p \in PlanType
    BY CommitFact
  <2> QED BY <1>2, <1>3, <2>1
<1>6. SumFunction(Recoverable(a))' = SumFunctionOnSet(g, D \cup {m})
  <2>1. RecoverDefined(a)'
    BY RecoverNext
  <2> QED BY <1>1, <1>5, <2>1 DEF RecoverDefined
<1>7. \A n \in D : g[n] \in Nat /\ f[n] \in Nat /\ g[n] <= f[n]
  BY <1>1, <1>2, RecoverOld
<1>8. /\ g[m] <= (IF p.kind = "plain" THEN Recovered(p, a) ELSE 0) /\ g[m] \in Int
      /\ p.kind = "plain" => Recovered(p, a) \in Nat
  BY <1>1, <1>3, RecoverNew
<1>9. p.kind = "reverse" => \E n \in D : g[n] = 0 /\ f[n] = - Recovered(p, a)
  <2> SUFFICES ASSUME p.kind = "reverse" PROVE \E n \in D : g[n] = 0 /\ f[n] = - Recovered(p, a)
    OBVIOUS
  <2>1. PICK n \in D : g[n] = 0 /\ f[n] = Total(p.outs, a) - AmountIn(Inputs(p), a)
    BY <1>1, <1>2, RecoverUndone
  <2>2. Total(p.outs, a) \in Nat /\ AmountIn(Inputs(p), a) \in Nat
    BY <1>5, PlanTotals, InputAmounts
  <2>3. f[n] = - Recovered(p, a)
    BY <2>1, <2>2 DEF Recovered
  <2> QED BY <2>1, <2>3
<1>10. p.kind \notin {"plain", "reverse"} => Recovered(p, a) = 0
  BY DEF Recovered
<1>11. Recovered(p, a) \in Int
  <2>1. Total(p.outs, a) \in Nat /\ AmountIn(Inputs(p), a) \in Nat
    BY <1>5, PlanTotals, InputAmounts
  <2> QED BY <2>1 DEF Recovered
<1>12. SumFunctionOnSet(g, D \cup {m}) = g[m] + SumFunctionOnSet(g, D)
  BY <1>4, <1>5, <1>7, <1>8, SumAdd
<1>13. SumFunctionOnSet(g, D) \in Int /\ SumFunctionOnSet(f, D) \in Int /\ SumFunctionOnSet(g, D) <= SumFunctionOnSet(f, D)
  <2>1. \A n \in D : g[n] \in Int /\ f[n] \in Int
    BY <1>7
  <2>2. SumFunctionOnSet(g, D) \in Int /\ SumFunctionOnSet(f, D) \in Int
    BY <1>4, <2>1, SumInt
  <2>3. SumFunctionOnSet(g, D) <= SumFunctionOnSet(f, D)
    BY <1>4, <1>7, <2>1, SumLe
  <2> QED BY <2>2, <2>3
<1>14. CASE p.kind # "reverse"
  BY <1>4, <1>6, <1>8, <1>10, <1>11, <1>12, <1>13, <1>14
<1>15. CASE p.kind = "reverse"
  <2>1. PICK n \in D : g[n] = 0 /\ f[n] = - Recovered(p, a)
    BY <1>9, <1>15
  <2>2. /\ SumFunctionOnSet(f, D) = f[n] + SumFunctionOnSet(f, D \ {n})
        /\ SumFunctionOnSet(g, D) = g[n] + SumFunctionOnSet(g, D \ {n})
    <3>1. \A i \in D : g[i] \in Int /\ f[i] \in Int
      BY <1>7
    <3> QED BY <1>4, <3>1, SumRemove
  <2>3. /\ SumFunctionOnSet(g, D \ {n}) <= SumFunctionOnSet(f, D \ {n})
        /\ SumFunctionOnSet(g, D \ {n}) \in Int /\ SumFunctionOnSet(f, D \ {n}) \in Int
    <3>1. \A i \in D \ {n} : g[i] \in Int /\ f[i] \in Int /\ g[i] <= f[i]
      BY <1>7
    <3>2. IsFiniteSet(D \ {n})
      BY <1>4, FS_Subset
    <3> QED BY <3>1, <3>2, SumInt, SumLe
  <2>4. SumFunctionOnSet(g, D) <= SumFunctionOnSet(f, D) + Recovered(p, a)
    BY <1>11, <2>1, <2>2, <2>3
  <2>5. g[m] <= 0
    BY <1>8, <1>15
  <2> QED BY <1>4, <1>6, <1>8, <1>11, <1>12, <1>13, <2>4, <2>5
<1> QED BY <1>14, <1>15

\* One asset's part of the accounts.
AccountOf(a) ==
    IF a # Pms /\ DecayOf[a] > 0 THEN Held(a) + SumFunction(Recoverable(a)) <= DueOf(a) ELSE Held(a) = DueOf(a)

\* The fees of the native asset, wherever they are.
Fees == flPool + Pending + flUnpooled

LEMMA FeesAfter ==
    ASSUME FlowBase, FlowBase', NEW c, c \in FlowCall, CallStep(c)
    PROVE  /\ Fees \in Int /\ Fees' \in Int
           /\ ~Commit(c) => Fees' = Fees /\ UNCHANGED <<flIssued, flBurnt, flUndone>>
           /\ Commit(c) => Fees' = Fees + flPlan[c].fee
<1>1. /\ Pending' = Pending - FeeOnItsWay[c] + FeeOnItsWay'[c]
      /\ FeeOnItsWay[c] \in Nat /\ FeeOnItsWay'[c] \in Nat /\ Pending \in Nat
  <2>1. \A d \in FlowCall : d # c => flPc'[d] = flPc[d] /\ flPlan'[d] = flPlan[d]
    BY CallFrame
  <2> QED BY <2>1, SumsAfter
<1>2. flPool \in Int /\ flUnpooled \in Int /\ flPool' \in Int /\ flUnpooled' \in Int
  BY DEF FlowBase, FlowTypes
<1>3. Fees \in Int /\ Fees' \in Int
  BY <1>1, <1>2 DEF Fees
<1>4. ASSUME ~Commit(c) PROVE Fees' = Fees /\ UNCHANGED <<flIssued, flBurnt, flUndone>>
  <2>1. /\ flPool' + FeeOnItsWay'[c] = flPool + FeeOnItsWay[c] /\ flUnpooled' = flUnpooled
        /\ UNCHANGED <<flIssued, flBurnt, flUndone>>
    BY <1>4, FeeMoved
  <2> QED BY <1>1, <1>2, <2>1 DEF Fees
<1>5. ASSUME Commit(c) PROVE Fees' = Fees + flPlan[c].fee
  <2>1. PICK p : p = flPlan[c]
    OBVIOUS
  <2>2. flPool' = flPool /\ FeeOnItsWay[c] = 0 /\ flUnpooled' + FeeOnItsWay'[c] = flUnpooled + p.fee
    BY <1>5, <2>1, FeeCommitted
  <2>3. p.fee \in Nat
    <3>1. flPc[c] # "idle"
      BY <1>5 DEF Commit
    <3> QED BY <2>1, <3>1, KnownSpend
  <2>4. Pending' = Pending + FeeOnItsWay'[c]
    BY <1>1, <2>2
  <2>5. Fees' = flPool' + Pending' + flUnpooled' /\ Fees = flPool + Pending + flUnpooled
    BY DEF Fees
  <2>6. PICK f : f = FeeOnItsWay'[c]
    OBVIOUS
  <2>7. Fees' = Fees + p.fee
    BY <1>1, <1>2, <2>2, <2>3, <2>4, <2>5, <2>6
  <2> QED BY <2>1, <2>7
<1> QED BY <1>3, <1>4, <1>5

LEMMA DueNow ==
    ASSUME FlowBase, NEW a
    PROVE  DueOf(a) = flIssued[a] - flBurnt[a] - (IF a = Pms THEN Fees - flUndone ELSE 0)
<1>1. flPool \in Nat /\ Pending \in Nat /\ flUnpooled \in Nat /\ flUndone \in Nat
  BY PendingFact DEF FlowBase, FlowTypes
<1>2. flPool + Pending + flUnpooled - flUndone = Fees - flUndone
  BY <1>1 DEF Fees
<1> QED BY <1>2 DEF DueOf

LEMMA DueNext ==
    ASSUME FlowBase', NEW a
    PROVE  DueOf(a)' = flIssued'[a] - flBurnt'[a] - (IF a = Pms THEN Fees' - flUndone' ELSE 0)
<1>1. flPool' \in Nat /\ Pending' \in Nat /\ flUnpooled' \in Nat /\ flUndone' \in Nat
  BY SumsNext DEF FlowBase, FlowTypes, SumsDefined
<1>2. flPool' + Pending' + flUnpooled' - flUndone' = Fees' - flUndone'
  BY <1>1 DEF Fees
<1> QED BY <1>2 DEF DueOf

LEMMA AccountSame ==
    ASSUME FlowBase, FlowBase', NEW a, AccountOf(a), UNCHANGED <<flCoins, flBlocks, flIssued, flBurnt, flUndone>>, Fees' = Fees
    PROVE  AccountOf(a)'
<1>1. Held(a)' = Held(a)
  BY DEF Held
<1>2. SumFunction(Recoverable(a))' = SumFunction(Recoverable(a))
  BY DEF Recoverable, Whole
<1>3. DueOf(a)' = DueOf(a)
  BY DueNow, DueNext
<1> QED BY <1>1, <1>2, <1>3 DEF AccountOf

\* A block changes what is held as it changes what is due.
LEMMA AccountCommit ==
    ASSUME FlowBase, FlowBase', BooksKept, BooksKept', NEW a \in AnyAsset, AccountOf(a),
           NEW c, c \in FlowCall, CallStep(c), Commit(c)
    PROVE  AccountOf(a)'
<1>1. PICK p : p = flPlan[c]
  OBVIOUS
<1>2. flPc[c] = "commit" /\ Present(p) /\ p \in PlanType /\ p.fee \in Nat
  BY <1>1, CommitFact DEF PlanType
<1>3. PICK in, out, held, due, kept :
          /\ in = AmountIn(Inputs(p), a) /\ out = Total(p.outs, a) /\ held = Held(a) /\ due = DueOf(a)
          /\ kept = SumFunction(Recoverable(a))
  OBVIOUS
<1>4. held \in Nat /\ in \in Nat /\ out \in Nat /\ Held(a)' = held - in + out
  BY <1>1, <1>3, HeldAfter
<1>5. flIssued[a] \in Nat /\ flBurnt[a] \in Nat /\ flUndone \in Nat
  BY DEF FlowBase, FlowTypes
<1>6. /\ flIssued'[a] = flIssued[a] + Minted(p, a) /\ flBurnt'[a] = flBurnt[a] + Burns(p, a)
      /\ flUndone' = flUndone + Revived(p)
  BY <1>1 DEF Commit, Burns, Revived
<1>7. Fees' = Fees + p.fee /\ Fees \in Int
  BY <1>1, FeesAfter
<1>8. Minted(p, a) \in Nat /\ Burns(p, a) \in Nat /\ Revived(p) \in Nat
  BY <1>1, <1>2, InAndOut
<1>9. /\ due = flIssued[a] - flBurnt[a] - (IF a = Pms THEN Fees - flUndone ELSE 0)
      /\ DueOf(a)' = flIssued'[a] - flBurnt'[a] - (IF a = Pms THEN Fees' - flUndone' ELSE 0)
  BY <1>3, DueNow, DueNext
<1>10. due \in Int /\ DueOf(a)' = due + Minted(p, a) - Burns(p, a) - (IF a = Pms THEN p.fee - Revived(p) ELSE 0)
  <2>1. CASE a = Pms
    BY <1>2, <1>5, <1>6, <1>7, <1>8, <1>9, <2>1
  <2>2. CASE a # Pms
    BY <1>5, <1>6, <1>8, <1>9, <2>2
  <2> QED BY <2>1, <2>2
<1>11. CASE a = Pms
  <2>1. in + Minted(p, a) + Revived(p) = out + Burns(p, a) + p.fee
    BY <1>1, <1>2, <1>3, <1>11, InAndOut
  <2>2. held = due
    BY <1>3, <1>11 DEF AccountOf
  <2>3. Held(a)' = DueOf(a)'
    BY <1>2, <1>4, <1>8, <1>10, <1>11, <2>1, <2>2
  <2> QED BY <1>11, <2>3 DEF AccountOf
<1>12. CASE a # Pms /\ DecayOf[a] = 0
  <2>1. in + Minted(p, a) = out + Burns(p, a)
    BY <1>1, <1>2, <1>3, <1>12, InAndOut, Constants
  <2>2. held = due
    BY <1>3, <1>12 DEF AccountOf
  <2>3. DueOf(a)' = due + Minted(p, a) - Burns(p, a)
    BY <1>8, <1>10, <1>12
  <2>4. Held(a)' = DueOf(a)'
    BY <1>4, <1>8, <1>10, <2>1, <2>2, <2>3
  <2> QED BY <1>12, <2>4 DEF AccountOf
<1>13. CASE a # Pms /\ DecayOf[a] > 0
  <2>0. a \in FlowAsset
    BY <1>13, Constants
  <2>1. held + kept <= due
    BY <1>3, <1>13 DEF AccountOf
  <2>2. /\ SumFunction(Recoverable(a))' <= kept + Recovered(p, a)
        /\ SumFunction(Recoverable(a))' \in Int /\ kept \in Int
    BY <1>1, <1>3, <2>0, RecoverAfter
  <2>3. in + Minted(p, a) >= out + Burns(p, a) + Recovered(p, a) /\ Recovered(p, a) \in Int
    <3>1. CASE p.kind \notin Transfer \cup {"reverse"}
      <4>1. in + Minted(p, a) = out + Burns(p, a)
        BY <1>1, <1>2, <1>3, <2>0, <3>1, InAndOut
      <4>2. Recovered(p, a) = 0
        BY <3>1 DEF Recovered, Transfer
      <4> QED BY <1>4, <1>8, <4>1, <4>2
    <3>2. CASE p.kind \in {"plain", "reverse"}
      <4>1. Minted(p, a) = 0 /\ Burns(p, a) = 0
        BY <3>2 DEF Minted, Burns
      <4>2. Recovered(p, a) = in - out
        BY <1>3, <3>2 DEF Recovered
      <4> QED BY <1>4, <4>1, <4>2
    <3>3. CASE p.kind \in {"sealed", "settle"}
      <4>1. Minted(p, a) = 0 /\ Burns(p, a) = 0
        BY <3>3 DEF Minted, Burns
      <4>2. Recovered(p, a) = 0
        BY <3>3 DEF Recovered
      <4>3. out <= in
        <5>1. flPc[c] # "idle"
          BY <1>2
        <5>2. BooksChecked(p)
          BY <1>1, <1>2, <5>1, BooksKeptAs DEF Balanced
        <5> QED BY <1>3, <2>0, <3>3, <5>2 DEF BooksChecked, Transfer
      <4> QED BY <1>4, <4>1, <4>2, <4>3
    <3> QED BY <3>1, <3>2, <3>3 DEF Transfer
  <2>4. DueOf(a)' = due + Minted(p, a) - Burns(p, a)
    BY <1>8, <1>10, <1>13
  <2>5. Held(a)' + SumFunction(Recoverable(a))' <= DueOf(a)'
    BY <1>4, <1>8, <1>10, <2>1, <2>2, <2>3, <2>4
  <2> QED BY <1>13, <2>5 DEF AccountOf
<1>14. a = Pms \/ DecayOf[a] \in Nat
  BY Constants
<1> QED BY <1>11, <1>12, <1>13, <1>14

LEMMA AccountCall ==
    ASSUME FlowBase, BooksKept, NEW a \in AnyAsset, AccountOf(a), NEW c, c \in FlowCall, CallStep(c)
    PROVE  AccountOf(a)'
<1>1. FlowBase' /\ BooksKept'
  BY CallBase, BooksCall
<1>2. CASE Commit(c)
  BY <1>1, <1>2, AccountCommit
<1>3. CASE ~Commit(c)
  <2>1. flCoins' = flCoins /\ flBlocks' = flBlocks
    BY <1>3, CallFrame
  <2>2. Fees' = Fees /\ UNCHANGED <<flIssued, flBurnt, flUndone>>
    BY <1>1, <1>3, FeesAfter
  <2> QED BY <1>1, <2>1, <2>2, AccountSame
<1> QED BY <1>2, <1>3

\* The end of the process loses the fees on their way.
LEMMA AccountEvent ==
    ASSUME FlowBase, NEW a, AccountOf(a), EventStep
    PROVE  AccountOf(a)'
<1>1. UNCHANGED <<flCoins, flBlocks, flIssued, flBurnt, flUndone>>
  BY DEF EventStep, Edict, RoyaltyChange, FlowTick, FlowExit, flShared, flGhost
<1>2. Fees' = Fees
  <2>1. CASE FlowExit
    <3>1. Pending' = 0 /\ flUnpooled' = flUnpooled + Pending /\ flPool' = flPool
      BY <2>1, ExitSums DEF FlowExit
    <3>2. Pending \in Nat /\ flUnpooled \in Nat /\ flPool \in Nat
      BY PendingFact DEF FlowBase, FlowTypes
    <3> QED BY <3>1, <3>2 DEF Fees
  <2>2. CASE UNCHANGED <<flPc, flPlan, flPool, flUnpooled>>
    BY <2>2, EventSums DEF Fees
  <2> QED BY <2>1, <2>2 DEF EventStep, Edict, RoyaltyChange, FlowTick, flShared, flGhost
<1> QED BY <1>1, <1>2, EventBase, AccountSame

LEMMA AccountsAs == Accounts <=> \A a \in AnyAsset : AccountOf(a)
BY DEF Accounts, AccountOf

LEMMA AccountsNext == (Accounts <=> \A a \in AnyAsset : AccountOf(a))'
BY AccountsAs, PTL

LEMMA AccountsStep == FlowBase /\ BooksKept /\ Accounts /\ [FlowNext]_flVars => Accounts'
<1> SUFFICES ASSUME FlowBase, BooksKept, Accounts, [FlowNext]_flVars PROVE Accounts'
  OBVIOUS
<1>1. \A a \in AnyAsset : AccountOf(a)
  BY AccountsAs
<1>2. ASSUME NEW a \in AnyAsset PROVE AccountOf(a)'
  <2>1. CASE UNCHANGED flVars
    <3>1. UNCHANGED <<flCoins, flBlocks, flIssued, flBurnt, flUndone>>
      BY <2>1 DEF flVars, flShared, flGhost
    <3>2. Fees' = Fees
      BY <2>1, EventSums DEF flVars, flShared, flGhost, Fees
    <3> QED BY <1>1, <3>1, <3>2, FlowBaseStep, AccountSame
  <2>2. ASSUME NEW c \in FlowCall, CallStep(c) PROVE AccountOf(a)'
    BY <1>1, <2>2, AccountCall
  <2>3. CASE EventStep
    BY <1>1, <2>3, AccountEvent
  <2> QED BY <2>1, <2>2, <2>3, StepCases
<1> QED BY <1>2, AccountsNext

LEMMA AccountsInit == FlowInit => Accounts
<1> SUFFICES ASSUME FlowInit, NEW a \in AnyAsset PROVE AccountOf(a)
  BY AccountsAs
<1>1. FlowBase /\ BooksKept
  BY FlowBaseInit DEF FlowInit, BooksKept, FlowInFlight
<1>2. \A c \in FlowCall : FeeOnItsWay[c] = 0
  BY DEF FlowInit, FeeOnItsWay
<1>3. Pending = 0
  <2>1. Pending = SumFunctionOnSet(FeeOnItsWay, FlowCall) /\ IsFiniteSet(FlowCall)
    BY <1>1, PendingFact
  <2> QED BY <1>2, <2>1, SumZero
<1>4. Fees - flUndone = 0
  BY <1>3 DEF FlowInit, Fees
<1>5. Held(a) \in Nat /\ flIssued[a] = Held(a) /\ flBurnt[a] = 0
  BY <1>1, CoinsFact DEF FlowInit, Held, Zero, FlowBase
<1>6. DueOf(a) = Held(a)
  <2>1. DueOf(a) = flIssued[a] - flBurnt[a] - (IF a = Pms THEN Fees - flUndone ELSE 0)
    BY <1>1, DueNow
  <2> QED BY <1>4, <1>5, <2>1
<1>7. a # Pms => SumFunction(Recoverable(a)) = 0
  <2> SUFFICES ASSUME a # Pms PROVE SumFunction(Recoverable(a)) = 0
    OBVIOUS
  <2>1. a \in FlowAsset
    BY Constants
  <2>2. /\ SumFunction(Recoverable(a)) = SumFunctionOnSet(Recoverable(a), DOMAIN flBlocks)
    BY <1>1, <2>1, RecoverNow DEF RecoverDefined
  <2>3. DOMAIN flBlocks = {}
    BY DEF FlowInit
  <2> QED BY <2>2, <2>3, SumEmpty
<1> QED BY <1>5, <1>6, <1>7 DEF AccountOf

\* Value is accounted for: no step of a handler, of the commit or of the fee's
\* way to the pool makes or loses any, and an exit of the process only strands
\* the fees not yet pooled.
THEOREM ValueAlwaysAccounted == FlowSpec => []ValueAccounted
<1>1. FlowBase /\ BooksKept /\ Accounts => ValueAccounted
  <2> SUFFICES ASSUME FlowBase, BooksKept, Accounts, NEW a \in AnyAsset
               PROVE  IF a # Pms /\ DecayOf[a] > 0 THEN Held(a) <= DueOf(a) ELSE Held(a) = DueOf(a)
    BY DEF ValueAccounted
  <2>1. AccountOf(a)
    BY AccountsAs
  <2>2. CASE a # Pms /\ DecayOf[a] > 0
    <3>1. a \in FlowAsset /\ Held(a) \in Nat
      BY <2>2, Constants, CoinsFact DEF FlowBase, Held
    <3>2. RecoverDefined(a)
      BY <3>1, RecoverNow
    <3>3. SumFunction(Recoverable(a)) \in Nat
      BY <3>2, SumNat DEF RecoverDefined
    <3>4. DueOf(a) \in Int
      <4>1. flIssued[a] \in Nat /\ flBurnt[a] \in Nat
        BY DEF FlowBase, FlowTypes
      <4> QED BY <2>2, <4>1, DueNow
    <3> QED BY <2>1, <2>2, <3>1, <3>3, <3>4 DEF AccountOf
  <2>3. CASE ~(a # Pms /\ DecayOf[a] > 0)
    BY <2>1, <2>3 DEF AccountOf
  <2> QED BY <2>2, <2>3
<1> QED BY <1>1, AccountsInit, AccountsStep, FlowBaseAlways, BooksAlways, PTL DEF FlowSpec
=============================================================================
