----------------------------- MODULE DataTheorems -----------------------------
(***************************************************************************)
(* What the proofs need to know about numbers, finite sets, folds and the  *)
(* operators of Assignment.                                                *)
(* The induction principles are stated about sets, and the recursion about *)
(* functions, instead of about operators: so the provers can apply them.   *)
(***************************************************************************)
EXTENDS Assignment, FiniteSetTheorems, WellFoundedInduction, TLAPS

-------------------------------------------------------------------------------
(* Induction.                                                              *)

LEMMA LeastNatural ==
  ASSUME NEW T \in SUBSET Nat, T # {}
  PROVE  \E n \in T : \A m \in T : n <= m
<1> DEFINE R == {ss \in Nat \X Nat : ss[1] < ss[2]}
<1>1. IsWellFoundedOn(R, Nat)
  BY NatLessThanWellFounded, Zenon DEF OpToRel
<1>2. \E n \in T : \A m \in T : ~ (<<m, n>> \in R)
  <2> HIDE DEF R
  <2> QED
    BY <1>1, WFMin
<1>3. PICK n \in T : \A m \in T : ~ (<<m, n>> \in R)
  BY <1>2
<1>4. \A m \in T : n \in Nat /\ m \in Nat /\ ~ (m < n)
  BY <1>3
<1> QED
  BY <1>4

\* A set that holds 0 and the successors of its numbers holds all of them.
LEMMA NaturalInduction ==
  ASSUME NEW S, 0 \in S, \A n \in Nat : n \in S => n + 1 \in S
  PROVE  Nat \subseteq S
<1> SUFFICES ASSUME NEW k \in Nat, k \notin S PROVE FALSE
  OBVIOUS
<1>1. PICK n \in Nat \ S : \A m \in Nat \ S : n <= m
  <2>1. Nat \ S \in SUBSET Nat /\ Nat \ S # {}
    OBVIOUS
  <2> QED
    BY <2>1, LeastNatural
<1>2. n - 1 \in Nat /\ n - 1 \in S
  BY <1>1
<1> QED
  BY <1>1, <1>2

\* Max picks the largest number of a set of indices.
LEMMA MaxOfIndices ==
  ASSUME NEW n \in Nat, NEW S \in SUBSET (1..n), S # {}
  PROVE  Max(S) \in S /\ \A x \in S : x <= Max(S)
<1>1. PICK k \in {n - x : x \in S} : \A m \in {n - x : x \in S} : k <= m
  <2>1. \A x \in S : n - x \in Nat
    OBVIOUS
  <2>2. {n - x : x \in S} \in SUBSET Nat /\ {n - x : x \in S} # {}
    BY <2>1
  <2> QED
    BY <2>2, LeastNatural
<1>2. PICK y \in S : k = n - y
  BY <1>1
<1>3. \A x \in S : y >= x
  BY <1>1, <1>2
<1> QED
  BY <1>3 DEF Max

\* Of the subsets of a finite set, some in T are smallest.
LEMMA SmallestSubset ==
  ASSUME NEW F, IsFiniteSet(F), NEW T \in SUBSET SUBSET F, T # {}
  PROVE  \E s \in T : \A r \in T : r \subseteq s => r = s
<1>1. IsWellFoundedOn(StrictSubsetOrdering(F), FiniteSubsetsOf(F))
  BY FS_StrictSubsetOrderingWellFounded
<1>2. T \subseteq FiniteSubsetsOf(F)
  BY FS_FiniteSubsetsOfFinite
<1>3. \E x \in T : \A y \in T : ~ (<<y, x>> \in StrictSubsetOrdering(F))
  BY <1>1, <1>2, WFMin
<1> QED
  BY <1>3 DEF StrictSubsetOrdering

-------------------------------------------------------------------------------
(* Finite sets of numbers, their extremes and their order.                 *)

\* Max picks the largest number of a finite set.
LEMMA MaxOfFinite ==
  ASSUME NEW S, IsFiniteSet(S), S # {}, \A x \in S : x \in Int
  PROVE  Max(S) \in S /\ \A x \in S : x <= Max(S)
<1> DEFINE IsAbove(s, x) == \A y \in S : y \in s <=> y > x
           T == {s \in SUBSET S : \E x \in S : IsAbove(s, x)}
<1>0. \A x \in S : \E s \in T : IsAbove(s, x)
  <2> TAKE x \in S
  <2>1. {y \in S : y > x} \in SUBSET S /\ IsAbove({y \in S : y > x}, x)
    OBVIOUS
  <2> QED
    BY <2>1
<1> HIDE DEF IsAbove
<1>1. PICK s \in T : \A r \in T : r \subseteq s => r = s
  <2>1. T \in SUBSET SUBSET S /\ T # {}
    BY <1>0
  <2> HIDE DEF T
  <2> QED
    BY <2>1, SmallestSubset
<1>2. PICK x \in S : IsAbove(s, x)
  OBVIOUS
<1>3. ASSUME NEW y \in S, y > x PROVE FALSE
  <2>1. PICK r \in T : IsAbove(r, y)
    BY <1>0
  <2>2. r \subseteq s
    <3> SUFFICES ASSUME NEW z \in r PROVE z \in s
      OBVIOUS
    <3>1. z \in S /\ z > y
      BY <2>1 DEF IsAbove
    <3>2. z > x
      BY <1>3, <3>1
    <3> QED
      BY <1>2, <3>1, <3>2 DEF IsAbove
  <2>3. y \in s
    BY <1>2, <1>3 DEF IsAbove
  <2>4. y \notin r
    BY <2>1 DEF IsAbove
  <2> QED
    BY <1>1, <2>2, <2>3, <2>4
<1>4. \A y \in S : y <= x
  BY <1>3
<1> QED
  BY <1>4 DEF Max

\* The larger of two numbers.
LEMMA PairIsFinite ==
  ASSUME NEW a, NEW b
  PROVE  IsFiniteSet({a, b})
<1>1. PICK A : A = {a} /\ IsFiniteSet(A)
  BY FS_Singleton
<1>2. PICK B : B = A \cup {b} /\ IsFiniteSet(B)
  BY <1>1, FS_AddElement
<1>3. B = {a, b}
  BY <1>1, <1>2
<1> QED
  BY <1>2, <1>3

LEMMA MaxOfTwo ==
  ASSUME NEW a \in Nat, NEW b \in Nat
  PROVE  Max({a, b}) \in Nat /\ a <= Max({a, b}) /\ b <= Max({a, b})
<1>1. IsFiniteSet({a, b})
  BY PairIsFinite
<1>2. PICK S : S = {a, b}
  OBVIOUS
<1>3. IsFiniteSet(S) /\ S # {} /\ \A x \in S : x \in Int
  BY <1>1, <1>2
<1>4. Max(S) \in S /\ \A x \in S : x <= Max(S)
  BY <1>3, MaxOfFinite
<1> QED
  BY <1>2, <1>4

\* Min picks the least number of a set.
LEMMA MinOfNaturals ==
  ASSUME NEW S \in SUBSET Nat, S # {}
  PROVE  Min(S) \in S /\ \A x \in S : Min(S) <= x
<1>1. PICK n \in S : \A m \in S : n <= m
  BY LeastNatural
<1> QED
  BY <1>1 DEF Min

\* The image of a finite set under a function is finite.
LEMMA ImageIsFinite ==
  ASSUME NEW S, IsFiniteSet(S), NEW f
  PROVE  IsFiniteSet({f[x] : x \in S})
<1> DEFINE T == {f[x] : x \in S}
           g == [x \in S |-> f[x]]
<1>1. g \in Surjection(S, T)
  BY DEF Surjection
<1> HIDE DEF T, g
<1> QED
  BY <1>1, FS_Surjection DEF T

\* x's place in S by rising keys.
RankOf(S, key, x) == Cardinality({y \in S : key[y] < key[x]})

\* Distinct keys number the elements of a finite set from 0, without a gap.
LEMMA RanksNumber ==
  ASSUME NEW S, IsFiniteSet(S), NEW key \in [S -> Int],
         \A x, y \in S : key[x] = key[y] => x = y
  PROVE  /\ \A x \in S : RankOf(S, key, x) \in 0..(Cardinality(S) - 1)
         /\ \A x, y \in S : RankOf(S, key, x) = RankOf(S, key, y) => x = y
         /\ \A k \in 0..(Cardinality(S) - 1) : \E x \in S : RankOf(S, key, x) = k
<1> DEFINE Below(x) == {y \in S : key[y] < key[x]}
           n == Cardinality(S)
<1>0. n \in Nat
  BY FS_CardinalityType
<1>1. \A x \in S : IsFiniteSet(Below(x)) /\ Cardinality(Below(x)) \in Nat
  <2> SUFFICES ASSUME NEW x \in S PROVE IsFiniteSet(Below(x)) /\ Cardinality(Below(x)) \in Nat
    OBVIOUS
  <2>1. Below(x) \in SUBSET S
    OBVIOUS
  <2> HIDE DEF Below
  <2> QED
    BY <2>1, FS_Subset, FS_CardinalityType
<1>2. ASSUME NEW A \in SUBSET S, NEW x \in S \ A
      PROVE  Cardinality(A) < n
  <2>1. IsFiniteSet(A) /\ Cardinality(A) <= n /\ (n = Cardinality(A) => S = A)
    BY FS_Subset
  <2>2. Cardinality(A) \in Nat
    BY <2>1, FS_CardinalityType
  <2> HIDE DEF n
  <2> QED
    BY <1>0, <2>1, <2>2
<1>3. ASSUME NEW x \in S PROVE Cardinality(Below(x)) \in 0..(n - 1)
  <2>1. Below(x) \in SUBSET S /\ x \in S \ Below(x)
    OBVIOUS
  <2>2. Cardinality(Below(x)) < n /\ Cardinality(Below(x)) \in Nat
    BY <1>1, <1>2, <2>1
  <2> HIDE DEF Below, n
  <2> QED
    BY <1>0, <2>2
<1>4. ASSUME NEW x \in S, NEW y \in S, key[x] < key[y]
      PROVE  Cardinality(Below(x)) < Cardinality(Below(y))
  <2>1. Below(x) \in SUBSET Below(y) /\ x \in Below(y) /\ x \notin Below(x)
    BY <1>4
  <2>2. IsFiniteSet(Below(y)) /\ Cardinality(Below(x)) \in Nat /\ Cardinality(Below(y)) \in Nat
    BY <1>1
  <2> HIDE DEF Below
  <2>3. /\ Cardinality(Below(x)) <= Cardinality(Below(y))
        /\ Cardinality(Below(y)) = Cardinality(Below(x)) => Below(y) = Below(x)
    BY <2>1, <2>2, FS_Subset
  <2> QED
    BY <2>1, <2>2, <2>3
<1>5. \A x, y \in S : Cardinality(Below(x)) = Cardinality(Below(y)) => x = y
  <2> SUFFICES ASSUME NEW x \in S, NEW y \in S, Cardinality(Below(x)) = Cardinality(Below(y)), x # y
               PROVE  FALSE
    OBVIOUS
  <2>1. key[x] < key[y] \/ key[y] < key[x]
    OBVIOUS
  <2>2. Cardinality(Below(x)) \in Nat /\ Cardinality(Below(y)) \in Nat
    BY <1>1
  <2> HIDE DEF Below
  <2> QED
    BY <1>4, <2>1, <2>2
<1> DEFINE f == [x \in S |-> Cardinality(Below(x))]
<1>6. f \in Injection(S, 0..(n - 1))
  <2> HIDE DEF Below, n
  <2> QED
    BY <1>3, <1>5 DEF Injection, IsInjective
<1>7. IsFiniteSet(0..(n - 1)) /\ Cardinality(0..(n - 1)) = n
  <2>1. 0 \in Int /\ n - 1 \in Int
    BY <1>0
  <2> HIDE DEF n
  <2>2. IsFiniteSet(0..(n - 1)) /\ Cardinality(0..(n - 1)) = IF 0 > n - 1 THEN 0 ELSE n - 1 - 0 + 1
    BY <2>1, FS_Interval
  <2> QED
    BY <1>0, <2>2
<1>8. f \in Surjection(S, 0..(n - 1))
  <2> HIDE DEF f
  <2> QED
    BY <1>6, <1>7, FS_Injection
<1>9. \A k \in 0..(n - 1) : \E x \in S : Cardinality(Below(x)) = k
  <2> HIDE DEF Below, n
  <2> QED
    BY <1>8 DEF Surjection
<1>10. \A x \in S : RankOf(S, key, x) = Cardinality(Below(x))
  BY DEF RankOf
<1> HIDE DEF Below, f
<1> QED
  BY <1>3, <1>5, <1>9, <1>10

-------------------------------------------------------------------------------
(* Recursion on the numbers up to N.                                       *)

StepsInto(F, N, V) == \A n \in 1..N, v \in V : F[<<n, v>>] \in V

\* f is computed from base, step by step.
Runs(f, N, base, F) == f[0] = base /\ \A n \in 1..N : f[n] = F[<<n, f[n - 1]>>]

LEMMA RecursionExists ==
  ASSUME NEW N \in Nat, NEW V, NEW base \in V, NEW F, StepsInto(F, N, V)
  PROVE  \E f \in [0..N -> V] : Runs(f, N, base, F)
<1> DEFINE S == {m \in Nat : m <= N => \E f \in [0..m -> V] : Runs(f, m, base, F)}
<1>1. 0 \in S
  <2>1. [n \in 0..0 |-> base] \in [0..0 -> V] /\ Runs([n \in 0..0 |-> base], 0, base, F)
    BY DEF Runs
  <2> QED
    BY <2>1
<1>2. ASSUME NEW m \in Nat, m \in S PROVE m + 1 \in S
  <2> SUFFICES ASSUME m + 1 <= N
               PROVE  \E f \in [0..(m + 1) -> V] : Runs(f, m + 1, base, F)
    OBVIOUS
  <2>1. PICK f \in [0..m -> V] : Runs(f, m, base, F)
    BY <1>2
  <2> DEFINE g == [n \in 0..(m + 1) |-> IF n = m + 1 THEN F[<<m + 1, f[m]>>] ELSE f[n]]
  <2>2. m + 1 \in 1..N /\ f[m] \in V /\ (m + 1) - 1 = m /\ m \in 0..m
    OBVIOUS
  <2>3. F[<<m + 1, f[m]>>] \in V
    BY <2>2 DEF StepsInto
  <2>4. \A n \in 0..(m + 1) : n # m + 1 => n \in 0..m
    OBVIOUS
  <2>5. g \in [0..(m + 1) -> V]
    BY <2>3, <2>4
  <2>6. g[0] = base
    BY <2>1 DEF Runs
  <2>7. ASSUME NEW n \in 1..(m + 1) PROVE g[n] = F[<<n, g[n - 1]>>]
    <3>1. CASE n = m + 1
      <4>1. g[m + 1] = F[<<m + 1, f[m]>>] /\ g[m] = f[m]
        BY <2>2
      <4> QED
        BY <2>2, <3>1, <4>1
    <3>2. CASE n # m + 1
      <4>1. n \in 1..m /\ n \in 0..(m + 1) /\ n - 1 \in 0..(m + 1) /\ n - 1 # m + 1
        BY <3>2
      <4>2. g[n] = f[n] /\ g[n - 1] = f[n - 1]
        BY <3>2, <4>1
      <4> QED
        BY <2>1, <4>1, <4>2 DEF Runs
    <3> QED
      BY <3>1, <3>2
  <2>8. Runs(g, m + 1, base, F)
    <3> HIDE DEF g
    <3> QED
      BY <2>6, <2>7 DEF Runs
  <2> HIDE DEF g
  <2> QED
    BY <2>5, <2>8
<1>3. N \in S
  <2> HIDE DEF S
  <2>1. Nat \subseteq S
    BY <1>1, <1>2, NaturalInduction
  <2> QED
    BY <2>1
<1> QED
  BY <1>3

-------------------------------------------------------------------------------
(* Folds.                                                                  *)

\* it is what a fold over the subsets of P computes: ch[s] is the element taken first,
\* and F combines it with what the others give.
IsFold(it, P, base, ch, F) ==
  it = [s \in SUBSET P |-> IF s = {} THEN base ELSE F[<<ch[s], it[s \ {ch[s]}]>>]]

Chooses(ch, P) == \A s \in SUBSET P : s # {} => ch[s] \in s

MapsInto(F, P, V) == \A x \in P, v \in V : F[<<x, v>>] \in V

\* Two folds agree wherever both are defined.
LEMMA FoldIsUnique ==
  ASSUME NEW P, IsFiniteSet(P), NEW base, NEW ch, Chooses(ch, P), NEW F,
         NEW A \in SUBSET P, NEW B \in SUBSET P, NEW g, NEW h,
         IsFold(g, A, base, ch, F), IsFold(h, B, base, ch, F),
         NEW t \in SUBSET P, t \subseteq A, t \subseteq B
  PROVE  g[t] = h[t]
<1> DEFINE Differ == {s \in SUBSET P : s \subseteq A /\ s \subseteq B /\ g[s] # h[s]}
<1> SUFFICES ASSUME Differ # {} PROVE FALSE
  OBVIOUS
<1>1. PICK s \in Differ : \A r \in Differ : r \subseteq s => r = s
  <2>1. Differ \in SUBSET SUBSET P
    OBVIOUS
  <2> HIDE DEF Differ
  <2> QED
    BY <2>1, SmallestSubset
<1>2. /\ g[s] = IF s = {} THEN base ELSE F[<<ch[s], g[s \ {ch[s]}]>>]
      /\ h[s] = IF s = {} THEN base ELSE F[<<ch[s], h[s \ {ch[s]}]>>]
  <2>1. s \in SUBSET A /\ s \in SUBSET B
    BY <1>1
  <2> QED
    BY <2>1 DEF IsFold
<1>3. s # {}
  BY <1>1, <1>2
<1>4. ch[s] \in s
  BY <1>1, <1>3 DEF Chooses
<1>5. s \ {ch[s]} \notin Differ
  BY <1>1, <1>4
<1> QED
  BY <1>1, <1>2, <1>3, <1>5

\* So a fold over a finite set exists; what it computes has the type of base and F.
LEMMA FoldExists ==
  ASSUME NEW P, IsFiniteSet(P), NEW ch, Chooses(ch, P), NEW V, NEW base \in V,
         NEW F, MapsInto(F, P, V)
  PROVE  \E it \in [SUBSET P -> V] : IsFold(it, P, base, ch, F)
<1>0. ASSUME NEW A \in SUBSET P, NEW B \in SUBSET A, NEW g, NEW h,
             IsFold(g, A, base, ch, F), IsFold(h, B, base, ch, F)
      PROVE  g[B] = h[B]
  <2>1. B \in SUBSET P /\ B \subseteq A /\ B \subseteq B
    OBVIOUS
  <2> QED
    BY <1>0, <2>1, FoldIsUnique
<1> DEFINE Has(T) == \E it \in [SUBSET T -> V] : IsFold(it, T, base, ch, F)
           Lacking == {T \in SUBSET P : ~ Has(T)}
<1> SUFFICES ASSUME Lacking # {} PROVE FALSE
  OBVIOUS
<1>1. PICK T \in Lacking : \A r \in Lacking : r \subseteq T => r = T
  <2>1. Lacking \in SUBSET SUBSET P
    OBVIOUS
  <2> HIDE DEF Lacking
  <2> QED
    BY <2>1, SmallestSubset
<1>2. \A s \in SUBSET T : s # T => Has(s)
  BY <1>1
<1> DEFINE part(s) == CHOOSE it \in [SUBSET s -> V] : IsFold(it, s, base, ch, F)
<1>3. \A s \in SUBSET T : s # T => part(s) \in [SUBSET s -> V] /\ IsFold(part(s), s, base, ch, F)
  BY <1>2
<1> HIDE DEF part
<1> DEFINE below(s) == IF s = {} THEN base ELSE F[<<ch[s], part(s \ {ch[s]})[s \ {ch[s]}]>>]
           whole == [s \in SUBSET T |-> below(s)]
<1>4. ASSUME NEW s \in SUBSET T, s # {}
      PROVE  /\ ch[s] \in s /\ s \ {ch[s]} \in SUBSET T /\ s \ {ch[s]} # T
             /\ part(s \ {ch[s]})[s \ {ch[s]}] \in V
  <2>1. ch[s] \in s
    BY <1>1, <1>4 DEF Chooses
  <2>2. s \ {ch[s]} \in SUBSET T /\ s \ {ch[s]} # T
    BY <2>1
  <2> QED
    BY <1>3, <2>1, <2>2
<1>5. \A s \in SUBSET T : below(s) \in V
  <2>1. \A s \in SUBSET T : s # {} => ch[s] \in P
    BY <1>1, <1>4
  <2> QED
    BY <1>4, <2>1 DEF MapsInto
<1>6. whole \in [SUBSET T -> V]
  BY <1>5
<1>7. ASSUME NEW r \in SUBSET T, r # T
      PROVE  whole[r] = part(r)[r]
  <2>1. CASE r = {}
    <3>1. part(r)[r] = base
      BY <1>3, <1>7, <2>1 DEF IsFold
    <3> QED
      BY <2>1, <3>1
  <2>2. CASE r # {}
    <3> DEFINE q == r \ {ch[r]}
    <3>1. q \in SUBSET T /\ q # T /\ q \in SUBSET r
      BY <1>4, <2>2
    <3>2. part(r)[r] = F[<<ch[r], part(r)[q]>>]
      BY <1>3, <1>7, <2>2 DEF IsFold
    <3> HIDE DEF q
    <3>3. part(r)[q] = part(q)[q]
      <4>1. PICK g, h : g = part(r) /\ h = part(q)
        OBVIOUS
      <4>2. IsFold(g, r, base, ch, F) /\ IsFold(h, q, base, ch, F)
        BY <1>3, <1>7, <3>1, <4>1
      <4>3. r \in SUBSET P /\ q \in SUBSET P /\ q \subseteq r /\ q \subseteq q
        BY <1>1, <3>1
      <4>4. g[q] = h[q]
        BY <1>0, <4>2, <4>3
      <4> QED
        BY <4>1, <4>4
    <3>4. whole[r] = F[<<ch[r], part(q)[q]>>]
      BY <2>2 DEF q
    <3> QED
      BY <3>2, <3>3, <3>4
  <2> QED
    BY <2>1, <2>2
<1>8. ASSUME NEW s \in SUBSET T
      PROVE  whole[s] = IF s = {} THEN base ELSE F[<<ch[s], whole[s \ {ch[s]}]>>]
  <2>1. CASE s = {}
    BY <2>1
  <2>2. CASE s # {}
    <3>1. whole[s \ {ch[s]}] = part(s \ {ch[s]})[s \ {ch[s]}]
      BY <1>4, <1>7, <2>2
    <3>2. whole[s] = F[<<ch[s], part(s \ {ch[s]})[s \ {ch[s]}]>>]
      BY <2>2
    <3> QED
      BY <2>2, <3>1, <3>2
  <2> QED
    BY <2>1, <2>2
<1>9. IsFold(whole, T, base, ch, F)
  <2> HIDE DEF below
  <2>1. whole = [s \in SUBSET T |-> whole[s]]
    OBVIOUS
  <2> HIDE DEF whole
  <2> QED
    BY <1>8, <2>1 DEF IsFold
<1>10. Has(T)
  <2> HIDE DEF whole
  <2> QED
    BY <1>6, <1>9
<1> QED
  BY <1>1, <1>10

-------------------------------------------------------------------------------
(* The total cost of some pairs, a fold by its definition.                 *)

\* w gives each element of P an integer weight, and it adds them up in the order of ch.
Weighs(w, P) == \A p \in P : w[p] \in Int

AddsUp(it, w, ch, P) ==
  /\ it \in [SUBSET P -> Int]
  /\ \A s \in SUBSET P : it[s] = IF s = {} THEN 0 ELSE w[ch[s]] + it[s \ {ch[s]}]

SplitsAnywhere(it, w, P) == \A s \in SUBSET P : \A x \in s : it[s] = w[x] + it[s \ {x}]

\* Whatever is taken first: the sum over s is the cost of x and the sum over the rest.
LEMMA SumSplits ==
  ASSUME NEW P, IsFiniteSet(P), NEW w, Weighs(w, P),
         NEW ch, Chooses(ch, P), NEW it, AddsUp(it, w, ch, P)
  PROVE  SplitsAnywhere(it, w, P)
<1> DEFINE Wrong == {s \in SUBSET P : \E x \in s : it[s] # w[x] + it[s \ {x}]}
<1> SUFFICES ASSUME Wrong # {} PROVE FALSE
  BY DEF SplitsAnywhere
<1>1. PICK s \in Wrong : \A r \in Wrong : r \subseteq s => r = s
  <2>1. Wrong \in SUBSET SUBSET P
    OBVIOUS
  <2> HIDE DEF Wrong
  <2> QED
    BY <2>1, SmallestSubset
<1>2. s \in SUBSET P /\ \E x \in s : it[s] # w[x] + it[s \ {x}]
  BY <1>1
<1>3. \A r \in SUBSET P : r \subseteq s /\ r # s => \A x \in r : it[r] = w[x] + it[r \ {x}]
  BY <1>1
<1> HIDE DEF Wrong
<1>4. PICK x \in s : it[s] # w[x] + it[s \ {x}]
  BY <1>2
<1>5. PICK c \in s : c = ch[s]
  BY <1>2 DEF Chooses
<1>6. it[s] = w[c] + it[s \ {c}]
  BY <1>2, <1>5 DEF AddsUp
<1>7. c # x
  BY <1>4, <1>6
<1>8. it[s \ {c}] = w[x] + it[(s \ {c}) \ {x}] /\ it[s \ {x}] = w[c] + it[(s \ {x}) \ {c}]
  <2>1. /\ s \ {c} \in SUBSET P /\ s \ {c} \subseteq s /\ s \ {c} # s /\ x \in s \ {c}
        /\ s \ {x} \in SUBSET P /\ s \ {x} \subseteq s /\ s \ {x} # s /\ c \in s \ {x}
    BY <1>2, <1>7
  <2> QED
    BY <1>3, <2>1
<1>9. (s \ {c}) \ {x} = (s \ {x}) \ {c} /\ (s \ {x}) \ {c} \in SUBSET P
  BY <1>2
<1>10. PICK i, j, k \in Int : i = w[c] /\ j = w[x] /\ k = it[(s \ {x}) \ {c}]
  BY <1>2, <1>9 DEF Weighs, AddsUp
<1>11. it[s] = i + (j + k) /\ it[s \ {x}] = i + k
  BY <1>6, <1>8, <1>9, <1>10
<1> QED
  BY <1>4, <1>10, <1>11

\* So the total cost of finitely many pairs is an integer, and is split at any pair.
LEMMA TotalCostSplits ==
  ASSUME NEW P, IsFiniteSet(P), NEW w, Weighs(w, P)
  PROVE  /\ TotalCost(w, P) \in Int
         /\ \A x \in P : TotalCost(w, P) = w[x] + TotalCost(w, P \ {x})
<1> DEFINE ch == [s \in SUBSET P |-> CHOOSE x \in s : TRUE]
           F == [xv \in P \X Int |-> w[xv[1]] + xv[2]]
<1>1. Chooses(ch, P) /\ \A s \in SUBSET P : ch[s] = CHOOSE x \in s : TRUE
  BY DEF Chooses
<1>2. \A x \in P, v \in Int : F[<<x, v>>] = w[x] + v
  OBVIOUS
<1> HIDE DEF ch, F
<1>3. MapsInto(F, P, Int)
  <2> SUFFICES ASSUME NEW x \in P, NEW v \in Int  PROVE F[<<x, v>>] \in Int
    BY DEF MapsInto
  <2>1. w[x] \in Int /\ F[<<x, v>>] = w[x] + v
    BY <1>2 DEF Weighs
  <2> QED
    BY <2>1
<1>4. PICK it \in [SUBSET P -> Int] : IsFold(it, P, 0, ch, F)
  <2>1. PICK zero, Whole : zero = 0 /\ Whole = Int
    OBVIOUS
  <2>2. zero \in Whole /\ MapsInto(F, P, Whole)
    BY <1>3, <2>1
  <2>3. \E it \in [SUBSET P -> Whole] : IsFold(it, P, zero, ch, F)
    BY <1>1, <2>2, FoldExists
  <2> QED
    BY <2>1, <2>3
<1>5. \A s \in SUBSET P : it[s] = IF s = {} THEN 0 ELSE w[ch[s]] + it[s \ {ch[s]}]
  <2> SUFFICES ASSUME NEW s \in SUBSET P
               PROVE  it[s] = IF s = {} THEN 0 ELSE w[ch[s]] + it[s \ {ch[s]}]
    OBVIOUS
  <2>1. it[s] = IF s = {} THEN 0 ELSE F[<<ch[s], it[s \ {ch[s]}]>>]
    BY <1>4 DEF IsFold
  <2>2. s # {} => ch[s] \in P /\ s \ {ch[s]} \in SUBSET P
    BY <1>1 DEF Chooses
  <2>3. s # {} => F[<<ch[s], it[s \ {ch[s]}]>>] = w[ch[s]] + it[s \ {ch[s]}]
    BY <1>2, <2>2
  <2> QED
    BY <2>1, <2>3
<1>6. ASSUME NEW A \in SUBSET P  PROVE TotalCost(w, A) = it[A]
  <2> DEFINE Sums(g) ==
        g = [s \in SUBSET A |->
               IF s = {} THEN 0 ELSE w[CHOOSE x \in s : TRUE] + g[s \ {CHOOSE x \in s : TRUE}]]
  <2>1. TotalCost(w, A) = (CHOOSE g : Sums(g))[A]
    BY DEF TotalCost, MapThenSumSet, MapThenFoldSet
  <2>2. Sums([s \in SUBSET A |-> it[s]])
    BY <1>1, <1>5
  <2> HIDE DEF Sums
  <2>3. PICK g : g = (CHOOSE e : Sums(e)) /\ Sums(g)
    BY <2>2, Zenon
  <2>4. ASSUME NEW s \in SUBSET A
        PROVE  g[s] = IF s = {} THEN 0 ELSE w[ch[s]] + g[s \ {ch[s]}]
    <3>1. ch[s] = CHOOSE x \in s : TRUE
      BY <1>1
    <3>2. g[s] = IF s = {} THEN 0
                 ELSE w[CHOOSE x \in s : TRUE] + g[s \ {CHOOSE x \in s : TRUE}]
      BY <2>3 DEF Sums
    <3> QED
      BY <3>1, <3>2
  <2> DEFINE Differ == {s \in SUBSET P : s \subseteq A /\ g[s] # it[s]}
  <2>5. Differ = {}
    <3> SUFFICES ASSUME Differ # {} PROVE FALSE
      OBVIOUS
    <3>1. PICK s \in Differ : \A r \in Differ : r \subseteq s => r = s
      <4>1. Differ \in SUBSET SUBSET P
        OBVIOUS
      <4> HIDE DEF Differ
      <4> QED
        BY <4>1, SmallestSubset
    <3>2. s # {} /\ s \in SUBSET A
      BY <1>5, <2>4, <3>1
    <3>3. ch[s] \in s
      BY <1>1, <3>2 DEF Chooses
    <3>4. s \ {ch[s]} \notin Differ
      BY <3>1, <3>3
    <3> QED
      BY <1>5, <2>4, <3>1, <3>2, <3>4
  <2> QED
    BY <2>1, <2>3, <2>5
<1>7. SplitsAnywhere(it, w, P)
  <2>1. AddsUp(it, w, ch, P)
    BY <1>5 DEF AddsUp
  <2> QED
    BY <1>1, <2>1, SumSplits
<1> QED
  BY <1>6, <1>7 DEF SplitsAnywhere

-------------------------------------------------------------------------------
(* Matchings.                                                              *)

\* A matching is a partial one-to-one function from the rows to the columns.
LEMMA MatchingIsInjective ==
  ASSUME NEW R, NEW C, NEW m \in Matchings(R, C)
  PROVE  /\ m \in [DOMAIN m -> C]
         /\ DOMAIN m \subseteq R
         /\ \A r, q \in DOMAIN m : m[r] = m[q] => r = q
<1>1. PICK S \in SUBSET R : m \in Injection(S, C)
  BY DEF Matchings
<1>2. m \in [S -> C] /\ IsInjective(m)
  BY <1>1 DEF Injection
<1> QED
  BY <1>2 DEF IsInjective

\* Pairs that use no row and no column twice stand for such a function.
LEMMA PairsMakeMatching ==
  ASSUME NEW R, NEW C, NEW pairs, IsMatching(pairs, R, C)
  PROVE  AsFunction(pairs) \in Matchings(R, C)
<1> DEFINE S == {p[1] : p \in pairs}
           f == [r \in S |-> CHOOSE c \in {p[2] : p \in pairs} : <<r, c>> \in pairs]
<1>1. \A p \in pairs : p \in R \X C /\ p = <<p[1], p[2]>>
  BY DEF IsMatching
<1>2. \A r \in S : <<r, f[r]>> \in pairs
  <2> SUFFICES ASSUME NEW r \in S  PROVE <<r, f[r]>> \in pairs
    OBVIOUS
  <2>1. \E c \in {p[2] : p \in pairs} : <<r, c>> \in pairs
    BY <1>1
  <2> QED
    BY <2>1
<1>3. S \in SUBSET R
  BY <1>1
<1> HIDE DEF f
<1>4. \A r, q \in S : f[r] \in C /\ (f[r] = f[q] => r = q)
  BY <1>2 DEF IsMatching
<1>5. f \in Injection(S, C)
  BY <1>4 DEF f, Injection, IsInjective
<1> QED
  BY <1>3, <1>5 DEF f, AsFunction, Matchings
===============================================================================
