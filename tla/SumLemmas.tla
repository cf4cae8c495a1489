----------------------------- MODULE SumLemmas -----------------------------
(***************************************************************************)
(* Sums over finite sets, and the greatest element of one: SumFunctionOnSet *)
(* is defined by recursion, and its laws are proved by looking at a         *)
(* smallest set for which they would fail.                                  *)
(***************************************************************************)
EXTENDS FiniteSetsExt, FiniteSetTheorems, TLAPS

\* A family of subsets of a finite set has a smallest member.
LEMMA SmallestSubset ==
    ASSUME NEW S, IsFiniteSet(S), NEW B \in SUBSET (SUBSET S), B # {}
    PROVE  \E T \in B : \A U \in SUBSET T : U # T => U \notin B
  <1>1. IsWellFoundedOn(StrictSubsetOrdering(S), SUBSET S)
    BY FS_StrictSubsetOrderingWellFounded, FS_FiniteSubsetsOfFinite
  <1>2. \E T \in B : \A U \in B : <<U, T>> \notin StrictSubsetOrdering(S)
    BY <1>1, WFMin, Zenon
  <1> QED
    BY <1>2 DEF StrictSubsetOrdering

Some(s) == CHOOSE x \in s : TRUE

\* g computes the sum of f over each member of D, from that over a smaller one.
Sums(g, f, D) ==
    g = [s \in D |-> IF s = {} THEN 0 ELSE f[Some(s)] + g[s \ {Some(s)}]]

LEMMA SumDef ==
    ASSUME NEW f, NEW S
    PROVE  SumFunctionOnSet(f, S) = (CHOOSE g : Sums(g, f, SUBSET S))[S]
  BY Zenon DEF SumFunctionOnSet, FoldFunctionOnSet, MapThenFoldSet, Sums, Some

LEMMA SomeIsMember ==
    ASSUME NEW s, s # {}
    PROVE  Some(s) \in s
  BY DEF Some

UpTo(S, n) == {s \in SUBSET S : Cardinality(s) <= n}

\* A recursion over subsets of at most n elements extends by one element.
LEMMA SumsExtend ==
    ASSUME NEW S, IsFiniteSet(S), NEW f, NEW n \in Nat, NEW g, Sums(g, f, UpTo(S, n))
    PROVE  \E h : Sums(h, f, UpTo(S, n + 1))
  <1> DEFINE h == [s \in UpTo(S, n + 1) |->
                     IF s = {} THEN 0 ELSE f[Some(s)] + g[s \ {Some(s)}]]
  <1>1. \A s \in SUBSET S : Cardinality(s) \in Nat
    BY FS_Subset, FS_CardinalityType
  <1>2. \A s \in SUBSET S : s # {} =>
          /\ s \ {Some(s)} \in SUBSET S
          /\ Cardinality(s \ {Some(s)}) = Cardinality(s) - 1
    BY FS_Subset, FS_RemoveElement, SomeIsMember
  <1>3. \A s \in UpTo(S, n) : h[s] = g[s]
    <2>1. \A s \in UpTo(S, n) : s \in UpTo(S, n + 1)
      BY <1>1 DEF UpTo
    <2> QED
      BY <2>1 DEF Sums
  <1>4. \A s \in UpTo(S, n + 1) : s # {} => s \ {Some(s)} \in UpTo(S, n)
    BY <1>1, <1>2 DEF UpTo
  <1>5. Sums(h, f, UpTo(S, n + 1))
    BY <1>3, <1>4 DEF Sums
  <1> QED
    BY <1>5

\* Every set of natural numbers that is not empty has a least element.
LEMMA LeastNumber ==
    ASSUME NEW B \in SUBSET Nat, B # {}
    PROVE  \E n \in B : \A m \in B : n <= m
  <1>1. PICK less : /\ IsWellFoundedOn(less, Nat)
                    /\ \A m, n \in Nat : m < n => <<m, n>> \in less
    <2>1. \A m, n \in Nat : m < n => <<m, n>> \in OpToRel(<, Nat)
      BY Zenon DEF OpToRel
    <2> QED
      BY <2>1, NatLessThanWellFounded, Zenon
  <1>2. B \subseteq Nat
    OBVIOUS
  <1>3. PICK n \in B : \A m \in B : <<m, n>> \notin less
    <2>1. IsWellFoundedOn(less, Nat) /\ B \subseteq Nat /\ B # {}
      BY <1>1
    <2> QED
      BY ONLY <2>1, WFMin, Zenon
  <1>4. \A m \in B : ~(m < n)
    BY <1>1, <1>2, <1>3
  <1> QED
    BY <1>2, <1>4

LEMMA SumsExist ==
    ASSUME NEW S, IsFiniteSet(S), NEW f
    PROVE  \E g : Sums(g, f, SUBSET S)
  <1> DEFINE B == {n \in Nat : ~ \E g : Sums(g, f, UpTo(S, n))}
  <1>1. B = {}
    <2> SUFFICES ASSUME B # {} PROVE FALSE
      OBVIOUS
    <2>1. PICK n \in B : \A m \in B : n <= m
      BY LeastNumber
    <2>2. n # 0
      <3>1. UpTo(S, 0) = {{}}
        BY FS_Subset, FS_CardinalityType, FS_EmptySet DEF UpTo
      <3>2. Sums([s \in {{}} |-> 0], f, UpTo(S, 0))
        BY <3>1 DEF Sums
      <3> QED
        BY <3>2
    <2>3. n - 1 \in Nat /\ n - 1 \notin B
      BY <2>1, <2>2
    <2>4. PICK g : Sums(g, f, UpTo(S, n - 1))
      BY <2>3
    <2>5. \E h : Sums(h, f, UpTo(S, (n - 1) + 1))
      BY <2>3, <2>4, SumsExtend
    <2> QED
      BY <2>3, <2>5
  <1>2. Cardinality(S) \in Nat /\ UpTo(S, Cardinality(S)) = SUBSET S
    BY FS_Subset, FS_CardinalityType DEF UpTo
  <1>3. Cardinality(S) \notin B
    BY <1>1
  <1> QED
    BY <1>2, <1>3

SumsAll(g, f, S) == Sums(g, f, SUBSET S)

\* Two such functions agree wherever both are defined.
LEMMA SumsAgree ==
    ASSUME NEW S, NEW T, IsFiniteSet(T), T \subseteq S, NEW f, NEW g, NEW h,
           SumsAll(g, f, S), SumsAll(h, f, T)
    PROVE  g[T] = h[T]
  <1> DEFINE B == {s \in SUBSET T : g[s] # h[s]}
  <1> SUFFICES ASSUME B # {} PROVE FALSE
    OBVIOUS
  <1>1. B \in SUBSET (SUBSET T)
    OBVIOUS
  <1>2. PICK s \in B : \A u \in SUBSET s : u # s => u \notin B
    <2> HIDE DEF B
    <2> QED
      BY <1>1, SmallestSubset, Zenon
  <1>3. s # {}
    BY DEF SumsAll, Sums
  <1>4. g[s \ {Some(s)}] = h[s \ {Some(s)}]
    BY <1>2, <1>3, SomeIsMember
  <1> QED
    BY <1>3, <1>4 DEF SumsAll, Sums

LEMMA SumIsSums ==
    ASSUME NEW S, IsFiniteSet(S), NEW f
    PROVE  \E g : SumsAll(g, f, S) /\ SumFunctionOnSet(f, S) = g[S]
  <1>1. Sums(CHOOSE g : Sums(g, f, SUBSET S), f, SUBSET S)
    BY SumsExist
  <1> QED
    BY <1>1, SumDef, Zenon DEF SumsAll

\* The recursion that SumFunctionOnSet promises.
LEMMA SumUnfolds ==
    ASSUME NEW S, IsFiniteSet(S), NEW f
    PROVE  SumFunctionOnSet(f, S) =
             IF S = {} THEN 0 ELSE f[Some(S)] + SumFunctionOnSet(f, S \ {Some(S)})
  <1>1. PICK g : SumsAll(g, f, S) /\ SumFunctionOnSet(f, S) = g[S]
    BY SumIsSums
  <1>2. CASE S = {}
    BY <1>1, <1>2 DEF SumsAll, Sums
  <1>3. CASE S # {}
    <2>1. PICK T : T = S \ {Some(S)}
      OBVIOUS
    <2>2. IsFiniteSet(T) /\ T \subseteq S
      BY <2>1, FS_RemoveElement, FS_Subset
    <2>3. PICK h : SumsAll(h, f, T) /\ SumFunctionOnSet(f, T) = h[T]
      BY <2>2, SumIsSums
    <2>4. g[T] = h[T]
      BY <1>1, <2>2, <2>3, SumsAgree
    <2>5. g[S] = f[Some(S)] + g[T]
      BY <1>1, <1>3, <2>1 DEF SumsAll, Sums
    <2> QED
      BY <1>1, <1>3, <2>1, <2>3, <2>4, <2>5
  <1> QED
    BY <1>2, <1>3

(***************************************************************************)
(* What is used of sums elsewhere.                                          *)
(***************************************************************************)
LEMMA SumEmpty == \A f : SumFunctionOnSet(f, {}) = 0
  BY FS_EmptySet, SumUnfolds

LEMMA SumNat ==
    ASSUME NEW S, IsFiniteSet(S), NEW f, \A x \in S : f[x] \in Nat
    PROVE  SumFunctionOnSet(f, S) \in Nat
  <1> DEFINE B == {T \in SUBSET S : SumFunctionOnSet(f, T) \notin Nat}
  <1> SUFFICES ASSUME B # {} PROVE FALSE
    OBVIOUS
  <1>1. B \in SUBSET (SUBSET S)
    OBVIOUS
  <1>2. PICK T \in B : \A U \in SUBSET T : U # T => U \notin B
    <2> HIDE DEF B
    <2> QED
      BY <1>1, SmallestSubset, Zenon
  <1>3. IsFiniteSet(T) /\ T \in SUBSET S
    BY FS_Subset
  <1>4. T # {}
    BY SumEmpty
  <1>5. SumFunctionOnSet(f, T \ {Some(T)}) \in Nat
    BY <1>2, <1>3, <1>4, SomeIsMember
  <1>6. f[Some(T)] \in Nat
    BY <1>3, <1>4, SomeIsMember
  <1> QED
    BY <1>3, <1>4, <1>5, <1>6, SumUnfolds

\* Any element may be taken out first.
LEMMA SumRemove ==
    ASSUME NEW S, IsFiniteSet(S), NEW f, \A x \in S : f[x] \in Nat
    PROVE  \A y \in S : SumFunctionOnSet(f, S) = f[y] + SumFunctionOnSet(f, S \ {y})
  <1> DEFINE Holds(T, y) == SumFunctionOnSet(f, T) = f[y] + SumFunctionOnSet(f, T \ {y})
             B == {T \in SUBSET S : \E y \in T : ~Holds(T, y)}
  <1> SUFFICES ASSUME B # {} PROVE FALSE
    OBVIOUS
  <1>1. B \in SUBSET (SUBSET S)
    OBVIOUS
  <1>2. PICK T \in B : \A U \in SUBSET T : U # T => U \notin B
    <2> HIDE DEF B
    <2> QED
      BY <1>1, SmallestSubset, Zenon
  <1>3. PICK x, y : x = Some(T) /\ y \in T /\ ~Holds(T, y)
    OBVIOUS
  <1>4. T \in SUBSET S /\ x \in T
    BY <1>3, SomeIsMember
  <1>5. PICK P, Q, R : P = T \ {x} /\ Q = T \ {y} /\ R = P \ {y}
    OBVIOUS
  <1>6. IsFiniteSet(T) /\ IsFiniteSet(P) /\ IsFiniteSet(R)
    BY <1>4, <1>5, FS_Subset
  <1>7. SumFunctionOnSet(f, T) = f[x] + SumFunctionOnSet(f, P)
    BY <1>3, <1>6, <1>5, SumUnfolds
  <1>8. x # y
    BY <1>3, <1>5, <1>7
  <1>9. y \in P /\ x \in Q /\ Q \ {x} = R
    BY <1>3, <1>4, <1>5, <1>8
  <1>10. Holds(P, y) /\ Holds(Q, x)
    <2>1. P \in SUBSET T /\ P # T /\ Q \in SUBSET T /\ Q # T
      BY <1>3, <1>4, <1>5
    <2> QED
      BY <1>2, <1>4, <1>9, <2>1
  <1>11. f[x] \in Nat /\ f[y] \in Nat /\ SumFunctionOnSet(f, R) \in Nat
    BY <1>3, <1>4, <1>5, <1>6, SumNat
  <1>12. /\ SumFunctionOnSet(f, P) = f[y] + SumFunctionOnSet(f, R)
         /\ SumFunctionOnSet(f, Q) = f[x] + SumFunctionOnSet(f, R)
    BY <1>5, <1>9, <1>10
  <1> QED
    BY <1>3, <1>5, <1>7, <1>11, <1>12

\* Sums over sets without a common element add up.
LEMMA SumUnion ==
    ASSUME NEW S, IsFiniteSet(S), NEW R, IsFiniteSet(R), S \cap R = {},
           NEW f, \A x \in S \cup R : f[x] \in Nat
    PROVE  SumFunctionOnSet(f, S \cup R) = SumFunctionOnSet(f, S) + SumFunctionOnSet(f, R)
  <1> DEFINE Holds(T) ==
               SumFunctionOnSet(f, S \cup T) = SumFunctionOnSet(f, S) + SumFunctionOnSet(f, T)
             B == {T \in SUBSET R : ~Holds(T)}
  <1> SUFFICES ASSUME B # {} PROVE FALSE
    OBVIOUS
  <1>1. B \in SUBSET (SUBSET R)
    OBVIOUS
  <1>2. PICK T \in B : \A U \in SUBSET T : U # T => U \notin B
    <2> HIDE DEF B
    <2> QED
      BY <1>1, SmallestSubset, Zenon
  <1>3. SumFunctionOnSet(f, S) \in Nat
    BY SumNat
  <1>4. PICK y : y \in T
    <2> SUFFICES ASSUME T = {} PROVE FALSE
      OBVIOUS
    <2>1. S \cup T = S
      OBVIOUS
    <2> QED
      BY <1>3, <2>1, SumEmpty
  <1>5. PICK U, V : U = T \ {y} /\ V = S \cup T
    OBVIOUS
  <1>6. IsFiniteSet(T) /\ IsFiniteSet(U) /\ IsFiniteSet(V)
    BY <1>5, FS_Subset, FS_Union
  <1>7. V \ {y} = S \cup U /\ y \in V /\ T \in SUBSET R
    BY <1>4, <1>5
  <1>8. Holds(U)
    BY <1>2, <1>4, <1>5
  <1>9. /\ \A x \in V : f[x] \in Nat
        /\ SumFunctionOnSet(f, U) \in Nat /\ SumFunctionOnSet(f, T) \in Nat
    BY <1>5, <1>6, <1>7, SumNat
  <1>10. SumFunctionOnSet(f, V) = f[y] + SumFunctionOnSet(f, S \cup U)
    BY <1>6, <1>7, <1>9, SumRemove
  <1>11. SumFunctionOnSet(f, T) = f[y] + SumFunctionOnSet(f, U)
    BY <1>4, <1>5, <1>6, <1>7, <1>9, SumRemove
  <1>12. ~Holds(T) /\ f[y] \in Nat
    BY <1>7, <1>9
  <1> QED
    BY <1>3, <1>5, <1>8, <1>9, <1>10, <1>11, <1>12

\* A part sums to no more than the whole.
LEMMA SumSubset ==
    ASSUME NEW S, IsFiniteSet(S), NEW T \in SUBSET S, NEW f, \A x \in S : f[x] \in Nat
    PROVE  SumFunctionOnSet(f, T) <= SumFunctionOnSet(f, S)
  <1>1. PICK R : R = S \ T
    OBVIOUS
  <1>2. IsFiniteSet(T) /\ IsFiniteSet(R) /\ T \cap R = {} /\ S = T \cup R
    BY <1>1, FS_Subset
  <1>3. SumFunctionOnSet(f, S) = SumFunctionOnSet(f, T) + SumFunctionOnSet(f, R)
    BY <1>2, SumUnion
  <1>4. SumFunctionOnSet(f, T) \in Nat /\ SumFunctionOnSet(f, R) \in Nat
    BY <1>2, SumNat
  <1> QED
    BY <1>3, <1>4

\* n terms of at most b sum to at most n * b.
LEMMA SumBound ==
    ASSUME NEW S, IsFiniteSet(S), NEW b \in Nat, NEW f, \A x \in S : f[x] \in 0 .. b
    PROVE  SumFunctionOnSet(f, S) <= Cardinality(S) * b
  <1> DEFINE Holds(T) == SumFunctionOnSet(f, T) <= Cardinality(T) * b
             B == {T \in SUBSET S : ~Holds(T)}
  <1> SUFFICES ASSUME B # {} PROVE FALSE
    OBVIOUS
  <1>1. B \in SUBSET (SUBSET S)
    OBVIOUS
  <1>2. PICK T \in B : \A U \in SUBSET T : U # T => U \notin B
    <2> HIDE DEF B
    <2> QED
      BY <1>1, SmallestSubset, Zenon
  <1>3. PICK y : y \in T
    <2> SUFFICES ASSUME T = {} PROVE FALSE
      OBVIOUS
    <2> QED
      BY SumEmpty, FS_EmptySet
  <1>4. PICK U : U = T \ {y}
    OBVIOUS
  <1>5. IsFiniteSet(T) /\ IsFiniteSet(U) /\ T \in SUBSET S
    BY <1>4, FS_Subset
  <1>6. SumFunctionOnSet(f, U) <= Cardinality(U) * b
    BY <1>2, <1>3, <1>4
  <1>7. SumFunctionOnSet(f, T) = f[y] + SumFunctionOnSet(f, U)
    BY <1>3, <1>4, <1>5, SumRemove
  <1>8. SumFunctionOnSet(f, U) \in Nat /\ f[y] \in 0 .. b
    BY <1>3, <1>4, <1>5, SumNat
  <1>9. Cardinality(T) = Cardinality(U) + 1 /\ Cardinality(U) \in Nat
    BY <1>3, <1>4, <1>5, FS_RemoveElement, FS_CardinalityType
  <1>10. (Cardinality(U) + 1) * b = Cardinality(U) * b + b
    BY <1>9
  <1>11. Cardinality(U) * b \in Nat
    BY <1>9
  <1>12. ~Holds(T)
    OBVIOUS
  <1> QED
    BY <1>6, <1>7, <1>8, <1>9, <1>10, <1>11, <1>12

\* Whether or not they share elements, they never exceed the two sums together.
LEMMA SumCup ==
    ASSUME NEW S, IsFiniteSet(S), NEW R, IsFiniteSet(R),
           NEW f, \A x \in S \cup R : f[x] \in Nat
    PROVE  SumFunctionOnSet(f, S \cup R) <= SumFunctionOnSet(f, S) + SumFunctionOnSet(f, R)
  <1>1. PICK T : T = R \ S
    OBVIOUS
  <1>2. T \in SUBSET R /\ IsFiniteSet(T) /\ S \cap T = {} /\ S \cup T = S \cup R
    BY <1>1, FS_Subset
  <1>3. SumFunctionOnSet(f, S \cup R) = SumFunctionOnSet(f, S) + SumFunctionOnSet(f, T)
    <2>1. SumFunctionOnSet(f, S \cup T) = SumFunctionOnSet(f, S) + SumFunctionOnSet(f, T)
      BY <1>2, SumUnion
    <2> QED
      BY <1>2, <2>1
  <1>4. SumFunctionOnSet(f, T) <= SumFunctionOnSet(f, R)
    BY <1>2, SumSubset
  <1>5. /\ SumFunctionOnSet(f, S) \in Nat /\ SumFunctionOnSet(f, T) \in Nat
        /\ SumFunctionOnSet(f, R) \in Nat
    BY <1>2, SumNat
  <1> QED
    BY <1>3, <1>4, <1>5

\* The sum over one element is its value.
LEMMA SumOne ==
    ASSUME NEW f, NEW x, f[x] \in Nat
    PROVE  SumFunctionOnSet(f, {x}) = f[x]
  <1>1. SumFunctionOnSet(f, {x}) = f[x] + SumFunctionOnSet(f, {x} \ {x})
    BY FS_Singleton, SumRemove
  <1>2. {x} \ {x} = {}
    OBVIOUS
  <1> QED
    BY <1>1, <1>2, SumEmpty

\* The values of a function on a finite set, as a set.
LEMMA ValuesFinite ==
    ASSUME NEW S, IsFiniteSet(S), NEW f, NEW T, T = {f[x] : x \in S}
    PROVE  IsFiniteSet(T) /\ Cardinality(T) <= Cardinality(S)
  <1>1. [x \in S |-> f[x]] \in Surjection(S, T)
    BY DEF Surjection
  <1> QED
    BY <1>1, FS_Surjection, Zenon

\* A finite set of numbers that is not empty has a greatest element: the one that
\* the fewest elements are at least as great as.
LEMMA MaxIsGreatest ==
    ASSUME NEW S \in SUBSET Nat, IsFiniteSet(S), S # {}
    PROVE  Max(S) \in S /\ \A y \in S : y <= Max(S)
  <1> DEFINE Above(x) == {y \in S : x <= y}
             B == {Above(x) : x \in S}
  <1>1. B \in SUBSET (SUBSET S) /\ B # {}
    OBVIOUS
  <1>2. PICK T \in B : \A U \in SUBSET T : U # T => U \notin B
    <2> HIDE DEF B
    <2> QED
      BY <1>1, SmallestSubset, Zenon
  <1>3. PICK x \in S : T = Above(x)
    OBVIOUS
  <1>4. \A y \in S : y <= x
    <2> SUFFICES ASSUME NEW y \in S, x < y PROVE FALSE
      OBVIOUS
    <2>1. \A z \in S : z \in Nat
      OBVIOUS
    <2>2. x \in T /\ x \notin Above(y)
      BY <1>3, <2>1
    <2>3. \A z \in Above(y) : z \in T
      <3>1. \A z \in S : y <= z => x <= z
        BY <2>1
      <3> QED
        BY <1>3, <3>1
    <2>4. Above(y) \in SUBSET T
      BY <2>3, Zenon
    <2> QED
      BY <1>2, <2>2, <2>4
  <1>5. \A y \in S : x >= y
    BY <1>4
  <1>6. Max(S) \in S /\ \A y \in S : Max(S) >= y
    BY <1>5, Zenon DEF Max
  <1> QED
    BY <1>6
=============================================================================
