--------------------------- MODULE InductionLemmas ---------------------------
(***************************************************************************)
(* Induction over sets of naturals, and recursion along an interval: what  *)
(* the proofs about folds, ancestor chains and sums of lengths rest on.    *)
(* Stated of sets and functions rather than of operators, so that a        *)
(* property is proved by induction as the set of the numbers that have it. *)
(***************************************************************************)
EXTENDS Integers, FiniteSets, FiniteSetTheorems, WellFoundedInduction, TLAPS

\* A set of naturals that is not empty has a least element.
LEMMA LeastNatural ==
  ASSUME NEW S, S \subseteq Nat, S # {} PROVE \E m \in S : \A n \in S : m <= n
<1>1. PICK m \in S : \A n \in S : <<n, m>> \notin OpToRel(<, Nat)
  <2> DEFINE R == OpToRel(<, Nat)
  <2>1. IsWellFoundedOn(R, Nat)
    BY NatLessThanWellFounded
  <2> HIDE DEF R
  <2>2. \E x \in S : \A y \in S : ~ (<<y, x>> \in R)
    BY <2>1, WFMin
  <2>3. QED
    BY <2>2 DEF R
<1>2. \A n \in S : n \in Nat /\ m \in Nat /\ ~ (n < m)
  BY <1>1 DEF OpToRel
<1>3. \A n \in S : m <= n
  BY <1>2
<1>4. QED
  BY <1>3

\* What holds at 0, and at n + 1 when it holds at n, holds up to N.
LEMMA IntervalInduction ==
  ASSUME NEW N \in Nat, NEW S, 0 \in S, \A n \in Nat : n \in S /\ n < N => n + 1 \in S
  PROVE  0..N \subseteq S
<1>1. SUFFICES ASSUME (0..N) \ S # {} PROVE FALSE
  OBVIOUS
<1>2. PICK m \in (0..N) \ S : \A n \in (0..N) \ S : m <= n
  <2> DEFINE T == (0..N) \ S
  <2>1. T \subseteq Nat /\ T # {}
    BY <1>1
  <2> HIDE DEF T
  <2>2. \E m \in T : \A n \in T : m <= n
    BY <2>1, LeastNatural
  <2>3. QED
    BY <2>2 DEF T
<1>3. m # 0 /\ m - 1 \in 0..N /\ m - 1 \in S
  BY <1>2
<1>4. QED
  BY <1>2, <1>3

\* A bounded set of naturals that is not empty has a greatest element.
LEMMA GreatestNatural ==
  ASSUME NEW N \in Nat, NEW S, S \subseteq 0..N, S # {}
  PROVE  \E m \in S : \A n \in S : n <= m
<1> DEFINE T == {k \in Nat : N - k \in S}
<1>1. T \subseteq Nat /\ T # {}
  <2>1. PICK n \in S : TRUE
    OBVIOUS
  <2>2. N - n \in T
    BY <2>1
  <2>3. QED
    BY <2>2
<1>2. PICK k \in T : \A l \in T : k <= l
  <2> HIDE DEF T
  <2>1. QED
    BY <1>1, LeastNatural
<1>3. \A n \in S : n \in 0..N /\ N - n \in T
  OBVIOUS
<1>4. \A n \in S : n <= N - k
  BY <1>2, <1>3
<1>5. QED
  BY <1>2, <1>4

\* f is defined by recursion up to N, from a, by the function G.
Recurs(f, N, a, G) == f[0] = a /\ \A n \in 1..N : f[n] = G[<<n, f[n - 1]>>]

\* A function defined by recursion along an interval exists.
LEMMA IntervalRecursion ==
  ASSUME NEW N \in Nat, NEW S, NEW a \in S, NEW G \in [Nat \X S -> S]
  PROVE  \E f \in [0..N -> S] : Recurs(f, N, a, G)
<1> DEFINE Good == {k \in Nat : \E f \in [0..k -> S] : Recurs(f, k, a, G)}
<1>1. 0 \in Good
  <2>1. [n \in 0..0 |-> a] \in [0..0 -> S] /\ Recurs([n \in 0..0 |-> a], 0, a, G)
    BY DEF Recurs
  <2>2. QED
    BY <2>1
<1>2. ASSUME NEW k \in Nat, k \in Good PROVE k + 1 \in Good
  <2>1. PICK f \in [0..k -> S] : Recurs(f, k, a, G)
    BY <1>2
  <2> DEFINE g == [n \in 0..(k + 1) |-> IF n = k + 1 THEN G[<<k + 1, f[k]>>] ELSE f[n]]
  <2>2. g \in [0..(k + 1) -> S]
    BY <2>1
  <2>3. g[0] = a
    BY <2>1 DEF Recurs
  <2>4. \A n \in 1..(k + 1) : g[n] = G[<<n, g[n - 1]>>]
    <3>1. ASSUME NEW n \in 1..(k + 1) PROVE g[n] = G[<<n, g[n - 1]>>]
      <4>1. n - 1 \in 0..k /\ g[n - 1] = f[n - 1]
        OBVIOUS
      <4>2. CASE n = k + 1
        <5>1. n - 1 = k /\ g[n] = G[<<n, f[k]>>]
          BY <4>2
        <5>2. QED
          BY <4>1, <5>1
      <4>3. CASE n # k + 1
        <5>1. n \in 1..k
          BY <4>3
        <5>2. QED
          BY <2>1, <4>1, <4>3, <5>1 DEF Recurs
      <4>4. QED
        BY <4>2, <4>3
    <3>2. QED
      BY <3>1
  <2>5. QED
    <3> HIDE DEF g
    <3>1. QED
      BY <2>2, <2>3, <2>4 DEF Recurs
<1>3. 0..N \subseteq Good
  <2> HIDE DEF Good
  <2>1. QED
    BY <1>1, <1>2, IntervalInduction
<1>4. QED
  BY <1>3

\* What holds of {}, and of a set when it holds of the set without some element of
\* it, holds of every subset of a finite set.
LEMMA SubsetInduction ==
  ASSUME NEW D, IsFiniteSet(D), NEW G, {} \in G,
         \A T \in SUBSET D : T # {} => \E x \in T : T \ {x} \in G => T \in G
  PROVE  SUBSET D \subseteq G
<1> DEFINE N == Cardinality(D)
           Good == {n \in Nat : \A T \in SUBSET D : Cardinality(T) = n => T \in G}
<1>1. N \in Nat /\ \A T \in SUBSET D : IsFiniteSet(T) /\ Cardinality(T) \in 0..N
  <2>1. ASSUME NEW T \in SUBSET D
        PROVE  N \in Nat /\ IsFiniteSet(T) /\ Cardinality(T) \in Nat /\ Cardinality(T) <= N
    BY FS_Subset, FS_CardinalityType
  <2>2. N \in Nat
    BY FS_CardinalityType
  <2>3. QED
    BY <2>1, <2>2
<1>2. 0 \in Good
  BY <1>1, FS_EmptySet
<1>3. ASSUME NEW n \in Nat, n \in Good, n < N PROVE n + 1 \in Good
  <2>1. SUFFICES ASSUME NEW T \in SUBSET D, Cardinality(T) = n + 1 PROVE T \in G
    OBVIOUS
  <2>2. IsFiniteSet(T) /\ T # {}
    <3>1. IsFiniteSet(T) /\ Cardinality(T) # 0
      BY <1>1, <2>1
    <3>2. QED
      BY <3>1, FS_EmptySet
  <2>3. PICK x \in T : T \ {x} \in G => T \in G
    BY <2>2
  <2>4. T \ {x} \in SUBSET D /\ Cardinality(T \ {x}) = n
    <3>1. Cardinality(T \ {x}) = Cardinality(T) - 1
      BY <2>2, FS_RemoveElement
    <3>2. QED
      BY <2>1, <3>1
  <2>5. QED
    BY <1>3, <2>3, <2>4
<1>4. 0..N \subseteq Good
  <2> HIDE DEF Good, N
  <2>1. QED
    BY <1>1, <1>2, <1>3, IntervalInduction
<1>5. QED
  BY <1>1, <1>4
==============================================================================
