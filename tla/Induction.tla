----------------------------- MODULE Induction -----------------------------
(***************************************************************************)
(* What the proofs about loops, searches and sorting share: induction and  *)
(* recursion over numbers, and the places of the elements of a finite set  *)
(* in an order.                                                            *)
(***************************************************************************)
EXTENDS Integers, FiniteSetsExt, FunctionTheorems, FiniteSetTheorems,
        WellFoundedInduction, TLAPS

-----------------------------------------------------------------------------
(* Induction and recursion over numbers.                                   *)

\* A set of natural numbers that is not empty has a least element.
LEMMA LeastNumber ==
    ASSUME NEW T, T \subseteq Nat, T # {}
    PROVE  \E m \in T : \A k \in T : m <= k
<1> DEFINE R == OpToRel(<, Nat)
<1>1. IsWellFoundedOn(R, Nat)
  BY NatLessThanWellFounded, Zenon
<1>2. \A x, y \in Nat : <<y, x>> \in R <=> y < x
  BY DEF OpToRel
<1> HIDE DEF R
<1>3. PICK m \in T : \A k \in T : ~(<<k, m>> \in R)
  BY <1>1, WFMin
<1>4. ASSUME NEW k \in T
      PROVE  m <= k
  <2>1. k \in Nat /\ m \in Nat
    OBVIOUS
  <2>2. ~(k < m)
    BY <1>2, <1>3, <2>1
  <2> QED
    BY <2>1, <2>2
<1> QED
  BY <1>4

\* Induction up to n.
LEMMA UpTo ==
    ASSUME NEW n \in Nat, NEW T, 0 \in T, \A i \in 1..n : i - 1 \in T => i \in T
    PROVE  \A i \in 0..n : i \in T
<1> DEFINE B == (0..n) \ T
<1> SUFFICES ASSUME B # {} PROVE FALSE
  OBVIOUS
<1>1. PICK m \in B : \A k \in B : m <= k
  <2>1. B \subseteq Nat
    OBVIOUS
  <2> HIDE DEF B
  <2> QED
    BY <2>1, LeastNumber
<1>2. m \in 1..n /\ m - 1 \in 0..n
  OBVIOUS
<1>3. m - 1 \notin B
  BY <1>1, <1>2
<1> QED
  BY <1>1, <1>2, <1>3

\* f on 0..n comes from b by the steps that g gives for 1..n.
Steps(g, n, X) == \A i \in 1..n : \A x \in X : g[i][x] \in X
Comes(f, n, X, b, g) == /\ f \in [0..n -> X]
                        /\ f[0] = b
                        /\ \A i \in 1..n : f[i] = g[i][f[i - 1]]

\* A function may be defined by recursion, its steps given by a function.
LEMMA Recursion ==
    ASSUME NEW n \in Nat, NEW X, NEW b \in X, NEW g, Steps(g, n, X)
    PROVE  \E f : Comes(f, n, X, b, g)
<1> DEFINE T == {k \in 0..n : \E f : Comes(f, k, X, b, g)}
<1>1. 0 \in T
  <2> DEFINE f == [i \in 0..0 |-> b]
  <2>1. Comes(f, 0, X, b, g)
    BY DEF Comes
  <2> HIDE DEF f
  <2> QED
    BY <2>1
<1>2. ASSUME NEW k \in 1..n, k - 1 \in T
      PROVE  k \in T
  <2>1. PICK f : Comes(f, k - 1, X, b, g)
    BY <1>2
  <2> DEFINE h == [i \in 0..k |-> IF i = k THEN g[k][f[k - 1]] ELSE f[i]]
  <2>2. h \in [0..k -> X]
    BY <2>1 DEF Comes, Steps
  <2>3. ASSUME NEW i \in 1..k
        PROVE  h[i] = g[i][h[i - 1]]
    <3>1. CASE i = k
      BY <3>1
    <3>2. CASE i # k
      <4>1. i \in 1..(k - 1) /\ h[i] = f[i]
        BY <3>2
      <4>2. f[i] = g[i][f[i - 1]]
        BY <2>1, <4>1 DEF Comes
      <4>3. h[i - 1] = f[i - 1]
        BY <4>1
      <4> QED
        BY <4>1, <4>2, <4>3
    <3> QED
      BY <3>1, <3>2
  <2>4. h[0] = b
    BY <2>1 DEF Comes
  <2> HIDE DEF h
  <2>5. Comes(h, k, X, b, g)
    BY <2>2, <2>3, <2>4 DEF Comes
  <2> QED
    BY <2>5
<1> HIDE DEF T
<1>3. n \in T
  <2>1. \A i \in 1..n : i - 1 \in T => i \in T
    BY <1>2
  <2>2. \A i \in 0..n : i \in T
    BY <1>1, <2>1, UpTo
  <2> QED
    BY <2>2
<1> QED
  BY <1>3 DEF T

\* The least of a set of numbers.
LEMMA MinIs ==
    ASSUME NEW T, T \subseteq Nat, T # {}
    PROVE  Min(T) \in T /\ \A k \in T : Min(T) <= k
<1>1. \E m \in T : \A k \in T : m <= k
  BY LeastNumber
<1> QED
  BY <1>1 DEF Min

\* The smaller of two numbers.
LEMMA MinOfTwo ==
    ASSUME NEW a \in Int, NEW b \in Int
    PROVE  Min({a, b}) = IF a <= b THEN a ELSE b
<1> DEFINE m == IF a <= b THEN a ELSE b
<1>1. m \in {a, b} /\ \A y \in {a, b} : m <= y
  OBVIOUS
<1>2. \A x \in {a, b} : (\A y \in {a, b} : x <= y) => x = m
  OBVIOUS
<1> QED
  BY <1>1, <1>2 DEF Min

\* The greatest of a set of numbers that has a bound.
LEMMA MaxIs ==
    ASSUME NEW n \in Nat, NEW T, T \subseteq 0..n, T # {}
    PROVE  Max(T) \in T /\ \A k \in T : k <= Max(T)
<1> DEFINE U == {n - k : k \in T}
<1>1. U \subseteq Nat /\ U # {}
  <2>1. \A k \in T : n - k \in Nat
    OBVIOUS
  <2> QED
    BY <2>1
<1>2. PICK m \in U : \A k \in U : m <= k
  <2> HIDE DEF U
  <2> QED
    BY <1>1, LeastNumber
<1>3. PICK x \in T : m = n - x
  OBVIOUS
<1>4. \A k \in T : k <= x
  <2>1. \A k \in T : m <= n - k /\ k \in Int
    BY <1>2
  <2> QED
    BY <1>3, <2>1
<1>5. \E y \in T : \A k \in T : y >= k
  BY <1>4
<1>6. Max(T) \in T /\ \A k \in T : Max(T) >= k
  BY <1>5 DEF Max
<1> QED
  BY <1>6

-----------------------------------------------------------------------------
(* Places in an order.                                                     *)

\* If of any two elements of a finite set exactly one is below the other, and what
\* is below is so for good, then for each number smaller than that of the
\* elements there is one element that has as many below it; and elements
\* are in the order of these numbers.  Here below[i] is the set of those below i.
LEMMA Ranked ==
    ASSUME NEW S, IsFiniteSet(S), NEW below,
           \A i \in S : below[i] \subseteq S /\ i \notin below[i],
           \A i, j \in S : i # j => i \in below[j] \/ j \in below[i],
           \A i, j, k \in S : i \in below[j] /\ j \in below[k] => i \in below[k]
    PROVE  /\ Cardinality(S) \in Nat
           /\ \A k \in 1..Cardinality(S) : \E i \in S : Cardinality(below[i]) = k - 1
           /\ \A i \in S : Cardinality(below[i]) + 1 \in 1..Cardinality(S)
           /\ \A i, j \in S : Cardinality(below[i]) < Cardinality(below[j])
                                 => i \in below[j]
           /\ \A i, j \in S : Cardinality(below[i]) = Cardinality(below[j]) => i = j
<1> DEFINE n == Cardinality(S)
           rank == [i \in S |-> Cardinality(below[i]) + 1]
<1>1. n \in Nat
  BY FS_CardinalityType
<1>2. ASSUME NEW i \in S
      PROVE  /\ IsFiniteSet(below[i]) /\ Cardinality(below[i]) \in Nat
             /\ Cardinality(below[i]) < n
  <2>1. below[i] \in SUBSET S /\ below[i] # S
    OBVIOUS
  <2>2. /\ IsFiniteSet(below[i]) /\ Cardinality(below[i]) <= n
        /\ n = Cardinality(below[i]) => S = below[i]
    BY <2>1, FS_Subset
  <2>3. Cardinality(below[i]) \in Nat
    BY <2>2, FS_CardinalityType
  <2> QED
    BY <1>1, <2>1, <2>2, <2>3
<1>3. ASSUME NEW i \in S, NEW j \in S, i \in below[j]
      PROVE  Cardinality(below[i]) < Cardinality(below[j])
  <2>1. below[i] \in SUBSET below[j] /\ below[i] # below[j]
    BY <1>3
  <2>2. /\ Cardinality(below[i]) <= Cardinality(below[j])
        /\ Cardinality(below[j]) = Cardinality(below[i]) => below[j] = below[i]
    BY <1>2, <2>1, FS_Subset
  <2> QED
    BY <1>2, <2>1, <2>2
<1>4. ASSUME NEW i \in S, NEW j \in S
      PROVE  /\ Cardinality(below[i]) = Cardinality(below[j]) => i = j
             /\ Cardinality(below[i]) < Cardinality(below[j]) => i \in below[j]
  <2>1. CASE i = j
    BY <1>2, <2>1
  <2>2. CASE i # j
    <3>1. i \in below[j] \/ j \in below[i]
      BY <2>2
    <3>2. i \in below[j] => Cardinality(below[i]) < Cardinality(below[j])
      BY <1>3
    <3>3. j \in below[i] => Cardinality(below[j]) < Cardinality(below[i])
      BY <1>3
    <3>4. Cardinality(below[i]) \in Nat /\ Cardinality(below[j]) \in Nat
      BY <1>2
    <3> QED
      BY <3>1, <3>2, <3>3, <3>4
  <2> QED
    BY <2>1, <2>2
<1>5. \A i \in S : rank[i] \in 1..n /\ rank[i] = Cardinality(below[i]) + 1
  BY <1>1, <1>2
<1>6. rank \in Injection(S, 1..n)
  <2>1. rank \in [S -> 1..n]
    BY <1>5
  <2>2. \A i, j \in S : rank[i] = rank[j] => i = j
    BY <1>2, <1>4, <1>5
  <2> HIDE DEF rank, n
  <2> QED
    BY <2>1, <2>2, Fun_IsInj
<1>7. IsFiniteSet(1..n) /\ Cardinality(1..n) = n
  BY <1>1, FS_Interval
<1>8. rank \in Surjection(S, 1..n)
  <2> HIDE DEF rank
  <2> QED
    BY <1>6, <1>7, FS_Injection
<1>9. \A k \in 1..n : \E i \in S : rank[i] = k
  <2> HIDE DEF rank, n
  <2> QED
    BY <1>8 DEF Surjection
<1>10. \A k \in 1..n : \E i \in S : Cardinality(below[i]) = k - 1
  <2>1. ASSUME NEW k \in 1..n
        PROVE  \E i \in S : Cardinality(below[i]) = k - 1
    <3>1. PICK i \in S : rank[i] = k
      BY <1>9
    <3>2. Cardinality(below[i]) + 1 = k /\ Cardinality(below[i]) \in Nat
      BY <1>2, <1>5, <3>1
    <3>3. k \in Int /\ Cardinality(below[i]) = k - 1
      BY <1>1, <3>2
    <3> QED
      BY <3>3
  <2> QED
    BY <2>1
<1> QED
  BY <1>1, <1>4, <1>5, <1>10
=============================================================================
