---------------------------- MODULE BoundedSets ----------------------------
(* Sets of numbers up to a bound have a smallest and a largest element: what *)
(* the models choose with CHOOSE exists.  The least-number principle of the  *)
(* library takes an operator; the strict subset ordering of the finite sets  *)
(* does not.                                                                 *)
EXTENDS Integers, FiniteSetTheorems, TLAPS

\* A set of numbers up to a bound that has an element has a largest one.
LEMMA HasLatest ==
  ASSUME NEW n \in Nat, NEW S \in SUBSET (0..n), S # {}
  PROVE  \E i \in S : \A k \in S : k <= i
<1> DEFINE Above(i) == {k \in S : i < k}
           T == {Above(i) : i \in S}
<1>1. IsWellFoundedOn(StrictSubsetOrdering(0..n), FiniteSubsetsOf(0..n))
  BY FS_StrictSubsetOrderingWellFounded
<1>2. T \subseteq FiniteSubsetsOf(0..n) /\ T # {}
  <2>1. IsFiniteSet(0..n)
    BY FS_Interval
  <2>2. \A i \in S : Above(i) \in SUBSET (0..n) /\ IsFiniteSet(Above(i))
    BY <2>1, FS_Subset
  <2> QED BY <2>2 DEF FiniteSubsetsOf
<1>3. PICK x \in T : \A y \in T : ~(<<y, x>> \in StrictSubsetOrdering(0..n))
  <2> HIDE DEF T
  <2> QED BY <1>1, <1>2, WFMin
<1>4. PICK i \in S : x = Above(i)
  OBVIOUS
<1>5. ASSUME NEW k \in S, i < k PROVE FALSE
  <2>1. Above(k) \in T /\ Above(k) \in SUBSET (0..n) /\ x \in SUBSET (0..n)
    BY <1>4
  <2>2. \A a, b, c \in 0..n : (a < b /\ b < c => a < c) /\ ~(a < a)
    OBVIOUS
  <2>3. Above(k) \subseteq x /\ k \in x /\ k \notin Above(k)
    BY <1>4, <1>5, <2>2
  <2>4. <<Above(k), x>> \in StrictSubsetOrdering(0..n)
    BY <2>1, <2>3 DEF StrictSubsetOrdering
  <2> QED BY <1>3, <2>1, <2>4
<1>6. \A a, b \in 0..n : b <= a \/ a < b
  OBVIOUS
<1> QED BY <1>5, <1>6

\* A set of numbers up to a bound that has an element has a smallest one.
LEMMA HasEarliest ==
  ASSUME NEW n \in Nat, NEW S \in SUBSET (0..n), S # {}
  PROVE  \E i \in S : \A k \in S : i <= k
<1> DEFINE T == {n - k : k \in S}
<1>1. \A k \in S : n - k \in 0..n
  OBVIOUS
<1>2. T \in SUBSET (0..n) /\ T # {}
  BY <1>1
<1>3. PICK t \in T : \A u \in T : u <= t
  <2> HIDE DEF T
  <2> QED BY <1>2, HasLatest
<1>4. PICK i \in S : t = n - i
  OBVIOUS
<1>5. \A k \in S : n - k <= n - i
  BY <1>3, <1>4
<1>6. \A a, b \in 0..n : n - b <= n - a => a <= b
  OBVIOUS
<1> QED BY <1>5, <1>6
=============================================================================
