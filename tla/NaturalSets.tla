----------------------------- MODULE NaturalSets -----------------------------
(***************************************************************************)
(* Every nonempty set of naturals has a smallest element, and a largest    *)
(* one if it is bounded: a set of intervals 0..m has an element that       *)
(* strictly contains no other.                                             *)
(***************************************************************************)
EXTENDS Naturals, FiniteSetTheorems, WellFoundedInduction, TLAPS

\* A nonempty set of naturals has a least element.
LEMMA SmallestNat ==
    ASSUME NEW S \in SUBSET Nat, S # {}
    PROVE  \E m \in S : \A k \in S : m <= k
<1> DEFINE T == {0..m : m \in S}
<1>1. T \subseteq FiniteSubsetsOf(Nat) /\ T # {}
  <2>1. ASSUME NEW m \in S PROVE 0..m \in FiniteSubsetsOf(Nat)
    <3>1. IsFiniteSet(0..m)
      BY FS_Interval
    <3>2. QED
      BY <3>1 DEF FiniteSubsetsOf
  <2>2. QED
    BY <2>1
<1> HIDE DEF T
<1>2. \E x \in T : \A y \in T : ~(<<y, x>> \in StrictSubsetOrdering(Nat))
  BY <1>1, FS_StrictSubsetOrderingWellFounded, WFMin
<1>3. PICK m \in S : \A y \in T : ~(<<y, 0..m>> \in StrictSubsetOrdering(Nat))
  BY <1>2 DEF T
<1>4. ASSUME NEW k \in S, k < m PROVE FALSE
  <2>1. 0..k \in T
    BY DEF T
  <2>2. 0..k \subseteq 0..m /\ 0..k # 0..m
    <3>1. m \in 0..m /\ m \notin 0..k
      BY <1>4
    <3>2. QED
      BY <3>1, <1>4
  <2>3. <<0..k, 0..m>> \in StrictSubsetOrdering(Nat)
    <3>1. 0..k \in SUBSET Nat /\ 0..m \in SUBSET Nat
      OBVIOUS
    <3>2. QED
      BY <2>2, <3>1 DEF StrictSubsetOrdering
  <2>4. QED
    BY <2>1, <2>3, <1>3
<1>5. QED
  BY <1>4

\* A nonempty set of naturals with an upper bound has a greatest element.
LEMMA LargestNat ==
    ASSUME NEW S \in SUBSET Nat, S # {}, NEW b \in Nat, \A k \in S : k <= b
    PROVE  \E m \in S : \A k \in S : k <= m
<1> DEFINE T == {b - k : k \in S}
<1>1. T \in SUBSET Nat /\ T # {}
  <2>1. \A k \in S : b - k \in Nat
    OBVIOUS
  <2>2. QED
    BY <2>1
<1> HIDE DEF T
<1>2. PICK x \in T : \A y \in T : x <= y
  BY <1>1, SmallestNat
<1>3. PICK m \in S : x = b - m
  BY DEF T
<1>4. ASSUME NEW k \in S PROVE k <= m
  <2>1. b - k \in T
    BY DEF T
  <2>2. b - m <= b - k
    BY <1>2, <1>3, <2>1
  <2>3. QED
    BY <2>2
<1>5. QED
  BY <1>4
=============================================================================
