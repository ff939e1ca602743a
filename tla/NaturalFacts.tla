---------------------------- MODULE NaturalFacts ----------------------------
(***************************************************************************)
(* Least and greatest elements of sets of natural numbers.                 *)
(***************************************************************************)
EXTENDS Integers, FiniteSetsExt, FiniteSetTheorems, TLAPS

\* A nonempty set of natural numbers has a least element, which is its Min.
LEMMA LeastNatural ==
  ASSUME NEW S \in SUBSET Nat, S # {}
  PROVE  Min(S) \in S /\ \A n \in S : Min(S) <= n
  <1> DEFINE R == StrictSubsetOrdering(Nat)
             T == {0 .. n : n \in S}
  <1>1. T \subseteq FiniteSubsetsOf(Nat)
    <2>1. \A n \in Nat : IsFiniteSet(0 .. n) /\ 0 .. n \in SUBSET Nat
      BY FS_Interval
    <2> QED
      BY <2>1 DEF FiniteSubsetsOf
  <1>2. IsWellFoundedOn(R, FiniteSubsetsOf(Nat))
    BY FS_StrictSubsetOrderingWellFounded
  <1>3. T # {}
    BY Zenon
  <1>4. PICK x \in T : \A y \in T : <<y, x>> \notin R
    <2> HIDE DEF T, R
    <2> QED
      BY <1>1, <1>2, <1>3, WFMin
  <1>5. PICK m \in S : x = 0 .. m
    BY <1>4
  <1>6. \A n \in S : m <= n
    <2> SUFFICES ASSUME NEW n \in S, n < m PROVE FALSE
      OBVIOUS
    <2>1. 0 .. n \subseteq 0 .. m /\ 0 .. n # 0 .. m
      <3>1. m \in 0 .. m /\ m \notin 0 .. n
        OBVIOUS
      <3> QED
        BY <3>1
    <2>2. 0 .. n \in T /\ 0 .. n \in SUBSET Nat /\ 0 .. m \in SUBSET Nat
      OBVIOUS
    <2>3. <<0 .. n, 0 .. m>> \in R
      BY <2>1, <2>2 DEF StrictSubsetOrdering
    <2> QED
      BY <1>4, <1>5, <2>2, <2>3, Zenon
  <1> QED
    BY <1>6, Zenon DEF Min

\* A nonempty set of natural numbers that is bounded has a greatest element.
LEMMA GreatestNatural ==
  ASSUME NEW b \in Nat, NEW S \in SUBSET (0 .. b), S # {}
  PROVE  \E m \in S : \A n \in S : n <= m
  <1> DEFINE T == {b - n : n \in S}
  <1>1. T \in SUBSET Nat /\ T # {}
    <2>1. \A n \in 0 .. b : b - n \in Nat
      OBVIOUS
    <2>2. \A n \in S : n \in 0 .. b
      OBVIOUS
    <2>3. \A n \in S : b - n \in Nat
      BY <2>1, <2>2
    <2> QED
      BY <2>3, Zenon
  <1>2. Min(T) \in T /\ \A x \in T : Min(T) <= x
    <2> HIDE DEF T
    <2> QED
      BY <1>1, LeastNatural
  <1>3. PICK m \in S : Min(T) = b - m
    BY <1>2, Zenon
  <1>4. \A n \in S : b - m <= b - n
    BY <1>2, <1>3
  <1> QED
    BY <1>4
=============================================================================
