---------------------------- MODULE FiniteNumbers ----------------------------
(* Facts about natural numbers: finite sets of them, and what holds step by step. *)
EXTENDS Integers, FiniteSets, FiniteSetTheorems, TLAPS

\* A non-empty finite set of naturals has a largest element.
LEMMA LargestExists ==
    ASSUME NEW S \in SUBSET Nat, IsFiniteSet(S), S # {}
    PROVE  \E m \in S : \A n \in S : n <= m
<1> DEFINE Bad == {T \in SUBSET S : /\ IsFiniteSet(T)
                                    /\ T # {}
                                    /\ \A m \in T : \E n \in T : ~(n <= m)}
<1>1. SUFFICES ASSUME Bad # {}
               PROVE  FALSE
  OBVIOUS
<1>2. Bad \subseteq FiniteSubsetsOf(S)
  BY DEF FiniteSubsetsOf
<1>3. PICK T \in Bad : \A U \in Bad : <<U, T>> \notin StrictSubsetOrdering(S)
  <2>1. IsWellFoundedOn(StrictSubsetOrdering(S), FiniteSubsetsOf(S))
    BY FS_StrictSubsetOrderingWellFounded
  <2> QED
    BY <1>1, <1>2, <2>1, WFMin
<1>4. PICK x \in T : TRUE
  OBVIOUS
<1> DEFINE U == T \ {x}
<1>5. IsFiniteSet(U)
  BY <1>3, FS_RemoveElement
<1>6. <<U, T>> \in StrictSubsetOrdering(S)
  BY <1>3, <1>4 DEF StrictSubsetOrdering
<1>7. U \notin Bad
  BY <1>3, <1>6
<1>8. CASE U = {}
  <2>1. T = {x}
    BY <1>4, <1>8
  <2> QED
    BY <1>3, <1>4, <2>1
<1>9. CASE U # {}
  <2>1. PICK m \in U : \A n \in U : n <= m
    BY <1>3, <1>5, <1>7, <1>9
  <2>2. x \in Nat /\ m \in Nat /\ T = U \cup {x}
    BY <1>3, <1>4
  <2>3. CASE x <= m
    BY <1>3, <2>1, <2>2, <2>3
  <2>4. CASE m <= x
    <3>1. \A n \in U : n \in Nat /\ n <= x
      BY <1>3, <2>1, <2>2, <2>4
    <3>2. \A n \in T : n <= x
      BY <2>2, <3>1
    <3> QED
      BY <1>3, <1>4, <3>2
  <2> QED
    BY <2>2, <2>3, <2>4
<1> QED
  BY <1>8, <1>9

\* One after the largest, or one, is beyond them all.
LEMMA NextNumberExists ==
    ASSUME NEW S \in SUBSET Nat, IsFiniteSet(S)
    PROVE  \E n \in {1} \cup {m + 1 : m \in S} : \A m \in S : m < n
<1>1. CASE S = {}
  BY <1>1
<1>2. CASE S # {}
  <2>1. PICK k \in S : \A n \in S : n <= k
    BY <1>2, LargestExists
  <2> QED
    BY <2>1
<1> QED
  BY <1>1, <1>2

\* What holds of 0, and of each of 1 .. n if of the one before, holds of them all.
LEMMA Throughout ==
    ASSUME NEW n \in Nat, NEW S, 0 \in S, \A i \in 1 .. n : i - 1 \in S => i \in S
    PROVE  0 .. n \subseteq S
<1> DEFINE Fails == {m \in 0 .. n : m \notin S}
<1>1. SUFFICES ASSUME Fails # {} PROVE FALSE
  OBVIOUS
<1>2. PICK m \in Fails : \A k \in Fails : ~(k < m)
  <2>1. Fails \subseteq Nat
    OBVIOUS
  <2>2. IsWellFoundedOn(OpToRel(<, Nat), Nat)
    BY NatLessThanWellFounded
  <2> HIDE DEF Fails
  <2>3. PICK m \in Fails : \A k \in Fails : <<k, m>> \notin OpToRel(<, Nat)
    BY <1>1, <2>1, <2>2, WFMin
  <2>4. ASSUME NEW k \in Fails, k < m PROVE FALSE
    <3>1. k \in Nat /\ m \in Nat
      BY <2>1
    <3> QED
      BY <2>3, <2>4, <3>1 DEF OpToRel
  <2> QED
    BY <2>4
<1>3. m \in 1 .. n
  BY <1>2
<1>4. m - 1 \in 0 .. n /\ m - 1 < m
  BY <1>3
<1>5. m - 1 \in S
  <2>1. m - 1 \notin Fails
    <3> HIDE DEF Fails
    <3> QED
      BY <1>2, <1>4
  <2> QED
    BY <1>4, <2>1
<1> QED
  BY <1>2, <1>3, <1>5
==============================================================================
