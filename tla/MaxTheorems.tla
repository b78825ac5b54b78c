------------------------------ MODULE MaxTheorems ------------------------------
(***************************************************************************)
(* The greatest element of a set, which the ids of rows and the numbers of *)
(* versions are taken from (Max of FiniteSetsExt), the least one, and      *)
(* counting up to a number.                                                *)
(***************************************************************************)
EXTENDS Integers, FiniteSets, FiniteSetsExt, FiniteSetTheorems, WellFoundedInduction, TLAPS

\* A finite set of numbers that is not empty has a greatest element (Max).
LEMMA MaxExists ==
    ASSUME NEW S, S \subseteq Int, IsFiniteSet(S), S # {}
    PROVE  Max(S) \in S /\ \A x \in S : Max(S) >= x
<1> DEFINE Up(x) == { y \in S : y >= x }
           T == { Up(x) : x \in S }
<1>1. T \subseteq FiniteSubsetsOf(S) /\ T # {}
  <2>1. ASSUME NEW x \in S PROVE Up(x) \in SUBSET S /\ IsFiniteSet(Up(x))
    <3>1. Up(x) \in SUBSET S
      OBVIOUS
    <3> HIDE DEF Up
    <3> QED BY <3>1, FS_Subset
  <2> HIDE DEF Up
  <2>2. T \subseteq FiniteSubsetsOf(S)
    BY <2>1 DEF FiniteSubsetsOf
  <2> QED BY <2>2
<1>2. PICK U \in T : \A V \in T : ~(<<V, U>> \in StrictSubsetOrdering(S))
  <2> HIDE DEF T
  <2>1. IsWellFoundedOn(StrictSubsetOrdering(S), FiniteSubsetsOf(S))
    BY FS_StrictSubsetOrderingWellFounded
  <2> QED BY <1>1, <2>1, WFMin
<1>3. PICK x \in S : U = Up(x)
  OBVIOUS
<1>4. \A y \in S : x >= y
  <2> SUFFICES ASSUME NEW y \in S, ~(x >= y) PROVE FALSE
    OBVIOUS
  <2>1. y > x
    OBVIOUS
  <2>2. Up(y) \in T
    OBVIOUS
  <2>3. Up(y) \subseteq Up(x)
    <3>1. \A z \in S : z >= y => z >= x
      BY <2>1
    <3> QED BY <3>1
  <2>4. x \in Up(x) /\ x \notin Up(y)
    BY <2>1
  <2>5. Up(x) \subseteq S /\ Up(y) \subseteq S
    OBVIOUS
  <2> HIDE DEF T, Up
  <2>6. <<Up(y), U>> \in StrictSubsetOrdering(S)
    BY <1>3, <2>3, <2>4, <2>5 DEF StrictSubsetOrdering
  <2> QED BY <1>2, <2>2, <2>6
<1> QED BY <1>4 DEF Max

\* A set of natural numbers that is not empty has a least element.
LEMMA LeastExists ==
    ASSUME NEW S, S \subseteq Nat, S # {}
    PROVE  \E x \in S : \A y \in S : x <= y
<1>1. PICK m \in S : TRUE
  OBVIOUS
<1> DEFINE T == { k \in 0..m : m - k \in S }
<1>2. T \subseteq Int /\ 0 \in T
  BY <1>1
<1>3. IsFiniteSet(T)
  <2>1. IsFiniteSet(0..m) /\ T \subseteq 0..m
    BY <1>1, FS_Interval
  <2> HIDE DEF T
  <2> QED BY <2>1, FS_Subset
<1>4. PICK k \in T : \A h \in T : k >= h
  <2> HIDE DEF T
  <2> QED BY <1>2, <1>3, MaxExists
<1>5. m - k \in S
  OBVIOUS
<1>6. ASSUME NEW y \in S, ~(m - k <= y) PROVE FALSE
  <2>1. m - y \in 0..m /\ m - (m - y) = y
    BY <1>1, <1>6
  <2>2. m - y \in T
    BY <2>1
  <2> QED BY <1>1, <1>4, <1>6, <2>2
<1> QED BY <1>5, <1>6

\* What holds of 0, and of a number when it holds of the one before, holds up to any number;
\* S stands for the numbers it holds of.
LEMMA CountingUp ==
    ASSUME NEW N \in Nat, NEW S, 0 \in S, \A i \in 0..(N - 1) : i \in S => i + 1 \in S
    PROVE  0..N \subseteq S
<1> DEFINE Bad == { i \in 0..N : i \notin S }
<1> SUFFICES ASSUME Bad # {} PROVE FALSE
  OBVIOUS
<1>1. PICK j \in Bad : \A i \in Bad : j <= i
  <2>1. Bad \subseteq Nat
    OBVIOUS
  <2> HIDE DEF Bad
  <2> QED BY <2>1, LeastExists
<1>2. j \in 1..N /\ j - 1 \in 0..(N - 1) /\ (j - 1) + 1 = j
  OBVIOUS
<1>3. j - 1 \in S
  BY <1>1, <1>2
<1> QED BY <1>1, <1>2, <1>3

================================================================================
