------------------------------ MODULE Extremes ------------------------------
(***************************************************************************)
(* A set of numbers of an interval that is not empty has a largest and a   *)
(* smallest element, which is what Max and Min of the community modules    *)
(* choose. The queue of jobs and the retention of artifacts rest on it.    *)
(*                                                                         *)
(* Proper inclusion is well-founded on the subsets of a finite set; of the *)
(* sets of elements larger than a given one a minimal one is empty.        *)
(***************************************************************************)
EXTENDS Integers, FiniteSets, FiniteSetsExt, FiniteSetTheorems, TLAPS

\* Of some subsets of an interval, one has no proper subset among them.
LEMMA MinimalSubset ==
    \A N \in Nat : \A F \in SUBSET SUBSET (1..N) :
        F # {} => \E A \in F : \A B \in F : B \subseteq A => B = A
  <1> SUFFICES ASSUME NEW N \in Nat, NEW F \in SUBSET SUBSET (1..N), F # {}
               PROVE  \E A \in F : \A B \in F : B \subseteq A => B = A
    OBVIOUS
  <1> DEFINE U == 1..N
             R == StrictSubsetOrdering(U)
             W == SUBSET U
  <1>1. IsWellFoundedOn(R, W)
    <2>1. IsWellFoundedOn(R, FiniteSubsetsOf(U))
      BY FS_StrictSubsetOrderingWellFounded, Zenon
    <2>2. IsFiniteSet(U)
      BY FS_Interval
    <2>3. FiniteSubsetsOf(U) = W
      BY <2>2, FS_FiniteSubsetsOfFinite, Zenon
    <2> QED
      BY <2>1, <2>3, Zenon
  <1>2. F \subseteq W /\ F # {}
    OBVIOUS
  <1>3. PICK A \in F : \A B \in F : ~ (<<B, A>> \in R)
    <2> HIDE DEF R, W
    <2> QED
      BY <1>1, <1>2, WFMin, Zenon
  <1>4. ASSUME NEW B \in F, B \subseteq A PROVE B = A
    <2>1. A \in SUBSET U /\ B \in SUBSET U /\ ~ (<<B, A>> \in R)
      BY <1>3
    <2> HIDE DEF U
    <2> QED
      BY <1>4, <2>1 DEF StrictSubsetOrdering
  <1> QED
    BY <1>4

\* The largest element of a set of numbers up to N.
LEMMA MaxIsLargest ==
    ASSUME NEW N \in Nat, NEW S, S \subseteq 1..N, S # {}
    PROVE  Max(S) \in S /\ \A y \in S : Max(S) >= y
  <1> DEFINE T == {A \in SUBSET (1..N) : \E x \in S : A = {s \in S : s > x}}
  <1>1. \A x \in S : {s \in S : s > x} \in T
    OBVIOUS
  <1>2. PICK A \in T : \A B \in T : B \subseteq A => B = A
    <2>1. T \in SUBSET SUBSET (1..N)
      OBVIOUS
    <2>2. T # {}
      BY <1>1
    <2>3. N \in Nat
      OBVIOUS
    <2> HIDE DEF T
    <2>4. \A F \in SUBSET SUBSET (1..N) :
            F # {} => \E A \in F : \A B \in F : B \subseteq A => B = A
      BY <2>3, MinimalSubset
    <2> QED
      BY <2>1, <2>2, <2>4
  <1>3. PICK x \in S : A = {s \in S : s > x}
    BY <1>2
  <1>4. ASSUME NEW y \in S, y > x PROVE FALSE
    <2> DEFINE B == {s \in S : s > y}
    <2>1. B \in T
      BY <1>1
    <2>2. y \in A /\ y \notin B
      BY <1>3, <1>4
    <2>3. ASSUME NEW s \in B PROVE s \in A
      <3>1. s \in S /\ {s, x, y} \subseteq Int /\ s > y
        OBVIOUS
      <3>2. s > x
        BY <1>4, <3>1
      <3> QED
        BY <1>3, <3>1, <3>2
    <2> HIDE DEF B, T
    <2> QED
      BY <1>2, <2>1, <2>2, <2>3
  <1>5. \A y \in S : x >= y
    <2> SUFFICES ASSUME NEW y \in S PROVE x >= y
      OBVIOUS
    <2>1. x \in 1..N /\ y \in 1..N /\ ~ (y > x)
      BY <1>4
    <2> QED
      BY <2>1
  <1>6. Max(S) \in S /\ \A y \in S : Max(S) >= y
    <2> HIDE DEF T
    <2> QED
      BY <1>5 DEF Max
  <1> QED
    BY <1>6

\* The smallest element of a set of numbers up to N.
LEMMA MinIsSmallest ==
    ASSUME NEW N \in Nat, NEW S, S \subseteq 1..N, S # {}
    PROVE  Min(S) \in S /\ \A y \in S : Min(S) <= y
  <1> DEFINE T == {A \in SUBSET (1..N) : \E x \in S : A = {s \in S : s < x}}
  <1>1. \A x \in S : {s \in S : s < x} \in T
    OBVIOUS
  <1>2. PICK A \in T : \A B \in T : B \subseteq A => B = A
    <2>1. T \in SUBSET SUBSET (1..N)
      OBVIOUS
    <2>2. T # {}
      BY <1>1
    <2>3. N \in Nat
      OBVIOUS
    <2> HIDE DEF T
    <2>4. \A F \in SUBSET SUBSET (1..N) :
            F # {} => \E A \in F : \A B \in F : B \subseteq A => B = A
      BY <2>3, MinimalSubset
    <2> QED
      BY <2>1, <2>2, <2>4
  <1>3. PICK x \in S : A = {s \in S : s < x}
    BY <1>2
  <1>4. ASSUME NEW y \in S, y < x PROVE FALSE
    <2> DEFINE B == {s \in S : s < y}
    <2>1. B \in T
      BY <1>1
    <2>2. y \in A /\ y \notin B
      BY <1>3, <1>4
    <2>3. ASSUME NEW s \in B PROVE s \in A
      <3>1. s \in S /\ {s, x, y} \subseteq Int /\ s < y
        OBVIOUS
      <3>2. s < x
        BY <1>4, <3>1
      <3> QED
        BY <1>3, <3>1, <3>2
    <2> HIDE DEF B, T
    <2> QED
      BY <1>2, <2>1, <2>2, <2>3
  <1>5. \A y \in S : x <= y
    <2> SUFFICES ASSUME NEW y \in S PROVE x <= y
      OBVIOUS
    <2>1. x \in 1..N /\ y \in 1..N /\ ~ (y < x)
      BY <1>4
    <2> QED
      BY <2>1
  <1>6. Min(S) \in S /\ \A y \in S : Min(S) <= y
    <2> HIDE DEF T
    <2> QED
      BY <1>5 DEF Min
  <1> QED
    BY <1>6
=============================================================================
