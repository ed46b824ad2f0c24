------------------------------ MODULE SetLemmas ------------------------------
(***************************************************************************)
(* Facts about the extrema of finite sets of naturals, the times and ports  *)
(* of the models, on which the proofs of the components rest.               *)
(***************************************************************************)
EXTENDS Integers, FiniteSets, FiniteSetsExt, FiniteSetTheorems,
        WellFoundedInduction, TLAPS

\* Every non-empty set of naturals has a least element.
LEMMA MinExists ==
    ASSUME NEW S, S \subseteq Nat, S # {}
    PROVE  Min(S) \in S /\ \A t \in S : Min(S) <= t
<1>1. PICK x \in S : \A y \in S : ~ (<<y, x>> \in OpToRel(<, Nat))
  BY NatLessThanWellFounded, WFMin
<1>2. ASSUME NEW y \in S PROVE ~ (y < x)
  <2>1. y < x => <<y, x>> \in OpToRel(<, Nat)
    <3>1. <<y, x>> \in Nat \X Nat
      OBVIOUS
    <3> QED
      BY <3>1, Zenon DEF OpToRel
  <2> QED
    BY <1>1, <2>1, Zenon
<1>3. \A y \in S : x <= y
  BY <1>2
<1> QED
  BY <1>3 DEF Min

\* ... and a bounded one a greatest.
LEMMA MaxExists ==
    ASSUME NEW n \in Nat, NEW S, S \subseteq 0..n, S # {}
    PROVE  Max(S) \in S /\ \A t \in S : Max(S) >= t
<1> DEFINE Flipped == {n - t : t \in S}
<1>0. \A t \in S : t \in Int /\ 0 <= t /\ t <= n
  OBVIOUS
<1>1. Flipped \subseteq Nat /\ Flipped # {}
  <2>1. \A t \in S : n - t \in Nat
    BY <1>0
  <2> QED
    BY <2>1
<1>2. PICK x \in Flipped : \A y \in Flipped : x <= y
  <2> HIDE DEF Flipped
  <2> QED
    BY <1>1, MinExists
<1>3. PICK u \in S : x = n - u
  BY <1>2
<1>4. \A t \in S : n - t \in Flipped
  OBVIOUS
<1>5. \A t \in S : u >= t
  BY <1>0, <1>2, <1>3, <1>4
<1> QED
  BY <1>5 DEF Max

\* A finite set needs no bound: of its subsets without a greatest element one
\* would be minimal, but giving it back one of its elements gives it a maximum.
LEMMA FiniteMax ==
    ASSUME NEW S, S \subseteq Nat, IsFiniteSet(S), S # {}
    PROVE  Max(S) \in S /\ \A t \in S : Max(S) >= t
<1> DEFINE Bad == {T \in FiniteSubsetsOf(S) : T # {} /\ \A m \in T : \E t \in T : t > m}
<1>1. Bad = {}
  <2> SUFFICES ASSUME Bad # {} PROVE FALSE
    OBVIOUS
  <2>1. Bad \subseteq FiniteSubsetsOf(S)
    OBVIOUS
  <2>2. PICK T \in Bad : \A U \in Bad : ~ (<<U, T>> \in StrictSubsetOrdering(S))
    <3> HIDE DEF Bad
    <3> QED
      BY <2>1, FS_StrictSubsetOrderingWellFounded, WFMin
  <2>3. /\ T \subseteq S /\ IsFiniteSet(T) /\ T # {}
        /\ \A m \in T : \E t \in T : t > m
    BY <2>2 DEF FiniteSubsetsOf
  <2>4. PICK x \in T : TRUE
    BY <2>3
  <2>5. <<T \ {x}, T>> \in StrictSubsetOrdering(S) /\ T \ {x} \in FiniteSubsetsOf(S)
    <3>1. IsFiniteSet(T \ {x})
      BY <2>3, FS_RemoveElement
    <3>2. T \ {x} \in SUBSET S /\ T \in SUBSET S /\ T \ {x} \subseteq T /\ T \ {x} # T
      BY <2>3, <2>4
    <3> QED
      BY <3>1, <3>2 DEF FiniteSubsetsOf, StrictSubsetOrdering
  <2>6. T \ {x} = {} \/ \E m \in T \ {x} : \A t \in T \ {x} : ~ (t > m)
    <3>1. T \ {x} \notin Bad
      BY <2>2, <2>5
    <3> QED
      BY <2>5, <3>1
  <2>7. CASE T \ {x} = {}
    BY <2>3, <2>4, <2>7
  <2>8. ASSUME NEW m \in T \ {x}, \A t \in T \ {x} : ~ (t > m)
        PROVE  FALSE
    <3>1. x \in Nat /\ m \in Nat /\ m \in T /\ \A t \in T : t \in Nat
      BY <2>3, <2>4
    <3> QED
      BY <2>3, <2>4, <2>8, <3>1
  <2> QED
    BY <2>6, <2>7, <2>8
<1>2. S \in FiniteSubsetsOf(S)
  BY DEF FiniteSubsetsOf
<1>3. PICK m \in S : \A t \in S : ~ (t > m)
  BY <1>1, <1>2
<1>4. \A t \in S : t \in Nat /\ m >= t
  BY <1>3
<1> QED
  BY <1>4 DEF Max

\* COUNT(*) of a table of bars is a natural number, and of a part of it not
\* larger.
LEMMA CountBounded ==
    ASSUME NEW n \in Nat, NEW S, S \subseteq 0..n, NEW T, T \subseteq S
    PROVE  /\ IsFiniteSet(S) /\ Cardinality(S) \in Nat /\ Cardinality(T) \in Nat
           /\ Cardinality(T) <= Cardinality(S)
           /\ S # {} => Cardinality(S) > 0
<1>1. IsFiniteSet(0..n)
  BY FS_Interval
<1>2. IsFiniteSet(S) /\ IsFiniteSet(T)
  BY <1>1, FS_Subset
<1>3. Cardinality(S) \in Nat /\ Cardinality(T) \in Nat
  BY <1>2, FS_CardinalityType
<1>4. Cardinality(T) <= Cardinality(S)
  BY <1>2, FS_Subset
<1>5. S # {} => Cardinality(S) # 0
  BY <1>2, FS_EmptySet
<1> QED
  BY <1>2, <1>3, <1>4, <1>5
=============================================================================
