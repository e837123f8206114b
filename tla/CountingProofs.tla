--------------------------- MODULE CountingProofs ---------------------------
(***************************************************************************)
(* Facts every proof about the counters of this library uses: a counter    *)
(* that counts a set of threads goes up and down with the set, stays       *)
(* within the number of threads, and does not wrap around.                 *)
(***************************************************************************)
EXTENDS Integers, TLAPS, FiniteSetTheorems, WellFoundedInduction

\* A counter that does not reach its width is what it counts.
LEMMA NoWrap ==
    ASSUME NEW a \in Nat, NEW w \in Nat, a < w PROVE a % w = a
  OBVIOUS

\* The threads that do something are no more than the threads there are.
LEMMA CountOfSubset ==
    ASSUME NEW T, IsFiniteSet(T), NEW S \in SUBSET T
    PROVE  /\ IsFiniteSet(S)
           /\ Cardinality(S) \in Nat
           /\ Cardinality(T) \in Nat
           /\ Cardinality(S) <= Cardinality(T)
           /\ Cardinality(S) = 0 <=> S = {}
  <1>1. IsFiniteSet(S) /\ Cardinality(S) <= Cardinality(T)
    BY FS_Subset
  <1>2. Cardinality(S) \in Nat /\ Cardinality(T) \in Nat
    BY <1>1, FS_CardinalityType
  <1>3. Cardinality(S) = 0 <=> S = {}
    BY <1>1, FS_EmptySet
  <1> QED
    BY <1>1, <1>2, <1>3

\* One thread more is one more, and there was room for it.
LEMMA CountOneMore ==
    ASSUME NEW T, IsFiniteSet(T), NEW S \in SUBSET T, NEW t \in T, t \notin S
    PROVE  /\ Cardinality(S \cup {t}) = Cardinality(S) + 1
           /\ Cardinality(S) + 1 <= Cardinality(T)
  <1>1. IsFiniteSet(S) /\ IsFiniteSet(S \cup {t})
    BY FS_Subset
  <1>2. Cardinality(S \cup {t}) = Cardinality(S) + 1
    BY <1>1, FS_AddElement
  <1>3. Cardinality(S \cup {t}) <= Cardinality(T)
    BY FS_Subset
  <1> QED
    BY <1>2, <1>3

\* One thread less is one less, and there was one to take away.
LEMMA CountOneLess ==
    ASSUME NEW T, IsFiniteSet(T), NEW S \in SUBSET T, NEW t \in S
    PROVE  /\ Cardinality(S \ {t}) = Cardinality(S) - 1
           /\ Cardinality(S) > 0
  <1>1. IsFiniteSet(S) /\ Cardinality(S) \in Nat /\ Cardinality(S) # 0
    BY CountOfSubset
  <1>2. Cardinality(S \ {t}) = Cardinality(S) - 1
    BY <1>1, FS_RemoveElement
  <1> QED
    BY <1>1, <1>2

\* The least element of a set of numbers.
LEMMA LeastElement ==
  ASSUME NEW S \in SUBSET Nat, S # {}
  PROVE  \E x \in S : \A y \in S : x <= y
<1> DEFINE R == {ss \in Nat \X Nat : ss[1] < ss[2]}
<1>1. IsWellFoundedOn(R, Nat)
  BY NatLessThanWellFounded DEF OpToRel
<1>2. \E x \in S : \A y \in S : ~(<<y, x>> \in R)
  <2> HIDE DEF R
  <2> QED
    BY <1>1, WFMin
<1>3. PICK x \in S : \A y \in S : ~(<<y, x>> \in R)
  BY <1>2
<1>4. ASSUME NEW y \in S PROVE x <= y
  <2>1. x \in Nat /\ y \in Nat /\ <<y, x>> \in Nat \X Nat
    OBVIOUS
  <2>2. y < x => <<y, x>> \in R
    BY <2>1
  <2>3. ~(y < x)
    BY <1>3, <2>2
  <2> HIDE DEF R
  <2> QED
    BY ONLY <2>1, <2>3
<1> QED
  BY <1>3, <1>4
=============================================================================
