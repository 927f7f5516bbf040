------------------------------ MODULE Extrema -------------------------------
(***************************************************************************)
(* A non-empty set of positive numbers up to n has a least and a greatest  *)
(* element.  The queue's order, the task IDs and the revision numbers rest *)
(* on it.                                                                  *)
(***************************************************************************)
EXTENDS Naturals, FiniteSetsExt, FiniteSetTheorems, WellFoundedInduction, TLAPS

\* The elements up to a smaller one are strictly fewer.
LEMMA SmallerUpTo ==
  ASSUME NEW S \in SUBSET Nat, NEW i \in S, NEW k \in S, k < i
  PROVE  /\ {m \in S : m <= k} \subseteq {m \in S : m <= i}
         /\ {m \in S : m <= k} # {m \in S : m <= i}
<1>1. \A m \in S : m <= k => m <= i
  OBVIOUS
<1>2. i <= i /\ ~(i <= k)
  OBVIOUS
<1>3. i \in {m \in S : m <= i} /\ i \notin {m \in S : m <= k}
  BY <1>2
<1> QED BY <1>1, <1>3

\* There is a least element: the sets of elements up to each element of S are
\* subsets of a finite set, and strict inclusion between those is well founded.
LEMMA HasLeast ==
  ASSUME NEW n \in Nat, NEW S \in SUBSET (1 .. n), S # {}
  PROVE  \E i \in S : \A k \in S : i <= k
<1> DEFINE UpTo(i) == {k \in S : k <= i}
           T == {UpTo(i) : i \in S}
           R == StrictSubsetOrdering(1 .. n)
<1>1. IsWellFoundedOn(R, SUBSET (1 .. n))
  <2>1. IsFiniteSet(1 .. n)
    BY FS_Interval
  <2> QED BY <2>1, FS_FiniteSubsetsOfFinite, FS_StrictSubsetOrderingWellFounded
<1>2. T \subseteq SUBSET (1 .. n) /\ T # {}
  OBVIOUS
<1>3. PICK x \in T : \A y \in T : <<y, x>> \notin R
  <2> HIDE DEF T, R
  <2> QED BY <1>1, <1>2, WFMin
<1>4. PICK i \in S : x = UpTo(i)
  OBVIOUS
<1>5. ASSUME NEW k \in S, k < i PROVE FALSE
  <2>2. UpTo(k) \subseteq UpTo(i) /\ UpTo(k) # UpTo(i)
    BY <1>5, SmallerUpTo
  <2>3. <<UpTo(k), UpTo(i)>> \in R
    BY <2>2 DEF StrictSubsetOrdering
  <2> QED BY <2>3, <1>3, <1>4
<1>6. \A m \in S : m \in Nat
  OBVIOUS
<1> QED BY <1>5, <1>6

\* There is a greatest element: the mirror image of the set has a least one.
LEMMA HasGreatest ==
  ASSUME NEW n \in Nat, NEW S \in SUBSET (1 .. n), S # {}
  PROVE  \E i \in S : \A k \in S : k <= i
<1> DEFINE M == {m \in 1 .. n : n + 1 - m \in S}
<1>1. \A k \in S : k \in 1 .. n /\ n + 1 - k \in M
  <2> SUFFICES ASSUME NEW k \in S PROVE k \in 1 .. n /\ n + 1 - k \in M
    OBVIOUS
  <2>1. k \in 1 .. n
    OBVIOUS
  <2>2. n + 1 - k \in 1 .. n /\ n + 1 - (n + 1 - k) = k
    BY <2>1
  <2> QED BY <2>1, <2>2
<1>2. M \in SUBSET (1 .. n) /\ M # {}
  BY <1>1
<1>3. PICK m \in M : \A j \in M : m <= j
  <2> HIDE DEF M
  <2> QED BY <1>2, HasLeast
<1>4. m \in 1 .. n /\ n + 1 - m \in S
  OBVIOUS
<1>5. \A k \in S : k <= n + 1 - m
  <2> SUFFICES ASSUME NEW k \in S PROVE k <= n + 1 - m
    OBVIOUS
  <2>1. m <= n + 1 - k /\ k \in 1 .. n
    BY <1>1, <1>3
  <2> QED BY <1>4, <2>1
<1> QED BY <1>4, <1>5

\* The largest of a set of positive numbers up to n.
LEMMA MaxIsGreatest ==
  ASSUME NEW n \in Nat, NEW S \in SUBSET (1 .. n), S # {}
  PROVE  Max(S) \in S /\ \A k \in S : k <= Max(S)
<1>1. PICK i \in S : \A k \in S : k <= i
  BY HasGreatest
<1>2. i \in S /\ \A k \in S : i >= k
  BY <1>1
<1>3. Max(S) \in S /\ \A k \in S : Max(S) >= k
  BY <1>2 DEF Max
<1> QED BY <1>3
=============================================================================
