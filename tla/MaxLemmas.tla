----------------------------- MODULE MaxLemmas -----------------------------
(***************************************************************************)
(* What Max of FiniteSetsExt returns, used wherever a rowid or a count is  *)
(* the largest of a set.                                                   *)
(***************************************************************************)
EXTENDS Naturals, FiniteSetsExt, TLAPS, NaturalsInduction, WellFoundedInduction

\* A non-empty set of naturals has a least element.
LEMMA LeastNat ==
    ASSUME NEW T \in SUBSET Nat, T # {}
    PROVE  \E m \in T : \A k \in T : m <= k
<1>1. PICK m \in T : \A k \in T : <<k, m>> \notin OpToRel(<, Nat)
  BY NatLessThanWellFounded, WFMin
<1>2. \A k \in T : ~(k < m)
  BY <1>1 DEF OpToRel
<1> QED
  BY <1>2

\* A non-empty, bounded set of naturals has the maximum that Max chooses.
LEMMA MaxOfBounded ==
    ASSUME NEW S \in SUBSET Nat, S # {},
           NEW n \in Nat, \A i \in S : i <= n
    PROVE  Max(S) \in S /\ \A i \in S : Max(S) >= i
<1> DEFINE T == {m \in Nat : \A i \in S : i <= m}
<1>1. T \subseteq Nat /\ T # {}
  OBVIOUS
<1>2. PICK m \in T : \A k \in T : m <= k
  BY <1>1, LeastNat
<1>3. m \in S
  <2> SUFFICES ASSUME m \notin S PROVE FALSE
    OBVIOUS
  <2>1. \A i \in S : i < m
    BY <1>1
  <2>2. m # 0
    <3>1. PICK i \in S : TRUE
      OBVIOUS
    <3>2. i \in Nat /\ i < m
      BY <2>1
    <3> QED
      BY <3>2
  <2>3. m - 1 \in T
    BY <1>1, <2>1, <2>2
  <2> QED
    BY <1>1, <1>2, <2>3
<1>4. \A i \in S : m >= i
  BY <1>1
<1> HIDE DEF T
<1> QED
  BY <1>3, <1>4 DEF Max
=============================================================================
