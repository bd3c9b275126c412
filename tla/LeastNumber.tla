------------------------------- MODULE LeastNumber ------------------------------
(***************************************************************************)
(* Least and greatest elements of sets of numbers.  They stand in the      *)
(* proofs for induction: the least number of which a claim is false is     *)
(* where it starts to be false.                                            *)
(***************************************************************************)
EXTENDS Integers, WellFoundedInduction, TLAPS

\* A set of natural numbers that is not empty has a least one.
LEMMA LeastOf ==
    ASSUME NEW S \in SUBSET Nat, S # {}
    PROVE  \E n \in S : \A m \in S : n <= m
<1> DEFINE R == OpToRel(<, Nat)
<1>1. IsWellFoundedOn(R, Nat)
  BY NatLessThanWellFounded
<1>2. \A m, n \in Nat : m < n => <<m, n>> \in R
  BY DEF OpToRel
<1> HIDE DEF R
<1>3. PICK n \in S : \A m \in S : ~(<<m, n>> \in R)
  BY <1>1, WFMin
<1>4. ASSUME NEW m \in S PROVE n <= m
  <2>1. ~(m < n)
    BY <1>2, <1>3
  <2> QED BY <2>1
<1> QED BY <1>4

\* And a bounded one a greatest.
LEMMA GreatestOf ==
    ASSUME NEW n \in Nat, NEW S \in SUBSET (1..n), S # {}
    PROVE  \E i \in S : \A j \in S : j <= i
<1> DEFINE T == {n - i : i \in S}
<1>1. T \in SUBSET Nat
  OBVIOUS
<1>2. T # {}
  <2>1. PICK i \in S : TRUE
    OBVIOUS
  <2>2. n - i \in T
    OBVIOUS
  <2> QED BY <2>2
<1>3. PICK t \in T : \A u \in T : t <= u
  <2> HIDE DEF T
  <2> QED BY <1>1, <1>2, LeastOf
<1>4. PICK i \in S : t = n - i
  OBVIOUS
<1>5. ASSUME NEW j \in S PROVE j <= i
  <2>1. n - i <= n - j
    BY <1>3, <1>4
  <2>2. i \in 1..n /\ j \in 1..n
    OBVIOUS
  <2> QED BY <2>1, <2>2
<1> QED BY <1>5
================================================================================
