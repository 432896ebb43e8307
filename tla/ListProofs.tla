----------------------------- MODULE ListProofs -----------------------------
(***************************************************************************)
(* Facts about lists that the proofs of the components share.              *)
(***************************************************************************)
EXTENDS Integers, Sequences, FiniteSetsExt, Functions, FiniteSetTheorems, WellFoundedInduction, TLAPS

\* A non-empty set of indices has a greatest element.
LEMMA MaxOfIndices ==
    ASSUME NEW n \in Nat, NEW S \in SUBSET (1..n), S # {}
    PROVE  Max(S) \in S /\ \A i \in S : i <= Max(S)
<1> DEFINE Gap == {n - i : i \in S}
<1>1. Gap \subseteq Nat
  OBVIOUS
<1>2. Gap # {}
  <2>1. PICK i \in S : TRUE
    OBVIOUS
  <2> QED  BY <2>1
<1>3. PICK g \in Gap : \A h \in Gap : ~(<<h, g>> \in OpToRel(<, Nat))
  <2> HIDE DEF Gap
  <2> QED  BY <1>1, <1>2, NatLessThanWellFounded, WFMin
<1>4. ASSUME NEW h \in Gap PROVE g <= h
  <2>1. g \in Nat /\ h \in Nat
    BY <1>1
  <2>2. ~(<<h, g>> \in OpToRel(<, Nat))
    BY <1>3
  <2> QED  BY <2>1, <2>2 DEF OpToRel
<1>5. PICK m \in S : g = n - m
  OBVIOUS
<1>6. ASSUME NEW i \in S PROVE m >= i
  <2>1. n - i \in Gap
    OBVIOUS
  <2>2. g <= n - i
    BY <1>4, <2>1
  <2> QED  BY <1>5, <2>2
<1> QED
  BY <1>6 DEF Max

\* The bijections from 1..Cardinality(S) are the orders of a finite set S.
LEMMA OrdersOfSet ==
    ASSUME NEW S, IsFiniteSet(S), NEW s \in Bijection(1..Cardinality(S), S)
    PROVE  /\ s \in Seq(S)
           /\ Len(s) = Cardinality(S)
           /\ \A v \in S : \E i \in DOMAIN s : s[i] = v
           /\ \A i, j \in DOMAIN s : s[i] = s[j] => i = j
<1> DEFINE n == Cardinality(S)
<1>1. n \in Nat
  BY FS_CardinalityType
<1>2. /\ s \in [1..n -> S]
      /\ \A v \in S : \E i \in 1..n : s[i] = v
      /\ \A i, j \in DOMAIN s : s[i] = s[j] => i = j
  BY DEF Bijection, Injection, Surjection, IsInjective
<1> QED
  BY <1>1, <1>2

\* A list whose elements are all of a set is a sequence over that set.
LEMMA SequenceOver ==
    ASSUME NEW T, NEW n \in Nat, NEW f,
           f = [i \in 1..n |-> f[i]],
           \A i \in 1..n : f[i] \in T
    PROVE  f \in Seq(T)
<1>1. f \in [1..n -> T]  OBVIOUS
<1>. QED  BY <1>1
=============================================================================
