------------------------------ MODULE NatLemmas ------------------------------
(***************************************************************************)
(* Least and greatest numbers: what the proofs have in place of induction. *)
(* A property that fails for some number fails for a least one; and what a *)
(* CHOOSE picks as the first or the last of some positions exists. And     *)
(* when one measure of what is left to do is less than another.            *)
(***************************************************************************)
EXTENDS Integers, Measures, WellFoundedInduction, TLAPS

\* A set of natural numbers that is not empty has a least element.
LEMMA NatMin ==
  ASSUME NEW S, S \subseteq Nat, S # {}
  PROVE  \E k \in S : \A j \in S : k <= j
  <1> DEFINE R == OpToRel(<, Nat)
  <1>1. IsWellFoundedOn(R, Nat)
    BY NatLessThanWellFounded
  <1>2. \A j, k \in Nat : j < k => <<j, k>> \in R
    BY DEF OpToRel
  <1> HIDE DEF R
  <1>3. PICK k \in S : \A j \in S : ~ (<<j, k>> \in R)
    BY <1>1, WFMin
  <1>4. ASSUME NEW j \in S PROVE k <= j
    <2>1. k \in Nat /\ j \in Nat
      OBVIOUS
    <2>2. ~ (j < k)
      BY <1>2, <1>3, <2>1
    <2> QED
      BY <2>1, <2>2
  <1> QED
    BY <1>4

\* One of numbers up to n has a greatest element.
LEMMA NatMax ==
  ASSUME NEW n \in Nat, NEW S, S \subseteq 1 .. n, S # {}
  PROVE  \E k \in S : \A j \in S : j <= k
  <1> DEFINE D == { n - k : k \in S }
  <1>1. D \subseteq Nat /\ D # {}
    <2>1. \A k \in S : n - k \in Nat
      OBVIOUS
    <2> QED
      BY <2>1
  <1> HIDE DEF D
  <1>2. PICK d \in D : \A e \in D : d <= e
    BY <1>1, NatMin
  <1>3. PICK k \in S : d = n - k
    BY DEF D
  <1>4. ASSUME NEW j \in S PROVE j <= k
    <2>1. n - j \in D
      BY DEF D
    <2>2. n - k <= n - j /\ j \in 1 .. n /\ k \in 1 .. n
      BY <1>2, <1>3, <2>1
    <2> QED
      BY <2>2
  <1> QED
    BY <1>4

\* The first of four numbers that differ decides.
LEMMA FirstDiffers ==
  ASSUME NEW a1, NEW a2, NEW a3, NEW a4, NEW b1, NEW b2, NEW b3, NEW b4,
         \/ a1 < b1
         \/ a1 = b1 /\ a2 < b2
         \/ a1 = b1 /\ a2 = b2 /\ a3 < b3
         \/ a1 = b1 /\ a2 = b2 /\ a3 = b3 /\ a4 < b4
  PROVE  Less(<<a1, a2, a3, a4>>, <<b1, b2, b3, b4>>)
<1> DEFINE a == <<a1, a2, a3, a4>>
           b == <<b1, b2, b3, b4>>
<1>1. /\ DOMAIN b = 1 .. 4 /\ a[1] = a1 /\ a[2] = a2 /\ a[3] = a3 /\ a[4] = a4
      /\ b[1] = b1 /\ b[2] = b2 /\ b[3] = b3 /\ b[4] = b4
  OBVIOUS
<1> HIDE DEF a, b
<1>2. \E n \in 1 .. 4 : a[n] < b[n] /\ \A j \in 1 .. n - 1 : a[j] = b[j]
  <2>1. CASE a1 < b1
    <3>1. a[1] < b[1] /\ \A j \in 1 .. 1 - 1 : a[j] = b[j]
      BY <1>1, <2>1
    <3> QED
      BY <3>1
  <2>2. CASE a1 = b1 /\ a2 < b2
    <3>1. a[2] < b[2] /\ \A j \in 1 .. 2 - 1 : a[j] = b[j]
      BY <1>1, <2>2
    <3> QED
      BY <3>1
  <2>3. CASE a1 = b1 /\ a2 = b2 /\ a3 < b3
    <3>1. a[3] < b[3] /\ \A j \in 1 .. 3 - 1 : a[j] = b[j]
      BY <1>1, <2>3
    <3> QED
      BY <3>1
  <2>4. CASE a1 = b1 /\ a2 = b2 /\ a3 = b3 /\ a4 < b4
    <3>1. a[4] < b[4] /\ \A j \in 1 .. 4 - 1 : a[j] = b[j]
      BY <1>1, <2>4
    <3> QED
      BY <3>1
  <2> QED
    BY <2>1, <2>2, <2>3, <2>4
<1>3. Less(a, b)
  BY <1>1, <1>2 DEF Less
<1> QED
  BY <1>3 DEF a, b
==============================================================================
