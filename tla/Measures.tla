------------------------------ MODULE Measures ------------------------------
(***************************************************************************)
(* Measures of what a loop has left to do: tuples of natural numbers, the  *)
(* first of which weighs most. A loop whose every turn makes its measure   *)
(* smaller ends, since no such measures decrease for ever.                 *)
(***************************************************************************)
EXTENDS Integers

Less(a, b) == \E n \in DOMAIN b : a[n] < b[n] /\ \A j \in 1 .. n - 1 : a[j] = b[j]
=============================================================================
