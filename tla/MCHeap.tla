------------------------------- MODULE MCHeap -------------------------------
(***************************************************************************)
(* The heap with two or three slots, objects of up to two fields and a     *)
(* collection every second allocation: chains, diamonds, self-references   *)
(* and cycles, with reuse of released slots in every order.                *)
(***************************************************************************)
EXTENDS Heap

\* To the heap a field without an object is as good as no field.
MCPlain == {Unbound}

=============================================================================
