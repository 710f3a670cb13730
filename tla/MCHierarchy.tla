---------------------------- MODULE MCHierarchy ----------------------------
(***************************************************************************)
(* All hierarchies of four types, with every order in which the types may  *)
(* be looked at, and all programs of two types, an interface and up to two *)
(* functions with every mistake in a name.                                 *)
(***************************************************************************)
EXTENDS Hierarchy

CONSTANTS A, B, C, D, f

MCIdentifier == {A, B, C, D, f, "Object", "Number", "print", "self"}

Type(n, p) == [name |-> n, parent |-> p]

\* Parents of A, B, C and D in this order: themselves, each other, or Object.
Hierarchies ==
  LET up == {A, B, C, D, ObjectName}
  IN  { [types |-> <<Type(A, a), Type(B, b), Type(C, c), Type(D, d)>>,
         interfaces |-> <<>>, functions |-> <<>>] : a, b, c, d \in up }

Decls == { Type(n, p) : n \in {A, B, "Number", ObjectName}, p \in {A, B, C, "Number", ObjectName} }

Mistakes ==
  { [types |-> ts, interfaces |-> is, functions |-> <<>>] :
      ts \in { <<d>> : d \in Decls } \union { <<d, e>> : d, e \in Decls },
      is \in { <<>>, <<A>>, <<C, C>> } }
  \union
  { [types |-> <<>>, interfaces |-> is, functions |-> fs] :
      is \in { <<>>, <<"Number">>, <<C>> },
      fs \in { <<f>>, <<f, f>>, <<"print">>, <<"self">>, <<A>> } }

MCPrograms == Hierarchies \union Mistakes
=============================================================================
