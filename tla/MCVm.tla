-------------------------------- MODULE MCVm --------------------------------
(***************************************************************************)
(* A small machine that collects after every allocation. The one function  *)
(* is g(x), which type T has as its method m; vectors have no method.      *)
(* It computes nothing and has no literals: its values are handles.        *)
(***************************************************************************)
EXTENDS Vm

CONSTANTS x, size, T, V, g, m, iter, s

MCParams  == [fn \in {g} |-> <<x>>]
MCParent  == [t \in {T} |-> ObjectType]
MCMethods == [t \in {T} |-> [n \in {m, iter} |-> IF n = m THEN g ELSE NoFunc]]

\* Vectors of one element, which has the name of the one other field.
MCElemField(i) == x

MCArith(op, a, b) == a
MCJoin(op, a, b)  == s
=============================================================================
