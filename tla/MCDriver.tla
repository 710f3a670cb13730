------------------------------- MODULE MCDriver -------------------------------
(***************************************************************************)
(* Texts of up to two pieces of every kind, and a few of three: with one   *)
(* fault, two of them in either order, faults in the second line, and      *)
(* programs of every verdict and fate. One may be what is left of another. *)
(***************************************************************************)
EXTENDS Driver

\* Texts of which no program can be made: something is wrong, or they end too early.
Faulty(pieces) == [pieces |-> pieces, closes |-> FALSE, wrong |-> {}, aborts |-> FALSE, fate |-> "ends"]

Short == UNION { [1 .. n -> Piece] : n \in 0 .. 2 }
Long  == { <<a, "newline", c>> : a \in {"token", "newline"}, c \in Piece }

Well(pieces, wrong, aborts, fate) ==
  [pieces |-> pieces, closes |-> TRUE, wrong |-> wrong, aborts |-> aborts, fate |-> fate]

Programs ==
  { Well(<<"token", "newline", "token">>, wrong, aborts, fate) :
      wrong \in SUBSET {1, 3}, aborts \in BOOLEAN, fate \in {"ends", "fails", "loops"} }
  \union { Well(<<"token">>, wrong, FALSE, fate) : wrong \in SUBSET {1}, fate \in {"ends", "fails"} }

MCText == { Faulty(pieces) : pieces \in Short \union Long } \union Programs
=============================================================================
