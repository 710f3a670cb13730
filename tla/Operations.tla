----------------------------- MODULE Operations -----------------------------
(***************************************************************************)
(* What the operators of HULK compute, and which kinds of values they      *)
(* take: the part of the machine that has no state, which the meaning of a *)
(* program is defined with too.                                            *)
(***************************************************************************)
EXTENDS HulkValues, Sequences

CONSTANTS
  Arith(_, _, _),   \* f64 arithmetic: operation, operands
  Join(_, _, _),    \* the text of two values joined
  VectorType,       \* "__Vector"
  MaxCallDepth      \* max_call_depth

ObjectType == "Object"   \* what every chain of parents ends in; no type is registered under it

NumOps   == {"Add", "Sub", "Mul", "Div", "Mod", "Pow", "Log"}
NumFuncs == {"Neg", "Sqrt", "Sin", "Cos", "Exp"}
NumTests == {"Lt", "Le", "Gt", "Ge"}
BoolOps  == {"And", "Or"}
AnyTests == {"Eq", "Ne"}
Joins    == {"Concat", "ConcatWs"}
PureOps  == NumOps \union NumFuncs \union NumTests \union BoolOps \union AnyTests \union Joins
              \union {"Not", "Print"}

ASSUME ArithAssumption ==
  \A op \in NumOps \union NumFuncs : \A a, b \in Num : Arith(op, a, b) \in Num
ASSUME JoinAssumption == \A op \in Joins : \A a, b \in Value : Join(op, a, b) \in Str

Kinds(op) ==
  CASE op \in NumOps \union NumTests -> <<"num", "num">>
    [] op \in NumFuncs               -> <<"num">>
    [] op \in BoolOps                -> <<"bool", "bool">>
    [] op \in AnyTests \union Joins  -> <<"any", "any">>
    [] op = "Not"                    -> <<"bool">>
    [] op = "Print"                  -> <<"any">>

\* Value::eq: values of two kinds are unequal.
Same(a, b) == a.tag = b.tag /\ a.val = b.val

\* a is the operand pushed first, b the one on top (the only one, if there is one).
Result(op, a, b) ==
  CASE op \in NumOps   -> NumV(Arith(op, a.val, b.val))
    [] op \in NumFuncs -> NumV(Arith(op, b.val, b.val))
    [] op = "Lt" -> BoolV(a.val < b.val)
    [] op = "Le" -> BoolV(a.val <= b.val)
    [] op = "Gt" -> BoolV(a.val > b.val)
    [] op = "Ge" -> BoolV(a.val >= b.val)
    [] op = "And" -> BoolV(IsTrue(a) /\ IsTrue(b))
    [] op = "Or" -> BoolV(IsTrue(a) \/ IsTrue(b))
    [] op = "Eq" -> BoolV(Same(a, b))
    [] op = "Ne" -> BoolV(~ Same(a, b))
    [] op \in Joins -> StrV(Join(op, a, b))
    [] op = "Not" -> BoolV(~ IsTrue(b))
    [] op = "Print" -> b
=============================================================================
