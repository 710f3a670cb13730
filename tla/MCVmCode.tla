------------------------------ MODULE MCVmCode ------------------------------
(***************************************************************************)
(* Any code there is, lowered or not: each sequence of three instructions  *)
(* from Alphabet is an entry, and so is every operator and type test on    *)
(* values of every kind. The functions g and f have code that no lowering  *)
(* makes; h does not exist, nor does the label far.                        *)
(***************************************************************************)
EXTENDS VmCode

CONSTANTS x, size, T, V, g, f, h, m, iter, s, near, far

Alphabet ==
  { [op |-> "Literal", val |-> NumV(0)], [op |-> "Literal", val |-> BoolV(FALSE)],
    [op |-> "Rand"], [op |-> "Pop"], [op |-> "Dup"], [op |-> "Eq"], [op |-> "Print"],
    [op |-> "LoadVar", name |-> x], [op |-> "BindVar", name |-> x],
    [op |-> "StoreVar", name |-> x], [op |-> "BeginScope"], [op |-> "EndScope"],
    [op |-> "Label", label |-> near], [op |-> "Jump", label |-> near],
    [op |-> "Jump", label |-> far], [op |-> "JumpIfFalse", label |-> near],
    [op |-> "JumpIfFalse", label |-> far], [op |-> "Ret"],
    [op |-> "NewObject", type |-> T], [op |-> "MakeVector", size |-> 1],
    [op |-> "GetField", field |-> x], [op |-> "SetField", field |-> x],
    [op |-> "Index"], [op |-> "VecPush"],
    [op |-> "IsType", type |-> T], [op |-> "AsType", type |-> T],
    [op |-> "Call", fn |-> g, argc |-> 1], [op |-> "Call", fn |-> f, argc |-> 0],
    [op |-> "Call", fn |-> h, argc |-> 0],
    [op |-> "CallMethod", method |-> m, argc |-> 0],
    [op |-> "CallMethod", method |-> iter, argc |-> 0],
    [op |-> "CallBase", type |-> T, method |-> m, argc |-> 0] }

\* f leaves nothing on its stack. g leaves nothing if its argument is true; if it is false,
\* g jumps to the second of two labels, calls itself, and once more with the Nil it got,
\* which fails two calls deep.
Bodies ==
  [fn \in {g, f} |->
    IF fn = f THEN <<[op |-> "Jump", label |-> near], [op |-> "Ret"], [op |-> "Label", label |-> near]>>
    ELSE << [op |-> "LoadVar", name |-> x], [op |-> "JumpIfFalse", label |-> far], [op |-> "Ret"],
            [op |-> "Label", label |-> far], [op |-> "Call", fn |-> f, argc |-> 0],
            [op |-> "Label", label |-> far],
            [op |-> "Literal", val |-> BoolV(TRUE)], [op |-> "Call", fn |-> g, argc |-> 1],
            [op |-> "Call", fn |-> g, argc |-> 1] >>]

MCOperators == PureOps
MCTargets   == {T, ObjectType, "Number", "String", "Boolean"}
MCLiterals  == {NumV(0), NumV(1), BoolV(TRUE), BoolV(FALSE), Nil, StrV(s)}
MCRand      == {NumV(0), NumV(1)}

Constant(v) == [op |-> "Literal", val |-> v]

\* Every operator on any two values, every type test on any.
OnValues ==
  { <<Constant(a), Constant(b), [op |-> o]>> : a \in MCLiterals, b \in MCLiterals, o \in PureOps }
    \union { <<Constant(a), [op |-> o, type |-> t]>> :
                a \in MCLiterals, o \in {"IsType", "AsType"}, t \in MCTargets }

Entries == [code \in [1 .. 3 -> Alphabet] \union OnValues |-> code]

MCCode      == Bodies
MCEntryCode == Entries
MCParams    == [fn \in {g, f} |-> IF fn = g THEN <<x>> ELSE <<>>]
MCParent    == [t \in {T} |-> ObjectType]
MCMethods   == [t \in {T} |-> [n \in {m, iter} |-> IF n = m THEN g ELSE NoFunc]]

\* Vectors of one element, which has the name of the one other field.
MCElemField(i) == x

MCArith(op, a, b) == a
MCJoin(op, a, b)  == s
=============================================================================
