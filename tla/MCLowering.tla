----------------------------- MODULE MCLowering -----------------------------
(***************************************************************************)
(* Lowered programs in the machine, against what they mean. There is one   *)
(* library of functions and types, and one run for each entry expression.  *)
(* Numbers are small integers: what does not fit is cut off at an end.     *)
(***************************************************************************)
EXTENDS StackDiscipline, ProgramLowering, Evaluator
LOCAL INSTANCE TLC

CONSTANTS
  text,       \* the one string
  Programs,   \* the entry expressions
  Expected    \* the outcome of each of them, by Evaluator

MinNum == -3
MaxNum == 5

MCNum == MinNum .. MaxNum
Cut(n) == IF n < MinNum THEN MinNum ELSE IF n > MaxNum THEN MaxNum ELSE n

MCArith(op, a, b) ==
  CASE op = "Add" -> Cut(a + b)
    [] op = "Sub" -> Cut(a - b)
    [] op = "Mul" -> Cut(a * b)
    [] op = "Div" -> IF b = 0 THEN 0 ELSE IF b < 0 THEN Cut(- (a \div (- b))) ELSE a \div b
    [] op = "Mod" -> IF b <= 0 THEN 0 ELSE a % b
    [] op \in {"Pow", "Log"} -> a
    [] op = "Neg" -> Cut(- b)
    [] OTHER -> b
MCJoin(op, a, b) == text
MCElemField(i) == ToString(i)
-----------------------------------------------------------------------------
(* Expressions. *)

N(n)  == Literal(NumV(n))
B(b)  == Literal(BoolV(b))
X     == Ident("x")
Y     == Ident("y")
Less(a, b) == BinOp("Lt", a, b)
Plus(a, b) == BinOp("Add", a, b)
Bump  == Assign("x", Plus(X, N(1)))
Out(e) == CallExpr("print", <<e>>)
Upto(a, b) == CallExpr("range", <<a, b>>)

\* A number of rounds that does not depend on the value of x at the start.
Loop(body) == While(Less(X, N(2)), Block(<<Bump, body>>))

Simple == <<N(0), N(1), X, Bump, Out(X)>>
Tests  == <<Less(X, N(1)), Less(Bump, N(1)), Less(N(1), Out(X))>>

\* Every member of s, or every pair of members of s and t, put into a form.
Each(Form(_), s) == [k \in DOMAIN s |-> Form(s[k])]
Pairs(Form(_, _), s, t) ==
  [k \in 1 .. Len(s) * Len(t) |-> Form(s[(k - 1) \div Len(t) + 1], t[((k - 1) % Len(t)) + 1])]

\* Everything an expression can be, over simple parts: without control flow or
\* scopes of its own, and with them.
Unbranched ==
  Pairs(LAMBDA a, b : BinOp("Sub", a, b), Simple, Simple)
    \o Pairs(LAMBDA a, b : BinOp("Div", a, b), Simple, Simple)
    \o Each(LAMBDA a : UnOp("Neg", a), Simple)
    \o Pairs(LAMBDA a, b : CallExpr("sub", <<a, b>>), Simple, Simple)
    \o Pairs(LAMBDA a, b : CallExpr("fst", <<a, b>>), Simple, Simple)
    \o Pairs(LAMBDA a, b : Block(<<a, b>>), Simple, Simple)

Structured ==
  Pairs(LAMBDA a, b : Let("x", a, b), Simple, Simple)
    \o Pairs(LAMBDA a, b : Let("y", a, Plus(Y, b)), Simple, Simple)
    \o Pairs(LAMBDA c, d : If(BinOp("And", c, d), Out(N(1)), <<>>, Out(N(0))), Tests, Tests)
    \o Pairs(LAMBDA c, d : If(BinOp("Or", c, d), Out(N(1)), <<>>, Out(N(0))), Tests, Tests)
    \o Pairs(LAMBDA c, a : If(UnOp("Not", c), a, <<<<c, X>>>>, Out(N(1))), Tests, Simple)
    \o Pairs(LAMBDA c, d : If(c, N(0), <<<<c, X>>, <<d, N(1)>>>>, Bump), Tests, Tests)
    \o Each(Loop, Simple)
    \o Each(LAMBDA c : While(c, Bump), <<Tests[1], Tests[2]>>)
    \o Pairs(LAMBDA a, b : For("y", Upto(N(0), a), Plus(Y, b)), <<N(0), N(2), Bump>>, Simple)
    \o Pairs(LAMBDA a, b : For("x", VectorOf(<<a, b>>), Out(X)), Simple, Simple)
    \o Pairs(LAMBDA a, b : IndexOf(VectorComp(Plus(Y, b), "y", VectorOf(<<N(1), a>>)), a),
             Simple, Simple)

\* The places an expression can stand in, one of each kind.
Places(e) ==
  << Plus(e, X), Plus(X, e), Let("x", e, Plus(X, X)),
     Block(<<Bump, e>>), Loop(e), Assign("x", e),
     If(Less(X, N(1)), e, <<>>, N(0)), If(BinOp("Or", Less(X, N(0)), Less(e, N(1))), X, <<>>, e),
     For("y", Upto(N(0), N(2)), Plus(e, Y)), For("y", VectorComp(e, "x", VectorOf(<<N(0), N(1)>>)), Y),
     IndexOf(VectorOf(<<e, X>>), N(1)), CallExpr("sub", <<X, e>>) >>

Closed(e) == Let("x", N(0), e)

FlatPrograms   == Each(Closed, Unbranched \o Structured)
NestedPrograms == Pairs(LAMBDA e, k : Closed(Places(e)[k]), Structured, [k \in 1 .. Len(Places(X)) |-> k])
-----------------------------------------------------------------------------
(* The library. *)

Field(f) == FieldOf(SelfExpr, f)

MCFunctions ==
  << FunctionDecl("sub", <<"x", "y">>, BinOp("Sub", X, Y)),
     FunctionDecl("fst", <<"x", "y">>, Block(<<Assign("x", Plus(X, N(1))), X>>)),
     FunctionDecl("sum", <<"x">>,
       If(Less(X, N(1)), N(0), <<>>, Plus(X, CallExpr("sum", <<BinOp("Sub", X, N(1))>>)))),
     FunctionDecl("down", <<"x">>, CallExpr("down", <<X>>)),
     FunctionDecl("twice", <<"y">>, Plus(Invoke(Y, "get", <<>>), Invoke(Y, "get", <<>>))) >>

\* A: a counter. C: A with its parameter forwarded, overriding get. D: A with
\* an argument of its own and another method. F: D with a parameter of the same
\* name. Count: an iterator.
MCTypes ==
  << TypeDecl("A", <<"x">>, InheritsAlone("Object"), <<AttrDecl("v", X), AttrDecl("w", Plus(X, N(1)))>>,
       << FunctionDecl("get", <<>>, AssignField(SelfExpr, "v", Plus(Field("v"), N(1)))),
          FunctionDecl("add", <<"x", "y">>, BinOp("Sub", Plus(Field("w"), X), Y)) >>),
     TypeDecl("C", <<>>, InheritsAlone("A"), <<AttrDecl("u", N(1))>>,
       << FunctionDecl("get", <<>>, Plus(BaseCall(<<>>), Field("u"))) >>),
     TypeDecl("D", <<"x", "y">>, Inherits("A", <<Plus(Y, X)>>), <<AttrDecl("z", Y)>>,
       << FunctionDecl("add", <<"x", "y">>, Plus(BaseCall(<<Y, X>>), Field("z"))) >>),
     TypeDecl("F", <<"y">>, Inherits("D", <<N(1), Y>>), <<>>,
       << FunctionDecl("get", <<>>, Plus(BaseCall(<<>>), Field("z"))) >>),
     TypeDecl("Count", <<"hi">>, InheritsAlone("Object"), <<AttrDecl("at", N(0))>>,
       << FunctionDecl("next", <<>>, Less(AssignField(SelfExpr, "at", Plus(Field("at"), N(1))), N(3))),
          FunctionDecl("current", <<>>, Field("at")) >>) >>

GetOf(o)     == Invoke(o, "get", <<>>)

\* Objects: dispatch, base, fields, casts, iterators, recursion, and failures.
ObjectPrograms == Each(Closed,
  Each(LAMBDA o : Let("y", o, Block(<<Out(Y), Out(GetOf(Y)), CallExpr("twice", <<Y>>)>>)),
       <<New("A", <<Bump>>), New("C", <<Plus(X, N(1))>>), New("D", <<Bump, Out(X)>>), New("F", <<Bump>>)>>)
  \o Each(LAMBDA o : Let("y", o, Invoke(Y, "add", <<Bump, Out(X)>>)),
       <<New("A", <<X>>), New("C", <<N(1)>>), New("D", <<Bump, N(2)>>), New("F", <<N(1)>>)>>)
  \o Pairs(LAMBDA o, t : Let("y", o, Plus(If(Is(Y, SimpleRef(t)), N(1), <<>>, N(0)), GetOf(As(Y, SimpleRef(t))))),
       <<New("A", <<X>>), New("C", <<X>>), New("D", <<X, N(1)>>), New("F", <<X>>)>>, <<"A", "C", "D", "F">>)
  \o Pairs(LAMBDA e, t : If(Is(e, SimpleRef(t)), X, <<>>, As(e, SimpleRef(t))),
       <<N(1), B(TRUE), Literal(StrV(text)), While(B(FALSE), X), VectorOf(<<X>>)>>,
       <<"Number", "Boolean", "String", "Object", "A">>)
  \o << Let("y", New("Count", <<X>>), Block(<<For("x", Y, Out(X)), For("x", Y, Out(X))>>)),
        For("y", VectorComp(New("A", <<Y>>), "y", Upto(N(0), N(2))), Out(GetOf(Y))),
        For("y", VectorComp(VectorComp(Plus(X, Y), "x", Upto(Y, N(2))), "y", Upto(N(0), N(2))),
            For("x", Y, Out(X))),
        Invoke(VectorOf(<<X, New("A", <<X>>)>>), "size", <<>>),
        GetOf(IndexOf(VectorOf(<<New("A", <<X>>), New("C", <<X>>)>>), N(1))),
        Block(<<>>), CallExpr("sum", <<N(2)>>), CallExpr("down", <<X>>),
        For("y", Upto(N(0), N(2)), CallExpr("down", <<Y>>)),
        Let("y", New("A", <<X>>), Plus(BinOp("Div", N(1), X), GetOf(Y))),
        GetOf(While(Less(X, N(0)), New("A", <<X>>))),
        BinOp("Eq", New("A", <<X>>), New("A", <<X>>)),
        Let("y", New("A", <<X>>), If(BinOp("Eq", Y, Y), Ident("PI"), <<>>, Ident("E"))),
        CallExpr("sqrt", <<CallExpr("log", <<Bump, CallExpr("exp", <<X>>)>>)>>),
        BinOp("Concat", CallExpr("sin", <<CallExpr("cos", <<CallExpr("rand", <<>>)>>)>>), X) >>)

MCPrograms == FlatPrograms \o ObjectPrograms \o NestedPrograms
-----------------------------------------------------------------------------
(* The machine's tables. A constant is replaced by an operator that names      *)
(* another one: TLC computes the value of the latter once. It names it in a    *)
(* LET where the definition is large: TLC's coverage walks through what a      *)
(* constant stands for wherever the constant is used, but not into a LET.      *)

\* (`@@` has TLC write a table out.)
FuncTable == <<>> @@ LowerFuncs(Functions, Types)
TypeTable == <<>> @@ LowerTypes(Types)
MethodNames == {"get", "add", "next", "current", "iter", "size"}

CodeTable    == <<>> @@ [f \in DOMAIN FuncTable |-> FuncTable[f].body]
ParamsTable  == [f \in DOMAIN FuncTable |-> FuncTable[f].params]
ParentTable  == [t \in DOMAIN TypeTable |-> TypeTable[t].parent]
MethodsTable ==
  [t \in DOMAIN TypeTable |->
    [m \in MethodNames |->
      IF m \in DOMAIN TypeTable[t].methods THEN TypeTable[t].methods[m] ELSE NoFunc]]
EntryTable   == <<>> \o Each(LowerEntry, Programs)
Outcomes     == <<>> \o Each(Outcome, Programs)

FuncNames    == DOMAIN FuncTable
TypeNames    == DOMAIN TypeTable
BuiltinTargets == {"Number", "Boolean", "String", "Object"}
AllLiterals  == { NumV(n) : n \in -1 .. 3 } \union {Nil, BoolV(TRUE), BoolV(FALSE), StrV(text)}
HiddenPrefix == {"__for_iter_", "__comp_iter_", "__comp_acc_"}
VarNames     == {"x", "y", "self", "__self", "__lo", "__hi", "__it", "hi"}
                  \union { Glue(p, k) : p \in HiddenPrefix, k \in 0 .. 3 }
FieldNames   == {"v", "w", "u", "z", "at", "hi", "current", "__vec", "__cursor", "__len"}
AllNames     == VarNames \union FieldNames \union { ToString(i) : i \in 0 .. MaxLen }
LabelNames   ==
  {"and_end", "or_rhs", "or_end", "end_if", "else", "loop_start", "loop_end", "for_start", "for_end",
   "comp_start", "comp_end"} \X (0 .. 6)
    \union {"elif"} \X (0 .. 6) \X (0 .. 1)
TypeRefs     == {Untyped} \union { SimpleRef(t) : t \in {"A", "C", "D", "F"} \union BuiltinTargets }

\* The shape of some code, instruction by instruction. A label has that of the first
\* jump to it, if one comes before it; otherwise it is only reached from above.
NextShape(t, i) ==
  LET here == IF i.op = "Label" /\ i.label \in DOMAIN t.at THEN t.at[i.label] ELSE t.now
      next == After(i, here)
  IN  [shape |-> Append(t.shape, here), now |-> next,
       at |-> IF i.op \in {"Jump", "JumpIfFalse"} THEN t.at @@ (i.label :> next) ELSE t.at]

MCShapeIn(code, floor) ==
  LET start == [shape |-> <<>>, now |-> [height |-> 0, depth |-> floor], at |-> <<>>]
      Step(t, i) == CHOOSE n \in { NextShape(u, i) : u \in {t} } : TRUE
  IN  Append(Fold(Step, start, code).shape, [height |-> 1, depth |-> floor])

MCCode       == LET table == CodeTable IN table
MCParams     == LET table == ParamsTable IN table
MCParent     == LET table == ParentTable IN table
MCMethods    == LET table == MethodsTable IN table
MCEntryCode  == LET table == EntryTable IN table
MCExpected   == LET table == Outcomes IN table
MCFuncName   == LET names == FuncNames IN names
MCTypeName   == LET names == TypeNames IN names
MCMethodName == MethodNames
MCTypeRef    == TypeRefs
MCTargets    == LET names == TypeNames IN names \union BuiltinTargets
MCLiterals   == AllLiterals
MCVarName    == VarNames
MCFieldName  == FieldNames
MCName       == AllNames
MCLabelName  == LabelNames
MCPureOps    == PureOps
MCRand       == {NumV(0)}
MCPI         == NumV(3)
MCE          == NumV(2)

\* The hypothesis of LoweringProofs: the library and the programs are made of
\* expressions, and the machine's code is what they are lowered to.
ASSUME LoweredAssumption == IsLowered(Code, EntryCode, Functions, Types, Programs)
-----------------------------------------------------------------------------
(* Properties. *)

Alike(a, b) == a.tag = b.tag /\ a.val = b.val

\* When the machine is done it has printed, and left as its one value, what the
\* program means, and when it has failed it has printed what came before that
\* error: compilation and execution together are correct.
RunsAsEvaluated ==
  Finished =>
    LET r == Expected[entry]
    IN  /\ error = r.err
        /\ Len(output) = Len(r.out)
        /\ \A k \in DOMAIN output : Alike(output[k], r.out[k])
        /\ status = "done" => Len(stack) = 1 /\ Alike(Shown(Top(0)), r.val)

\* Every program of these comes to its end: no loop jumps where it should not.
EveryRunEnds == <>Finished
=============================================================================
