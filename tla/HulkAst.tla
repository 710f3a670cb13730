------------------------------- MODULE HulkAst -------------------------------
(***************************************************************************)
(* The expressions and declarations of a HULK program (hulk-ast), as       *)
(* records. Source positions are left out. Identifiers are strings.        *)
(* What lowering erases, annotations and type arguments, is only read by   *)
(* the semantic analysis: most forms below are without, and a few give a   *)
(* declaration its annotations afterwards.                                 *)
(***************************************************************************)
EXTENDS Naturals, Sequences

CONSTANTS PI, E   \* the values of the two numbers that have a name

\* Op applied from left to right (SequencesExt!FoldLeft, without its sets of indices).
Fold(Op(_, _), base, s) ==
  LET upto[k \in 0 .. Len(s)] == IF k = 0 THEN base ELSE Op(upto[k - 1], s[k])
  IN  upto[Len(s)]

\* References to types; Untyped is no annotation. base is what is left of a reference
\* without the type arguments, the stars and the brackets.
SimpleRef(n)        == [form |-> "Simple", name |-> n, base |-> n]
GenericRef(n, args) == [form |-> "Generic", name |-> n, args |-> args, base |-> n]
IterableRef(r)      == [form |-> "Iterable", of |-> r, base |-> r.base]
VectorRef(r)        == [form |-> "Vector", of |-> r, base |-> r.base]
Untyped             == [form |-> "none"]

\* TypeRef::base_name, all that lowering keeps of a reference.
BaseName(r) == r.base

Literal(v)        == [kind |-> "Literal", val |-> v]
Ident(n)          == [kind |-> "Ident", name |-> n]
SelfExpr          == [kind |-> "SelfExpr"]
BinOp(op, l, r)   == [kind |-> "BinOp", op |-> op, lhs |-> l, rhs |-> r]
UnOp(op, e)       == [kind |-> "UnOp", op |-> op, arg |-> e]
CallExpr(n, args) == [kind |-> "Call", name |-> n, args |-> args]
Invoke(o, m, args) == [kind |-> "MethodCall", obj |-> o, method |-> m, args |-> args]
BaseCall(args)    == [kind |-> "Base", args |-> args]
FieldOf(o, f)     == [kind |-> "GetField", obj |-> o, field |-> f]
LetTyped(n, r, e, body) == [kind |-> "Let", name |-> n, ref |-> r, init |-> e, body |-> body]
Let(n, e, body)   == LetTyped(n, Untyped, e, body)
Assign(n, e)      == [kind |-> "Assign", name |-> n, val |-> e]
AssignField(o, f, e) == [kind |-> "AssignField", obj |-> o, field |-> f, val |-> e]
\* elifs: the pairs of a condition and its branch.
If(c, e, elifs, other) == [kind |-> "If", cond |-> c, then |-> e, elifs |-> elifs, else |-> other]
While(c, body)    == [kind |-> "While", cond |-> c, body |-> body]
For(n, e, body)   == [kind |-> "For", var |-> n, iter |-> e, body |-> body]
Block(es)         == [kind |-> "Block", exprs |-> es]
NewOf(t, refs, args) == [kind |-> "New", type |-> t, refs |-> refs, args |-> args]
New(t, args)      == NewOf(t, <<>>, args)
Is(e, r)          == [kind |-> "Is", arg |-> e, ref |-> r]
As(e, r)          == [kind |-> "As", arg |-> e, ref |-> r]
VectorOf(es)      == [kind |-> "Vector", elems |-> es]
VectorComp(e, n, source) == [kind |-> "VectorComp", elem |-> e, var |-> n, iter |-> source]
IndexOf(o, i)     == [kind |-> "Index", obj |-> o, index |-> i]

BinaryOps == {"Add", "Sub", "Mul", "Div", "Pow", "Mod", "Concat", "ConcatWs", "Eq", "Ne",
              "Lt", "Le", "Gt", "Ge", "And", "Or"}
UnaryOps  == {"Neg", "Not"}

\* The functions with an instruction or code of their own, by the arguments they take,
\* which analysis sees to and lowering relies on.
Unary    == {"print", "sqrt", "sin", "cos", "exp"}
Binary   == {"log", "range"}
Builtins == Unary \union Binary \union {"rand"}

CallForms(X) ==
  [kind : {"Call"}, name : Unary, args : [1 .. 1 -> X]]
    \union [kind : {"Call"}, name : Binary, args : [1 .. 2 -> X]]
    \union [kind : {"Call"}, name : {"rand"}, args : {<<>>}]
    \union [kind : {"Call"}, name : STRING \ Builtins, args : Seq(X)]

\* The expressions made of the expressions X, of literals Val and references Ref.
Forms(X, Val, Ref) ==
  [kind : {"Literal"}, val : Val]
    \union [kind : {"Ident"}, name : STRING]
    \union [kind : {"SelfExpr"}]
    \union [kind : {"BinOp"}, op : BinaryOps, lhs : X, rhs : X]
    \union [kind : {"UnOp"}, op : UnaryOps, arg : X]
    \union CallForms(X)
    \union [kind : {"MethodCall"}, obj : X, method : STRING, args : Seq(X)]
    \union [kind : {"Base"}, args : Seq(X)]
    \union [kind : {"GetField"}, obj : X, field : STRING]
    \union [kind : {"Let"}, name : STRING, ref : Ref, init : X, body : X]
    \union [kind : {"Assign"}, name : STRING, val : X]
    \union [kind : {"AssignField"}, obj : X, field : STRING, val : X]
    \union [kind : {"If"}, cond : X, then : X, elifs : Seq(X \X X), else : X]
    \union [kind : {"While"}, cond : X, body : X]
    \union [kind : {"For"}, var : STRING, iter : X, body : X]
    \union [kind : {"Block"}, exprs : Seq(X)]
    \union [kind : {"New"}, type : STRING, refs : Seq(Ref), args : Seq(X)]
    \union [kind : {"Is", "As"}, arg : X, ref : Ref]
    \union [kind : {"Vector"}, elems : Seq(X)]
    \union [kind : {"VectorComp"}, elem : X, var : STRING, iter : X]
    \union [kind : {"Index"}, obj : X, index : X]

\* `function name(params) => body`, and a method alike: refs annotates the
\* parameters, generic names the type parameters.
FunctionDecl(n, ps, e) ==
  [name |-> n, generic |-> <<>>, params |-> ps, refs |-> [k \in DOMAIN ps |-> Untyped],
   returns |-> Untyped, body |-> e]
AttrDecl(n, e) == [name |-> n, ref |-> Untyped, init |-> e]

\* `inherits name(args)`, or `inherits name` alone, which forwards the child's own
\* parameters. A type without the clause inherits from Object.
Inherits(n, args) == [name |-> n, explicit |-> TRUE, args |-> args]
InheritsAlone(n)  == [name |-> n, explicit |-> FALSE, args |-> <<>>]

TypeDecl(n, ps, parent, attrs, methods) ==
  [name |-> n, generic |-> <<>>, params |-> ps, refs |-> [k \in DOMAIN ps |-> Untyped],
   parent |-> parent, implements |-> <<>>, attrs |-> attrs, methods |-> methods]

\* What an interface asks for: a name with annotated parameters and result.
MethodSig(n, refs, returns) == [name |-> n, refs |-> refs, returns |-> returns]
InterfaceDecl(n, extends, methods) ==
  [name |-> n, generic |-> <<>>, extends |-> extends, methods |-> methods]

Annotated(d, refs)      == [d EXCEPT !.refs = refs]
Returning(d, r)         == [d EXCEPT !.returns = r]
Implementing(d, refs)   == [d EXCEPT !.implements = refs]
Generic(d, names)       == [d EXCEPT !.generic = names]
TypedAttr(n, r, e)      == [name |-> n, ref |-> r, init |-> e]

Program(interfaces, types, functions, e) ==
  [interfaces |-> interfaces, types |-> types, functions |-> functions, entry |-> e]
=============================================================================
