------------------------------- MODULE Checker -------------------------------
(***************************************************************************)
(* Checker::check_expr: the type of an expression and what is wrong with   *)
(* it; and collect_param_constraints, which looks for what the uses of a   *)
(* parameter ask of it. Of an error only the kind is kept.                 *)
(***************************************************************************)
EXTENDS StaticTypes
LOCAL INSTANCE TLC

\* A check under way: what is declared; the types of the variables in sight (env),
\* the type parameters (current_generic_scope) and the method (current_method, an
\* Option of its owner and name); seen, an Option: the types of the arguments of
\* `new` by the type that declares the parameters (ctor_arg_obs); the errors; needs,
\* the pairs of types of which the first must conform to the second (require); hung,
\* if it does not return; and the type of the expression checked last.
Start(ctx) ==
  [ctx |-> ctx, env |-> <<>>, scope |-> {}, method |-> <<>>, seen |-> <<>>,
   errors |-> {}, needs |-> {}, hung |-> FALSE, type |-> ErrorT]

Typed(s, t)     == [s EXCEPT !.type = t]
Report(s, kind) == [s EXCEPT !.errors = @ \union {kind}]
Fail(s, kind)   == Typed(Report(s, kind), ErrorT)
Hang(s, sig)    == [s EXCEPT !.hung = @ \/ sig.returns.tag = "never"]

Require(s, found, expected) == [s EXCEPT !.needs = @ \union {<<found, expected>>}]
Must(s, expected)           == Require(s, s.type, expected)   \* of the expression checked last

\* Whether types conform changes nothing about the types of what is around, so it is
\* asked when all is checked.
Heard(answers, s) ==
  [s EXCEPT !.needs = {}, !.hung = @ \/ "never" \in answers,
            !.errors = @ \union (IF "no" \in answers THEN {"Mismatch"} ELSE {})]

Judged(s) == Heard({ Conformance(need[1], need[2], s.ctx) : need \in s.needs }, s)

RECURSIVE Check(_, _)

\* Expressions checked from left to right, and their types.
CheckAll(es, s) ==
  Fold(LAMBDA r, e : LET t == Check(e, r.state) IN [state |-> t, types |-> Append(r.types, t.type)],
       [state |-> s, types |-> <<>>], es)

CheckArgs(params, r) ==
  IF Len(params) # Len(r.types) THEN Report(r.state, "Arity")
  ELSE Fold(LAMBDA s, k : Require(s, r.types[k], params[k]), r.state, [k \in DOMAIN params |-> k])

\* A call of what has this signature.
CheckCall(sig, r) == Typed(CheckArgs(sig.params, r), sig.returns)

\* An expression checked with one more variable.
CheckWith(n, t, e, s) == [Check(e, [s EXCEPT !.env = (n :> t) @@ @]) EXCEPT !.env = s.env]

CheckCond(e, s) == Must(Check(e, s), BooleanT)
-----------------------------------------------------------------------------
(* Operators. *)

Arithmetic  == {"Add", "Sub", "Mul", "Div", "Mod", "Pow"}
Comparisons == {"Lt", "Le", "Gt", "Ge"}
Logic       == {"And", "Or"}

\* What both operands must be; nothing for the operators that take several types.
OperandOf(op) ==
  CASE op \in Arithmetic \union Comparisons -> <<NumberT>>
    [] op \in Logic                         -> <<BooleanT>>
    [] OTHER                                -> <<>>

ResultOf(op) == CASE op \in Arithmetic -> NumberT
                  [] op \in {"Concat", "ConcatWs"} -> StringT
                  [] OTHER -> BooleanT

Joinable(s, t) == IF t \in {StringT, NumberT, ErrorT} THEN s ELSE Report(s, "Mismatch")

Operands(op, types, s) ==
  CASE OperandOf(op) # <<>> -> Fold(LAMBDA u, t : Require(u, t, OperandOf(op)[1]), s, types)
    [] op \in {"Concat", "ConcatWs"} -> Fold(Joinable, s, types)
    [] OTHER -> s

CheckBinOp(e, s) ==
  LET r == CheckAll(<<e.lhs, e.rhs>>, s) IN Typed(Operands(e.op, r.types, r.state), ResultOf(e.op))

UnaryOf(op) == IF op = "Neg" THEN NumberT ELSE BooleanT

CheckUnOp(e, s) == Typed(Must(Check(e.arg, s), UnaryOf(e.op)), UnaryOf(e.op))
-----------------------------------------------------------------------------
(* Variables. *)

Variable(n, s) ==
  CASE n \in DOMAIN s.env -> Typed(s, s.env[n])
    [] n \notin DOMAIN s.env /\ n \in {"PI", "E"} -> Typed(s, NumberT)
    [] OTHER -> Fail(s, "UndefinedVariable")

\* The variable, of the type it is annotated with. An annotation that names no type is
\* reported, and is as none. There is no variable self.
Bind(n, v, named, body) ==
  LET t == IF named = <<>> THEN v.type ELSE named[1]
      u == IF named = <<>> THEN Report(v, "UndefinedType") ELSE Must(v, t)
  IN  IF n = "self" THEN Check(body, u) ELSE CheckWith(n, t, body, u)

CheckLet(e, s) ==
  LET v == Check(e.init, IF e.name = "self" THEN Report(s, "ReservedName") ELSE s)
  IN  Bind(e.name, v, IF e.ref = Untyped THEN <<v.type>> ELSE Resolve(e.ref, v.scope, v.ctx), e.body)

CheckAssign(e, s) ==
  LET v == Check(e.val, s)
  IN  CASE e.name = "self" -> Fail(v, "SelfAssign")
        [] e.name # "self" /\ e.name \in DOMAIN v.env ->
             Typed(Must(v, v.env[e.name]), v.env[e.name])
        [] OTHER -> Fail(v, "UndefinedVariable")
-----------------------------------------------------------------------------
(* Members. *)

VectorMethods(elem) == [size |-> NumberT, next |-> BooleanT, current |-> elem]

\* Signatures and types in terms of what instantiates t.
InTermsOf(t, found, ctx) ==
  LET given(u) == Substitute(u, Instantiation(t, ctx))
  IN  [k \in DOMAIN found |-> [params |-> [j \in DOMAIN found[k].params |-> given(found[k].params[j])],
                               returns |-> given(found[k].returns)]]

SignatureOf(t, m, ctx) ==
  CASE t.tag = "Vector" /\ m \in DOMAIN VectorMethods(t.elem) ->
         <<[params |-> <<>>, returns |-> VectorMethods(t.elem)[m]]>>
    [] Named(t) -> InTermsOf(t, IF IsInterface(t.name, ctx) THEN InterfaceMethod(t.name, m, ctx)
                                ELSE InheritedMethod(t.name, m, ctx), ctx)
    [] OTHER -> <<>>

Invoked(t, sig, r) ==
  CASE sig # <<>> -> CheckCall(sig[1], [r EXCEPT !.state = Hang(@, sig[1])])
    [] sig = <<>> /\ t = ErrorT -> Typed(r.state, ErrorT)
    [] OTHER -> Fail(r.state, "NoSuchMethod")

CheckInvoke(e, s) ==
  LET o == Check(e.obj, s)
  IN  Invoked(o.type, SignatureOf(o.type, e.method, s.ctx), CheckAll(e.args, o))

AttributeOf(t, f, ctx) ==
  Fold(LAMBDA none, u : <<Substitute(u, Instantiation(t, ctx))>>, <<>>, InheritedAttr(t.name, f, ctx))

\* Attributes are private to self, and to methods of a type above or below.
FieldRead(o, near, attr) ==
  IF near = "no" \/ attr = <<>> THEN Fail([o EXCEPT !.hung = @ \/ near = "never"], "NoSuchAttribute")
  ELSE Typed([o EXCEPT !.hung = @ \/ near = "never"], attr[1])

EitherWay(a, b, ctx) == Or(Conformance(a, b, ctx), Conformance(b, a, ctx))

NearTo(obj, o) ==
  IF obj.kind = "SelfExpr" THEN "yes" ELSE IF "self" \notin DOMAIN o.env THEN "no"
  ELSE EitherWay(o.type, o.env["self"], o.ctx)

CheckGetField(e, s) ==
  LET of(o) == FieldRead(o, NearTo(e.obj, o), IF Named(o.type) THEN AttributeOf(o.type, e.field, o.ctx) ELSE <<ErrorT>>)
  IN  of(Check(e.obj, s))

FieldStored(v, t, attr) ==
  CASE ~ Named(t) -> Typed(v, ErrorT)
    [] Named(t) /\ attr = <<>> -> Fail(v, "NoSuchAttribute")
    [] OTHER -> Typed(Must(v, attr[1]), attr[1])

\* The value of a field that is not of self is not looked at.
CheckAssignField(e, s) ==
  LET o == Check(e.obj, s)
  IN  IF e.obj.kind # "SelfExpr" THEN Fail(s, "NonSelfFieldAssign")
      ELSE FieldStored(Check(e.val, o), o.type, IF Named(o.type) THEN AttributeOf(o.type, e.field, s.ctx) ELSE <<>>)

CheckBase(e, s) ==
  LET r == CheckAll(e.args, s)
      above == IF s.method = <<>> THEN <<>>
               ELSE InheritedMethod(s.ctx.types[s.method[1].owner].parent, s.method[1].name, s.ctx)
  IN  CASE s.method = <<>> -> Fail(r.state, "BaseOutsideOverride")
        [] s.method # <<>> /\ above = <<>> -> Fail(r.state, "BaseNoParentMethod")
        [] OTHER -> CheckCall(above[1], r)
-----------------------------------------------------------------------------
(* Construction. *)

\* The type that declares the parameters that `new t` takes: t, or the first above
\* it that has some, if no type in between gives its parent arguments.
RECURSIVE CtorOwner(_, _)
CtorOwner(t, ctx) ==
  IF ~ IsType(t, ctx) THEN <<>>
  ELSE IF ctx.types[t].ctor # <<>> THEN <<t>>
  ELSE IF ctx.types[t].explicit THEN <<>> ELSE CtorOwner(ctx.types[t].parent, ctx)

CtorTypes(t, ctx) ==
  LET owner == CtorOwner(t, ctx)
  IN  IF owner = <<>> THEN <<>>
      ELSE [k \in DOMAIN ctx.types[owner[1]].ctor |-> ctx.types[owner[1]].ctor[k].type]

\* The arguments of one more `new`, joined with those seen before.
Seen(owner, s) ==
  IF owner \in DOMAIN s.seen[1] THEN s.seen[1][owner]
  ELSE [k \in DOMAIN s.ctx.types[owner].ctor |-> ErrorT]

JoinedWith(slots, types, ctx) ==
  [k \in DOMAIN slots |-> IF k \in DOMAIN types THEN Lca(slots[k], types[k], ctx) ELSE slots[k]]

Observe(owner, types, s) ==
  IF s.seen = <<>> \/ owner = <<>> THEN s
  ELSE [s EXCEPT !.seen = <<(owner[1] :> JoinedWith(Seen(owner[1], s), types, s.ctx)) @@ s.seen[1]>>]

\* Of what `new` gives the type parameters.
ConstructorOf(e, args, s) ==
  LET t == IF args = <<>> THEN UserT(e.type) ELSE GenericT(e.type, args)
      params == CtorTypes(e.type, s.ctx)
  IN  [params |-> [k \in DOMAIN params |-> Substitute(params[k], Instantiation(t, s.ctx))], returns |-> t]

\* The types that references name. Those that name none are reported.
NamedBy(refs, s) ==
  [k \in DOMAIN refs |-> Fold(LAMBDA none, t : t, ErrorT, Resolve(refs[k], s.scope, s.ctx))]

Unnamed(refs, s) ==
  IF \E k \in DOMAIN refs : Resolve(refs[k], s.scope, s.ctx) = <<>> THEN Report(s, "UndefinedType") ELSE s

CheckNew(e, s) ==
  LET r == CheckAll(e.args, s)
  IN  CASE IsInterface(e.type, s.ctx) -> Fail(r.state, "CannotInstantiateInterface")
        [] ~ IsInterface(e.type, s.ctx) /\ ~ IsType(e.type, s.ctx) -> Fail(r.state, "UndefinedType")
        [] IsType(e.type, s.ctx) /\ Len(s.ctx.types[e.type].generic) # Len(e.refs) -> Fail(r.state, "Arity")
        [] OTHER -> CheckCall(ConstructorOf(e, NamedBy(e.refs, s), s),
                              [r EXCEPT !.state = Observe(CtorOwner(e.type, s.ctx), r.types, Unnamed(e.refs, @))])
-----------------------------------------------------------------------------
(* Branches and loops. *)

Merge(t, branch) == Typed(branch, Lca(t.type, branch.type, t.ctx))

\* Mutant: the type of an elif branch is left out of the join.
BranchElse(t, b) == Typed(Check(b[2], CheckCond(b[1], t)), t.type)

Branch(t, b) == Merge(t, Check(b[2], CheckCond(b[1], t)))

CheckIf(e, s) ==
  LET otherwise(t) == Merge(t, Check(e.else, t))
  IN  otherwise(Fold(Branch, Check(e.then, CheckCond(e.cond, s)), e.elifs))

\* What iterating a type gives: of a named one what `current` returns, if there is a
\* `next` too; of Object, which range returns, numbers.
Iterated(t, next, current) ==
  CASE t = ErrorT  -> <<ErrorT>>
    [] t = ObjectT -> <<NumberT>>
    [] t.tag \in {"Iterable", "Vector"} -> <<t.elem>>
    [] Named(t) /\ next # <<>> /\ next[1].returns.tag = "never" -> <<next[1].returns>>
    [] Named(t) /\ next # <<>> /\ current # <<>> -> <<current[1].returns>>
    [] OTHER -> <<>>

\* body with var bound to what is iterated.
LoopOver(elem, var, body, s) ==
  IF elem = <<>> THEN CheckWith(var, ErrorT, body, Report(s, "NotIterable"))
  ELSE CheckWith(var, elem[1], body, Hang(s, [returns |-> elem[1]]))

CheckLoop(source, var, body, s) ==
  LET it        == Check(source, s)
      method(m) == SignatureOf(it.type, m, s.ctx)
  IN  LoopOver(Iterated(it.type, method("next"), method("current")), var, body, it)

Joined(types, ctx) ==
  IF types = <<>> THEN ObjectT ELSE Fold(LAMBDA t, u : Lca(t, u, ctx), types[1], Tail(types))

Indexed(t, s) ==
  CASE t.tag = "Vector" -> Typed(s, t.elem)
    [] t = ErrorT -> Typed(s, ErrorT)
    [] OTHER -> Fail(s, "NotIndexable")

AsVector(s) == Typed(s, VectorT(s.type))

CheckIndex(e, s) ==
  LET o == Check(e.obj, s) IN Indexed(o.type, Must(Check(e.index, o), NumberT))
-----------------------------------------------------------------------------
(* Expressions. *)

\* The type a reference in an expression names.
Refer(ref, s) ==
  LET t == Resolve(ref, s.scope, s.ctx) IN IF t = <<>> THEN Fail(s, "UndefinedType") ELSE Typed(s, t[1])

CheckNamedCall(e, s) ==
  LET r == CheckAll(e.args, s)
  IN  IF e.name \in DOMAIN s.ctx.funcs THEN CheckCall(s.ctx.funcs[e.name], r)
      ELSE Fail(r.state, "UndefinedFunction")

LiteralType == [num |-> NumberT, str |-> StringT, bool |-> BooleanT]

Check(e, s) ==
  CASE e.kind = "Literal"     -> Typed(s, LiteralType[e.val.tag])
    [] e.kind = "Ident"       -> Variable(e.name, s)
    [] e.kind = "SelfExpr"    -> Variable("self", s)
    [] e.kind = "BinOp"       -> CheckBinOp(e, s)
    [] e.kind = "UnOp"        -> CheckUnOp(e, s)
    [] e.kind = "Call"        -> CheckNamedCall(e, s)
    [] e.kind = "MethodCall"  -> CheckInvoke(e, s)
    [] e.kind = "GetField"    -> CheckGetField(e, s)
    [] e.kind = "Let"         -> CheckLet(e, s)
    [] e.kind = "Assign"      -> CheckAssign(e, s)
    [] e.kind = "AssignField" -> CheckAssignField(e, s)
    [] e.kind = "If"          -> CheckIf(e, s)
    [] e.kind = "While"       -> Check(e.body, CheckCond(e.cond, s))
    [] e.kind = "For"         -> CheckLoop(e.iter, e.var, e.body, s)
    [] e.kind = "Block"       -> Fold(LAMBDA t, x : Check(x, t), Typed(s, ObjectT), e.exprs)
    [] e.kind = "New"         -> CheckNew(e, s)
    [] e.kind = "Is"          -> Typed(Refer(e.ref, Check(e.arg, s)), BooleanT)
    [] e.kind = "As"          -> Refer(e.ref, Check(e.arg, s))
    [] e.kind = "Base"        -> CheckBase(e, s)
    [] e.kind = "Vector"      -> LET r == CheckAll(e.elems, s) IN Typed(r.state, VectorT(Joined(r.types, s.ctx)))
    [] e.kind = "VectorComp"  -> AsVector(CheckLoop(e.iter, e.var, e.elem, s))
    [] e.kind = "Index"       -> CheckIndex(e, s)
-----------------------------------------------------------------------------
(* What uses ask of a parameter. *)

NoConstraint == [is |-> "unknown"]
MustBe(t)    == [is |-> "known", type |-> t]

\* The more specific of two types that are related. "hung" if whether they are is not decided.
Narrower(c, t, down, up) ==
  CASE c.type = t \/ (down = "no" /\ up = "yes") -> c
    [] c.type # t /\ down = "yes" -> MustBe(t)
    [] "never" \in {down, up} /\ down # "yes" -> [is |-> "hung"]
    [] OTHER -> [is |-> "conflict"]

\* Mutant: the last type asked for is taken.
AddLast(c, t, ctx) == IF t \in {ObjectT, ErrorT} THEN c ELSE MustBe(t)

\* ParamConstraint::add.
Add(c, t, ctx) ==
  CASE t \in {ObjectT, ErrorT} \/ c.is \in {"conflict", "hung"} -> c
    [] t \notin {ObjectT, ErrorT} /\ c.is = "unknown" -> MustBe(t)
    [] OTHER -> Narrower(c, t, Conformance(t, c.type, ctx), Conformance(c.type, t, ctx))

\* The type or interface that alone declares a method.
MethodOwner(m, ctx) ==
  LET owners == { t \in DOMAIN ctx.types : ctx.types[t].generic = <<>> /\ m \in DOMAIN ctx.types[t].methods }
                  \union { i \in DOMAIN ctx.interfaces :
                             ctx.interfaces[i].generic = <<>> /\ m \in DOMAIN ctx.interfaces[i].methods }
  IN  IF Cardinality(owners) = 1 THEN <<UserT(CHOOSE t \in owners : TRUE)>> ELSE <<>>

\* What there is to an expression, in order: that a part must be of a type, and
\* that a part is looked into, without the parameters that a variable hides.
Demand(x, t) == <<[expr |-> x, type |-> <<t>>, hides |-> {}]>>
Visit(x)     == <<[expr |-> x, type |-> <<>>, hides |-> {}]>>

\* Mutant: the variable hides nothing.
VisitWith(x, n) == Visit(x)

VisitUnder(x, n) == <<[expr |-> x, type |-> <<>>, hides |-> {n}]>>

Flat(seqs)      == Fold(LAMBDA all, s : all \o s, <<>>, seqs)
VisitAll(es)    == Flat([k \in DOMAIN es |-> Visit(es[k])])
DemandAll(es, types) ==
  Flat([k \in 1 .. (IF Len(es) < Len(types) THEN Len(es) ELSE Len(types)) |-> Demand(es[k], types[k])])
Condition(x)    == Demand(x, BooleanT) \o Visit(x)

Parts(e, ctx) ==
  CASE e.kind = "BinOp" ->
         Flat([k \in DOMAIN OperandOf(e.op) |-> Demand(e.lhs, OperandOf(e.op)[k]) \o Demand(e.rhs, OperandOf(e.op)[k])])
           \o Visit(e.lhs) \o Visit(e.rhs)
    [] e.kind = "UnOp"  -> Demand(e.arg, UnaryOf(e.op)) \o Visit(e.arg)
    [] e.kind = "If"    -> Condition(e.cond) \o Visit(e.then)
                             \o Flat([k \in DOMAIN e.elifs |-> Condition(e.elifs[k][1]) \o Visit(e.elifs[k][2])])
                             \o Visit(e.else)
    [] e.kind = "While" -> Condition(e.cond) \o Visit(e.body)
    [] e.kind = "For"   -> Visit(e.iter) \o VisitUnder(e.body, e.var)
    [] e.kind = "VectorComp" -> Visit(e.iter) \o VisitUnder(e.elem, e.var)
    [] e.kind = "Let"   -> Visit(e.init) \o VisitUnder(e.body, e.name)
    [] e.kind = "Call"  ->
         DemandAll(e.args, IF e.name \in DOMAIN ctx.funcs THEN ctx.funcs[e.name].params ELSE <<>>) \o VisitAll(e.args)
    [] e.kind = "MethodCall" ->
         DemandAll(<<e.obj>>, MethodOwner(e.method, ctx)) \o Visit(e.obj) \o VisitAll(e.args)
    [] e.kind = "New"   -> DemandAll(e.args, CtorTypes(e.type, ctx)) \o VisitAll(e.args)
    [] e.kind = "Base"  -> VisitAll(e.args)
    [] e.kind = "Block" -> VisitAll(e.exprs)
    [] e.kind = "Vector" -> VisitAll(e.elems)
    [] e.kind = "Assign" -> Visit(e.val)
    [] e.kind = "AssignField" -> Visit(e.obj) \o Visit(e.val)
    [] e.kind = "GetField" -> Visit(e.obj)
    [] e.kind \in {"Is", "As"} -> Visit(e.arg)
    [] e.kind = "Index" -> Visit(e.obj) \o Visit(e.index)
    [] OTHER -> <<>>

\* acc: the constraints of the parameters that count. active: those in sight.
RECURSIVE Constrain(_, _, _, _)
Constrain(e, active, acc, ctx) ==
  Fold(LAMBDA a, p :
         IF p.type = <<>> THEN Constrain(p.expr, active \ p.hides, a, ctx)
         ELSE IF p.expr.kind = "Ident" /\ p.expr.name \in active
           THEN [a EXCEPT ![p.expr.name] = Add(@, p.type[1], ctx)]
           ELSE a,
       acc, Parts(e, ctx))
=============================================================================
