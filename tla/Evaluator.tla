------------------------------ MODULE Evaluator ------------------------------
(***************************************************************************)
(* What a HULK program means, said without stack, scopes, labels, frames   *)
(* or slots: an expression evaluated by recursion over its structure. It   *)
(* is the specification that lowering and the virtual machine together are *)
(* checked against. Arithmetic is shared with Vm: no property is about it. *)
(***************************************************************************)
EXTENDS Operations, HulkAst
LOCAL INSTANCE TLC
LOCAL INSTANCE SequencesExt

CONSTANTS Functions, Types   \* the declarations of the program, sequences of HulkAst

\* An evaluation: the value of the last expression, the variables in sight (the
\* innermost last), the objects made so far, what was printed, the error if
\* there was one, how many calls are under way, and the method that runs.
StartState ==
  [val |-> Nil, env |-> <<>>, objects |-> <<>>, out |-> <<>>, err |-> "none", depth |-> 0,
   type |-> ObjectType, method |-> ""]

Failed(s)   == s.err # "none"
Raise(s, e) == [s EXCEPT !.err = e]
Yield(s, v) == [s EXCEPT !.val = v]

\* What follows an evaluation, unless it failed.
Then(s, After(_)) == IF Failed(s) THEN s ELSE After(s)

\* What follows a condition.
Decide(s, Yes(_), No(_)) ==
  IF Failed(s) THEN s
  ELSE IF s.val.tag # "bool" THEN Raise(s, "TypeMismatch")
  ELSE IF IsTrue(s.val) THEN Yes(s) ELSE No(s)

\* What follows the evaluation of several expressions.
WithAll(r, After(_, _)) == IF Failed(r.state) THEN r.state ELSE After(r.vals, r.state)

\* One value more.
Added(vals, s) == [state |-> s, vals |-> Append(vals, s.val)]

RECURSIVE Eval(_, _)

\* Expressions evaluated from left to right, and all their values.
EvalAll(es, s) ==
  Fold(LAMBDA r, e : Added(r.vals, Eval(e, r.state)), [state |-> s, vals |-> <<>>], es)
-----------------------------------------------------------------------------
(* Variables. *)

Sites(n, s)  == { k \in DOMAIN s.env : s.env[k].name = n }
SiteOf(n, s) == CHOOSE k \in Sites(n, s) : \A j \in Sites(n, s) : j <= k

Lookup(n, s) ==
  CASE Sites(n, s) # {} -> Yield(s, s.env[SiteOf(n, s)].val)
    [] Sites(n, s) = {} /\ n = "PI" -> Yield(s, PI)
    [] Sites(n, s) = {} /\ n = "E" -> Yield(s, E)
    [] OTHER -> Raise(s, "UndefinedVariable")

\* e with one more variable, which is gone at the end; what e assigned stays.
EvalWith(n, v, e, s) ==
  LET t == Eval(e, [s EXCEPT !.env = Append(@, [name |-> n, val |-> v])])
  IN  [t EXCEPT !.env = SubSeq(@, 1, Len(s.env))]

Bindings2(params, vals) == [k \in DOMAIN params |-> [name |-> params[k], val |-> vals[k]]]

\* A body evaluated with variables of its own.
Apply(body, env, type, method, s) ==
  IF s.depth >= MaxCallDepth THEN Raise(s, "StackOverflow")
  ELSE LET t == Eval(body, [s EXCEPT !.env = env, !.depth = @ + 1, !.type = type, !.method = method])
       IN  [t EXCEPT !.env = s.env, !.depth = s.depth, !.type = s.type, !.method = s.method]
-----------------------------------------------------------------------------
(* Operations on values. *)

\* The error of the first operand, from the last to the first, of a wrong kind.
Operate(op, vals, s) ==
  LET n == Len(vals)
  IN  IF \E k \in 1 .. n : Kinds(op)[k] \notin {"any", vals[n + 1 - k].tag} THEN Raise(s, "TypeMismatch")
      ELSE IF op \in {"Div", "Mod"} /\ vals[n].val = 0 THEN Raise(s, "DivisionByZero")
      ELSE Yield(s, Result(op, vals[1], vals[n]))

ObjectAt(v, s) == s.objects[v.val]

ShownIn(v, s) == IF IsRef(v) THEN [tag |-> "shown", val |-> ObjectAt(v, s).type] ELSE v

\* What an expression does that needs an object.
WithObject(v, s, Do(_)) ==
  IF Failed(s) THEN s
  ELSE IF v.tag = "nil" THEN Raise(s, "NullReference")
  ELSE IF ~ IsRef(v) THEN Raise(s, "TypeMismatch")
  ELSE Do(s)

NewObj(t, fields, s) ==
  [s EXCEPT !.objects = Append(@, [type |-> t, fields |-> fields]), !.val = Ref(Len(s.objects) + 1)]

NewVector(vals, s) == NewObj(VectorType, [elems |-> vals], s)

SetFieldOf(o, f, v, s) ==
  [s EXCEPT !.objects[o.val].fields = (f :> v) @@ @, !.val = v]

GetFieldOf(o, f, s) ==
  IF f \in DOMAIN ObjectAt(o, s).fields THEN Yield(s, ObjectAt(o, s).fields[f])
  ELSE Raise(s, "UndefinedField")
-----------------------------------------------------------------------------
(* Types. *)

TypeNamed(t) == SelectSeq(Types, LAMBDA d : d.name = t)   \* at most one
IsDeclared(t) == TypeNamed(t) # <<>>
Decl(t)       == TypeNamed(t)[1]

\* The nearest declaration of method m from type t upwards, and its type.
RECURSIVE MethodOf(_, _)
MethodOf(t, m) ==
  IF ~ IsDeclared(t) THEN <<>>
  ELSE LET own == SelectSeq(Decl(t).methods, LAMBDA d : d.name = m)
       IN  IF own # <<>> THEN <<[type |-> t, decl |-> own[1]]>> ELSE MethodOf(Decl(t).parent.name, m)

RECURSIVE Inheriting(_, _)
Inheriting(t, target) == t = target \/ (IsDeclared(t) /\ Inheriting(Decl(t).parent.name, target))

BelongsTo(v, target, s) ==
  \/ v.tag = "object" /\ (target = ObjectType \/ Inheriting(ObjectAt(v, s).type, target))
  \/ v.tag = "num" /\ target \in {"Number", ObjectType}
  \/ v.tag = "bool" /\ target \in {"Boolean", ObjectType}
  \/ v.tag = "str" /\ target \in {"String", ObjectType}

\* A method found in the declarations, applied to a receiver.
ApplyMethod(found, self, vals, s) ==
  IF found = <<>> THEN Raise(s, "UndefinedMethod")
  ELSE Apply(found[1].decl.body, Bindings2(<<"self">> \o found[1].decl.params, <<self>> \o vals),
             found[1].type, found[1].decl.name, s)

\* obj.m(vals), of a built-in type too.
Send(obj, m, vals, s) ==
  WithObject(obj, s, LAMBDA t :
    LET o == ObjectAt(obj, t)
    IN  CASE o.type = VectorType /\ m = "size" -> Yield(t, NumV(Len(o.fields.elems)))
          [] o.type = "Range" /\ m = "current" -> Yield(t, o.fields.current)
          [] o.type = "Range" /\ m = "next" ->
               LET at == Result("Add", o.fields.current, NumV(1))
               IN  Yield(SetFieldOf(obj, "current", at, t), Result("Lt", at, o.fields.hi))
          [] OTHER -> ApplyMethod(MethodOf(o.type, m), obj, vals, t))
-----------------------------------------------------------------------------
(* Construction. *)

\* The parameters of a constructor: those of the type, or, if it has none and
\* inherits without arguments, those of its parent.
RECURSIVE CtorParams(_)
CtorParams(t) ==
  IF ~ IsDeclared(t) THEN <<>>
  ELSE IF Decl(t).params # <<>> \/ Decl(t).parent.explicit THEN Decl(t).params
  ELSE CtorParams(Decl(t).parent.name)

\* The ancestry from the root on, each type with its parameters bound: the
\* arguments of a parent are evaluated with the child's parameters alone.
RECURSIVE Levels(_, _, _)
Levels(t, env, s) ==
  IF ~ IsDeclared(t) THEN [state |-> s, levels |-> <<>>]
  ELSE LET up    == Decl(t).parent
           given == IF up.explicit THEN EvalAll(up.args, [s EXCEPT !.env = env])
                    ELSE [state |-> s, vals |-> [k \in DOMAIN env |-> env[k].val]]
           above == Levels(up.name, Bindings2(CtorParams(up.name), given.vals), given.state)
       IN  [above EXCEPT !.levels = Append(@, [decl |-> Decl(t), env |-> env])]

\* The attributes of one type, initialised in order.
InitAttrs(self, level, s) ==
  Fold(LAMBDA t, a : Then(Eval(a.init, [t EXCEPT !.env = level.env]),
                              LAMBDA u : SetFieldOf(self, a.name, u.val, u)),
           s, level.decl.attrs)

Construct(t, vals, s) ==
  IF s.depth >= MaxCallDepth THEN Raise(s, "StackOverflow")
  ELSE LET made == NewObj(t, <<>>, [s EXCEPT !.depth = @ + 1])
           all  == Levels(t, Bindings2(CtorParams(t), vals), made)
           done == Fold(LAMBDA u, level : InitAttrs(made.val, level, u), all.state, all.levels)
       IN  [done EXCEPT !.val = made.val, !.env = s.env, !.depth = s.depth]
-----------------------------------------------------------------------------
(* Loops. *)

RECURSIVE EvalWhile(_, _)
EvalWhile(e, s) ==
  Decide(Eval(e.cond, s), LAMBDA c : EvalWhile(e, Eval(e.body, c)), LAMBDA c : Yield(c, s.val))

\* body for each value that an iterator gives, and the values of body.
RECURSIVE Rounds(_, _, _, _)
Rounds(it, var, body, r) ==
  LET with(now)  == Rounds(it, var, body, Added(r.vals, EvalWith(var, now.val, body, now)))
      turn(more) == IF Failed(more) \/ ~ IsTrue(more.val) THEN [r EXCEPT !.state = more]
                    ELSE with(Send(it, "current", <<>>, more))
  IN  turn(Send(it, "next", <<>>, r.state))

\* body for each element of a vector, or for each value of an iterator.
IterateOver(obj, src, var, body) ==
  LET none(s) == [state |-> s, vals |-> <<>>]
      each(it) == Rounds(it.val, var, body, none(it))
  IN  IF obj.type = VectorType
        THEN Fold(LAMBDA r, v : Added(r.vals, EvalWith(var, v, body, r.state)), none(src), obj.fields.elems)
        ELSE each(IF MethodOf(obj.type, "iter") = <<>> THEN src ELSE Send(src.val, "iter", <<>>, src))

Iterate(source, var, body, s) ==
  LET checked(src) == WithObject(src.val, src, LAMBDA t : t)
      from(src) == IF Failed(checked(src)) THEN [state |-> checked(src), vals |-> <<>>]
                   ELSE IterateOver(ObjectAt(src.val, src), src, var, body)
  IN  from(Eval(source, s))
-----------------------------------------------------------------------------
(* Expressions. *)

OpOfBuiltin == [sqrt |-> "Sqrt", sin |-> "Sin", cos |-> "Cos", exp |-> "Exp", log |-> "Log"]

CallNamed(n, vals, s) ==
  CASE n = "print" -> [Yield(s, vals[1]) EXCEPT !.out = Append(@, ShownIn(vals[1], s))]
    [] n = "range" ->
         Then(Operate("Sub", <<vals[1], NumV(1)>>, s), LAMBDA t :
           NewObj("Range", [current |-> t.val, hi |-> vals[2]], t))
    [] n = "rand" -> Yield(s, NumV(0))   \* RandValues of the run
    [] n \in DOMAIN OpOfBuiltin -> Operate(OpOfBuiltin[n], vals, s)
    [] OTHER -> LET f == SelectSeq(Functions, LAMBDA d : d.name = n)[1]
                IN  Apply(f.body, Bindings2(f.params, vals), ObjectType, "", s)

EvalIf(e, s) ==
  LET cases == <<<<e.cond, e.then>>>> \o e.elifs
      RECURSIVE from(_, _)
      from(k, t) ==
        IF k > Len(cases) THEN Eval(e.else, t)
        ELSE Decide(Eval(cases[k][1], t), LAMBDA c : Eval(cases[k][2], c), LAMBDA c : from(k + 1, c))
  IN  from(1, s)

EvalBinOp(e, s) ==
  CASE e.op = "And" -> Decide(Eval(e.lhs, s), LAMBDA a : Eval(e.rhs, a), LAMBDA a : a)
    [] e.op = "Or"  -> Decide(Eval(e.lhs, s), LAMBDA a : a, LAMBDA a : Eval(e.rhs, a))
    [] OTHER -> WithAll(EvalAll(<<e.lhs, e.rhs>>, s), LAMBDA vals, t : Operate(e.op, vals, t))

EvalIndex(e, s) ==
  LET from(elems, index, t) == IF index \in 0 .. Len(elems) - 1 THEN Yield(t, elems[index + 1])
                               ELSE Raise(t, "IndexOutOfBounds")
  IN  WithAll(EvalAll(<<e.obj, e.index>>, s), LAMBDA vals, r :
        WithObject(vals[1], r, LAMBDA t : from(ObjectAt(vals[1], t).fields.elems, vals[2].val, t)))

\* Arguments come before the receiver.
EvalCall(e, s) ==
  LET to(o, vals) == Send(o.val, e.method, vals, o)
  IN  WithAll(EvalAll(e.args, s), LAMBDA vals, t :
        CASE e.kind = "Call" -> CallNamed(e.name, vals, t)
          [] e.kind = "New"  -> Construct(e.type, vals, t)
          [] e.kind = "Base" ->
               ApplyMethod(MethodOf(Decl(t.type).parent.name, t.method), Lookup("self", t).val, vals, t)
          [] e.kind = "MethodCall" -> to(Eval(e.obj, t), vals))

EvalGetField(e, o) == WithObject(o.val, o, LAMBDA t : GetFieldOf(o.val, e.field, t))

Eval(e, s) ==
  IF Failed(s) THEN s
  ELSE CASE e.kind = "Literal"  -> Yield(s, e.val)
         [] e.kind = "Ident"    -> Lookup(e.name, s)
         [] e.kind = "SelfExpr" -> Lookup("self", s)
         [] e.kind = "BinOp"    -> EvalBinOp(e, s)
         [] e.kind = "UnOp"     -> Then(Eval(e.arg, s), LAMBDA t : Operate(e.op, <<t.val>>, t))
         [] e.kind = "Assign"   ->
              Then(Eval(e.val, s), LAMBDA t :
                IF Sites(e.name, t) = {} THEN Raise(t, "UndefinedVariable")
                ELSE [t EXCEPT !.env[SiteOf(e.name, t)].val = t.val])
         [] e.kind = "Let"      ->
              Then(Eval(e.init, s), LAMBDA t : EvalWith(e.name, t.val, e.body, t))
         [] e.kind = "Block"    -> Fold(LAMBDA t, x : Eval(x, t), Yield(s, Nil), e.exprs)
         [] e.kind = "If"       -> EvalIf(e, s)
         [] e.kind = "While"    -> EvalWhile(e, Yield(s, Nil))
         [] e.kind \in {"Call", "New", "Base", "MethodCall"} -> EvalCall(e, s)
         [] e.kind = "GetField" -> EvalGetField(e, Eval(e.obj, s))
         [] e.kind = "AssignField" ->
              WithAll(EvalAll(<<e.val, e.obj>>, s), LAMBDA vals, r :
                WithObject(vals[2], r, LAMBDA t : SetFieldOf(vals[2], e.field, vals[1], t)))
         [] e.kind = "Is" ->
              Then(Eval(e.arg, s), LAMBDA t : Yield(t, BoolV(BelongsTo(t.val, BaseName(e.ref), t))))
         [] e.kind = "As" ->
              Then(Eval(e.arg, s), LAMBDA t :
                IF BelongsTo(t.val, BaseName(e.ref), t) THEN t ELSE Raise(t, "InvalidCast"))
         [] e.kind = "Vector" -> WithAll(EvalAll(e.elems, s), NewVector)
         [] e.kind = "Index"  -> EvalIndex(e, s)
         [] e.kind = "For"    ->
              WithAll(Iterate(e.iter, e.var, e.body, s), LAMBDA vals, t :
                Yield(t, IF vals = <<>> THEN Nil ELSE Last(vals)))
         [] e.kind = "VectorComp" -> WithAll(Iterate(e.iter, e.var, e.elem, s), NewVector)

\* What a program shows of itself: its output, its error or its value.
ShownOf(s) == [out |-> s.out, err |-> s.err, val |-> ShownIn(s.val, s)]
Outcome(e) == ShownOf(Eval(e, StartState))
=============================================================================
