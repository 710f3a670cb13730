------------------------------ MODULE Inference ------------------------------
(***************************************************************************)
(* The passes of hulk-semantic after collect, one declaration at a time:   *)
(* signatures, the inference of constructor parameters, parameters and     *)
(* results, and the checks of interfaces, overrides and bodies. A turn     *)
(* takes the Checker and gives what it leaves: what is declared (ctx), the *)
(* errors so far, and whether the turn never returned (crashed): an index  *)
(* out of bounds, or a recursion without end.                              *)
(***************************************************************************)
EXTENDS Checker
LOCAL INSTANCE TLC
LOCAL INSTANCE SequencesExt

Fresh(ctx) == [ctx |-> ctx, errors |-> {}, crashed |-> FALSE]

\* An expression checked in a context of its own, and what the Checker is after it.
CheckIn(e, env, scope, method, c) ==
  Check(e, [Start(c.ctx) EXCEPT !.env = env, !.scope = scope, !.method = method])

Keeping(c, s) ==
  LET keep(r) == [c EXCEPT !.errors = @ \union r.errors, !.crashed = @ \/ r.hung] IN keep(Judged(s))
Discarding(c, s) == [c EXCEPT !.crashed = @ \/ Judged(s).hung]   \* the errors of a dry run

\* Functions and methods alike, with the type that a method belongs to.
FunctionUnits(p) == [k \in DOMAIN p.functions |-> [decl |-> p.functions[k], owner |-> <<>>]]
MethodUnits(d)   == [k \in DOMAIN d.methods |-> [decl |-> d.methods[k], owner |-> <<d>>]]
Units(p) == FunctionUnits(p) \o Flat([k \in DOMAIN p.types |-> MethodUnits(p.types[k])])

SelfType(d) ==
  IF d.generic = <<>> THEN UserT(d.name)
  ELSE GenericT(d.name, [k \in DOMAIN d.generic |-> ParamT(d.generic[k])])

ScopeOf(unit) == ToSet(IF unit.owner = <<>> THEN unit.decl.generic ELSE unit.owner[1].generic)

\* An Option: the methods of a type that was not registered have no signature.
SigOf(unit, ctx) ==
  IF unit.owner = <<>> THEN <<ctx.funcs[unit.decl.name]>>
  ELSE IF IsType(unit.owner[1].name, ctx) /\ unit.decl.name \in DOMAIN ctx.types[unit.owner[1].name].methods
    THEN <<ctx.types[unit.owner[1].name].methods[unit.decl.name]>> ELSE <<>>

PutSig(unit, sig, c) ==
  IF unit.owner = <<>> THEN [c EXCEPT !.ctx.funcs[unit.decl.name] = sig]
  ELSE [c EXCEPT !.ctx.types[unit.owner[1].name].methods[unit.decl.name] = sig]

EnvOf(unit, sig) ==
  LET self == IF unit.owner = <<>> THEN <<>> ELSE <<SelfType(unit.owner[1])>>
  IN  NamesTo(unit.decl.params, sig.params) @@ NamesTo(<<"self">>, self)

MethodScope(unit) ==
  IF unit.owner = <<>> THEN <<>> ELSE <<[owner |-> unit.owner[1].name, name |-> unit.decl.name]>>

CheckUnit(unit, c) ==
  CheckIn(unit.decl.body, EnvOf(unit, SigOf(unit, c.ctx)[1]), ScopeOf(unit), MethodScope(unit), c)
-----------------------------------------------------------------------------
(* Signatures. *)

ResolveOr(ref, default, scope, ctx) ==
  LET t == Resolve(ref, scope, ctx) IN IF ref = Untyped THEN default ELSE IF t = <<>> THEN ObjectT ELSE t[1]

UnknownIn(refs, scope, ctx) ==
  IF \E k \in DOMAIN refs : refs[k] # Untyped /\ Resolve(refs[k], scope, ctx) = <<>>
    THEN {"UndefinedType"} ELSE {}

ReservedIn(names) == IF "self" \in ToSet(names) THEN {"ReservedName"} ELSE {}

\* The types of a declaration's annotations. A result without one is, until it is
\* inferred, what absent says.
Signed(d, absent, scope, ctx) ==
  [params  |-> [k \in DOMAIN d.refs |-> ResolveOr(d.refs[k], ObjectT, scope, ctx)],
   returns |-> ResolveOr(d.returns, absent, scope, ctx)]

Misdeclared(d, scope, ctx) ==
  UnknownIn(Append(d.refs, d.returns), scope, ctx)
    \union ReservedIn(IF "params" \in DOMAIN d THEN d.params ELSE <<>>)

\* Methods by name. Of two of one name the last counts.
SignAll(decls, absent, scope, ctx) ==
  NamesTo([k \in DOMAIN decls |-> decls[k].name], [k \in DOMAIN decls |-> Signed(decls[k], absent, scope, ctx)])

SignFunction(f, c) ==
  LET scope == ToSet(f.generic)
  IN  [c EXCEPT !.ctx.funcs = (f.name :> Signed(f, ErrorT, scope, c.ctx)) @@ @,
                !.errors = @ \union Misdeclared(f, scope, c.ctx)]

\* The attributes of a type, from their annotations or their initialisers, which see
\* the parameters of the constructor. run: the checks of the initialisers.
AttrsFrom(d, run, c) ==
  LET scope == ToSet(d.generic)
      typeOf(k) == IF d.attrs[k].ref # Untyped THEN ResolveOr(d.attrs[k].ref, ObjectT, scope, c.ctx)
                   ELSE IF run[k].type = ErrorT THEN ObjectT ELSE run[k].type
      refs  == [k \in DOMAIN d.attrs |-> d.attrs[k].ref]
      wrong == [c EXCEPT !.errors = @ \union UnknownIn(refs, scope, c.ctx),
                         !.crashed = @ \/ \E k \in DOMAIN run : refs[k] = Untyped /\ Judged(run[k]).hung]
  IN  IF ~ IsType(d.name, c.ctx) THEN wrong
      ELSE [wrong EXCEPT !.ctx.types[d.name].attrs =
              NamesTo([k \in DOMAIN d.attrs |-> d.attrs[k].name], [k \in DOMAIN d.attrs |-> typeOf(k)])]

EnvOfCtor(ctor) == NamesTo([k \in DOMAIN ctor |-> ctor[k].name], [k \in DOMAIN ctor |-> ctor[k].type])

InferAttrs(d, ctor, c) ==
  AttrsFrom(d, [k \in DOMAIN d.attrs |-> CheckIn(d.attrs[k].init, EnvOfCtor(ctor), ToSet(d.generic), <<>>, c)], c)

\* A clause keeps the references to interfaces. (References to the built-in types stay
\* too, without an error, and are passed over by all that reads the clause.)
InterfacesIn(refs, scope, ctx) ==
  SelectSeq(Flat([k \in DOMAIN refs |-> Resolve(refs[k], scope, ctx)]),
            LAMBDA t : HasBase(t) /\ IsInterface(t.name, ctx))

NotInterfaces(refs, scope, ctx) ==
  UnknownIn(refs, scope, ctx)
    \union (IF \E t \in ToSet(Flat([k \in DOMAIN refs |-> Resolve(refs[k], scope, ctx)])) :
                 HasBase(t) /\ ~ IsInterface(t.name, ctx)
              THEN {"NotAnInterface"} ELSE {})

\* The second declaration of a name takes the place of the first.
SignType(d, c) ==
  LET scope == ToSet(d.generic)
      ctor  == [k \in DOMAIN d.params |->
                  [name |-> d.params[k], type |-> ResolveOr(d.refs[k], ObjectT, scope, c.ctx)]]
      wrong == ReservedIn(d.params) \union UnknownIn(d.refs, scope, c.ctx)
                 \union UNION { Misdeclared(m, scope, c.ctx) : m \in ToSet(d.methods) }
                 \union NotInterfaces(d.implements, scope, c.ctx)
      signed(b) == IF ~ IsType(d.name, b.ctx) THEN b
                   ELSE [b EXCEPT !.ctx.types[d.name] =
                           [@ EXCEPT !.ctor = ctor, !.methods = SignAll(d.methods, ErrorT, scope, b.ctx),
                                     !.implements = InterfacesIn(d.implements, scope, b.ctx)]]
  IN  signed(InferAttrs(d, ctor, [c EXCEPT !.errors = @ \union wrong]))

SignInterface(i, c) ==
  LET scope == ToSet(i.generic)
      wrong == NotInterfaces(i.extends, scope, c.ctx)
                 \union UNION { Misdeclared(m, scope, c.ctx) : m \in ToSet(i.methods) }
      after == [c EXCEPT !.errors = @ \union wrong]
  IN  IF ~ IsInterface(i.name, c.ctx) THEN after
      ELSE [after EXCEPT !.ctx.interfaces[i.name] =
              [@ EXCEPT !.extends = InterfacesIn(i.extends, scope, c.ctx),
                        !.methods = SignAll(i.methods, ObjectT, scope, c.ctx)]]
-----------------------------------------------------------------------------
(* Constructor parameters, from the arguments of `new`. *)

CtorParamsOf(d, ctx) == IF IsType(d.name, ctx) THEN ctx.types[d.name].ctor ELSE <<>>

CtorEnv(d, ctx) == EnvOfCtor(CtorParamsOf(d, ctx))

\* All bodies but the arguments of `inherits`, each with its variables.
Sites(p, ctx) ==
  LET at(e, env, scope, method) == [expr |-> e, env |-> env, scope |-> scope, method |-> method]
      ofUnit(unit) == [k \in DOMAIN SigOf(unit, ctx) |->
                         at(unit.decl.body, EnvOf(unit, SigOf(unit, ctx)[k]), ScopeOf(unit), MethodScope(unit))]
      ofUnits(units) == Flat([k \in DOMAIN units |-> ofUnit(units[k])])
      ofAttrs(d) == [k \in DOMAIN d.attrs |-> at(d.attrs[k].init, CtorEnv(d, ctx), ToSet(d.generic), <<>>)]
  IN  ofUnits(FunctionUnits(p))
        \o Flat([k \in DOMAIN p.types |-> ofAttrs(p.types[k]) \o ofUnits(MethodUnits(p.types[k]))])
        \o <<at(p.entry, <<>>, {}, <<>>)>>

\* observe_new_sites: the types of the arguments by the type that takes them.
ObserveNewSites(p, c) ==
  Fold(LAMBDA s, site : Check(site.expr, [s EXCEPT !.env = site.env, !.scope = site.scope, !.method = site.method]),
       [Start(c.ctx) EXCEPT !.seen = <<<<>>>>], Sites(p, c.ctx))

\* A parameter is narrowed once, from the Object it is without an annotation.
NarrowedBy(types, d, old) ==
  LET narrows(k) == /\ k \in DOMAIN d.params /\ d.refs[k] = Untyped /\ old[k].type = ObjectT
                    /\ k \in DOMAIN types /\ types[k] \notin {ErrorT, ObjectT}
  IN  [k \in DOMAIN old |-> IF narrows(k) THEN [old[k] EXCEPT !.type = types[k]] ELSE old[k]]

NarrowCtor(d, seen, c) ==
  LET renew(ctor) == IF ctor = CtorParamsOf(d, c.ctx) THEN c
                     ELSE InferAttrs(d, ctor, [c EXCEPT !.ctx.types[d.name].ctor = ctor])
  IN  IF d.name \in DOMAIN seen THEN renew(NarrowedBy(seen[d.name], d, CtorParamsOf(d, c.ctx))) ELSE c
-----------------------------------------------------------------------------
(* Parameters, from their uses. *)

Unannotated(decl) == { k \in DOMAIN decl.params : decl.refs[k] = Untyped }

\* The constraints of a body's parameters, and the signature they make. The signature
\* is that of the last declaration of the name; it may have fewer parameters, and the
\* one that is not there is looked up all the same.
InferParams(unit, c) ==
  LET open  == Unannotated(unit.decl)
      names == { unit.decl.params[k] : k \in open }
      put(acc, known) ==
        LET new(sig) == [sig EXCEPT !.params = [k \in DOMAIN @ |-> IF k \in known THEN acc[unit.decl.params[k]].type ELSE @[k]]]
            crashed  == \E k \in known : k \notin DOMAIN SigOf(unit, c.ctx)[1].params
        IN  [PutSig(unit, new(SigOf(unit, c.ctx)[1]), c) EXCEPT !.crashed = @ \/ crashed]
      after(acc) ==
        IF \E n \in names : acc[n].is = "hung" THEN [c EXCEPT !.crashed = TRUE]
        ELSE IF SigOf(unit, c.ctx) = <<>> THEN c
        ELSE put(acc, { k \in open : acc[unit.decl.params[k]].is = "known" })
  IN  IF open = {} THEN c ELSE after(Constrain(unit.decl.body, names, [n \in names |-> NoConstraint], c.ctx))

\* Results, from the bodies.
InferReturn(unit, c) ==
  LET returned(run) == Discarding(PutSig(unit, [SigOf(unit, c.ctx)[1] EXCEPT !.returns = run.type], c), run)
  IN  IF unit.decl.returns # Untyped \/ SigOf(unit, c.ctx) = <<>> THEN c ELSE returned(CheckUnit(unit, c))

\* Mutant: constructor parameters are inferred once.
CtorRoundsOnce(p) == IF \A d \in ToSet(p.types) : Unannotated(d) = {} THEN 0 ELSE 1

\* The bounds of the three loops. Without an open constructor parameter the first
\* does not run.
CtorRounds(p) ==
  LET n == Fold(LAMBDA sum, d : sum + Cardinality(Unannotated(d)), 0, p.types) IN IF n = 0 THEN 0 ELSE n + 2

ParamRounds(p) == Fold(LAMBDA sum, unit : sum + Cardinality(Unannotated(unit.decl)), 0, Units(p)) + 2

\* Mutant: the rounds are not as many as there are results to infer.
ReturnRoundsOnce(p) == 1

ReturnRounds(p) == Fold(LAMBDA sum, unit : IF unit.decl.returns = Untyped THEN sum + 1 ELSE sum, 0, Units(p)) + 1
-----------------------------------------------------------------------------
(* Checks. *)

\* A type has what the interfaces it names ask for, with the very same signatures.
CheckInterfaces(d, c) ==
  LET named == SelectSeq(IF IsType(d.name, c.ctx) THEN c.ctx.types[d.name].implements ELSE <<>>, Named)
      wrong(i) == { IF InheritedMethod(d.name, m, c.ctx) = <<>> THEN "MissingInterfaceMethod"
                    ELSE "InterfaceSignatureMismatch" :
                      m \in { n \in DOMAIN Required(i, c.ctx) :
                                ~ Meets(InheritedMethod(d.name, n, c.ctx), Required(i, c.ctx)[n]) } }
  IN  IF \E t \in ToSet(named) : Endless(t.name, c.ctx) THEN [c EXCEPT !.crashed = TRUE]
      ELSE [c EXCEPT !.errors = @ \union UNION { wrong(t.name) : t \in ToSet(named) }]

\* Mutant: only the parameters are compared.
CheckOverridesParams(d, c) ==
  LET above(m) == IF IsType(d.name, c.ctx) THEN InheritedMethod(c.ctx.types[d.name].parent, m, c.ctx) ELSE <<>>
      own(m) == IF IsType(d.name, c.ctx) /\ m \in DOMAIN c.ctx.types[d.name].methods
                  THEN <<c.ctx.types[d.name].methods[m]>> ELSE <<>>
      wrong == \E m \in ToSet(d.methods) :
                 above(m.name) # <<>> /\ own(m.name) # <<>> /\ own(m.name)[1].params # above(m.name)[1].params
  IN  IF wrong THEN [c EXCEPT !.errors = @ \union {"OverrideSignatureMismatch"}] ELSE c

Differs(above, own) == above # <<>> /\ ~ Matches(own, above[1])

\* Mutant: of what is above, only what the parent has itself is compared.
CheckOverridesDirect(d, c) ==
  LET methodsOf(t) == IF IsType(t, c.ctx) THEN c.ctx.types[t].methods ELSE <<>>
      above(m) == IF IsType(d.name, c.ctx) /\ m \in DOMAIN methodsOf(c.ctx.types[d.name].parent)
                    THEN <<methodsOf(c.ctx.types[d.name].parent)[m]>> ELSE <<>>
      wrong == \E m \in ToSet(d.methods) :
                 m.name \in DOMAIN methodsOf(d.name) /\ Differs(above(m.name), methodsOf(d.name)[m.name])
  IN  IF wrong THEN [c EXCEPT !.errors = @ \union {"OverrideSignatureMismatch"}] ELSE c

CheckOverrides(d, c) ==
  LET above(m) == IF IsType(d.name, c.ctx) THEN InheritedMethod(c.ctx.types[d.name].parent, m, c.ctx) ELSE <<>>
      own(m) == IF IsType(d.name, c.ctx) /\ m \in DOMAIN c.ctx.types[d.name].methods
                  THEN <<c.ctx.types[d.name].methods[m]>> ELSE <<>>
      wrong == \E m \in ToSet(d.methods) :
                 own(m.name) # <<>> /\ Differs(above(m.name), own(m.name)[1])
  IN  IF wrong THEN [c EXCEPT !.errors = @ \union {"OverrideSignatureMismatch"}] ELSE c

\* The body of a function or method, against the result it is annotated with.
CheckBody(unit, c) ==
  LET against(run) == IF unit.decl.returns = Untyped THEN run ELSE Must(run, SigOf(unit, c.ctx)[1].returns)
  IN  IF SigOf(unit, c.ctx) = <<>> THEN c ELSE Keeping(c, against(CheckUnit(unit, c)))

\* The arguments a type gives its parent, and its attributes: before its methods.
CheckAttr(s, a) ==
  LET against(run, declared) == IF declared = <<>> THEN run ELSE Must(run, declared[1])
  IN  against(Check(a.init, s), IF a.ref = Untyped THEN <<>> ELSE Resolve(a.ref, s.scope, s.ctx))

CheckType(d, c) ==
  LET start  == [Start(c.ctx) EXCEPT !.env = CtorEnv(d, c.ctx), !.scope = ToSet(d.generic)]
      parent == c.ctx.types[d.name].parent
      given  == IF d.parent.explicit /\ parent # "Object"
                  THEN CheckArgs(CtorTypes(parent, c.ctx), CheckAll(d.parent.args, start)) ELSE start
  IN  IF IsType(d.name, c.ctx) THEN Keeping(c, Fold(CheckAttr, given, d.attrs)) ELSE c

CheckEntry(p, c) == Keeping(c, CheckIn(p.entry, <<>>, {}, <<>>, c))
=============================================================================
