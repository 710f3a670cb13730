----------------------------- MODULE StaticTypes -----------------------------
(***************************************************************************)
(* The types of hulk-semantic (types.rs) and the questions the checker     *)
(* asks about them: what a reference names, which methods a type has,      *)
(* whether one type conforms to another, what two types have in common.    *)
(* ctx is the TypeCtx: types, interfaces and funcs, functions from names.  *)
(* An Option is a sequence of at most one member.                          *)
(***************************************************************************)
EXTENDS HulkAst, Parents
LOCAL INSTANCE TLC
LOCAL INSTANCE SequencesExt

NumberT  == [tag |-> "Number"]
StringT  == [tag |-> "String"]
BooleanT == [tag |-> "Boolean"]
ObjectT  == [tag |-> "Object"]
ErrorT   == [tag |-> "Error"]   \* after an error, and of what is not inferred yet

UserT(n)          == [tag |-> "User", name |-> n]
GenericT(n, args) == [tag |-> "Generic", name |-> n, args |-> args]
ParamT(n)         == [tag |-> "Param", name |-> n]
IterableT(t)      == [tag |-> "Iterable", elem |-> t]
VectorT(t)        == [tag |-> "Vector", elem |-> t]

Named(t)   == t.tag \in {"User", "Generic"}
HasBase(t) == t.tag \in {"User", "Generic", "Param"}   \* Type::base_name is Some

IsType(n, ctx)      == n \in DOMAIN ctx.types
IsInterface(n, ctx) == n \in DOMAIN ctx.interfaces
-----------------------------------------------------------------------------
(* References. *)

ResolveName(n, ctx) ==
  IF n \in {"Number", "String", "Boolean", "Object"} THEN <<[tag |-> n]>>
  ELSE IF IsType(n, ctx) \/ IsInterface(n, ctx) THEN <<UserT(n)>> ELSE <<>>

\* scope: the type parameters in sight. An argument that is not known is an error
\* nobody reports; an interface takes no arguments.
RECURSIVE Resolve(_, _, _)
Resolve(ref, scope, ctx) ==
  CASE ref.form = "Simple" ->
         IF ref.name \in scope THEN <<ParamT(ref.name)>> ELSE ResolveName(ref.name, ctx)
    [] ref.form = "Iterable" ->
         LET inner == Resolve(ref.of, scope, ctx) IN [k \in DOMAIN inner |-> IterableT(inner[k])]
    [] ref.form = "Vector" ->
         LET inner == Resolve(ref.of, scope, ctx) IN [k \in DOMAIN inner |-> VectorT(inner[k])]
    [] ref.form = "Generic" ->
         IF IsType(ref.name, ctx) /\ Len(ctx.types[ref.name].generic) = Len(ref.args)
           THEN <<GenericT(ref.name, [k \in DOMAIN ref.args |->
                    LET arg == Resolve(ref.args[k], scope, ctx) IN IF arg = <<>> THEN ErrorT ELSE arg[1]])>>
           ELSE <<>>

\* Names zipped with what they stand for; of two alike the last wins.
NamesTo(names, vals) ==
  Fold(LAMBDA m, k : (names[k] :> vals[k]) @@ m, <<>>,
       [k \in DOMAIN names \intersect DOMAIN vals |-> k])

RECURSIVE Substitute(_, _)
Substitute(t, subst) ==
  CASE t.tag = "Param" -> IF t.name \in DOMAIN subst THEN subst[t.name] ELSE t
    [] t.tag = "Generic" -> [t EXCEPT !.args = [k \in DOMAIN t.args |-> Substitute(t.args[k], subst)]]
    [] t.tag \in {"Iterable", "Vector"} -> [t EXCEPT !.elem = Substitute(@, subst)]
    [] OTHER -> t

\* What the arguments of an instantiated type put for its parameters.
Instantiation(t, ctx) ==
  IF t.tag = "Generic" THEN NamesTo(ctx.types[t.name].generic, t.args) ELSE <<>>
-----------------------------------------------------------------------------
(* Members. A signature has the types of the parameters and the result. *)

ParentsIn(ctx) == [t \in DOMAIN ctx.types |-> ctx.types[t].parent]

InheritedMethod(t, m, ctx) == Lookup(t, m, [u \in DOMAIN ctx.types |-> ctx.types[u].methods], ParentsIn(ctx))

InheritedAttr(t, a, ctx) == Lookup(t, a, [u \in DOMAIN ctx.types |-> ctx.types[u].attrs], ParentsIn(ctx))

\* Nothing looks for cycles of `extends`: a walk along them that is deeper than
\* there are interfaces will never return. It overflows the stack.
Deepest(ctx) == Cardinality(DOMAIN ctx.interfaces)

Unreturned == [params |-> <<>>, returns |-> [tag |-> "never"]]

RECURSIVE MethodAbove(_, _, _, _)
MethodAbove(i, m, ctx, fuel) ==
  IF ~ IsInterface(i, ctx) THEN <<>>
  ELSE IF m \in DOMAIN ctx.interfaces[i].methods THEN <<ctx.interfaces[i].methods[m]>>
  ELSE IF fuel = 0 THEN <<Unreturned>>
  ELSE Fold(LAMBDA found, ext : IF found # <<>> THEN found ELSE MethodAbove(ext.name, m, ctx, fuel - 1),
            <<>>, ctx.interfaces[i].extends)

InterfaceMethod(i, m, ctx) == MethodAbove(i, m, ctx, Deepest(ctx))

RECURSIVE ExtendsFrom(_, _, _, _)
ExtendsFrom(from, to, ctx, fuel) ==
  IF from = to THEN "yes"
  ELSE IF ~ IsInterface(from, ctx) THEN "no"
  ELSE IF fuel = 0 THEN "never"
  ELSE Fold(LAMBDA answer, ext : IF answer # "no" THEN answer ELSE ExtendsFrom(ext.name, to, ctx, fuel - 1),
            "no", ctx.interfaces[from].extends)

Extends(from, to, ctx) == ExtendsFrom(from, to, ctx, Deepest(ctx))

\* A walk over all that i extends does not return.
Endless(i, ctx) == Extends(i, "", ctx) = "never"

\* What a type must have to implement i: the interfaces it extends come first,
\* each replaces what an earlier one asks for.
RECURSIVE Required(_, _)
Required(i, ctx) ==
  IF ~ IsInterface(i, ctx) THEN <<>>
  ELSE ctx.interfaces[i].methods
         @@ Fold(LAMBDA sigs, ext : Required(ext.name, ctx) @@ sigs, <<>>, ctx.interfaces[i].extends)
-----------------------------------------------------------------------------
(* Conformance: "yes", "no", or "never" if the answer does not come. *)

Or(answer, other) == IF answer # "no" THEN answer ELSE other

\* `implements` of the type and its ancestors; of the interfaces only the names count.
Implements(t, i, ctx) ==
  LET cur     == Cur(t, ParentsIn(ctx))
      asked   == SelectSeq([k \in 1 .. Cardinality(DOMAIN ctx.types) |-> cur[k - 1]], LAMBDA u : IsType(u, ctx))
      says(u) == Fold(LAMBDA answer, v : IF HasBase(v) THEN Or(answer, Extends(v.name, i, ctx)) ELSE answer,
                      "no", ctx.types[u].implements)
  IN  Fold(LAMBDA answer, u : Or(answer, says(u)), "no", asked)

Matches(own, sig) == own.params = sig.params /\ own.returns = sig.returns
Meets(own, sig)   == own # <<>> /\ Matches(own[1], sig)

\* Without `implements`: every required method, with the very same signature.
Provides(t, i, ctx) ==
  \A m \in DOMAIN Required(i, ctx) : Meets(InheritedMethod(t, m, ctx), Required(i, ctx)[m])

\* What iterating a type gives: next and current by name, whatever they take and next returns.
Current(next, current, subst) ==
  IF <<>> \in {next, current} THEN <<>> ELSE <<Substitute(current[1].returns, subst)>>

ElementOf(t, ctx) ==
  IF ~ Named(t) THEN <<>>
  ELSE Current(InheritedMethod(t.name, "next", ctx), InheritedMethod(t.name, "current", ctx), Instantiation(t, ctx))

\* Of the interface i: by name, or by what it has.
Fulfils(t, i, ctx) ==
  Or(Implements(t, i, ctx),
     IF Endless(i, ctx) THEN "never" ELSE IF Provides(t, i, ctx) THEN "yes" ELSE "no")

Elements(t, ctx) == IF t.tag \in {"Iterable", "Vector"} THEN <<t.elem>> ELSE ElementOf(t, ctx)

RECURSIVE Conformance(_, _, _)
Conformance(a, b, ctx) ==
  IF a = ErrorT \/ b = ErrorT \/ a = b \/ b = ObjectT THEN "yes"
  ELSE IF b.tag = "Iterable"
    THEN Fold(LAMBDA answer, elem : Conformance(elem, b.elem, ctx), "no", Elements(a, ctx))
  ELSE IF ~ Named(a) \/ ~ Named(b) THEN "no"
  ELSE IF IsInterface(b.name, ctx) THEN Fulfils(a.name, b.name, ctx)
  ELSE IF b.tag = "User" /\ InheritsFrom(a.name, b.name, ParentsIn(ctx)) THEN "yes" ELSE "no"

Conforms(a, b, ctx) == Conformance(a, b, ctx) = "yes"
-----------------------------------------------------------------------------
(* The lowest common ancestor. *)

ParentOf(t, ctx) ==
  IF t.tag \in {"Number", "String", "Boolean", "Iterable", "Vector"} THEN <<ObjectT>>
  ELSE IF ~ Named(t) \/ ~ IsType(t.name, ctx) THEN <<>>
  ELSE IF ctx.types[t.name].parent = "Object" THEN <<ObjectT>> ELSE <<UserT(ctx.types[t.name].parent)>>

\* The classes with their parents, and with them a and b. An interface has no parent, not
\* even Object.
ParentTypes(a, b, ctx) ==
  LET all == {a, b} \union { UserT(t) : t \in DOMAIN ctx.types }
  IN  [t \in { u \in all : ParentOf(u, ctx) # <<>> } |-> ParentOf(t, ctx)[1]]

FirstOf(types) == IF types = <<>> THEN ObjectT ELSE types[1]

\* Mutant: what b is below is not looked at.
LcaAbove(a, b, ctx) ==
  IF a = b \/ b = ErrorT THEN a ELSE IF a = ErrorT THEN b
  ELSE IF b \in Passed(a, ParentTypes(a, b, ctx)) THEN b ELSE a

Lca(a, b, ctx) ==
  IF a = b \/ b = ErrorT THEN a
  ELSE IF a = ErrorT THEN b
  ELSE FirstOf(NearestCommon(a, b, ParentTypes(a, b, ctx)))
=============================================================================
