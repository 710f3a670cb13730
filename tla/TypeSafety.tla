----------------------------- MODULE TypeSafety -----------------------------
(***************************************************************************)
(* What the analysis promises: that its rounds are enough, that what it    *)
(* infers takes nothing back, that its verdict is not a matter of order,   *)
(* that its types are ordered, and that what it accepts does not go wrong  *)
(* when it is evaluated.                                                   *)
(***************************************************************************)
EXTENDS Analysis, Operations
LOCAL INSTANCE SequencesExt

CONSTANT Loose   \* the programs among Sources that take a route the checker leaves open

\* What a program means.
Run(p) == INSTANCE Evaluator WITH Functions <- p.functions, Types <- p.types

ErrorKinds ==
  {"ReservedName", "ReservedTypeName", "UndefinedVariable", "UndefinedFunction", "UndefinedType",
   "Mismatch", "InheritBuiltin", "CyclicInheritance", "DuplicateType", "DuplicateFunction",
   "OverrideSignatureMismatch", "Arity", "NoSuchAttribute", "NoSuchMethod", "SelfAssign",
   "NonSelfFieldAssign", "BaseOutsideOverride", "BaseNoParentMethod", "NotAnInterface",
   "MissingInterfaceMethod", "InterfaceSignatureMismatch", "CannotInstantiateInterface",
   "NotIterable", "NotIndexable"}

TypeOK ==
  /\ phase \in DOMAIN Follows \union {"collect", "observe", "entry"} \union Verdicts
  /\ k \in 1 .. Len(Units(source)) + Len(source.types) + Len(source.interfaces) + 1
  /\ left \in Nat /\ changed \in BOOLEAN /\ checker.crashed \in BOOLEAN
  /\ checker.errors \subseteq ErrorKinds
  /\ phase # "collect" => /\ DOMAIN checker.ctx.types = DOMAIN parent
                          /\ DOMAIN checker.ctx.interfaces = interfaces
                          /\ functions \subseteq DOMAIN checker.ctx.funcs
-----------------------------------------------------------------------------
(* The passes as functions: what becomes of the Checker that collect leaves. *)

Over(Turn(_, _), decls, c) == Fold(LAMBDA b, d : Turn(d, b), c, decls)

RECURSIVE CtorSettled(_, _, _), ParamsSettled(_, _, _), ReturnsSettled(_, _, _)

CtorSettled(p, n, c) ==
  LET narrowed(run) == Over(LAMBDA d, b : NarrowCtor(d, run.seen[1], b), p.types, Discarding(c, run))
      on(after)     == IF after.ctx = c.ctx THEN after ELSE CtorSettled(p, n - 1, after)
  IN  IF n = 0 THEN c ELSE on(narrowed(ObserveNewSites(p, c)))

ParamsSettled(p, n, c) ==
  LET on(after) == IF after.ctx = c.ctx THEN after ELSE ParamsSettled(p, n - 1, after)
  IN  IF n = 0 THEN c ELSE on(Over(InferParams, Units(p), c))

ReturnsSettled(p, n, c) ==
  LET on(after) == IF after.ctx = c.ctx THEN after ELSE ReturnsSettled(p, n - 1, after)
  IN  IF n = 0 THEN c ELSE on(Over(InferReturn, Units(p), c))

SignAllOf(p, c) == Over(SignInterface, p.interfaces, Over(SignType, p.types, Over(SignFunction, p.functions, c)))

\* In another order than in the code: what is checked stays as it is.
ChecksOf(p, c) ==
  CheckEntry(p, Over(CheckBody, Units(p), Over(CheckType, p.types,
    Over(CheckOverrides, p.types, Over(CheckInterfaces, p.types, c)))))

\* p is accepted, with so many rounds for constructor parameters and for parameters.
\* What collect leaves is taken from this run, which declares the same names.
Clean(c) == ~ c.crashed /\ c.errors = {}

AcceptedWith(p, ctorRounds, paramRounds) ==
  LET collected == [Fresh(CollectedCtx) EXCEPT !.errors = { e[1] : e \in errors }]
      inferred  == ParamsSettled(p, paramRounds, CtorSettled(p, ctorRounds, SignAllOf(p, collected)))
  IN  Clean(ChecksOf(p, ReturnsSettled(p, ReturnRounds(p), inferred)))
-----------------------------------------------------------------------------
(* Inference. *)

\* Names are declared once; of methods and attributes nothing checks that.
NamesOnce(decls) == \A i, j \in DOMAIN decls : decls[i].name = decls[j].name => i = j

DeclaredOnce(p) ==
  /\ NamesOnce(p.functions) /\ NamesOnce(p.types)
  /\ \A j \in DOMAIN p.types : NamesOnce(p.types[j].methods) /\ NamesOnce(p.types[j].attrs)

\* The bounds of the rounds, the number of what is to be inferred and a little, are
\* enough: whatever a program's functions and methods call, one more round of either
\* inference would change nothing (infer_params, infer_returns). Not so for what is
\* declared twice, nor for a function that returns a vector of what it returns.
RoundsSettle ==
  /\ phase = "returns" /\ k = 1 /\ left = ReturnRounds(source) /\ source \notin Loose =>
       Over(InferParams, Units(source), checker).ctx = checker.ctx
  /\ phase = "implements" /\ k = 1 /\ source \notin Loose =>
       Over(InferReturn, Units(source), checker).ctx = checker.ctx

\* The same of constructor parameters (infer_ctor_params): what one type hands on to the
\* constructor of the next is known a round later, and so on along the line, whatever the
\* order of the types, and all of it is known when the parameters of functions are inferred.
CtorRoundsSettle ==
  phase = "params" /\ k = 1 /\ left = ParamRounds(source) =>
    CtorSettled(source, 1, checker).ctx = checker.ctx

\* What is known of a parameter is only ever made more specific, from round to round
\* and whatever becomes of the signatures it was derived from.
ParamsOnlyNarrow ==
  [][phase = "params" /\ phase' = "params" =>
       \A j \in DOMAIN Units(source) :
         \A i \in 1 .. Len(SigOf(Units(source)[j], checker.ctx)) :
           LET old == SigOf(Units(source)[j], checker.ctx)[i].params
               new == SigOf(Units(source)[j], checker'.ctx)[i].params
           IN  \A n \in DOMAIN old : Conforms(new[n], old[n], checker.ctx)]_vars

\* "A program that type-checked before still does": one that is accepted without the
\* inference of parameters is not rejected for it (infer_params).
ParamInferenceIsSafe ==
  phase = "rejected" => ~ AcceptedWith(source, CtorRounds(source), 0)

\* The same is said of the inference of constructor parameters. It is not so: what the
\* attribute that is initialised from one becomes, is not what a setter gives it.
CtorInferenceIsSafe ==
  phase = "rejected" => ~ AcceptedWith(source, 0, ParamRounds(source))

\* The order of functions and of interfaces does not matter, however they call and
\* extend each other. (That of types does: see OrderIrrelevant.)
FunctionOrderIrrelevant ==
  phase \in {"accepted", "rejected"} /\ DeclaredOnce(source) =>
    LET turned == [source EXCEPT !.functions = Reverse(@), !.interfaces = Reverse(@)]
    IN  AcceptedWith(turned, CtorRounds(turned), ParamRounds(turned)) <=> phase = "accepted"

\* "The order of declaration is irrelevant", of types too. It is not: sign infers
\* attributes type by type, and sees of the types after it only that they exist.
OrderIrrelevant ==
  phase \in {"accepted", "rejected"} /\ DeclaredOnce(source) =>
    LET turned == [source EXCEPT !.types = Reverse(@)]
    IN  AcceptedWith(turned, CtorRounds(turned), ParamRounds(turned)) <=> phase = "accepted"
-----------------------------------------------------------------------------
(* Types. *)

\* The types of a program, and what can be made of them.
Plain == {NumberT, StringT, BooleanT, ObjectT}
           \union { UserT(t) : t \in { u \in DOMAIN checker.ctx.types : checker.ctx.types[u].generic = <<>> } }
           \union { UserT(i) : i \in interfaces }
           \union { GenericT(t, <<NumberT>>) : t \in { u \in DOMAIN checker.ctx.types : Len(checker.ctx.types[u].generic) = 1 } }
AllTypes == Plain \union { VectorT(t) : t \in Plain } \union { IterableT(t) : t \in Plain }

\* Conformance is transitive in an accepted program, by whichever of the ways (parents,
\* `implements`, structure, iteration) its steps are taken: what was passed as one type
\* and then as another is still of the first one's kind.
ConformanceIsOrder ==
  phase = "accepted" =>
    \A a, b, c \in AllTypes :
      Conforms(a, b, checker.ctx) /\ Conforms(b, c, checker.ctx) => Conforms(a, c, checker.ctx)

\* lca, by which the branches of an `if` and the elements of a vector get one type, is
\* an upper bound, the least among the classes, and takes its arguments in any order.
JoinsAreBounds ==
  phase = "accepted" =>
    \A a, b \in AllTypes :
      LET j == Lca(a, b, checker.ctx)
      IN  /\ Conforms(a, j, checker.ctx) /\ Conforms(b, j, checker.ctx)
          /\ j = Lca(b, a, checker.ctx)
          /\ \A t \in DOMAIN checker.ctx.types :
               Conforms(a, UserT(t), checker.ctx) /\ Conforms(b, UserT(t), checker.ctx)
                 => Conforms(j, UserT(t), checker.ctx)

\* Whatever class an object has, the method it runs has the signature of the one that the
\* call was checked against, which is found from a class above it: overriding compares a
\* method with one other (check_overrides), calls may be any number of classes apart.
CallsMeetSignatures ==
  phase = "accepted" =>
    \A a, b \in DOMAIN checker.ctx.types :
      InheritsFrom(a, b, ParentsIn(checker.ctx)) =>
        \A m \in DOMAIN checker.ctx.types[b].methods :
          InheritedMethod(a, m, checker.ctx) = InheritedMethod(b, m, checker.ctx)
-----------------------------------------------------------------------------
(* Verdicts. *)

\* What may not happen to a program whose types are right. (A division by zero, a bad
\* index, a cast that fails and a stack that overflows may.)
GoneWrong == {"TypeMismatch", "NullReference", "UndefinedVariable", "UndefinedField", "UndefinedMethod"}

\* An accepted program that takes none of the routes left open (the value of a loop
\* without rounds, iteration over Object or with an odd `next`, the iterator methods of
\* a vector, casts to what is erased, constructor parameters forwarded to a parent that
\* takes other ones, attributes inferred in sign from what is not signed yet) does not
\* go wrong.
AcceptedNeverFails ==
  phase = "accepted" /\ source \notin Loose => Run(source)!Outcome(source.entry).err \notin GoneWrong

\* "The passes never panic": there is a verdict on every program. It is not so of those that
\* declare a function, or a method of a type, twice with different numbers of parameters,
\* and of those in which interfaces extend each other in a circle.
NeverAborts == phase # "aborted"
=============================================================================
