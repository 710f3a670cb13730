----------------------------- MODULE MCAnalysis -----------------------------
(***************************************************************************)
(* The programs that are analysed: functions of every form that call each  *)
(* other, in chains and with demands that meet; two types, two interfaces  *)
(* and a function, in every way they may be related; lines of three types; *)
(* constructors, alone and in line; iterables, vectors and type arguments; *)
(* one program for each mistake; and those that are declared twice or in   *)
(* circles.                                                                *)
(***************************************************************************)
EXTENDS TypeSafety
LOCAL INSTANCE TLC
LOCAL INSTANCE SequencesExt

CONSTANT text   \* the one string

MinNum == -3
MaxNum == 5
MCNum == MinNum .. MaxNum
Cut(n) == IF n < MinNum THEN MinNum ELSE IF n > MaxNum THEN MaxNum ELSE n
MCArith(op, a, b) == IF op = "Add" THEN Cut(a + b) ELSE IF op = "Sub" THEN Cut(a - b) ELSE IF op = "Neg" THEN Cut(-b) ELSE a
MCJoin(op, a, b) == text
MCConst == NumV(3)

N(n)  == Literal(NumV(n))
S     == Literal(StrV(text))
True  == Literal(BoolV(TRUE))
X     == Ident("x")
Y     == Ident("y")
Plus(a, b)  == BinOp("Add", a, b)
Less(a, b)  == BinOp("Lt", a, b)
Text(a)     == BinOp("Concat", a, S)
Cond(c, a, b) == If(c, a, <<>>, b)
To(n)      == SimpleRef(n)
NumberRef   == SimpleRef("Number")

Func(n, ps, refs, returns, e) == Returning(Annotated(FunctionDecl(n, ps, e), refs), returns)
Functions2(f, g, e) == Program(<<>>, <<>>, <<f, g>>, e)
-----------------------------------------------------------------------------
(* Functions that infer from each other. *)

\* Bodies of a function of x, with calls of itself and of another one.
Bodies(self, other) ==
  {X, Plus(X, N(1)), Text(X), CallExpr(other, <<X>>), Plus(CallExpr(other, <<X>>), N(1)),
   Cond(X, S, CallExpr(other, <<True>>)), Cond(True, S, CallExpr(other, <<X>>)),
   Let("x", N(1), CallExpr(other, <<X>>)), CallExpr(self, <<CallExpr(other, <<X>>)>>),
   Block(<<CallExpr(other, <<X>>), Assign("x", N(1))>>),
   Cond(Less(X, N(1)), X, CallExpr(self, <<BinOp("Sub", X, N(1))>>))}

Calls == {CallExpr("f", <<N(1)>>), Plus(CallExpr("f", <<N(1)>>), N(1)), Text(CallExpr("f", <<S>>)), CallExpr("g", <<True>>)}

Mutual ==
  { Functions2(Func("f", <<"x">>, <<fr>>, Untyped, fb), Func("g", <<"x">>, <<Untyped>>, gr, gb), e) :
      fb \in Bodies("f", "g"), gb \in Bodies("g", "f"), fr \in {Untyped, NumberRef}, gr \in {Untyped, NumberRef}, e \in Calls }

\* A chain of four that is resolved from its end, in both orders.
Chain ==
  LET link(n, to) == FunctionDecl(n, <<"x">>, CallExpr(to, <<X>>))
      last(e)     == FunctionDecl("h", <<"x">>, e)
      fs(e)       == <<link("f", "g"), link("g", "k"), link("k", "h"), last(e)>>
  IN  { Program(<<>>, <<>>, order, call) :
          order \in UNION { {fs(e), Reverse(fs(e))} : e \in {Plus(X, N(1)), Text(X), UnOp("Not", X), X} },
          call \in Calls \ {CallExpr("g", <<True>>)} }

\* A parameter of which two things are asked, one of them by way of relay.
Asked ==
  LET class(n, up) == TypeDecl(n, <<>>, InheritsAlone(up), <<>>, <<>>)
      want(f, t)   == Func(f, <<"x">>, <<To(t)>>, NumberRef, N(1))
      relay(u)     == FunctionDecl("relay", <<"x">>, CallExpr(u, <<X>>))
      f(u, v)      == FunctionDecl("f", <<"x">>, Block(<<CallExpr(u, <<X>>), CallExpr(v, <<X>>)>>))
      wants        == <<want("a", "A"), want("b", "B"), want("c", "C")>>
  IN  { Program(<<>>, <<class("A", "Object"), class("B", "A"), class("C", "Object")>>, order \o wants,
                CallExpr("f", <<New(t, <<>>)>>)) :
          t \in {"A", "B", "C"},
          order \in UNION { {<<f(u, v), relay(w)>>, <<relay(w), f(u, v)>>} :
                             u, v \in {"a", "b", "c", "relay"}, w \in {"a", "b", "c"} } }
-----------------------------------------------------------------------------
(* Types that are related: A, B and the interfaces I and J. *)

Method(n, ps, refs, returns, e) == Func(n, ps, refs, returns, e)
MA == Method("m", <<"x">>, <<NumberRef>>, NumberRef, X)

\* m in B, which may override that of A: not at all, alike, inferred, with base, unlike.
MethodsB ==
  {<<>>, <<MA>>, <<FunctionDecl("m", <<"x">>, Plus(X, N(1)))>>,
   <<Method("m", <<"x">>, <<NumberRef>>, NumberRef, Plus(BaseCall(<<X>>), N(1)))>>,
   <<Method("m", <<"x">>, <<NumberRef>>, Untyped, S)>>, <<FunctionDecl("m", <<>>, N(1))>>,
   <<FunctionDecl("n", <<"x">>, Invoke(SelfExpr, "m", <<X>>))>>}

I == InterfaceDecl("I", <<>>, <<MethodSig("m", <<NumberRef>>, NumberRef)>>)
J == InterfaceDecl("J", <<To("I")>>, <<>>)

Uses ==
  { Func("use", <<"x">>, <<r>>, Untyped, Plus(Invoke(X, "m", <<N(1)>>), N(1))) :
      r \in {To("A"), To("B"), To("I"), To("J"), Untyped} }

OfAB ==
  {CallExpr("use", <<New("A", <<>>)>>), CallExpr("use", <<New("B", <<>>)>>),
   CallExpr("use", <<Cond(True, New("B", <<>>), New("A", <<>>))>>),
   Plus(Invoke(IndexOf(VectorOf(<<New("A", <<>>), New("B", <<>>)>>), N(1)), "m", <<N(1)>>), N(1)),
   LetTyped("y", To("J"), New("B", <<>>), CallExpr("use", <<Y>>)),
   CallExpr("use", <<As(New("A", <<>>), To("B"))>>)}

Related ==
  { Program(<<I, J>>,
            <<TypeDecl("A", <<>>, InheritsAlone("Object"), <<>>, <<MA>>),
              Implementing(TypeDecl("B", <<>>, InheritsAlone(up), <<>>, ms), impl)>>, <<use>>, e) :
      up \in {"A", "Object"}, ms \in MethodsB, impl \in {<<>>, <<To("I")>>, <<To("J")>>}, use \in Uses, e \in OfAB }
-----------------------------------------------------------------------------
(* Three classes in a line, of which each may have m, its own or as above. *)

LineUses ==
  { CallExpr("use", <<New(t, <<>>)>>) : t \in {"B", "C"} }
    \union { CallExpr("use", <<Cond(True, New("C", <<>>), New("B", <<>>))>>), Invoke(New("C", <<>>), "m", <<N(1)>>) }

Lineages ==
  LET class(n, up, ms) == TypeDecl(n, <<>>, InheritsAlone(up), <<>>, ms)
      use(t) == Func("use", <<"x">>, <<To(t)>>, Untyped, Plus(Invoke(X, "m", <<N(1)>>), N(1)))
  IN  { Program(<<>>, order, <<use(t)>>, e) :
          order \in UNION { LET A == class("A", "Object", <<MA>>)
                                B == class("B", "A", b)
                                C == class("C", "B", c)
                            IN {<<A, B, C>>, <<C, B, A>>} : b, c \in MethodsB },
          t \in {"A", "B"}, e \in LineUses }
-----------------------------------------------------------------------------
(* Constructors: P holds what it is given, C inherits from it. *)

P(ref, setRef, returns) ==
  Annotated(TypeDecl("P", <<"x">>, InheritsAlone("Object"), <<AttrDecl("v", X)>>,
    <<Method("get", <<>>, <<>>, returns, FieldOf(SelfExpr, "v")),
      Method("set", <<"x">>, <<setRef>>, Untyped, AssignField(SelfExpr, "v", X)),
      Method("with", <<"o">>, <<To("P")>>, Untyped, Block(<<FieldOf(Ident("o"), "v")>>))>>), <<ref>>)

Cs == {TypeDecl("C", <<>>, InheritsAlone("P"), <<>>, <<>>),
       TypeDecl("C", <<>>, Inherits("P", <<N(2)>>), <<>>, <<>>),
       TypeDecl("C", <<>>, Inherits("P", <<S>>), <<>>, <<>>),
       TypeDecl("C", <<"y">>, Inherits("P", <<Y>>), <<AttrDecl("w", Y)>>, <<>>),
       TypeDecl("C", <<"y", "z">>, Inherits("P", <<Plus(Y, N(1))>>), <<AttrDecl("w", Ident("z"))>>,
                <<FunctionDecl("get2", <<>>, FieldOf(SelfExpr, "w"))>>)}

Given(n) == IF n = 0 THEN {<<>>, <<N(1)>>} ELSE {[j \in 1 .. n |-> N(1)], [j \in 1 .. n |-> S]}

Constructed ==
  UNION { { Program(<<>>, <<P(ref, NumberRef, returns), c>>, <<>>, e) :
              ref \in {Untyped, NumberRef}, returns \in {Untyped, NumberRef},
              e \in UNION { {Plus(Invoke(New("C", args), "get", <<>>), N(1)),
                             Block(<<New("P", <<N(1)>>), Invoke(New("C", args), "get", <<>>)>>),
                             Text(Invoke(Cond(True, New("P", <<N(1)>>), New("C", args)), "get", <<>>)),
                             Let("y", New("C", args), Block(<<Invoke(Y, "set", <<N(1)>>), Invoke(Y, "with", <<Y>>)>>))} :
                                args \in Given(Len(c.params)) } } : c \in Cs }
-----------------------------------------------------------------------------
(* A value that is handed on from constructor to constructor. *)

Handed ==
  LET holder(n, x, e, got) ==
        TypeDecl(n, <<x>>, InheritsAlone("Object"), <<AttrDecl("v", e)>>, <<FunctionDecl("get", <<>>, got)>>)
      held == FieldOf(SelfExpr, "v")
      A == holder("A", "x", New("B", <<X>>), Invoke(held, "get", <<>>))
      B == holder("B", "y", New("C", <<Y>>), Invoke(held, "get", <<>>))
      C == holder("C", "x", X, held)
      got(e) == Invoke(New("A", <<e>>), "get", <<>>)
  IN  { Program(<<>>, order, <<FunctionDecl("f", <<>>, N(1))>>, e) :
          order \in {<<A, B, C>>, <<C, B, A>>, <<B, C, A>>},
          e \in {Plus(got(N(1)), N(1)), Text(got(S)), Plus(got(S), N(1)), got(CallExpr("f", <<>>)),
                 Block(<<New("C", <<S>>), got(N(1))>>), Plus(Block(<<New("B", <<N(1)>>), got(N(1))>>), N(1))} }
-----------------------------------------------------------------------------
(* Iterables, vectors and type arguments. *)

Box == Generic(Annotated(TypeDecl("Box", <<"x">>, InheritsAlone("Object"), <<TypedAttr("v", To("T"), X)>>,
  <<Method("get", <<>>, <<>>, To("T"), FieldOf(SelfExpr, "v")),
    Method("wrap", <<>>, <<>>, Untyped, NewOf("Box", <<To("T")>>, <<FieldOf(SelfExpr, "v")>>))>>), <<To("T")>>), <<"T">>)
BoxOf(r, e) == NewOf("Box", <<r>>, <<e>>)

\* Two values: 1 and 2.
Twice == TypeDecl("Twice", <<>>, InheritsAlone("Object"), <<AttrDecl("n", N(0))>>,
  <<Method("next", <<>>, <<>>, SimpleRef("Boolean"),
           Block(<<AssignField(SelfExpr, "n", Plus(FieldOf(SelfExpr, "n"), N(1))), Less(FieldOf(SelfExpr, "n"), N(3))>>)),
    Method("current", <<>>, <<>>, NumberRef, FieldOf(SelfExpr, "n"))>>)
Half == TypeDecl("Half", <<>>, InheritsAlone("Object"), <<>>, <<FunctionDecl("next", <<>>, True)>>)
Cursor == InterfaceDecl("Cursor", <<>>, <<MethodSig("next", <<>>, SimpleRef("Boolean")), MethodSig("current", <<>>, NumberRef)>>)

Vec(es) == VectorOf(es)
Numbers == {Vec(<<N(1), N(2)>>), Vec(<<N(1), S>>), New("Twice", <<>>), CallExpr("range", <<N(0), N(2)>>),
            VectorComp(Plus(Y, N(1)), "y", New("Twice", <<>>)), VectorComp(Y, "y", CallExpr("range", <<N(0), N(2)>>)),
            New("Half", <<>>), N(1), BoxOf(NumberRef, N(1)), Vec(<<>>)}

Loops(refs) ==
  { Program(<<Cursor>>, <<Box, Twice, Half>>, <<Func("f", <<"x">>, <<r>>, Untyped, For("y", X, Plus(Y, N(1))))>>, e) :
      r \in refs, e \in { CallExpr("f", <<s>>) : s \in Numbers } }

\* What is iterated may be anything.
OverObject == Loops({To("Object")})

Collections ==
  Loops({IterableRef(NumberRef), VectorRef(NumberRef), To("Cursor")})
  \union
  { Program(<<Cursor>>, <<Box, Twice, Half>>, <<>>, e) :
      e \in { For("y", s, Plus(Y, N(1))) : s \in Numbers } \union { Plus(IndexOf(s, N(0)), N(1)) : s \in Numbers }
            \union { Plus(Invoke(s, "size", <<>>), N(1)) : s \in Numbers }
            \union { Plus(Invoke(s, "get", <<>>), N(1)) :
                       s \in {BoxOf(NumberRef, N(1)), BoxOf(NumberRef, S), BoxOf(To("String"), S),
                              Invoke(BoxOf(NumberRef, N(1)), "wrap", <<>>),
                              Invoke(BoxOf(To("String"), S), "wrap", <<>>), NewOf("Box", <<>>, <<N(1)>>),
                              NewOf("Box", <<To("Nowhere")>>, <<N(1)>>)} }
            \union { LetTyped("y", GenericRef("Box", <<r>>), BoxOf(NumberRef, N(1)), Plus(Invoke(Y, "get", <<>>), N(1))) :
                       r \in {NumberRef, To("String"), To("Nowhere")} } }
-----------------------------------------------------------------------------
(* Mistakes, each in a program of its own. *)

Alone(e) == Program(<<>>, <<>>, <<>>, e)
WithType(methods, e) ==
  Program(<<I>>, <<TypeDecl("A", <<"x">>, InheritsAlone("Object"), <<AttrDecl("a", X)>>, methods)>>, <<>>, e)
InMethod(e) == WithType(<<FunctionDecl("m", <<"x">>, e)>>, N(1))

Mistakes ==
  { Alone(e) : e \in {X, SelfExpr, CallExpr("nothing", <<>>), New("Nothing", <<>>), Let("self", N(1), N(1)),
      LetTyped("x", To("Nothing"), N(1), X), LetTyped("x", To("String"), N(1), X), Assign("x", N(1)),
      BaseCall(<<>>), IndexOf(N(1), N(0)), IndexOf(Vec(<<N(1)>>), S), Is(N(1), To("Nothing")),
      As(N(1), To("Nothing")), While(N(1), N(1)), While(BinOp("Eq", N(1), S), N(1)), UnOp("Neg", S), UnOp("Not", N(1)),
      Plus(S, N(1)), Text(True), BinOp("And", N(1), True), CallExpr("sqrt", <<>>), CallExpr("sqrt", <<S>>),
      Ident("PI"), Block(<<>>), Cond(N(1), N(1), N(1)), Invoke(Vec(<<>>), "push", <<>>), Invoke(X, "m", <<>>),
      If(Less(N(1), N(1)), N(1), <<<<True, S>>>>, N(1)), Plus(If(Less(N(1), N(1)), N(1), <<<<True, S>>>>, N(1)), N(1))} }
  \union { WithType(<<>>, e) : e \in {FieldOf(New("A", <<N(1)>>), "a"), New("A", <<>>), New("I", <<>>),
      AssignField(New("A", <<N(1)>>), "a", N(2)), NewOf("A", <<NumberRef>>, <<N(1)>>)} }
  \union { InMethod(e) : e \in {Assign("self", X), AssignField(SelfExpr, "b", X), AssignField(SelfExpr, "a", S),
      FieldOf(SelfExpr, "b"), BaseCall(<<X>>), FieldOf(New("A", <<N(1)>>), "a"), FieldOf(X, "a"),
      FieldOf(N(1), "a")} }
  \union { Program(<<I>>, <<Implementing(TypeDecl("A", <<"self">>, InheritsAlone("Object"), <<TypedAttr("a", To("String"), N(1))>>, <<>>), rs)>>, <<FunctionDecl("f", <<"self">>, N(1))>>, N(1)) :
      rs \in {<<>>, <<To("I")>>, <<To("A")>>, <<To("Nothing")>>, <<NumberRef>>} }
  \union { Program(<<InterfaceDecl(i, <<>>, <<>>)>>, <<TypeDecl(t, <<>>, InheritsAlone(up), <<>>, <<FunctionDecl("m", <<"x">>, Plus(X, N(1)))>>)>>,
                   <<FunctionDecl(f, <<"x">>, Plus(X, N(1)))>>, CallExpr(f, <<N(1)>>)) :
             i \in {"I", "Number"}, t \in {"A", "I", "Number"}, up \in {"Object", "I", "Number", "A"}, f \in {"f", "print"} }

\* Declared twice: what nothing reports, and what is reported too late.
Twofold ==
  { Functions2(FunctionDecl("f", ps, fb), FunctionDecl("f", <<"x">>, gb), N(1)) :
      ps \in {<<"x">>, <<"x", "y">>}, fb \in {X, Plus(X, N(1)), Plus(X, Y)}, gb \in {X, S} }
  \union { Program(<<>>, <<TypeDecl("A", <<>>, InheritsAlone("Object"), <<>>,
                     <<FunctionDecl("m", <<>>, a), FunctionDecl("m", <<>>, b)>>)>>, <<>>, Invoke(New("A", <<>>), "m", <<>>)) :
             a, b \in {N(1), S, VectorOf(<<Invoke(SelfExpr, "m", <<>>)>>)} }
  \union { Program(<<>>, ds, <<>>, N(1)) : ds \in UNION {
             LET class(up, ms) == TypeDecl("A", <<>>, InheritsAlone(up), <<>>, ms)
                 m1 == FunctionDecl("m", <<"x">>, X)
                 m2 == FunctionDecl("m", <<"x", "y">>, e)
                 base == TypeDecl("B", <<>>, InheritsAlone("Object"), <<>>, <<m1>>)
             IN  {<<class("Object", <<m2, m1>>)>>, <<class("Object", <<m1, m2>>)>>,
                  <<class("Object", <<m2>>), class("Object", <<m1>>)>>,
                  <<base, class("B", <<m2>>), class("B", <<>>)>>} : e \in {X, Plus(X, Y)} } }
  \union { Functions2(FunctionDecl("f", <<>>, VectorOf(<<CallExpr("f", <<>>)>>)), FunctionDecl("g", <<>>, N(1)), N(1)) }

\* Interfaces that extend each other in a circle, and types that inherit in one.
Circles ==
  LET i(n, to) == InterfaceDecl(n, <<To(to)>>, <<>>)
      a(impl) == Implementing(TypeDecl("A", <<>>, InheritsAlone("Object"), <<>>, <<>>), impl)
      f(r)    == Func("f", <<"x">>, <<To(r)>>, Untyped, Invoke(X, "m", <<>>))
      t(n, up) == TypeDecl(n, <<>>, InheritsAlone(up), <<>>, <<>>)
  IN  { Program(<<i("I", "J"), i("J", to)>>, <<a(impl)>>, <<f(r)>>, e) :
          to \in {"I", "J", "K"}, impl \in {<<>>, <<To("J")>>}, r \in {"A", "I"},
          e \in {CallExpr("f", <<New("A", <<>>)>>), N(1)} }
      \union { Program(<<>>, <<t("A", "B"), t("B", up), t("C", "B")>>, <<f("A")>>, N(1)) : up \in {"A", "B", "C"} }
-----------------------------------------------------------------------------
(* Attributes that are inferred from types of which only the names are known. *)

Early(init) ==
  TypeDecl("A", <<>>, InheritsAlone("Object"), <<AttrDecl("x", init)>>,
           <<Method("get", <<>>, <<>>, NumberRef, FieldOf(SelfExpr, "x"))>>)
Late(r, e) == TypeDecl("B", <<>>, InheritsAlone("Object"), <<>>, <<Method("m", <<>>, <<>>, r, e)>>)

Ordered ==
  { Program(<<>>, order, <<>>, Plus(Invoke(New("A", <<>>), "get", <<>>), N(1))) :
      order \in UNION { {<<Early(init), late>>, <<late, Early(init)>>} :
        init \in {Invoke(New("B", <<>>), "m", <<>>), Cond(True, Invoke(New("B", <<>>), "m", <<>>), N(1)), N(1)},
        late \in {Late(NumberRef, N(1)), Late(To("String"), S)} } }
-----------------------------------------------------------------------------
(* What is inferred from `new`, and a setter that asks for nothing. *)

Setters ==
  { Program(<<>>, <<P(ref, setRef, Untyped)>>, <<>>, e) :
      ref, setRef \in {Untyped, NumberRef},
      e \in {New("P", <<N(1)>>), Invoke(New("P", <<N(1)>>), "set", <<N(2)>>)} }
-----------------------------------------------------------------------------
\* Iteration over Object, and what is declared twice, is accepted and may go wrong.
MCLoose   == OverObject \union Twofold
MCSources ==
  Mutual \union Chain \union Asked \union Related \union Lineages \union Constructed \union Handed
    \union Collections \union Mistakes \union Circles \union MCLoose

\* Among these are those without a verdict.
MCAborting == Twofold \union Circles
=============================================================================
