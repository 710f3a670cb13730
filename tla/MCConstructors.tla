--------------------------- MODULE MCConstructors ---------------------------
(***************************************************************************)
(* Declarations the constructors lowered for them disagree with, in the    *)
(* place of MCLowering's. There are four disagreements, and the run of     *)
(* each program shows all of them.                                         *)
(***************************************************************************)
EXTENDS MCLowering

\* D exchanges its parameters on the way to the parent, and both have initialisers that
\* print: A's w is y instead of x, and D's number comes first. B, with parameters of its
\* own, one of them under another name, inherits from A without any arguments. And F has
\* arguments for C, which takes its parameters from B: nothing prints them.
InheritingTypes ==
  << TypeDecl("A", <<"x", "y">>, InheritsAlone("Object"),
              <<AttrDecl("v", Out(X)), AttrDecl("w", Y)>>,
              <<FunctionDecl("get", <<>>, BinOp("Sub", Field("v"), Field("w")))>>),
     TypeDecl("D", <<"x", "y">>, Inherits("A", <<Y, X>>), <<AttrDecl("z", Out(N(3)))>>, <<>>),
     TypeDecl("B", <<"x", "hi">>, InheritsAlone("A"), <<>>, <<>>),
     TypeDecl("C", <<>>, InheritsAlone("B"), <<>>, <<>>),
     TypeDecl("F", <<"x", "hi">>, Inherits("C", <<Out(Plus(X, Ident("hi"))), N(0)>>), <<>>, <<>>) >>

InheritingPrograms ==
  Pairs(LAMBDA a, b : Closed(Block(<<Out(GetOf(New("D", <<a, b>>))), GetOf(New("F", <<a, Plus(b, N(1))>>))>>)),
        <<N(0), X>>, <<N(1), N(2)>>)
=============================================================================
