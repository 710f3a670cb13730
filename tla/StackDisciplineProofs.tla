------------------------ MODULE StackDisciplineProofs ------------------------
(***************************************************************************)
(* Disciplined code never misses an operand, a scope or a label, and every *)
(* call and program leaves exactly one value: for every program, whatever  *)
(* it computes, wherever it calls, fails and collects. That the code of    *)
(* lowered programs is disciplined is proved in LoweringProofs.            *)
(***************************************************************************)
EXTENDS StackDiscipline, VmCodeProofs

\* The errors that only broken code raises.
Broken == {"StackUnderflow", "UndefinedLabel"}

\* The inductive invariant. The running frame has the shape of its next instruction,
\* a suspended one will have it when it is given its value, which an error that is
\* passed on does not disturb.
StackInv ==
  /\ status = "running" => HasShape(Len(stack), Len(scopes), block, ip)
  /\ \A k \in DOMAIN returns :
       HasShape(Len(callStack[k].stack) + 1, Len(callStack[k].scopes),
                returns[k].block, returns[k].ip)
  /\ status = "done" => Len(stack) = 1 /\ scopes = <<>>
  /\ error \notin Broken

\* What becomes of an instruction whose operands are there: it runs and does to the
\* stack and the scopes what its kind does, or it fails for a reason of its own.
Runs(i) ==
  /\ status' = status /\ error' = error
  /\ Len(stack') = Len(stack) - Takes(i) + Gives(i)
  /\ Len(scopes') = Len(scopes) + Opens(i)

Fails == status' = "unwinding" /\ error' \notin Broken

-----------------------------------------------------------------------------
(* Operands that are there. *)

LEMMA PoppedFacts ==
  ASSUME stack \in Seq(Value), NEW n \in 0 .. Len(stack)
  PROVE  /\ Popped(n) \in Seq(Value) /\ Len(Popped(n)) = Len(stack) - n
         /\ \A v : Len(Push(n, v)) = Len(stack) - n + 1
  <1>1. Popped(n) \in Seq(Value) /\ Len(Popped(n)) = Len(stack) - n
    BY DEF Popped
  <1> QED
    BY <1>1 DEF Push

\* An instruction with enough operands does not fail for want of one.
LEMMA EnoughOperands ==
  ASSUME stack \in Seq(Value), NEW kinds \in Seq(Kind), Len(kinds) <= Len(stack),
         FailOperands(kinds)
  PROVE  Fails
  <1> DEFINE k == FirstWrong(kinds)
             W == { j \in DOMAIN kinds : Wrong(kinds, j) }
  <1>1. Len(stack) \in Nat /\ DOMAIN kinds = 1 .. Len(kinds) /\ Len(kinds) \in Nat
    OBVIOUS
  <1>2. W \subseteq Nat /\ W # {}
    BY <1>1 DEF FailOperands, Accepted
  <1>3. PICK j \in W : \A i \in W : j <= i
    BY <1>2, NatMin
  <1>4. j \in DOMAIN kinds /\ Wrong(kinds, j) /\ \A i \in 1 .. j - 1 : ~ Wrong(kinds, i)
    BY <1>1, <1>3
  <1>5. k \in DOMAIN kinds
    BY <1>4 DEF FirstWrong
  <1>6. ~ (k > Len(stack))
    BY <1>1, <1>5
  <1>7. OperandError(kinds) \notin Broken
    BY <1>6 DEF OperandError, Broken
  <1>8. status' = "unwinding" /\ error' = OperandError(kinds)
    BY DEF FailOperands, Fail
  <1> QED
    BY <1>7, <1>8 DEF Fails

LEMMA OtherError ==
  ASSUME NEW n, NEW e, e \notin Broken, Fail(n, e)
  PROVE  Fails
  BY DEF Fail, Fails

\* SetStack, when n values make way for one, or for none.
LEMMA StackRuns ==
  ASSUME stack \in Seq(Value), NEW n \in 0 .. Len(stack), NEW i, Takes(i) = n, Opens(i) = 0,
         Len(scopes) \in Nat,
         \/ Gives(i) = 1 /\ \E v : SetStack(Push(n, v))
         \/ Gives(i) = 0 /\ SetStack(Popped(n))
  PROVE  Runs(i)
  BY PoppedFacts DEF SetStack, Runs

LEMMA PureEffect ==
  ASSUME NEW i, i.op \in PureOps
  PROVE  /\ Takes(i) = Len(Kinds(i.op)) /\ Gives(i) = 1 /\ Opens(i) = 0
         /\ Kinds(i.op) \in Seq(Kind) /\ Len(Kinds(i.op)) \in 1 .. 2
  <1> DEFINE kinds == Kinds(i.op)
  <1>1. (\E j, k \in Kind : kinds = <<j, k>>) \/ (\E k \in Kind : kinds = <<k>>)
    BY DEF Kinds, PureOps, NumOps, NumFuncs, NumTests, BoolOps, AnyTests, Joins, Kind
  <1>2. Takes(i) = Len(kinds)
    BY DEF Takes, PureOps, NumOps, NumFuncs, NumTests, BoolOps, AnyTests, Joins
  <1>3. Gives(i) = 1 /\ Opens(i) = 0
    BY DEF Gives, Opens, PureOps, NumOps, NumFuncs, NumTests, BoolOps, AnyTests, Joins
  <1> HIDE DEF kinds
  <1>4. kinds \in Seq(Kind) /\ Len(kinds) \in 1 .. 2
    BY <1>1, KindsFacts
  <1> QED
    BY <1>2, <1>3, <1>4 DEF kinds

LEMMA ComputeEffect ==
  ASSUME stack \in Seq(Value), Len(scopes) \in Nat, NEW i, i.op \in PureOps, Compute(i.op),
         Takes(i) <= Len(stack)
  PROVE  Runs(i) \/ Fails
  <1> DEFINE kinds == Kinds(i.op)
             n     == Len(kinds)
  <1>1. Takes(i) = n /\ Gives(i) = 1 /\ Opens(i) = 0 /\ kinds \in Seq(Kind) /\ n \in 0 .. Len(stack)
    BY PureEffect
  <1>2. \/ \E v : SetStack(Push(n, v))
        \/ Fail(n, "DivisionByZero")
        \/ FailOperands(kinds)
    BY DEF Compute, FailAfter
  <1> HIDE DEF kinds, n
  <1>3. "DivisionByZero" \notin Broken
    BY DEF Broken
  <1>4. n = Len(kinds)
    BY DEF n
  <1> QED
    BY <1>1, <1>2, <1>3, <1>4, StackRuns, EnoughOperands, OtherError

-----------------------------------------------------------------------------
(* One instruction of each kind. *)

LEMMA KindCounts ==
  /\ <<"any">> \in Seq(Kind) /\ <<"bool">> \in Seq(Kind) /\ <<"object">> \in Seq(Kind)
  /\ <<"object", "any">> \in Seq(Kind) /\ <<"num", "object">> \in Seq(Kind)
  /\ Len(<<"any">>) = 1 /\ Len(<<"bool">>) = 1 /\ Len(<<"object">>) = 1
  /\ Len(<<"object", "any">>) = 2 /\ Len(<<"num", "object">>) = 2
  BY KindsFacts DEF Kind

\* What the table of effects says of each kind of instruction.
LEMMA EffectFacts ==
  ASSUME NEW i
  PROVE  /\ i.op \in {"Literal", "Rand", "LoadVar", "NewObject"} =>
              Takes(i) = 0 /\ Gives(i) = 1 /\ Opens(i) = 0
         /\ i.op \in {"Pop", "StoreVar", "BindVar", "JumpIfFalse"} =>
              Takes(i) = 1 /\ Gives(i) = 0 /\ Opens(i) = 0
         /\ i.op = "Dup" => Takes(i) = 1 /\ Gives(i) = 2 /\ Opens(i) = 0
         /\ i.op \in {"GetField", "IsType", "AsType"} =>
              Takes(i) = 1 /\ Gives(i) = 1 /\ Opens(i) = 0
         /\ i.op \in {"SetField", "Index"} => Takes(i) = 2 /\ Gives(i) = 1 /\ Opens(i) = 0
         /\ i.op = "VecPush" => Takes(i) = 2 /\ Gives(i) = 0 /\ Opens(i) = 0
         /\ i.op = "MakeVector" => Takes(i) = i.size /\ Gives(i) = 1 /\ Opens(i) = 0
         /\ i.op = "Call" => Takes(i) = i.argc /\ Gives(i) = 1 /\ Opens(i) = 0
         /\ i.op \in {"CallMethod", "CallBase"} =>
              Takes(i) = i.argc + 1 /\ Gives(i) = 1 /\ Opens(i) = 0
         /\ i.op \in {"Label", "Jump", "Ret"} => Takes(i) = 0 /\ Gives(i) = 0 /\ Opens(i) = 0
         /\ i.op = "BeginScope" => Takes(i) = 0 /\ Gives(i) = 0 /\ Opens(i) = 1
         /\ i.op = "EndScope" => Takes(i) = 0 /\ Gives(i) = 0 /\ Opens(i) = -1
  BY DEF Takes, Gives, Opens

LEMMA StackEffect ==
  ASSUME stack \in Seq(Value), Len(scopes) \in Nat, NEW i, Takes(i) <= Len(stack),
         \/ i.op \in {"Literal", "Rand"} /\ \E v : PushLiteral(v)
         \/ i.op = "Pop" /\ Pop
         \/ i.op = "Dup" /\ Dup
         \/ i.op = "LoadVar" /\ \E n : LoadVar(n)
  PROVE  Runs(i) \/ Fails
  <1>1. CASE i.op \in {"Literal", "Rand"} /\ \E v : PushLiteral(v)
    BY <1>1, EffectFacts, StackRuns DEF PushLiteral
  <1>2. CASE i.op = "Pop" /\ Pop
    <2>1. Takes(i) = 1 /\ Gives(i) = 0 /\ Opens(i) = 0 /\ 1 \in 0 .. Len(stack)
      BY <1>2, EffectFacts
    <2>2. CASE SetStack(Popped(1))
      BY <2>1, <2>2, StackRuns
    <2>3. CASE FailOperands(<<"any">>)
      BY <2>1, <2>3, EnoughOperands, KindCounts
    <2> QED
      BY <1>2, <2>2, <2>3 DEF Pop
  <1>3. CASE i.op = "Dup" /\ Dup
    <2>1. Takes(i) = 1 /\ Gives(i) = 2 /\ Opens(i) = 0
      BY <1>3, EffectFacts
    <2>2. CASE SetStack(Push(0, Top(0)))
      <3>1. Len(Push(0, Top(0))) = Len(stack) - 0 + 1
        BY PoppedFacts
      <3> QED
        BY <2>1, <2>2, <3>1 DEF SetStack, Runs
    <2>3. CASE FailOperands(<<"any">>)
      BY <2>1, <2>3, EnoughOperands, KindCounts
    <2> QED
      BY <1>3, <2>2, <2>3 DEF Dup
  <1>4. CASE i.op = "LoadVar" /\ \E n : LoadVar(n)
    <2>1. (\E v : SetStack(Push(0, v))) \/ Fail(0, "UndefinedVariable")
      BY <1>4 DEF LoadVar
    <2>2. Takes(i) = 0 /\ Gives(i) = 1 /\ Opens(i) = 0 /\ 0 \in 0 .. Len(stack)
      BY <1>4, EffectFacts
    <2>3. CASE \E v : SetStack(Push(0, v))
      BY <2>2, <2>3, StackRuns
    <2>4. CASE Fail(0, "UndefinedVariable")
      BY <2>4, OtherError DEF Broken
    <2> QED
      BY <2>1, <2>3, <2>4
  <1> QED
    BY <1>1, <1>2, <1>3, <1>4

LEMMA ScopeEffect ==
  ASSUME stack \in Seq(Value), scopes \in Seq(Bindings), NEW i, Takes(i) <= Len(stack),
         \/ i.op = "StoreVar" /\ \E n : StoreVar(n)
         \/ i.op = "BindVar" /\ (\E n : BindVar(n)) /\ scopes # <<>>
         \/ i.op = "BeginScope" /\ BeginScope
         \/ i.op = "EndScope" /\ EndScope /\ scopes # <<>>
  PROVE  Runs(i) \/ Fails
  <1>1. Len(scopes) \in Nat /\ (scopes # <<>> => Len(scopes) > 0)
    OBVIOUS
  <1>2. ASSUME FailAfter(<<"any">>, "UndefinedVariable") PROVE Fails
    BY <1>2, OtherError DEF FailAfter, Broken
  <1>3. ASSUME i.op \in {"StoreVar", "BindVar"}, stack' = Popped(1),
               Len(scopes') = Len(scopes), UNCHANGED <<status, error>>
        PROVE  Runs(i)
    <2>1. Takes(i) = 1 /\ Gives(i) = 0 /\ Opens(i) = 0
      BY <1>3, EffectFacts
    <2>2. Len(stack') = Len(stack) - 1
      BY <1>3, <2>1, PoppedFacts
    <2> QED
      BY <1>1, <1>3, <2>1, <2>2 DEF Runs
  <1>4. CASE i.op = "StoreVar" /\ \E n : StoreVar(n)
    <2>1. Takes(i) = 1
      BY <1>4, EffectFacts
    <2>2. PICK n : StoreVar(n)
      BY <1>4
    <2>3. CASE /\ scopes' = [scopes EXCEPT ![Innermost(n)] = [@ EXCEPT ![n] = Top(0)]]
               /\ stack' = Popped(1)
               /\ UNCHANGED <<callStack, status, error, heapVars>>
      <3>1. Len(scopes') = Len(scopes)
        BY <2>3
      <3> QED
        BY <1>3, <1>4, <2>3, <3>1
    <2>4. CASE FailOperands(<<"any">>)
      BY <2>1, <2>4, EnoughOperands, KindCounts
    <2> QED
      BY <1>2, <2>2, <2>3, <2>4 DEF StoreVar
  <1>5. CASE i.op = "BindVar" /\ (\E n : BindVar(n)) /\ scopes # <<>>
    <2>1. Takes(i) = 1
      BY <1>5, EffectFacts
    <2>2. PICK n : BindVar(n)
      BY <1>5
    <2>3. CASE /\ scopes' = [scopes EXCEPT ![Len(scopes)] = [@ EXCEPT ![n] = Top(0)]]
               /\ stack' = Popped(1)
               /\ UNCHANGED <<callStack, status, error, heapVars>>
      <3>1. Len(scopes') = Len(scopes)
        BY <2>3
      <3> QED
        BY <1>3, <1>5, <2>3, <3>1
    <2>4. CASE FailOperands(<<"any">>)
      BY <2>1, <2>4, EnoughOperands, KindCounts
    <2> QED
      BY <1>5, <2>2, <2>3, <2>4 DEF BindVar
  <1>6. CASE i.op = "BeginScope" /\ BeginScope
    <2>1. Len(scopes') = Len(scopes) + 1
      BY <1>6 DEF BeginScope
    <2>2. Takes(i) = 0 /\ Gives(i) = 0 /\ Opens(i) = 1
      BY <1>6, EffectFacts
    <2> QED
      BY <1>6, <2>1, <2>2 DEF BeginScope, Runs
  <1>7. CASE i.op = "EndScope" /\ EndScope /\ scopes # <<>>
    <2>1. Len(scopes') = Len(scopes) - 1
      BY <1>1, <1>7, ShorterFacts DEF EndScope
    <2>2. Takes(i) = 0 /\ Gives(i) = 0 /\ Opens(i) = -1
      BY <1>7, EffectFacts
    <2> QED
      BY <1>1, <1>7, <2>1, <2>2 DEF EndScope, Runs
  <1> QED
    BY <1>4, <1>5, <1>6, <1>7

\* Alloc: n values make way for the handle of the new object.
LEMMA AllocRuns ==
  ASSUME stack \in Seq(Value), Len(scopes) \in Nat, NEW n \in 0 .. Len(stack), NEW obj, NEW i,
         Takes(i) = n, Gives(i) = 1, Opens(i) = 0, Alloc(obj, n)
  PROVE  Runs(i)
  <1>1. /\ stack' = Push(n, Ref(Hp!AllocId)) /\ UNCHANGED <<scopes, status, error>>
    BY DEF Alloc
  <1>2. Len(stack') = Len(stack) - n + 1
    BY <1>1, PoppedFacts
  <1> QED
    BY <1>1, <1>2 DEF Runs

LEMMA ObjectEffect ==
  ASSUME stack \in Seq(Value), Len(scopes) \in Nat, NEW i, Takes(i) <= Len(stack),
         \/ i.op = "NewObject" /\ \E t : NewObject(t)
         \/ i.op = "GetField" /\ \E n : GetField(n)
         \/ i.op = "SetField" /\ \E n : SetField(n)
         \/ i.op = "IsType" /\ \E t : IsType(t)
         \/ i.op = "AsType" /\ \E t : AsType(t)
  PROVE  Runs(i) \/ Fails
  <1>1. CASE i.op = "NewObject" /\ \E t : NewObject(t)
    <2>1. Takes(i) = 0 /\ Gives(i) = 1 /\ Opens(i) = 0 /\ 0 \in 0 .. Len(stack)
      BY <1>1, EffectFacts
    <2> QED
      BY <1>1, <2>1, AllocRuns DEF NewObject
  <1>2. CASE i.op = "GetField" /\ \E n : GetField(n)
    <2>1. Takes(i) = 1 /\ Gives(i) = 1 /\ Opens(i) = 0 /\ 1 \in 0 .. Len(stack)
      BY <1>2, EffectFacts
    <2>2. \/ \E v : SetStack(Push(1, v))
          \/ Fail(1, "UndefinedField") \/ FailOperands(<<"object">>)
      BY <1>2 DEF GetField
    <2>3. CASE \E v : SetStack(Push(1, v))
      BY <2>1, <2>3, StackRuns
    <2>4. CASE Fail(1, "UndefinedField")
      BY <2>4, OtherError DEF Broken
    <2>5. CASE FailOperands(<<"object">>)
      BY <2>1, <2>5, EnoughOperands, KindCounts
    <2> QED
      BY <2>2, <2>3, <2>4, <2>5
  <1>3. CASE i.op = "SetField" /\ \E n : SetField(n)
    <2>1. Takes(i) = 2 /\ Gives(i) = 1 /\ Opens(i) = 0 /\ 2 \in 0 .. Len(stack)
      BY <1>3, EffectFacts
    <2>2. \/ stack' = Push(2, Top(1)) /\ UNCHANGED <<scopes, status, error>>
          \/ FailOperands(<<"object", "any">>)
      BY <1>3 DEF SetField, SetFields
    <2>3. CASE stack' = Push(2, Top(1)) /\ UNCHANGED <<scopes, status, error>>
      <3>1. Len(stack') = Len(stack) - 2 + 1
        BY <2>1, <2>3, PoppedFacts
      <3> QED
        BY <2>1, <2>3, <3>1 DEF Runs
    <2>4. CASE FailOperands(<<"object", "any">>)
      BY <2>1, <2>4, EnoughOperands, KindCounts
    <2> QED
      BY <2>2, <2>3, <2>4
  <1>4. CASE i.op = "IsType" /\ \E t : IsType(t)
    <2>1. Takes(i) = 1 /\ Gives(i) = 1 /\ Opens(i) = 0 /\ 1 \in 0 .. Len(stack)
      BY <1>4, EffectFacts
    <2>2. (\E v : SetStack(Push(1, v))) \/ FailOperands(<<"any">>)
      BY <1>4 DEF IsType
    <2>3. CASE \E v : SetStack(Push(1, v))
      BY <2>1, <2>3, StackRuns
    <2>4. CASE FailOperands(<<"any">>)
      BY <2>1, <2>4, EnoughOperands, KindCounts
    <2> QED
      BY <2>2, <2>3, <2>4
  <1>5. CASE i.op = "AsType" /\ \E t : AsType(t)
    <2>1. Takes(i) = 1 /\ Gives(i) = 1 /\ Opens(i) = 0
      BY <1>5, EffectFacts
    <2>2. \/ stack' = stack /\ UNCHANGED <<scopes, status, error>>
          \/ Fail(1, "InvalidCast") \/ FailOperands(<<"any">>)
      BY <1>5 DEF AsType, SetStack
    <2>3. CASE stack' = stack /\ UNCHANGED <<scopes, status, error>>
      BY <2>1, <2>3 DEF Runs
    <2>4. CASE Fail(1, "InvalidCast")
      BY <2>4, OtherError DEF Broken
    <2>5. CASE FailOperands(<<"any">>)
      BY <2>1, <2>5, EnoughOperands, KindCounts
    <2> QED
      BY <2>2, <2>3, <2>4, <2>5
  <1> QED
    BY <1>1, <1>2, <1>3, <1>4, <1>5

LEMMA VectorEffect ==
  ASSUME stack \in Seq(Value), Len(scopes) \in Nat, NEW i, Takes(i) <= Len(stack),
         \/ i.op = "MakeVector" /\ i.size \in Nat /\ MakeVector(i.size)
         \/ i.op = "Index" /\ Index
         \/ i.op = "VecPush" /\ VecPush
  PROVE  Runs(i) \/ Fails
  <1>1. CASE i.op = "MakeVector" /\ i.size \in Nat /\ MakeVector(i.size)
    <2> DEFINE n == i.size
    <2>1. Takes(i) = n /\ Gives(i) = 1 /\ Opens(i) = 0 /\ n \in 0 .. Len(stack)
      BY <1>1, EffectFacts
    <2>2. (\E obj : Alloc(obj, n)) \/ FailOperands(AnyKinds(n))
      BY <1>1 DEF MakeVector
    <2> HIDE DEF n
    <2>3. AnyKinds(n) \in Seq(Kind) /\ Len(AnyKinds(n)) = n
      BY <2>1, KindsFacts
    <2>4. CASE \E obj : Alloc(obj, n)
      BY <2>1, <2>4, AllocRuns
    <2>5. CASE FailOperands(AnyKinds(n))
      BY <2>1, <2>3, <2>5, EnoughOperands
    <2> QED
      BY <2>2, <2>4, <2>5
  <1>2. CASE i.op = "Index" /\ Index
    <2>1. Takes(i) = 2 /\ Gives(i) = 1 /\ Opens(i) = 0 /\ 2 \in 0 .. Len(stack)
      BY <1>2, EffectFacts
    <2>2. \/ \E v : SetStack(Push(2, v))
          \/ \E e \in {"IndexOutOfBounds", "UndefinedField"} : Fail(2, e)
          \/ FailOperands(<<"num", "object">>)
      BY <1>2 DEF Index
    <2>3. CASE \E v : SetStack(Push(2, v))
      BY <2>1, <2>3, StackRuns
    <2>4. CASE \E e \in {"IndexOutOfBounds", "UndefinedField"} : Fail(2, e)
      BY <2>4, OtherError DEF Broken
    <2>5. CASE FailOperands(<<"num", "object">>)
      BY <2>1, <2>5, EnoughOperands, KindCounts
    <2> QED
      BY <2>2, <2>3, <2>4, <2>5
  <1>3. CASE i.op = "VecPush" /\ VecPush
    <2>1. Takes(i) = 2 /\ Gives(i) = 0 /\ Opens(i) = 0 /\ 2 \in 0 .. Len(stack)
      BY <1>3, EffectFacts
    <2>2. \/ stack' = Popped(2) /\ UNCHANGED <<scopes, status, error>>
          \/ Fail(2, "UndefinedField") \/ FailOperands(<<"object", "any">>)
      BY <1>3 DEF VecPush, SetFields
    <2>3. CASE stack' = Popped(2) /\ UNCHANGED <<scopes, status, error>>
      <3>1. Len(stack') = Len(stack) - 2
        BY <2>1, <2>3, PoppedFacts
      <3> QED
        BY <2>1, <2>3, <3>1 DEF Runs
    <2>4. CASE Fail(2, "UndefinedField")
      BY <2>4, OtherError DEF Broken
    <2>5. CASE FailOperands(<<"object", "any">>)
      BY <2>1, <2>5, EnoughOperands, KindCounts
    <2> QED
      BY <2>2, <2>3, <2>4, <2>5
  <1> QED
    BY <1>1, <1>2, <1>3

\* Any instruction that does not decide where the code goes on.
LEMMA StraightEffect ==
  ASSUME IInv, CodeInv, Straight \/ PrintTop, Takes(Current) <= Len(stack),
         Current.op \in {"BindVar", "EndScope"} => scopes # <<>>
  PROVE  Runs(Current) \/ Fails
  <1> DEFINE i == Current
  <1>1. stack \in Seq(Value) /\ scopes \in Seq(Bindings) /\ Len(scopes) \in Nat
    <2>1. stack \in Seq(Value) /\ scopes \in Seq(Bindings)
      BY DEF IInv, MachineOK
    <2> QED
      BY <2>1
  <1>2. ~ Exhausted
    BY DEF Straight, PrintTop, At
  <1>3. i.op \in Operators => i.op \in PureOps
    BY OperatorsAssumption
  <1>4. (i.op = "MakeVector" => i.size \in Nat) /\ (i.op = "Print" => "Print" \in Operators)
    <2>1. i \in Instruction
      BY <1>2, CurrentFacts
    <2>2. (i.op = "MakeVector" => i.size \in 0 .. MaxArgs) /\ (i.op = "Print" => "Print" \in Operators)
      BY <2>1, OperandFacts
    <2> QED
      BY <2>2, BoundsAssumption
  <1>5. \/ i.op \in Operators /\ Compute(i.op)
        \/ i.op \in {"Literal", "Rand"} /\ \E v : PushLiteral(v)
        \/ i.op = "Pop" /\ Pop
        \/ i.op = "Dup" /\ Dup
        \/ i.op = "LoadVar" /\ \E n : LoadVar(n)
        \/ i.op = "StoreVar" /\ \E n : StoreVar(n)
        \/ i.op = "BindVar" /\ \E n : BindVar(n)
        \/ i.op = "BeginScope" /\ BeginScope
        \/ i.op = "EndScope" /\ EndScope
        \/ i.op = "NewObject" /\ \E t : NewObject(t)
        \/ i.op = "GetField" /\ \E n : GetField(n)
        \/ i.op = "SetField" /\ \E n : SetField(n)
        \/ i.op = "IsType" /\ \E t : IsType(t)
        \/ i.op = "AsType" /\ \E t : AsType(t)
        \/ i.op = "MakeVector" /\ MakeVector(i.size)
        \/ i.op = "Index" /\ Index
        \/ i.op = "VecPush" /\ VecPush
    <2>1. CASE PrintTop
      BY <1>4, <2>1 DEF PrintTop, At
    <2>2. CASE Straight
      BY <2>2 DEF Straight, At
    <2> QED
      BY <2>1, <2>2
  <1>6. Takes(i) <= Len(stack) /\ (i.op \in {"BindVar", "EndScope"} => scopes # <<>>)
    OBVIOUS
  <1> HIDE DEF i
  <1>7. ASSUME i.op \in Operators /\ Compute(i.op)
        PROVE  Runs(i) \/ Fails
    BY <1>1, <1>3, <1>6, <1>7, ComputeEffect
  <1>8. ASSUME \/ i.op \in {"Literal", "Rand"} /\ \E v : PushLiteral(v)
               \/ i.op = "Pop" /\ Pop
               \/ i.op = "Dup" /\ Dup
               \/ i.op = "LoadVar" /\ \E n : LoadVar(n)
        PROVE  Runs(i) \/ Fails
    BY <1>1, <1>6, <1>8, StackEffect
  <1>9. ASSUME \/ i.op = "StoreVar" /\ \E n : StoreVar(n)
               \/ i.op = "BindVar" /\ \E n : BindVar(n)
               \/ i.op = "BeginScope" /\ BeginScope
               \/ i.op = "EndScope" /\ EndScope
        PROVE  Runs(i) \/ Fails
    <2>1. \/ i.op = "StoreVar" /\ \E n : StoreVar(n)
          \/ i.op = "BindVar" /\ (\E n : BindVar(n)) /\ scopes # <<>>
          \/ i.op = "BeginScope" /\ BeginScope
          \/ i.op = "EndScope" /\ EndScope /\ scopes # <<>>
      BY <1>6, <1>9
    <2> QED
      BY <1>1, <1>6, <2>1, ScopeEffect
  <1>10. ASSUME \/ i.op = "NewObject" /\ \E t : NewObject(t)
                \/ i.op = "GetField" /\ \E n : GetField(n)
                \/ i.op = "SetField" /\ \E n : SetField(n)
                \/ i.op = "IsType" /\ \E t : IsType(t)
                \/ i.op = "AsType" /\ \E t : AsType(t)
         PROVE  Runs(i) \/ Fails
    BY <1>1, <1>6, <1>10, ObjectEffect
  <1>11. ASSUME \/ i.op = "MakeVector" /\ MakeVector(i.size)
                \/ i.op = "Index" /\ Index
                \/ i.op = "VecPush" /\ VecPush
         PROVE  Runs(i) \/ Fails
    <2>1. \/ i.op = "MakeVector" /\ i.size \in Nat /\ MakeVector(i.size)
          \/ i.op = "Index" /\ Index
          \/ i.op = "VecPush" /\ VecPush
      BY <1>4, <1>11
    <2> QED
      BY <1>1, <1>6, <2>1, VectorEffect
  <1>12. Runs(i) \/ Fails
    BY <1>5, <1>7, <1>8, <1>9, <1>10, <1>11
  <1> QED
    BY <1>12 DEF i

-----------------------------------------------------------------------------
(* What the shapes say of the instruction that comes next. *)

LEMMA ShapeFacts ==
  ASSUME CodeIsDisciplined, CodeInv, NEW b \in DOMAIN Code \union {NoFunc}
  PROVE  Disciplined(CodeOf(b), Floor(b), ShapeOf(b))
  <1>1. CASE b = NoFunc
    <2>1. entry \in DOMAIN EntryCode /\ CodeOf(b) = EntryCode[entry] /\ Floor(b) = 0
      BY <1>1 DEF CodeInv, CodeOf, Floor
    <2> QED
      BY <2>1 DEF CodeIsDisciplined, AllDisciplined, ShapeOf
  <1>2. CASE b # NoFunc
    <2>1. b \in DOMAIN Code /\ CodeOf(b) = Code[b] /\ Floor(b) = 1
      BY <1>2 DEF CodeOf, Floor
    <2> QED
      BY <2>1 DEF CodeIsDisciplined, AllDisciplined, ShapeOf
  <1> QED
    BY <1>1, <1>2

\* There is one label of a name that resolve_labels keeps.
LEMMA TargetFacts ==
  ASSUME CodeInv, NEW l, NEW j \in DOMAIN Body, IsTarget(Body, j, l)
  PROVE  LabelsAt(l) # {} /\ LabelIndex(l) = j
  <1>1. Body \in Seq(Instruction)
    BY CodeOfFacts DEF CodeInv, Body
  <1>2. LabelsAt(l) \subseteq 1 .. Len(Body) /\ Len(Body) \in Nat
    BY <1>1 DEF LabelsAt
  <1>3. j \in LabelsAt(l) /\ \A m \in LabelsAt(l) : m <= j
    BY DEF IsTarget, LabelsAt
  <1>4. \A k \in LabelsAt(l) : (\A m \in LabelsAt(l) : m <= k) => k = j
    BY <1>2, <1>3
  <1> QED
    BY <1>3, <1>4 DEF LabelIndex

\* Code that ends leaves one value and no scope of its own.
LEMMA EndFacts ==
  ASSUME CodeIsDisciplined, CodeInv, StackInv, status = "running",
         Exhausted \/ Current.op = "Ret"
  PROVE  Len(stack) = 1 /\ Len(scopes) = Floor(block)
  <1> DEFINE shape == ShapeOf(block)
             end   == [height |-> 1, depth |-> Floor(block)]
  <1>1. Disciplined(Body, Floor(block), shape)
    BY ShapeFacts DEF CodeInv, Body
  <1>2. Body \in Seq(Instruction) /\ ip \in Nat /\ ip \in 1 .. Len(Body) + 1
    BY CodeOfFacts DEF CodeInv, ReturnsBehindCalls, Body
  <1>3. shape[ip] = end
    <2>1. CASE Exhausted
      <3>1. ip = Len(Body) + 1
        BY <1>2, <2>1 DEF Exhausted
      <3> QED
        BY <1>1, <3>1 DEF Disciplined
    <2>2. CASE ~ Exhausted /\ Current.op = "Ret"
      <3>1. ip \in DOMAIN Body
        BY <2>2, CurrentFacts
      <3> QED
        BY <1>1, <2>2, <3>1 DEF Disciplined, Current
    <2> QED
      BY <2>1, <2>2
  <1> QED
    BY <1>3 DEF StackInv, HasShape

LEMMA NextFacts ==
  ASSUME CodeIsDisciplined, CodeInv, StackInv, status = "running", ~ Exhausted
  PROVE  LET i == Current
             n == Len(stack) - Takes(i) + Gives(i)
             d == Len(scopes) + Opens(i)
         IN  /\ Takes(i) <= Len(stack)
             /\ i.op = "EndScope" => Len(scopes) > Floor(block)
             /\ i.op = "BindVar" => Len(scopes) > 0
             /\ i.op \notin {"Jump", "Ret"} => HasShape(n, d, block, ip + 1)
             /\ i.op \in {"Jump", "JumpIfFalse"} =>
                  LabelsAt(i.label) # {} /\ HasShape(n, d, block, LabelIndex(i.label))
  <1> DEFINE shape == ShapeOf(block)
             i     == Current
  <1>1. Disciplined(Body, Floor(block), shape)
    BY ShapeFacts DEF CodeInv, Body
  <1>2. ip \in DOMAIN Body /\ i = Body[ip]
    BY CurrentFacts DEF Current
  <1>3. Len(stack) = shape[ip].height /\ Len(scopes) = shape[ip].depth
    BY DEF StackInv, HasShape
  <1>4. /\ Takes(i) <= shape[ip].height
        /\ i.op = "EndScope" => shape[ip].depth > Floor(block)
        /\ i.op = "BindVar" => shape[ip].depth > 0
        /\ i.op \notin {"Jump", "Ret"} => shape[ip + 1] = After(i, shape[ip])
        /\ i.op \in {"Jump", "JumpIfFalse"} =>
             \E j \in DOMAIN Body : IsTarget(Body, j, i.label) /\ shape[j] = After(i, shape[ip])
    BY <1>1, <1>2 DEF Disciplined
  <1> HIDE DEF i
  <1>5. ASSUME NEW j, shape[j] = After(i, shape[ip])
        PROVE  HasShape(Len(stack) - Takes(i) + Gives(i), Len(scopes) + Opens(i), block, j)
    BY <1>3, <1>5 DEF HasShape, After
  <1>6. ASSUME i.op \in {"Jump", "JumpIfFalse"}
        PROVE  /\ LabelsAt(i.label) # {}
               /\ HasShape(Len(stack) - Takes(i) + Gives(i), Len(scopes) + Opens(i),
                           block, LabelIndex(i.label))
    <2>1. PICK j \in DOMAIN Body : IsTarget(Body, j, i.label) /\ shape[j] = After(i, shape[ip])
      BY <1>4, <1>6
    <2> QED
      BY <1>5, <2>1, TargetFacts
  <1>7. /\ Takes(i) <= Len(stack)
        /\ i.op = "EndScope" => Len(scopes) > Floor(block)
        /\ i.op = "BindVar" => Len(scopes) > 0
        /\ i.op \notin {"Jump", "Ret"} =>
             HasShape(Len(stack) - Takes(i) + Gives(i), Len(scopes) + Opens(i), block, ip + 1)
    BY <1>3, <1>4, <1>5
  <1> QED
    BY <1>6, <1>7 DEF i

-----------------------------------------------------------------------------
(* Where the code goes on, with which stack. *)

LEMMA SameShapes ==
  ASSUME entry' = entry
  PROVE  \A n, d, b, i : HasShape(n, d, b, i)' = HasShape(n, d, b, i)
  <1>1. \A b : ShapeOf(b)' = ShapeOf(b)
    BY DEF ShapeOf, CodeOf
  <1> QED
    BY <1>1 DEF HasShape

\* The running frame goes on at j, the suspended ones wait.
LEMMA FlowOn ==
  ASSUME StackInv, status = "running", NEW i, Runs(i), NEW j,
         entry' = entry, block' = block, ip' = j, returns' = returns, callStack' = callStack,
         HasShape(Len(stack) - Takes(i) + Gives(i), Len(scopes) + Opens(i), block, j)
  PROVE  StackInv'
  BY SameShapes DEF StackInv, Runs

LEMMA FailFlow ==
  ASSUME StackInv, Fails, entry' = entry, returns' = returns, callStack' = callStack
  PROVE  StackInv'
  BY SameShapes DEF StackInv, Fails

LEMMA StraightFlow ==
  ASSUME CodeIsDisciplined, IInv, CodeInv, StackInv, Straight \/ PrintTop
  PROVE  StackInv'
  <1> DEFINE i == Current
  <1>1. Ready /\ ~ Exhausted
    BY DEF Straight, PrintTop, At
  <1>2. status = "running" /\ scopes \in Seq(Bindings)
    BY <1>1 DEF Ready, IInv, MachineOK
  <1>3. i.op \notin {"Jump", "Ret"}
    <2>1. CASE PrintTop
      BY <2>1 DEF PrintTop, At
    <2>2. CASE Straight
      <3>1. i.op \notin Operators \/ i.op \notin {"Jump", "Ret"}
        BY OperatorsAssumption DEF PureOps, NumOps, NumFuncs, NumTests, BoolOps, AnyTests, Joins
      <3> QED
        BY <2>2, <3>1 DEF Straight, At
    <2> QED
      BY <2>1, <2>2
  <1>4. /\ Takes(i) <= Len(stack)
        /\ i.op = "EndScope" => Len(scopes) > Floor(block)
        /\ i.op = "BindVar" => Len(scopes) > 0
        /\ HasShape(Len(stack) - Takes(i) + Gives(i), Len(scopes) + Opens(i), block, ip + 1)
    BY <1>1, <1>2, <1>3, NextFacts
  <1>5. i.op \in {"BindVar", "EndScope"} => scopes # <<>>
    <2>1. Floor(block) >= 0 /\ Len(<<>>) = 0 /\ Floor(block) \in Nat
      BY DEF Floor
    <2> QED
      BY <1>2, <1>4, <2>1
  <1>6. Runs(i) \/ Fails
    BY <1>4, <1>5, StraightEffect
  <1>7. callStack' = callStack
    <2>1. DataStep
      <3>1. CASE PrintTop
        <4>1. "Print" \in Operators /\ Compute("Print")
          BY <1>1, <3>1, CurrentFacts, OperandFacts DEF PrintTop, At
        <4> QED
          BY <4>1 DEF DataStep
      <3> QED
        BY <3>1, StraightIsMachine
    <2> QED
      BY <2>1, DataStepFrames
  <1>8. entry' = entry /\ block' = block /\ ip' = ip + 1 /\ returns' = returns
    BY DEF Straight, PrintTop, Proceed
  <1> HIDE DEF i
  <1> QED
    BY <1>2, <1>4, <1>6, <1>7, <1>8, FlowOn, FailFlow

LEMMA LabelFlow ==
  ASSUME CodeIsDisciplined, IInv, CodeInv, StackInv, SkipLabel \/ JumpToLabel
  PROVE  StackInv'
  <1> DEFINE i == Current
  <1>1. Ready /\ ~ Exhausted /\ i.op \in {"Label", "Jump"}
    BY DEF SkipLabel, JumpToLabel, At
  <1>2. status = "running"
    BY <1>1 DEF Ready
  <1>3. /\ i.op = "Label" =>
             HasShape(Len(stack) - Takes(i) + Gives(i), Len(scopes) + Opens(i), block, ip + 1)
        /\ i.op = "Jump" =>
             /\ LabelsAt(i.label) # {}
             /\ HasShape(Len(stack) - Takes(i) + Gives(i), Len(scopes) + Opens(i),
                         block, LabelIndex(i.label))
    BY <1>1, <1>2, NextFacts
  <1>4. PICK j : /\ UNCHANGED vars /\ Proceed(j)
                 /\ \/ i.op = "Label" /\ j = ip + 1
                    \/ i.op = "Jump" /\ j = LabelIndex(i.label)
    BY <1>1, <1>3 DEF SkipLabel, JumpToLabel, At
  <1>5. HasShape(Len(stack) - Takes(i) + Gives(i), Len(scopes) + Opens(i), block, j)
    BY <1>3, <1>4
  <1> HIDE DEF i
  <1>6. Takes(i) = 0 /\ Gives(i) = 0 /\ Opens(i) = 0
    BY <1>1, EffectFacts
  <1>7. Len(stack) \in Nat /\ Len(scopes) \in Nat
    <2>1. stack \in Seq(Value) /\ scopes \in Seq(Bindings)
      BY DEF IInv, MachineOK
    <2> QED
      BY <2>1
  <1>8. Runs(i)
    BY <1>4, <1>6, <1>7 DEF vars, Runs
  <1> QED
    BY <1>2, <1>4, <1>5, <1>8, FlowOn DEF Proceed, vars

LEMMA BranchFlow ==
  ASSUME CodeIsDisciplined, IInv, CodeInv, StackInv, Branch
  PROVE  StackInv'
  <1> DEFINE i     == Current
             found == LabelsAt(i.label) # {}
             taken == Accepted(<<"bool">>) /\ ~ IsTrue(Top(0))
             j     == IF taken /\ found THEN LabelIndex(i.label) ELSE ip + 1
  <1>1. Ready /\ ~ Exhausted /\ i.op = "JumpIfFalse"
    BY DEF Branch, At
  <1>2. status = "running" /\ stack \in Seq(Value) /\ Len(scopes) \in Nat
    <2>1. scopes \in Seq(Bindings)
      BY DEF IInv, MachineOK
    <2> QED
      BY <1>1, <2>1 DEF Ready, IInv, MachineOK
  <1>3. Takes(i) = 1 /\ Gives(i) = 0 /\ Opens(i) = 0
    BY <1>1, EffectFacts
  <1>4. /\ Takes(i) <= Len(stack) /\ found
        /\ HasShape(Len(stack) - Takes(i) + Gives(i), Len(scopes) + Opens(i), block, ip + 1)
        /\ HasShape(Len(stack) - Takes(i) + Gives(i), Len(scopes) + Opens(i),
                    block, LabelIndex(i.label))
    BY <1>1, <1>2, NextFacts
  <1>5. /\ JumpIfFalse /\ Proceed(j)
        /\ Accepted(<<"bool">>) => ~ (status' = "unwinding")
    BY <1>4 DEF Branch
  <1>6. HasShape(Len(stack) - Takes(i) + Gives(i), Len(scopes) + Opens(i), block, j)
    BY <1>4
  <1> HIDE DEF i, j, taken, found
  <1>7. 1 \in 0 .. Len(stack)
    BY <1>2, <1>3, <1>4
  <1>8. SetStack(Popped(1)) \/ FailOperands(<<"bool">>)
    BY <1>5 DEF JumpIfFalse, FailAfter, Fail
  <1>9. callStack' = callStack
    BY <1>8 DEF SetStack, FailOperands, Fail
  <1>10. Runs(i) \/ Fails
    <2>1. CASE SetStack(Popped(1))
      BY <1>2, <1>3, <1>7, <2>1, StackRuns
    <2>2. CASE FailOperands(<<"bool">>)
      <3>1. <<"bool">> \in Seq(Kind) /\ Len(<<"bool">>) <= Len(stack)
        BY <1>7, KindCounts
      <3> QED
        BY <1>2, <2>2, <3>1, EnoughOperands
    <2> QED
      BY <1>8, <2>1, <2>2
  <1> QED
    BY <1>2, <1>5, <1>6, <1>9, <1>10, FlowOn, FailFlow DEF Proceed

\* A call suspends the caller in the shape it will need when it gets its value;
\* the callee starts with an empty stack and the scope of its parameters.
LEMMA EnterFlow ==
  ASSUME CodeIsDisciplined, IInv, CodeInv, StackInv, status = "running",
         NEW n \in 0 .. Len(stack), NEW fn, NEW args, Enter(n, fn, args), EnterOrProceed(fn),
         HasShape(Len(stack) - n + 1, Len(scopes), block, ip + 1)
  PROVE  StackInv'
  <1>1. stack \in Seq(Value) /\ callStack \in Seq(Frame)
    BY DEF IInv, MachineOK
  <1>2. Len(callStack) \in Nat /\ Len(stack) \in Nat
    BY <1>1
  <1>3. CASE \E e \in {"StackOverflow", "UndefinedFunction"} : Fail(n, e)
    <2>1. Fails /\ callStack' = callStack
      BY <1>3, OtherError DEF Fail, Broken
    <2>2. Proceed(ip + 1)
      BY <1>2, <2>1 DEF EnterOrProceed
    <2> QED
      BY <2>1, <2>2, FailFlow DEF Proceed
  <1>4. CASE /\ fn \in DOMAIN Params
             /\ callStack' = Append(callStack, [stack |-> Popped(n), scopes |-> scopes])
             /\ stack' = <<>>
             /\ scopes' = <<Bound(Params[fn], args)>>
             /\ UNCHANGED <<status, error, heapVars>>
    <2> DEFINE fr == [stack |-> Popped(n), scopes |-> scopes]
               a  == [block |-> block, ip |-> ip + 1]
               m  == Len(returns)
    <2>1. fr.stack = Popped(n) /\ fr.scopes = scopes /\ a.block = block /\ a.ip = ip + 1
      OBVIOUS
    <2>2. callStack' = Append(callStack, fr)
      BY <1>4
    <2>3. Len(callStack') > Len(callStack)
      BY <1>1, <1>2, <2>2
    <2>4. returns' = Append(returns, a) /\ block' = fn /\ ip' = 1 /\ entry' = entry
      BY <2>3 DEF EnterOrProceed
    <2>5. m \in Nat /\ Len(callStack) = m /\ returns \in Seq(Address) /\ DOMAIN returns = 1 .. m
      BY ReturnsFacts DEF CodeInv, ReturnsBehindCalls
    <2> HIDE DEF fr, a
    <2>6. /\ \A k \in 1 .. m : callStack'[k] = callStack[k] /\ returns'[k] = returns[k]
          /\ callStack'[m + 1] = fr /\ returns'[m + 1] = a
          /\ DOMAIN returns' = 1 .. m + 1
      BY <1>1, <2>2, <2>4, <2>5
    <2>7. Len(fr.stack) + 1 = Len(stack) - n + 1
      <3>1. Len(Popped(n)) = Len(stack) - n
        BY <1>1, PoppedFacts
      <3> QED
        BY <1>2, <2>1, <3>1
    <2>8. HasShape(Len(fr.stack) + 1, Len(fr.scopes), a.block, a.ip)
      BY <2>1, <2>7
    <2>9. \A k \in DOMAIN returns' :
            HasShape(Len(callStack'[k].stack) + 1, Len(callStack'[k].scopes),
                     returns'[k].block, returns'[k].ip)
      <3> SUFFICES ASSUME NEW k \in 1 .. m + 1
                   PROVE  HasShape(Len(callStack'[k].stack) + 1, Len(callStack'[k].scopes),
                                   returns'[k].block, returns'[k].ip)
        BY <2>6
      <3>1. CASE k = m + 1
        BY <2>6, <2>8, <3>1
      <3>2. CASE k \in 1 .. m
        BY <2>5, <2>6, <3>2 DEF StackInv
      <3> QED
        BY <2>5, <3>1, <3>2
    <2>10. HasShape(0, 1, fn, 1)
      <3>1. fn \in DOMAIN Code /\ fn # NoFunc
        BY <1>4, CodeAssumption
      <3>2. Disciplined(CodeOf(fn), Floor(fn), ShapeOf(fn)) /\ Floor(fn) = 1
        BY <3>1, ShapeFacts DEF Floor
      <3> QED
        BY <3>2 DEF Disciplined, HasShape
    <2>11. Len(stack') = 0 /\ Len(scopes') = 1
      BY <1>4
    <2>12. HasShape(Len(stack), Len(scopes), block, ip)'
      BY <2>4, <2>10, <2>11, SameShapes DEF HasShape
    <2>13. error' = error /\ status' = status
      BY <1>4
    <2> QED
      BY <2>4, <2>9, <2>12, <2>13, SameShapes DEF StackInv
  <1> QED
    BY <1>3, <1>4 DEF Enter

\* A call that fails before it enters the callee, or is the identity.
LEMMA NoCallFlow ==
  ASSUME StackInv, status = "running", callStack \in Seq(Frame), NEW i, Runs(i) \/ Fails,
         callStack' = callStack, NEW fn, EnterOrProceed(fn),
         HasShape(Len(stack) - Takes(i) + Gives(i), Len(scopes) + Opens(i), block, ip + 1)
  PROVE  StackInv'
  <1>1. Len(callStack) \in Nat
    OBVIOUS
  <1>2. Proceed(ip + 1)
    BY <1>1 DEF EnterOrProceed
  <1> QED
    BY <1>2, FlowOn, FailFlow DEF Proceed

LEMMA CallFlow ==
  ASSUME CodeIsDisciplined, IInv, CodeInv, StackInv, CallFunction \/ CallVirtual \/ CallParent
  PROVE  StackInv'
  <1> DEFINE i == Current
  <1>1. Ready /\ ~ Exhausted /\ i.op \in CallOps
    BY DEF CallFunction, CallVirtual, CallParent, At, CallOps
  <1>2. /\ status = "running" /\ stack \in Seq(Value) /\ callStack \in Seq(Frame)
        /\ Len(stack) \in Nat /\ Len(scopes) \in Nat
    <2>1. stack \in Seq(Value) /\ callStack \in Seq(Frame) /\ scopes \in Seq(Bindings)
      BY DEF IInv, MachineOK
    <2> QED
      BY <1>1, <2>1 DEF Ready
  <1>3. i.argc \in Nat
    <2>1. i \in Instruction
      BY <1>1, CurrentFacts
    <2>2. i.argc \in 0 .. MaxArgs
      BY <1>1, <2>1, OperandFacts DEF CallOps
    <2> QED
      BY <2>2, BoundsAssumption
  <1>4. /\ Takes(i) <= Len(stack)
        /\ HasShape(Len(stack) - Takes(i) + Gives(i), Len(scopes) + Opens(i), block, ip + 1)
    BY <1>1, <1>2, NextFacts DEF CallOps
  <1>5. /\ i.op = "Call" => Takes(i) = i.argc
        /\ i.op \in {"CallMethod", "CallBase"} => Takes(i) = i.argc + 1
        /\ Gives(i) = 1 /\ Opens(i) = 0
    BY <1>1, EffectFacts DEF CallOps
  <1>6. \/ i.op = "Call" /\ Call(i.fn, i.argc) /\ EnterOrProceed(i.fn)
        \/ i.op = "CallMethod" /\ CallMethod(i.method, i.argc)
             /\ EnterOrProceed(ResolveMethod(slots[Receiver].type, i.method))
        \/ i.op = "CallBase" /\ CallBase(i.type, i.method, i.argc)
             /\ EnterOrProceed(ResolveMethod(i.type, i.method))
    BY DEF CallFunction, CallVirtual, CallParent, At
  <1> HIDE DEF i
  <1>7. Takes(i) \in 0 .. Len(stack)
    BY <1>1, <1>2, <1>3, <1>4, <1>5 DEF CallOps
  <1>8. HasShape(Len(stack) - Takes(i) + 1, Len(scopes), block, ip + 1)
    BY <1>2, <1>4, <1>5
  <1>9. ASSUME NEW fn, EnterOrProceed(fn), NEW args, Enter(Takes(i), fn, args) PROVE StackInv'
    BY <1>2, <1>7, <1>8, <1>9, EnterFlow
  <1>10. ASSUME NEW fn, EnterOrProceed(fn),
                NEW kinds \in Seq(Kind), Len(kinds) = Takes(i), FailOperands(kinds)
         PROVE  StackInv'
    <2>1. Fails
      BY <1>2, <1>4, <1>10, EnoughOperands
    <2>2. callStack' = callStack
      BY <1>10 DEF FailOperands, Fail
    <2> QED
      BY <1>2, <1>4, <1>10, <2>1, <2>2, NoCallFlow
  <1>11. ASSUME NEW fn, EnterOrProceed(fn), Takes(i) = i.argc + 1, Dispatch(fn, i.argc)
         PROVE  StackInv'
    <2>1. CASE \E args : Enter(i.argc + 1, fn, args)
      BY <1>9, <1>11, <2>1
    <2>2. CASE Fail(i.argc + 1, "UndefinedMethod")
      <3>1. Fails /\ callStack' = callStack
        BY <2>2, OtherError DEF Fail, Broken
      <3> QED
        BY <1>2, <1>4, <1>11, <3>1, NoCallFlow
    <2> QED
      BY <1>11, <2>1, <2>2 DEF Dispatch
  <1>12. AnyKinds(i.argc) \in Seq(Kind) /\ Len(AnyKinds(i.argc)) = i.argc
    BY <1>3, KindsFacts
  <1>13. /\ <<"object">> \o AnyKinds(i.argc) \in Seq(Kind)
         /\ Len(<<"object">> \o AnyKinds(i.argc)) = i.argc + 1
    <2>1. <<"object">> \in Seq(Kind) /\ Len(<<"object">>) = 1
      BY KindCounts
    <2> QED
      BY <1>3, <1>12, <2>1
  <1>14. ASSUME i.op = "Call", Call(i.fn, i.argc), EnterOrProceed(i.fn) PROVE StackInv'
    <2>1. \/ \E args : Enter(i.argc, i.fn, args)
          \/ FailOperands(AnyKinds(i.argc))
      BY <1>14 DEF Call
    <2> QED
      BY <1>5, <1>9, <1>10, <1>12, <1>14, <2>1
  <1>15. ASSUME i.op = "CallBase", CallBase(i.type, i.method, i.argc),
                EnterOrProceed(ResolveMethod(i.type, i.method))
         PROVE  StackInv'
    <2>1. \/ Dispatch(ResolveMethod(i.type, i.method), i.argc)
          \/ FailOperands(<<"object">> \o AnyKinds(i.argc))
      BY <1>15 DEF CallBase
    <2> QED
      BY <1>5, <1>10, <1>11, <1>13, <1>15, <2>1
  <1>16. ASSUME i.op = "CallMethod", CallMethod(i.method, i.argc),
                EnterOrProceed(ResolveMethod(slots[Receiver].type, i.method))
         PROVE  StackInv'
    <2> DEFINE fn == ResolveMethod(slots[Receiver].type, i.method)
    <2>1. \/ i.argc = 0 /\ SetStack(Push(1, Top(0)))
          \/ Dispatch(fn, i.argc)
          \/ FailOperands(<<"object">> \o AnyKinds(i.argc))
      BY <1>16 DEF CallMethod
    <2>2. EnterOrProceed(fn)
      BY <1>16
    <2> HIDE DEF fn
    <2>3. ASSUME i.argc = 0, SetStack(Push(1, Top(0))) PROVE StackInv'
      <3>1. Takes(i) = 1 /\ 1 \in 0 .. Len(stack)
        BY <1>5, <1>7, <1>16, <2>3
      <3>2. Runs(i)
        BY <1>2, <1>5, <2>3, <3>1, StackRuns
      <3>3. callStack' = callStack
        BY <2>3 DEF SetStack
      <3> QED
        BY <1>2, <1>4, <2>2, <3>2, <3>3, NoCallFlow
    <2> QED
      BY <1>5, <1>10, <1>11, <1>13, <1>16, <2>1, <2>2, <2>3
  <1> QED
    BY <1>6, <1>14, <1>15, <1>16

\* The caller has the shape it was suspended for; a program that is done, that of
\* its end.
LEMMA LeaveFlow ==
  ASSUME CodeIsDisciplined, IInv, CodeInv, StackInv,
         LeaveCode \/ (Unwind /\ ResumeCaller)
  PROVE  StackInv'
  <1> DEFINE m == Len(returns)
  <1>1. /\ callStack \in Seq(Frame) /\ returns \in Seq(Address)
        /\ m \in Nat /\ Len(callStack) = m /\ DOMAIN returns = 1 .. m
        /\ (block = NoFunc) = (returns = <<>>)
    BY ReturnsFacts DEF IInv, MachineOK, CodeInv, ReturnsBehindCalls
  <1>2. ResumeCaller
    BY DEF LeaveCode
  <1>3. CASE LeaveFrame /\ status' = status
    <2>1. callStack # <<>> /\ returns # <<>> /\ m \in 1 .. m
      <3>1. callStack # <<>>
        BY <1>3 DEF LeaveFrame
      <3>2. m # 0
        BY <1>1, <3>1, EmptyFacts
      <3> QED
        BY <1>1, <3>1, <3>2, EmptyFacts
    <2>2. /\ block' = returns[m].block /\ ip' = returns[m].ip /\ entry' = entry
          /\ returns' = SubSeq(returns, 1, m - 1)
      BY <1>2, <2>1 DEF ResumeCaller
    <2>3. DOMAIN returns' = 1 .. m - 1 /\ \A k \in 1 .. m - 1 : returns'[k] = returns[k]
      BY <1>1, <2>1, <2>2, ShorterFacts
    <2>4. /\ callStack' = SubSeq(callStack, 1, m - 1) /\ error' = error
          /\ stack' = Append(callStack[m].stack, ReturnValue) /\ scopes' = callStack[m].scopes
      BY <1>1, <1>3 DEF LeaveFrame, Suspended
    <2>5. \A k \in 1 .. m - 1 : callStack'[k] = callStack[k]
      BY <1>1, <2>1, <2>4, ShorterFacts
    <2>6. Len(stack') = Len(callStack[m].stack) + 1
      <3>1. callStack[m].stack \in Seq(Value)
        <4>1. callStack[m] \in Frame
          BY <1>1, <2>1
        <4> QED
          BY <4>1 DEF Frame
      <3> QED
        BY <2>4, <3>1
    <2>7. HasShape(Len(stack), Len(scopes), block, ip)'
      <3>1. HasShape(Len(callStack[m].stack) + 1, Len(callStack[m].scopes),
                     returns[m].block, returns[m].ip)
        BY <1>1, <2>1 DEF StackInv
      <3> QED
        BY <2>2, <2>4, <2>6, <3>1, SameShapes DEF HasShape
    <2>8. \A k \in 1 .. m - 1 :
            HasShape(Len(callStack'[k].stack) + 1, Len(callStack'[k].scopes),
                     returns'[k].block, returns'[k].ip)
      <3> SUFFICES ASSUME NEW k \in 1 .. m - 1
                   PROVE  HasShape(Len(callStack[k].stack) + 1, Len(callStack[k].scopes),
                                   returns[k].block, returns[k].ip)
        BY <2>3, <2>5
      <3>1. k \in DOMAIN returns
        BY <1>1
      <3> QED
        BY <3>1 DEF StackInv
    <2>9. status' # "done"
      BY <1>3 DEF LeaveCode, Return, Unwind, Ready
    <2> QED
      BY <2>2, <2>3, <2>4, <2>7, <2>8, <2>9, SameShapes DEF StackInv
  <1>4. CASE callStack = <<>> /\ UNCHANGED <<stack, scopes, callStack, error, heapVars>>
    <2>1. returns = <<>> /\ block = NoFunc
      <3>1. m = 0
        BY <1>1, <1>4, EmptyFacts
      <3> QED
        BY <1>1, <3>1, EmptyFacts
    <2>2. entry' = entry /\ returns' = returns
      BY <1>2, <2>1 DEF ResumeCaller
    <2>3. CASE LeaveCode /\ status' = "done"
      <3>1. status = "running" /\ (Exhausted \/ Current.op = "Ret")
        BY <2>3 DEF LeaveCode, Return, Ready, At
      <3>2. Len(stack) = 1 /\ Len(scopes) = 0
        BY <2>1, <3>1, EndFacts DEF Floor
      <3>3. scopes = <<>>
        <4>1. scopes \in Seq(Bindings)
          BY DEF IInv, MachineOK
        <4> QED
          BY <3>2, <4>1, EmptyFacts
      <3> QED
        BY <1>4, <2>2, <2>3, <3>2, <3>3, SameShapes DEF StackInv
    <2>4. CASE status' = "failed"
      BY <1>4, <2>2, <2>4, SameShapes DEF StackInv
    <2>5. (LeaveCode /\ status' = "done") \/ status' = "failed"
      <3>1. ~ LeaveFrame
        BY <1>4 DEF LeaveFrame
      <3> QED
        BY <3>1 DEF LeaveCode, Return, Unwind
    <2> QED
      BY <2>3, <2>4, <2>5
  <1> QED
    BY <1>3, <1>4 DEF LeaveCode, Return, Unwind

LEMMA StackStepInv ==
  ASSUME CodeIsDisciplined, IInv, CodeInv, StackInv, [CodeNext]_allVars
  PROVE  StackInv'
  <1>1. ASSUME UNCHANGED <<machineVars, codeVars>> PROVE StackInv'
    <2>1. UNCHANGED <<stack, scopes, callStack, status, error, entry, block, ip, returns>>
      BY <1>1 DEF machineVars, codeVars
    <2> QED
      BY <2>1, SameShapes DEF StackInv
  <1>2. CASE UNCHANGED allVars
    BY <1>1, <1>2 DEF allVars, machineVars, codeVars
  <1>3. CASE (Collect \/ ForceGc) /\ UNCHANGED codeVars
    BY <1>1, <1>3 DEF Collect, ForceGc
  <1> QED
    BY <1>2, <1>3, StraightFlow, LabelFlow, BranchFlow, CallFlow, LeaveFlow
    DEF CodeNext, Run, Execute

LEMMA StackInitInv ==
  ASSUME CodeIsDisciplined, CodeInit
  PROVE  StackInv
  <1>1. /\ stack = <<>> /\ scopes = <<>> /\ status = "running" /\ error = "none"
        /\ block = NoFunc /\ ip = 1 /\ returns = <<>>
    BY DEF CodeInit, Init
  <1>2. HasShape(0, 0, NoFunc, 1)
    <2>1. Disciplined(CodeOf(NoFunc), Floor(NoFunc), ShapeOf(NoFunc)) /\ Floor(NoFunc) = 0
      BY CodeInitInv, ShapeFacts DEF Floor
    <2> QED
      BY <2>1 DEF Disciplined, HasShape
  <1> QED
    BY <1>1, <1>2 DEF StackInv, Broken

-----------------------------------------------------------------------------
(* Theorems. *)

\* The inductive invariant. That the operands of an instruction are there needs the
\* shapes, that they are values the machine's invariant, and that the shapes are
\* those of the code that runs the invariant of instruction pointers and returns.
THEOREM StackInvariant ==
  ASSUME CodeIsDisciplined
  PROVE  CodeSpec => [](IInv /\ CodeInv /\ StackInv)
  <1>1. CodeInit => StackInv
    BY StackInitInv
  <1>2. IInv /\ CodeInv /\ StackInv /\ [CodeNext]_allVars => StackInv'
    BY StackStepInv
  <1> QED
    BY <1>1, <1>2, CodeInvariant, PTL DEF CodeSpec

\* In every disciplined program an instruction always finds as many values and scopes
\* as the shape of its code says, by whichever way the code came to it.
THEOREM AllWaysAgree ==
  ASSUME CodeIsDisciplined
  PROVE  CodeSpec => []WaysAgree
  <1>1. StackInv => WaysAgree
    BY DEF StackInv, WaysAgree
  <1> QED
    BY <1>1, StackInvariant, PTL

\* In every disciplined program every function, method and constructor that ends
\* leaves exactly one value for its caller and has closed the scopes it opened, and
\* so does the program. None ever finds its stack too short, misses a label or closes
\* a scope that is not its own, whatever its values are and wherever it fails.
THEOREM ContractIsKept ==
  ASSUME CodeIsDisciplined
  PROVE  CodeSpec => []KeepsContract
  <1>1. CodeInv /\ StackInv => LeavesOneValue
    BY EndFacts DEF LeavesOneValue, StackInv, Ready
  <1>2. IInv /\ CodeInv /\ StackInv => NeverUnderflows
    <2> SUFFICES ASSUME IInv, CodeInv, StackInv PROVE NeverUnderflows
      OBVIOUS
    <2>1. error \notin {"StackUnderflow", "UndefinedLabel"}
      BY DEF StackInv, Broken
    <2>2. ASSUME At({"BindVar"}) PROVE scopes # <<>>
      <3>1. Len(scopes) > 0
        BY <2>2, NextFacts DEF At, Ready
      <3> QED
        BY <3>1
    <2>3. ASSUME At({"EndScope"}) PROVE Len(scopes) > Floor(block)
      BY <2>3, NextFacts DEF At, Ready
    <2> QED
      BY <2>1, <2>2, <2>3 DEF NeverUnderflows
  <1>3. IInv /\ CodeInv /\ StackInv => KeepsContract
    BY <1>1, <1>2 DEF KeepsContract
  <1> QED
    BY <1>3, StackInvariant, PTL
=============================================================================
