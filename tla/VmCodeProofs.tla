---------------------------- MODULE VmCodeProofs ----------------------------
(***************************************************************************)
(* Theorems about VmCode, for every program: running code never leaves the *)
(* machine of Vm, so what VmProofs proves of any sequence of instructions  *)
(* holds of every program, and the instruction pointers, of the frame that *)
(* runs and of those that wait, never leave their code.                    *)
(***************************************************************************)
EXTENDS VmCode, VmProofs

Address == [block : DOMAIN Code \union {NoFunc}, ip : Nat]

\* The inductive invariant of the variables VmCode adds. ReturnsBehindCalls needs
\* the types to speak of instructions, and the machine's callStack to count.
CodeInv ==
  /\ entry \in DOMAIN EntryCode
  /\ block \in DOMAIN Code \union {NoFunc}
  /\ ip \in Nat
  /\ returns \in Seq(Address)
  /\ ReturnsBehindCalls

-----------------------------------------------------------------------------
(* Code. *)

LEMMA CodeOfFacts ==
  ASSUME CodeInv, NEW b \in DOMAIN Code \union {NoFunc}
  PROVE  CodeOf(b) \in Seq(Instruction)
  BY CodeAssumption DEF CodeInv, CodeOf

\* What runs next is an instruction, with operands of its kind.
LEMMA CurrentFacts ==
  ASSUME CodeInv, ~ Exhausted
  PROVE  /\ Current \in Instruction
         /\ Len(Body) \in Nat /\ DOMAIN Body = 1 .. Len(Body)
         /\ ip \in 1 .. Len(Body)
  <1>1. Body \in Seq(Instruction)
    BY CodeOfFacts DEF CodeInv, Body
  <1>2. Len(Body) \in Nat /\ ip \in Nat /\ ip \in 1 .. Len(Body) + 1 /\ ~ (ip > Len(Body))
    BY <1>1 DEF CodeInv, ReturnsBehindCalls, Exhausted
  <1>3. ip \in 1 .. Len(Body) /\ DOMAIN Body = 1 .. Len(Body)
    BY <1>1, <1>2
  <1> QED
    BY <1>1, <1>2, <1>3 DEF Current

LEMMA OperandFacts ==
  ASSUME NEW i \in Instruction
  PROVE  /\ i.op = "Print" => "Print" \in Operators
         /\ i.op = "Literal" => i.val \in Literals
         /\ i.op \in {"LoadVar", "StoreVar", "BindVar"} => i.name \in VarName
         /\ i.op = "NewObject" => i.type \in TypeName
         /\ i.op \in {"GetField", "SetField"} => i.field \in FieldName
         /\ i.op \in {"IsType", "AsType"} => i.type \in Targets
         /\ i.op = "MakeVector" => i.size \in 0 .. MaxArgs
         /\ i.op = "Call" => i.fn \in FuncName /\ i.argc \in 0 .. MaxArgs
         /\ i.op = "CallMethod" => i.method \in MethodName /\ i.argc \in 0 .. MaxArgs
         /\ i.op = "CallBase" =>
              i.type \in TypeName /\ i.method \in MethodName /\ i.argc \in 0 .. MaxArgs
  BY OperatorsAssumption
  DEF Instruction, PureOps, NumOps, NumFuncs, NumTests, BoolOps, AnyTests, Joins

\* A label that exists is in the code.
LEMMA LabelFacts ==
  ASSUME CodeInv, NEW l, LabelsAt(l) # {}
  PROVE  LabelIndex(l) \in 1 .. Len(Body)
  <1>1. Body \in Seq(Instruction)
    BY CodeOfFacts DEF CodeInv, Body
  <1>2. Len(Body) \in Nat /\ LabelsAt(l) \subseteq 1 .. Len(Body)
    BY <1>1 DEF LabelsAt
  <1>3. \E i \in LabelsAt(l) : \A j \in LabelsAt(l) : j <= i
    BY <1>2, NatMax
  <1> QED
    BY <1>2, <1>3 DEF LabelIndex

-----------------------------------------------------------------------------
(* A step of the code is a step of the machine. *)

LEMMA StraightIsMachine ==
  ASSUME CodeInv, Straight
  PROVE  DataStep
  <1>1. ~ Exhausted
    BY DEF Straight, At
  <1> DEFINE i == Current
  <1>2. i \in Instruction
    BY <1>1, CurrentFacts
  <1>3. /\ i.op = "Literal" => i.val \in Literals
        /\ i.op \in {"LoadVar", "StoreVar", "BindVar"} => i.name \in VarName
        /\ i.op = "NewObject" => i.type \in TypeName
        /\ i.op \in {"GetField", "SetField"} => i.field \in FieldName
        /\ i.op \in {"IsType", "AsType"} => i.type \in Targets
        /\ i.op = "MakeVector" => i.size \in 0 .. MaxArgs
    BY <1>2, OperandFacts
  <1>4. \/ i.op \in Operators /\ Compute(i.op)
        \/ i.op = "Literal" /\ PushLiteral(i.val)
        \/ \E v \in RandValues : PushLiteral(v)
        \/ Pop \/ Dup \/ BeginScope \/ EndScope \/ Index \/ VecPush
        \/ i.op = "LoadVar" /\ LoadVar(i.name)
        \/ i.op = "StoreVar" /\ StoreVar(i.name)
        \/ i.op = "BindVar" /\ BindVar(i.name)
        \/ i.op = "NewObject" /\ NewObject(i.type)
        \/ i.op = "GetField" /\ GetField(i.field)
        \/ i.op = "SetField" /\ SetField(i.field)
        \/ i.op = "IsType" /\ IsType(i.type)
        \/ i.op = "AsType" /\ AsType(i.type)
        \/ i.op = "MakeVector" /\ MakeVector(i.size)
    BY DEF Straight, At
  <1> HIDE DEF i
  <1>5. RandValues \subseteq Literals
    BY CodeAssumption
  <1> QED
    BY <1>3, <1>4, <1>5 DEF DataStep

LEMMA CallIsMachine ==
  ASSUME CodeInv, CallFunction \/ CallVirtual \/ CallParent
  PROVE  CallStep
  <1>1. ~ Exhausted
    BY DEF CallFunction, CallVirtual, CallParent, At
  <1> DEFINE i == Current
  <1>2. i \in Instruction
    BY <1>1, CurrentFacts
  <1>3. /\ i.op = "Call" => i.fn \in FuncName /\ i.argc \in 0 .. MaxArgs
        /\ i.op = "CallMethod" => i.method \in MethodName /\ i.argc \in 0 .. MaxArgs
        /\ i.op = "CallBase" =>
             i.type \in TypeName /\ i.method \in MethodName /\ i.argc \in 0 .. MaxArgs
    BY <1>2, OperandFacts
  <1>4. \/ i.op = "Call" /\ Call(i.fn, i.argc)
        \/ i.op = "CallMethod" /\ CallMethod(i.method, i.argc)
        \/ i.op = "CallBase" /\ CallBase(i.type, i.method, i.argc)
    BY DEF CallFunction, CallVirtual, CallParent, At
  <1> HIDE DEF i
  <1> QED
    BY <1>3, <1>4 DEF CallStep

LEMMA StepIsMachine ==
  ASSUME CodeInv, [CodeNext]_allVars
  PROVE  [Next]_vars
  <1>1. CASE UNCHANGED allVars \/ SkipLabel
    BY <1>1 DEF allVars, SkipLabel, vars
  <1>2. CASE Straight
    BY <1>2, StraightIsMachine DEF Next
  <1>3. CASE PrintTop
    <2>1. Current.op = "Print" /\ ~ Exhausted /\ Compute("Print")
      BY <1>3 DEF PrintTop, At
    <2>2. "Print" \in Operators
      BY <2>1, CurrentFacts, OperandFacts
    <2>3. DataStep
      BY <2>1, <2>2 DEF DataStep
    <2> QED
      BY <2>3 DEF Next
  <1>4. CASE JumpToLabel \/ Branch
    <2>1. UNCHANGED vars \/ Jump \/ JumpIfFalse
      BY <1>4 DEF JumpToLabel, Branch
    <2> QED
      BY <2>1 DEF Next, DataStep
  <1>5. CASE CallFunction \/ CallVirtual \/ CallParent
    BY <1>5, CallIsMachine DEF Next
  <1>6. CASE LeaveCode \/ (Unwind /\ ResumeCaller) \/ (Collect /\ UNCHANGED codeVars)
               \/ (ForceGc /\ UNCHANGED codeVars)
    BY <1>6 DEF LeaveCode, Next
  <1> QED
    BY <1>1, <1>2, <1>3, <1>4, <1>5, <1>6 DEF CodeNext, Run, Execute
-----------------------------------------------------------------------------
(* The instruction pointers stay in their code. *)

\* The frames below the first return address are those of the machine.
LEMMA ReturnsFacts ==
  ASSUME CodeInv
  PROVE  Len(returns) \in Nat /\ DOMAIN returns = 1 .. Len(returns)
  BY DEF CodeInv

LEMMA ProceedInv ==
  ASSUME CodeInv, NEW i \in 1 .. Len(Body) + 1, Proceed(i), Len(callStack') = Len(callStack)
  PROVE  CodeInv'
  <1>1. Body \in Seq(Instruction)
    BY CodeOfFacts DEF CodeInv, Body
  <1>2. Len(Body) \in Nat /\ i \in Nat
    BY <1>1
  <1>3. UNCHANGED <<entry, block, returns>> /\ ip' = i
    BY DEF Proceed
  <1>4. Body' = Body /\ \A b : CodeOf(b)' = CodeOf(b)
    BY <1>3 DEF Body, CodeOf
  <1> QED
    BY <1>2, <1>3, <1>4 DEF CodeInv, ReturnsBehindCalls

\* A call that enters a function suspends the code behind it.
LEMMA EnterInv ==
  ASSUME CodeInv, ~ Exhausted, Current.op \in CallOps, NEW fn,
         EnterOrProceed(fn), callStack \in Seq(Frame),
         \/ UNCHANGED callStack
         \/ fn \in DOMAIN Params /\ Len(callStack') = Len(callStack) + 1
  PROVE  CodeInv'
  <1>1. Len(callStack) \in Nat
    OBVIOUS
  <1>2. Len(Body) \in Nat /\ ip \in 1 .. Len(Body)
    BY CurrentFacts
  <1>3. CASE UNCHANGED callStack
    <2>1. Proceed(ip + 1) /\ ip + 1 \in 1 .. Len(Body) + 1
      BY <1>1, <1>2, <1>3 DEF EnterOrProceed
    <2> QED
      BY <1>3, <2>1, ProceedInv
  <1>4. CASE fn \in DOMAIN Params /\ Len(callStack') = Len(callStack) + 1
    <2> DEFINE a == [block |-> block, ip |-> ip + 1]
    <2>1. returns' = Append(returns, a) /\ block' = fn /\ ip' = 1 /\ entry' = entry
      BY <1>1, <1>4 DEF EnterOrProceed
    <2>2. fn \in DOMAIN Code /\ fn # NoFunc
      BY <1>4, CodeAssumption
    <2>3. a \in Address /\ a.block = block /\ a.ip = ip + 1
      BY <1>2 DEF CodeInv, Address
    <2> HIDE DEF a
    <2>4. /\ returns' \in Seq(Address) /\ Len(returns') = Len(returns) + 1 /\ returns' # <<>>
          /\ DOMAIN returns' = 1 .. Len(returns) + 1
          /\ \A k \in 1 .. Len(returns) : returns'[k] = returns[k]
          /\ returns'[Len(returns) + 1] = a
      BY <2>1, <2>3, ReturnsFacts DEF CodeInv
    <2>5. \A b : CodeOf(b)' = CodeOf(b)
      BY <2>1 DEF CodeOf
    <2>6. CodeOf(fn) \in Seq(Instruction)
      BY <2>2, CodeOfFacts
    <2>7. Body' = CodeOf(fn) /\ Len(Body') \in Nat
      BY <2>1, <2>5, <2>6 DEF Body
    <2>8. /\ a.ip \in 2 .. Len(CodeOf(a.block)) + 1
          /\ CodeOf(a.block)[a.ip - 1].op \in CallOps
      <3>1. CodeOf(a.block) = Body /\ a.ip - 1 = ip
        BY <1>2, <2>3 DEF Body
      <3> QED
        BY <1>2, <2>3, <3>1 DEF Current
    <2>9. (a.block = NoFunc) = (Len(returns) + 1 = 1)
      <3>1. (returns = <<>>) = (Len(returns) = 0)
        BY DEF CodeInv
      <3> QED
        BY <2>3, <3>1, ReturnsFacts DEF CodeInv, ReturnsBehindCalls
    <2>10. \A k \in DOMAIN returns' :
             /\ (returns'[k].block = NoFunc) = (k = 1)
             /\ returns'[k].ip \in 2 .. Len(CodeOf(returns'[k].block)) + 1
             /\ CodeOf(returns'[k].block)[returns'[k].ip - 1].op \in CallOps
      <3> SUFFICES ASSUME NEW k \in 1 .. Len(returns) + 1
                   PROVE /\ (returns'[k].block = NoFunc) = (k = 1)
                         /\ returns'[k].ip \in 2 .. Len(CodeOf(returns'[k].block)) + 1
                         /\ CodeOf(returns'[k].block)[returns'[k].ip - 1].op \in CallOps
        BY <2>4
      <3>1. CASE k \in 1 .. Len(returns)
        BY <2>4, <3>1, ReturnsFacts DEF CodeInv, ReturnsBehindCalls
      <3>2. CASE k = Len(returns) + 1
        BY <2>4, <2>8, <2>9, <3>2
      <3> QED
        BY <3>1, <3>2, ReturnsFacts
    <2>11. ReturnsBehindCalls'
      <3>1. ip' \in 1 .. Len(Body') + 1
        BY <2>1, <2>7
      <3>2. Len(returns') = Len(callStack')
        BY <1>4, <2>4 DEF CodeInv, ReturnsBehindCalls
      <3>3. (block' = NoFunc) = (returns' = <<>>)
        BY <2>1, <2>2, <2>4
      <3>4. \A b : CodeOf(b)' = CodeOf(b)
        BY <2>5
      <3> QED
        BY <3>1, <3>2, <3>3, <3>4, <2>10 DEF ReturnsBehindCalls
    <2> QED
      BY <2>1, <2>2, <2>4, <2>11 DEF CodeInv
  <1> QED
    BY <1>3, <1>4

\* What a call does to the suspended frames.
LEMMA EnterOutcome ==
  ASSUME NEW n, NEW fn, NEW args, Enter(n, fn, args), callStack \in Seq(Frame)
  PROVE  \/ UNCHANGED callStack
         \/ fn \in DOMAIN Params /\ Len(callStack') = Len(callStack) + 1
  <1>1. \/ UNCHANGED callStack
        \/ \E f : fn \in DOMAIN Params /\ callStack' = Append(callStack, f)
    BY DEF Enter, Fail
  <1> QED
    BY <1>1

LEMMA CallInv ==
  ASSUME CodeInv, callStack \in Seq(Frame), CallFunction \/ CallVirtual \/ CallParent
  PROVE  CodeInv'
  <1>1. ~ Exhausted /\ Current.op \in CallOps
    BY DEF CallFunction, CallVirtual, CallParent, At, CallOps
  <1>2. ASSUME NEW kinds, FailOperands(kinds) PROVE UNCHANGED callStack
    BY <1>2 DEF FailOperands, Fail
  <1>3. ASSUME NEW fn, NEW argc, Dispatch(fn, argc)
        PROVE  \/ UNCHANGED callStack
               \/ fn \in DOMAIN Params /\ Len(callStack') = Len(callStack) + 1
    <2>1. CASE Enter(argc + 1, fn, <<Top(0)>> \o TopArgs(1, argc))
      BY <2>1, EnterOutcome
    <2>2. CASE Fail(argc + 1, "UndefinedMethod")
      BY <2>2 DEF Fail
    <2> QED
      BY <1>3, <2>1, <2>2 DEF Dispatch
  <1>4. CASE CallFunction
    <2> DEFINE fn == Current.fn
    <2>1. EnterOrProceed(fn) /\ Call(fn, Current.argc)
      BY <1>4 DEF CallFunction
    <2> HIDE DEF fn
    <2>2. \/ UNCHANGED callStack
          \/ fn \in DOMAIN Params /\ Len(callStack') = Len(callStack) + 1
      BY <1>2, <2>1, EnterOutcome DEF Call
    <2> QED
      BY <1>1, <2>1, <2>2, EnterInv
  <1>5. CASE CallVirtual
    <2> DEFINE fn == ResolveMethod(slots[Receiver].type, Current.method)
    <2>1. EnterOrProceed(fn)
      BY <1>5 DEF CallVirtual
    <2>2. \/ UNCHANGED callStack
          \/ Dispatch(fn, Current.argc)
      BY <1>2, <1>5 DEF CallVirtual, CallMethod, SetStack
    <2> HIDE DEF fn
    <2>3. \/ UNCHANGED callStack
          \/ fn \in DOMAIN Params /\ Len(callStack') = Len(callStack) + 1
      BY <1>3, <2>2
    <2> QED
      BY <1>1, <2>1, <2>3, EnterInv
  <1>6. CASE CallParent
    <2> DEFINE fn == ResolveMethod(Current.type, Current.method)
    <2>1. EnterOrProceed(fn)
      BY <1>6 DEF CallParent
    <2>2. \/ UNCHANGED callStack
          \/ Dispatch(fn, Current.argc)
      BY <1>2, <1>6 DEF CallParent, CallBase
    <2> HIDE DEF fn
    <2>3. \/ UNCHANGED callStack
          \/ fn \in DOMAIN Params /\ Len(callStack') = Len(callStack) + 1
      BY <1>3, <2>2
    <2> QED
      BY <1>1, <2>1, <2>3, EnterInv
  <1> QED
    BY <1>4, <1>5, <1>6

LEMMA EmptyFacts ==
  ASSUME NEW S, NEW s \in Seq(S)
  PROVE  (s = <<>>) = (Len(s) = 0)
  OBVIOUS

\* A sequence without its last element.
LEMMA ShorterFacts ==
  ASSUME NEW S, NEW s \in Seq(S), s # <<>>
  PROVE  LET n == Len(s)
             r == SubSeq(s, 1, n - 1)
         IN  /\ r \in Seq(S) /\ Len(r) = n - 1 /\ DOMAIN r = 1 .. n - 1
             /\ \A k \in 1 .. n - 1 : r[k] = s[k]
             /\ (r = <<>>) = (n = 1)
  <1> DEFINE n == Len(s)
             r == SubSeq(s, 1, n - 1)
  <1>1. n \in Nat \ {0} /\ DOMAIN s = 1 .. n
    OBVIOUS
  <1>2. r \in Seq(S) /\ Len(r) = n - 1 /\ \A k \in 1 .. n - 1 : r[k] = s[k]
    BY <1>1
  <1> HIDE DEF n, r
  <1>3. DOMAIN r = 1 .. n - 1
    BY <1>2
  <1>4. (r = <<>>) = (Len(r) = 0)
    BY <1>2, EmptyFacts
  <1>5. (n - 1 = 0) = (n = 1)
    BY <1>1
  <1>6. (r = <<>>) = (n = 1)
    BY <1>2, <1>4, <1>5
  <1> QED
    BY <1>2, <1>3, <1>6 DEF n, r

\* A frame that ends, after an error too, gives the code back to its caller.
LEMMA ResumeInv ==
  ASSUME CodeInv, callStack \in Seq(Frame), ResumeCaller,
         LeaveFrame \/ (callStack = <<>> /\ UNCHANGED callStack)
  PROVE  CodeInv'
  <1> DEFINE n == Len(returns)
  <1>1. /\ n \in Nat /\ DOMAIN returns = 1 .. n /\ (returns = <<>>) = (n = 0)
        /\ n = Len(callStack) /\ (callStack = <<>>) = (n = 0)
    BY ReturnsFacts DEF CodeInv, ReturnsBehindCalls
  <1>2. \A b : CodeOf(b)' = CodeOf(b)
    BY DEF ResumeCaller, CodeOf
  <1>3. CASE returns = <<>>
    <2>1. UNCHANGED <<entry, block, ip, returns, callStack>>
      BY <1>1, <1>3 DEF ResumeCaller, LeaveFrame
    <2>2. Body' = Body
      BY <1>2, <2>1 DEF Body
    <2> QED
      BY <1>2, <2>1, <2>2 DEF CodeInv, ReturnsBehindCalls
  <1>4. CASE returns # <<>>
    <2>1. n \in Nat \ {0} /\ n \in DOMAIN returns
      BY <1>1, <1>4
    <2>2. Len(callStack') = n - 1
      <3>1. callStack' = SubSeq(callStack, 1, Len(callStack) - 1) /\ callStack # <<>>
        BY <1>1, <2>1 DEF LeaveFrame
      <3>2. Len(callStack') = Len(callStack) - 1
        BY <3>1, ShorterFacts
      <3> QED
        BY <1>1, <3>2
    <2>3. /\ block' = returns[n].block /\ ip' = returns[n].ip
          /\ returns' = SubSeq(returns, 1, n - 1) /\ entry' = entry
      BY <1>4 DEF ResumeCaller
    <2>4. /\ returns' \in Seq(Address) /\ Len(returns') = n - 1
          /\ DOMAIN returns' = 1 .. n - 1 /\ (returns' = <<>>) = (n = 1)
          /\ \A k \in 1 .. n - 1 : returns'[k] = returns[k]
      <3>1. returns \in Seq(Address)
        BY DEF CodeInv
      <3> QED
        BY <1>4, <2>3, <3>1, ShorterFacts
    <2>5. returns[n] \in Address
      BY <2>1 DEF CodeInv
    <2>6. block' \in DOMAIN Code \union {NoFunc} /\ ip' \in Nat
      BY <2>3, <2>5 DEF Address
    <2>7. /\ (returns[n].block = NoFunc) = (n = 1)
          /\ returns[n].ip \in 2 .. Len(CodeOf(returns[n].block)) + 1
      BY <2>1 DEF CodeInv, ReturnsBehindCalls
    <2>8. Body' = CodeOf(returns[n].block)
      BY <1>2, <2>3 DEF Body
    <2>9. ReturnsBehindCalls'
      <3>1. ip' \in 1 .. Len(Body') + 1
        <4>1. Len(Body') \in Nat
          BY <2>3, <2>6, <2>8, CodeOfFacts
        <4> QED
          BY <2>3, <2>7, <2>8, <4>1
      <3>2. Len(returns') = Len(callStack') /\ (block' = NoFunc) = (returns' = <<>>)
        BY <2>2, <2>3, <2>4, <2>7
      <3>3. \A k \in DOMAIN returns' :
              /\ (returns'[k].block = NoFunc) = (k = 1)
              /\ returns'[k].ip \in 2 .. Len(CodeOf(returns'[k].block)) + 1
              /\ CodeOf(returns'[k].block)[returns'[k].ip - 1].op \in CallOps
        <4> SUFFICES ASSUME NEW k \in 1 .. n - 1
                     PROVE /\ (returns[k].block = NoFunc) = (k = 1)
                           /\ returns[k].ip \in 2 .. Len(CodeOf(returns[k].block)) + 1
                           /\ CodeOf(returns[k].block)[returns[k].ip - 1].op \in CallOps
          BY <2>4
        <4>1. k \in DOMAIN returns
          BY <1>1, <2>1
        <4> QED
          BY <4>1 DEF CodeInv, ReturnsBehindCalls
      <3> QED
        BY <1>2, <3>1, <3>2, <3>3 DEF ReturnsBehindCalls
    <2> QED
      BY <2>3, <2>4, <2>6, <2>9 DEF CodeInv
  <1> QED
    BY <1>3, <1>4

LEMMA CodeStepInv ==
  ASSUME CodeInv, callStack \in Seq(Frame), [CodeNext]_allVars
  PROVE  CodeInv'
  <1>1. ASSUME UNCHANGED callStack, UNCHANGED <<entry, block, ip, returns>> PROVE CodeInv'
    <2>1. Body' = Body /\ \A b : CodeOf(b)' = CodeOf(b)
      BY <1>1 DEF Body, CodeOf
    <2> QED
      BY <1>1, <2>1 DEF CodeInv, ReturnsBehindCalls
  <1>2. ASSUME ~ Exhausted PROVE ip + 1 \in 1 .. Len(Body) + 1
    <2>1. Len(Body) \in Nat /\ ip \in 1 .. Len(Body)
      BY <1>2, CurrentFacts
    <2> QED
      BY <2>1
  <1>3. CASE UNCHANGED allVars
    BY <1>1, <1>3 DEF allVars
  <1>4. CASE PrintTop
    <2>1. ~ Exhausted /\ Compute("Print") /\ "Print" \in Operators
      BY <1>4, CurrentFacts, OperandFacts DEF PrintTop, At
    <2>2. UNCHANGED callStack
      BY <2>1, DataStepFrames DEF DataStep
    <2>3. Body' = Body /\ \A b : CodeOf(b)' = CodeOf(b)
      BY <1>4 DEF PrintTop, Body, CodeOf
    <2>4. ip' = ip + 1 /\ ip + 1 \in 1 .. Len(Body) + 1 /\ ip + 1 \in Nat
      BY <1>2, <1>4, <2>1 DEF PrintTop, CodeInv
    <2> QED
      BY <1>4, <2>2, <2>3, <2>4 DEF PrintTop, CodeInv, ReturnsBehindCalls
  <1>5. CASE Straight
    <2>1. UNCHANGED callStack /\ Proceed(ip + 1) /\ ~ Exhausted
      BY <1>5, StraightIsMachine, DataStepFrames DEF Straight, At
    <2> QED
      BY <1>2, <2>1, ProceedInv
  <1>6. CASE SkipLabel
    <2>1. UNCHANGED callStack /\ Proceed(ip + 1) /\ ~ Exhausted
      BY <1>6 DEF SkipLabel, At, vars
    <2> QED
      BY <1>2, <2>1, ProceedInv
  <1>7. CASE JumpToLabel \/ Branch
    <2>1. UNCHANGED callStack
      <3>1. UNCHANGED vars \/ DataStep
        BY <1>7 DEF JumpToLabel, Branch, DataStep
      <3> QED
        BY <3>1, DataStepFrames DEF vars
    <2>2. ~ Exhausted
      BY <1>7 DEF JumpToLabel, Branch, At
    <2>3. \/ Proceed(ip + 1)
          \/ LabelsAt(Current.label) # {} /\ Proceed(LabelIndex(Current.label))
      BY <1>7 DEF JumpToLabel, Branch
    <2> QED
      BY <1>2, <2>1, <2>2, <2>3, LabelFacts, ProceedInv
  <1>8. CASE CallFunction \/ CallVirtual \/ CallParent
    BY <1>8, CallInv
  <1>9. CASE LeaveCode \/ (Unwind /\ ResumeCaller)
    BY <1>9, ResumeInv DEF LeaveCode, Return, Unwind
  <1>10. CASE (Collect \/ ForceGc) /\ UNCHANGED codeVars
    BY <1>1, <1>10 DEF Collect, ForceGc, machineVars, codeVars
  <1> QED
    BY <1>3, <1>4, <1>5, <1>6, <1>7, <1>8, <1>9, <1>10 DEF CodeNext, Run, Execute

LEMMA CodeInitInv ==
  ASSUME CodeInit
  PROVE  CodeInv
  <1>1. returns = <<>> /\ callStack = <<>> /\ block = NoFunc /\ ip = 1 /\ entry \in DOMAIN EntryCode
    BY DEF CodeInit, Init
  <1>2. Body \in Seq(Instruction)
    BY <1>1, CodeAssumption DEF Body, CodeOf
  <1>3. Len(Body) \in Nat /\ 1 \in 1 .. Len(Body) + 1
    BY <1>2
  <1>4. ReturnsBehindCalls
    BY <1>1, <1>3 DEF ReturnsBehindCalls
  <1> QED
    BY <1>1, <1>4 DEF CodeInv

-----------------------------------------------------------------------------
(* Theorems. *)

\* The inductive invariant. What it says of the machine is needed to count frames,
\* what it says of the code to know that the operands of an instruction are legal.
THEOREM CodeInvariant == CodeSpec => [](IInv /\ CodeInv)
  <1>1. CodeInit => IInv /\ CodeInv
    BY CodeInitInv, InitIInv DEF CodeInit
  <1>2. IInv /\ CodeInv /\ [CodeNext]_allVars => IInv' /\ CodeInv'
    <2> SUFFICES ASSUME IInv, CodeInv, [CodeNext]_allVars PROVE IInv' /\ CodeInv'
      OBVIOUS
    <2>1. IInv'
      BY StepIsMachine, NextProgress, ProgressInv
    <2>2. callStack \in Seq(Frame)
      BY DEF IInv, MachineOK
    <2> QED
      BY <2>1, <2>2, CodeStepInv
  <1> QED
    BY <1>1, <1>2, PTL DEF CodeSpec

\* Whatever program runs, run_with_labels only takes steps of Vm: what Vm leaves
\* open, the order of instructions, is all that code decides.
THEOREM CodeRunsMachine == CodeSpec => RunsMachine
  <1>1. CodeInit => Init
    BY DEF CodeInit
  <1>2. CodeInv /\ [CodeNext]_allVars => [Next]_vars
    BY StepIsMachine
  <1> QED
    BY <1>1, <1>2, CodeInvariant, PTL DEF CodeSpec, RunsMachine, Spec

\* So the variables of machine and code keep their types in every program.
THEOREM CodeTypeCorrect == CodeSpec => []CodeTypeOK
  <1>1. CodeSpec => []TypeOK
    BY CodeRunsMachine, TypeCorrect, PTL DEF RunsMachine
  <1>2. TypeOK /\ CodeInv => CodeTypeOK
    BY DEF CodeInv, CodeTypeOK, Address
  <1> QED
    BY <1>1, <1>2, CodeInvariant, PTL

\* The code that runs, and each frame that waits, has its instruction pointer in
\* its own code, a waiting one right behind the call it waits for: code[ip] never
\* indexes out of its code, after any jumps, returns and errors.
THEOREM ReturnAddresses == CodeSpec => []ReturnsBehindCalls
  <1>1. CodeInv => ReturnsBehindCalls
    BY DEF CodeInv
  <1> QED
    BY <1>1, CodeInvariant, PTL

\* No program makes the heap panic on a dangling handle, whatever it computes and
\* whenever collections fall due.
THEOREM ProgramsNeverDangle == CodeSpec => []NoDangling
  BY CodeRunsMachine, HandlesNeverDangle, PTL DEF RunsMachine

=============================================================================
