------------------------------- MODULE VmCode -------------------------------
(***************************************************************************)
(* The virtual machine running code: run_with_labels with its instruction  *)
(* pointer, labels and jumps, around the instructions of Vm. A frame of    *)
(* the interpreter is a recursive call of run_with_labels in the source,   *)
(* so the code and the instruction pointer of a caller wait in a Rust      *)
(* frame; here they wait in returns, beside callStack.                     *)
(***************************************************************************)
EXTENDS Vm

CONSTANTS
  LabelName,   \* the labels code mentions
  RandValues,  \* what Rand may produce
  Code,        \* IrFunc.body, for the functions that exist
  EntryCode    \* IrProgram.entry, for each program the machine may be started on

\* An instruction with its operands. One that only computes (Vm's Compute) has none.
Instruction ==
  [op : Operators]
    \union [op : {"Pop", "Dup", "BeginScope", "EndScope", "Index", "VecPush", "Rand", "Ret"}]
    \union [op : {"Literal"}, val : Literals]
    \union [op : {"LoadVar", "StoreVar", "BindVar"}, name : VarName]
    \union [op : {"Label", "Jump", "JumpIfFalse"}, label : LabelName]
    \union [op : {"NewObject"}, type : TypeName]
    \union [op : {"GetField", "SetField"}, field : FieldName]
    \union [op : {"IsType", "AsType"}, type : Targets]
    \union [op : {"MakeVector"}, size : 0 .. MaxArgs]
    \union [op : {"Call"}, fn : FuncName, argc : 0 .. MaxArgs]
    \union [op : {"CallMethod"}, method : MethodName, argc : 0 .. MaxArgs]
    \union [op : {"CallBase"}, type : TypeName, method : MethodName, argc : 0 .. MaxArgs]

ASSUME CodeAssumption ==
  /\ DOMAIN Code = DOMAIN Params /\ NoFunc \notin DOMAIN Code
  /\ \A fn \in DOMAIN Code : Code[fn] \in Seq(Instruction)
  /\ \A e \in DOMAIN EntryCode : EntryCode[e] \in Seq(Instruction)
  /\ RandValues \subseteq Literals

VARIABLES
  entry,    \* the program that was started
  block,    \* the function that runs, NoFunc for the entry code
  ip,       \* the index of its next instruction
  returns,  \* where the suspended callers go on, the outermost first
  output    \* what Print has printed

codeVars == <<entry, block, ip, returns, output>>
allVars  == <<stack, scopes, callStack, status, error,
              slots, freeList, pending, phase, work, marked, sweepAt,
              entry, block, ip, returns, output>>

CodeOf(b) == IF b = NoFunc THEN EntryCode[entry] ELSE Code[b]
Body      == CodeOf(block)
Exhausted == ip > Len(Body)
Current   == Body[ip]

\* The next instruction is one of these.
At(ops) == Ready /\ ~ Exhausted /\ Current.op \in ops
-----------------------------------------------------------------------------
(* Where the code goes on. *)

Proceed(i) == ip' = i /\ UNCHANGED <<entry, block, returns, output>>

\* resolve_labels: of two labels with one name the later one is kept.
LabelsAt(l) == { i \in DOMAIN Body : Body[i].op = "Label" /\ Body[i].label = l }
LabelIndex(l) == CHOOSE i \in LabelsAt(l) : \A j \in LabelsAt(l) : j <= i

\* Mutant: the caller will run its call again.
EnterAgain(fn) ==
  IF Len(callStack') > Len(callStack)
    THEN /\ returns' = Append(returns, [block |-> block, ip |-> ip])
         /\ block' = fn /\ ip' = 1
         /\ UNCHANGED <<entry, output>>
    ELSE Proceed(ip + 1)

\* The callee starts, unless the call failed or was the identity.
EnterOrProceed(fn) ==
  IF Len(callStack') > Len(callStack)
    THEN /\ returns' = Append(returns, [block |-> block, ip |-> ip + 1])
         /\ block' = fn /\ ip' = 1
         /\ UNCHANGED <<entry, output>>
    ELSE Proceed(ip + 1)

\* The caller goes on behind its call.
ResumeCaller ==
  /\ IF returns = <<>>
       THEN UNCHANGED <<block, ip, returns>>
       ELSE /\ block' = returns[Len(returns)].block
            /\ ip' = returns[Len(returns)].ip
            /\ returns' = SubSeq(returns, 1, Len(returns) - 1)
  /\ UNCHANGED <<entry, output>>
-----------------------------------------------------------------------------
(* Instructions. *)

\* What a program can tell of a value by printing it: an object prints its type.
Shown(v) == IF IsRef(v) THEN [tag |-> "shown", val |-> slots[v.val].type] ELSE v

PrintTop ==
  /\ At({"Print"})
  /\ Compute("Print")
  /\ output' = IF stack = <<>> THEN output ELSE Append(output, Shown(Top(0)))
  /\ ip' = ip + 1 /\ UNCHANGED <<entry, block, returns>>

\* One instruction that leaves the order of instructions alone.
Straight ==
  /\ \/ At(Operators \ {"Print"}) /\ Compute(Current.op)
     \/ At({"Literal"}) /\ PushLiteral(Current.val)
     \/ At({"Rand"}) /\ \E v \in RandValues : PushLiteral(v)
     \/ At({"Pop"}) /\ Pop
     \/ At({"Dup"}) /\ Dup
     \/ At({"LoadVar"}) /\ LoadVar(Current.name)
     \/ At({"StoreVar"}) /\ StoreVar(Current.name)
     \/ At({"BindVar"}) /\ BindVar(Current.name)
     \/ At({"BeginScope"}) /\ BeginScope
     \/ At({"EndScope"}) /\ EndScope
     \/ At({"NewObject"}) /\ NewObject(Current.type)
     \/ At({"GetField"}) /\ GetField(Current.field)
     \/ At({"SetField"}) /\ SetField(Current.field)
     \/ At({"IsType"}) /\ IsType(Current.type)
     \/ At({"AsType"}) /\ AsType(Current.type)
     \/ At({"MakeVector"}) /\ MakeVector(Current.size)
     \/ At({"Index"}) /\ Index
     \/ At({"VecPush"}) /\ VecPush
  /\ Proceed(ip + 1)

SkipLabel == At({"Label"}) /\ UNCHANGED vars /\ Proceed(ip + 1)

JumpToLabel ==
  /\ At({"Jump"})
  /\ \/ /\ LabelsAt(Current.label) # {}
        /\ UNCHANGED vars
        /\ Proceed(LabelIndex(Current.label))
     \/ /\ LabelsAt(Current.label) = {}
        /\ Jump
        /\ Proceed(ip + 1)

\* The condition is popped in each case.
Branch ==
  /\ At({"JumpIfFalse"})
  /\ LET taken == Accepted(<<"bool">>) /\ ~ IsTrue(Top(0))
         found == LabelsAt(Current.label) # {}
     IN  /\ JumpIfFalse
         /\ Accepted(<<"bool">>) => (status' = "unwinding" <=> taken /\ ~ found)
         /\ Proceed(IF taken /\ found THEN LabelIndex(Current.label) ELSE ip + 1)

CallFunction ==
  /\ At({"Call"})
  /\ Call(Current.fn, Current.argc)
  /\ EnterOrProceed(Current.fn)

CallVirtual ==
  /\ At({"CallMethod"})
  /\ CallMethod(Current.method, Current.argc)
  /\ EnterOrProceed(ResolveMethod(slots[Receiver].type, Current.method))

CallParent ==
  /\ At({"CallBase"})
  /\ CallBase(Current.type, Current.method, Current.argc)
  /\ EnterOrProceed(ResolveMethod(Current.type, Current.method))

\* Mutant: the end of any code is the end of the program.
LeaveForGood ==
  /\ Exhausted \/ At({"Ret"})
  /\ Ready
  /\ status' = "done"
  /\ UNCHANGED <<stack, scopes, callStack, error, heapVars, codeVars>>

LeaveCode ==
  /\ Exhausted \/ At({"Ret"})
  /\ Return
  /\ ResumeCaller
-----------------------------------------------------------------------------
CodeInit ==
  /\ Init
  /\ entry \in DOMAIN EntryCode /\ block = NoFunc /\ ip = 1
  /\ returns = <<>> /\ output = <<>>

Execute ==
  \/ PrintTop \/ Straight \/ SkipLabel \/ JumpToLabel \/ Branch
  \/ CallFunction \/ CallVirtual \/ CallParent \/ LeaveCode

Run ==
  \/ Execute
  \/ Unwind /\ ResumeCaller
  \/ Collect /\ UNCHANGED codeVars

CodeNext == Run \/ (ForceGc /\ UNCHANGED codeVars)

CodeSpec == CodeInit /\ [][CodeNext]_allVars

\* One thread runs the program on until it is done or has failed.
FairCodeSpec == CodeSpec /\ WF_allVars(Run)
-----------------------------------------------------------------------------
Finished == status \in {"done", "failed"} /\ phase = "idle"

CodeTypeOK ==
  /\ TypeOK
  /\ entry \in DOMAIN EntryCode
  /\ block \in DOMAIN Code \union {NoFunc}
  /\ ip \in Nat
  /\ returns \in Seq([block : DOMAIN Code \union {NoFunc}, ip : Nat])

CallOps == {"Call", "CallMethod", "CallBase"}

\* The instruction pointer never leaves the code that runs, whatever jumps, calls
\* and errors come in whatever order; and each suspended frame, of which there is
\* one for each frame of the machine and only the first runs the program itself,
\* goes on right behind a call of its own code.
ReturnsBehindCalls ==
  /\ ip \in 1 .. Len(Body) + 1
  /\ Len(returns) = Len(callStack)
  /\ (block = NoFunc) = (returns = <<>>)
  /\ \A k \in DOMAIN returns :
       LET b == returns[k].block
           i == returns[k].ip
       IN  /\ (b = NoFunc) = (k = 1)
           /\ i \in 2 .. Len(CodeOf(b)) + 1
           /\ CodeOf(b)[i - 1].op \in CallOps

\* Running code only does what the machine allows: every property of Vm holds of
\* every program.
RunsMachine == Spec
=============================================================================
