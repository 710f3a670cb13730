--------------------------------- MODULE Vm ---------------------------------
(***************************************************************************)
(* The virtual machine of crates/hulk-vm/src/lib.rs: the operand stack, the*)
(* scopes, the suspended frames and the heap, with one action for each     *)
(* kind of instruction and for every way it can fail. Which instruction    *)
(* comes next is left open here, so that what holds of this module holds   *)
(* of every instruction sequence, lowered or written by hand; VmCode adds  *)
(* the code, the instruction pointer and the jumps.                        *)
(***************************************************************************)
EXTENDS Operations

CONSTANTS
  Free, Threshold,               \* see Heap
  Operators, Targets,            \* what code computes with and tests types against
  VarName, FieldName,            \* the variables and fields,
  FuncName, MethodName,          \* the functions and methods it mentions
  IterMethod,                    \* "iter"
  Params,                        \* IrFunc.params, for the functions that exist
  Parent,                        \* IrTypeInfo.parent, for the registered types
  Methods,                       \* IrTypeInfo.methods, NoFunc where there is none
  LenField,                      \* the field "__len" of a vector
  ElemField(_),                  \* the name of the field that holds element i
  Literals,                      \* the values Push instructions carry, and Rand's
  MaxStack, MaxScopes,           \* bounds of the model: the values and scopes of a frame,
  MaxArgs, MaxLen                \* the arguments of a call, the length of a vector

VmError ==
  {"StackUnderflow", "DivisionByZero", "UndefinedVariable", "UndefinedFunction", "TypeMismatch",
   "NullReference", "UndefinedField", "UndefinedMethod", "InvalidCast", "IndexOutOfBounds",
   "UndefinedLabel", "StackOverflow"}

NoFunc     == "no function"

ASSUME FreeAssumption == Free \notin Object
ASSUME ThresholdAssumption == Threshold \in Nat \ {0}
ASSUME BoundsAssumption ==
  MaxCallDepth \in Nat /\ MaxStack \in Nat /\ MaxScopes \in Nat /\ MaxArgs \in Nat /\ MaxLen \in Nat
ASSUME NumAssumption == Num \subseteq Int
ASSUME LiteralsAssumption == \A v \in Literals : v \in Value /\ ~ IsRef(v)
ASSUME NamesAssumption == VarName \subseteq Name /\ FieldName \subseteq Name
ASSUME FuncAssumption == \A fn \in DOMAIN Params : Params[fn] \in Seq(Name)
ASSUME MethodAssumption ==
  ObjectType \notin DOMAIN Parent /\ \A t \in DOMAIN Parent : DOMAIN Methods[t] = MethodName
ASSUME VectorAssumption ==
  /\ VectorType \in TypeName /\ LenField \in Name
  /\ \A i \in 0 .. MaxLen : i \in Num /\ ElemField(i) \in Name

VARIABLES
  stack,      \* operand stack of the running function
  scopes,     \* its scopes, the innermost last
  callStack,  \* suspended frames, the outermost first
  status,     \* "running", "unwinding" an error, "done" or "failed"
  error,      \* the VmError it failed with, or "none"
  slots, freeList, pending, phase, work, marked, sweepAt   \* the heap, see Heap

machineVars == <<stack, scopes, callStack, status, error>>
gcVars      == <<phase, work, marked, sweepAt>>
heapVars    == <<slots, freeList, pending, phase, work, marked, sweepAt>>
vars        == <<stack, scopes, callStack, status, error,
                 slots, freeList, pending, phase, work, marked, sweepAt>>
-----------------------------------------------------------------------------
(* Vm::roots. *)

RefsInSeq(s)    == { s[k].val : k \in { j \in DOMAIN s : IsRef(s[j]) } }
RefsInScopes(s) == UNION { RefsIn(s[k]) : k \in DOMAIN s }

FrameRefs(frame) == RefsInSeq(frame.stack) \union RefsInScopes(frame.scopes)

\* Mutant: the frames of the callers are forgotten.
RootsRunning == RefsInSeq(stack) \union RefsInScopes(scopes)

Roots ==
  RefsInSeq(stack) \union RefsInScopes(scopes)
    \union UNION { FrameRefs(callStack[k]) : k \in DOMAIN callStack }

Hp == INSTANCE Heap
        WITH held <- Roots, Plain <- { v \in Value \union {Unbound} : ~ IsRef(v) }
-----------------------------------------------------------------------------
(* Operands. *)

\* The value n below the top, and the stack without its n top values.
Top(n)    == stack[Len(stack) - n]
Popped(n) == SubSeq(stack, 1, Len(stack) - n)

\* The k top values, popped one by one and put back in order (args.reverse()).
TopArgs(n, k) == [j \in 1 .. k |-> Top(n + k - j)]

Push(n, v) == Append(Popped(n), v)

\* pop, pop_num, pop_bool, pop_object: what an instruction requires of its
\* operands, the first popped first. The first operand that is missing or has
\* the wrong tag decides the error; those before it are gone.
Wrong(kinds, k) == k > Len(stack) \/ kinds[k] \notin {"any", Top(k - 1).tag}

Accepted(kinds) == \A k \in DOMAIN kinds : ~ Wrong(kinds, k)

FirstWrong(kinds) ==
  CHOOSE k \in DOMAIN kinds : Wrong(kinds, k) /\ \A j \in 1 .. k - 1 : ~ Wrong(kinds, j)

OperandError(kinds) ==
  LET k == FirstWrong(kinds)
  IN  IF k > Len(stack) THEN "StackUnderflow"
      ELSE IF kinds[k] = "object" /\ Top(k - 1).tag = "nil" THEN "NullReference"
      ELSE "TypeMismatch"

\* An instruction fails after it popped n values: `?` leaves run_with_labels.
Fail(n, e) ==
  /\ stack' = Popped(n)
  /\ status' = "unwinding"
  /\ error' = e
  /\ UNCHANGED <<scopes, callStack, heapVars>>

FailOperands(kinds) ==
  /\ ~ Accepted(kinds)
  /\ LET k == FirstWrong(kinds) IN Fail(IF k > Len(stack) THEN Len(stack) ELSE k, OperandError(kinds))

\* Popping kinds and then failing for another reason.
FailAfter(kinds, e) == Accepted(kinds) /\ Fail(Len(kinds), e)

\* An instruction may run: no collection is under way.
Ready == status = "running" /\ phase = "idle"

\* The stack becomes s; nothing but the stack changes.
SetStack(s) ==
  /\ Len(s) <= MaxStack
  /\ stack' = s
  /\ UNCHANGED <<scopes, callStack, status, error, heapVars>>

AnyKinds(n) == [k \in 1 .. n |-> "any"]
-----------------------------------------------------------------------------
(* Instructions that compute a value from their operands. *)

ASSUME OperatorsAssumption == Operators \subseteq PureOps
DividesByZero(op) == op \in {"Div", "Mod"} /\ Top(0).val = 0

Compute(op) ==
  /\ Ready
  /\ \/ /\ Accepted(Kinds(op))
        /\ ~ DividesByZero(op)
        /\ SetStack(Push(Len(Kinds(op)), Result(op, Top(Len(Kinds(op)) - 1), Top(0))))
     \/ Accepted(Kinds(op)) /\ DividesByZero(op) /\ FailAfter(Kinds(op), "DivisionByZero")
     \/ FailOperands(Kinds(op))

\* PushNum, PushBool, PushStr, PushNil, Rand.
PushLiteral(v) == Ready /\ SetStack(Push(0, v))

Pop ==
  /\ Ready
  /\ \/ Accepted(<<"any">>) /\ SetStack(Popped(1))
     \/ FailOperands(<<"any">>)

Dup ==
  /\ Ready
  /\ \/ Accepted(<<"any">>) /\ SetStack(Push(0, Top(0)))
     \/ FailOperands(<<"any">>)
-----------------------------------------------------------------------------
(* Variables and scopes. *)

\* The innermost scope that binds n.
Binding(n) == { k \in DOMAIN scopes : scopes[k][n] # Unbound }
Innermost(n) == CHOOSE k \in Binding(n) : \A j \in Binding(n) : j <= k

LoadVar(n) ==
  /\ Ready
  /\ \/ Binding(n) # {} /\ SetStack(Push(0, scopes[Innermost(n)][n]))
     \/ Binding(n) = {} /\ Fail(0, "UndefinedVariable")

StoreVar(n) ==
  /\ Ready
  /\ \/ /\ Accepted(<<"any">>)
        /\ Binding(n) # {}
        /\ scopes' = [scopes EXCEPT ![Innermost(n)] = [@ EXCEPT ![n] = Top(0)]]
        /\ stack' = Popped(1)
        /\ UNCHANGED <<callStack, status, error, heapVars>>
     \/ Binding(n) = {} /\ FailAfter(<<"any">>, "UndefinedVariable")
     \/ FailOperands(<<"any">>)

BeginScope ==
  /\ Ready
  /\ Len(scopes) < MaxScopes
  /\ scopes' = Append(scopes, NoBindings)
  /\ UNCHANGED <<stack, callStack, status, error, heapVars>>

\* Without any scope, one is created for the binding.
BindVar(n) ==
  /\ Ready
  /\ \/ /\ Accepted(<<"any">>)
        /\ stack' = Popped(1)
        /\ IF scopes = <<>>
             THEN /\ MaxScopes > 0
                  /\ scopes' = <<[NoBindings EXCEPT ![n] = Top(0)]>>
             ELSE scopes' = [scopes EXCEPT ![Len(scopes)] = [@ EXCEPT ![n] = Top(0)]]
        /\ UNCHANGED <<callStack, status, error, heapVars>>
     \/ FailOperands(<<"any">>)

\* Without any scope, nothing happens.
EndScope ==
  /\ Ready
  /\ scopes' = IF scopes = <<>> THEN <<>> ELSE SubSeq(scopes, 1, Len(scopes) - 1)
  /\ UNCHANGED <<stack, callStack, status, error, heapVars>>

\* Where the code goes on is left to VmCode; a label may be missing.
Jump == Ready /\ Fail(0, "UndefinedLabel")

JumpIfFalse ==
  /\ Ready
  /\ \/ Accepted(<<"bool">>) /\ SetStack(Popped(1))
     \/ Accepted(<<"bool">>) /\ ~ IsTrue(Top(0)) /\ FailAfter(<<"bool">>, "UndefinedLabel")
     \/ FailOperands(<<"bool">>)
-----------------------------------------------------------------------------
(* Calls. *)

\* Parameters and arguments are zipped; of two parameters with one name the last wins.
Bound(params, args) ==
  [n \in Name |->
    LET given == { k \in DOMAIN params \intersect DOMAIN args : params[k] = n }
    IN  IF given = {} THEN Unbound ELSE args[CHOOSE k \in given : \A j \in given : j <= k]]

\* call_func_with_args, once the n operands of the call are popped.
Enter(n, fn, args) ==
  \/ Len(callStack) >= MaxCallDepth /\ Fail(n, "StackOverflow")
  \/ /\ Len(callStack) < MaxCallDepth
     /\ fn \notin DOMAIN Params
     /\ Fail(n, "UndefinedFunction")
  \/ /\ Len(callStack) < MaxCallDepth
     /\ fn \in DOMAIN Params
     /\ Len(stack) - n < MaxStack
     /\ callStack' = Append(callStack, [stack |-> Popped(n), scopes |-> scopes])
     /\ stack' = <<>>
     /\ scopes' = <<Bound(Params[fn], args)>>
     /\ UNCHANGED <<status, error, heapVars>>

Call(fn, argc) ==
  /\ Ready
  /\ \/ Accepted(AnyKinds(argc)) /\ Enter(argc, fn, TopArgs(0, argc))
     \/ FailOperands(AnyKinds(argc))

\* Mutant: the callee's value is only handed on if there is one, the caller's
\* scopes are left as the callee had them.
LeaveFrameScopes ==
  /\ callStack # <<>>
  /\ stack' = Append(callStack[Len(callStack)].stack, IF stack = <<>> THEN Nil ELSE Top(0))
  /\ scopes' = scopes
  /\ callStack' = SubSeq(callStack, 1, Len(callStack) - 1)
  /\ UNCHANGED <<error, heapVars>>

\* What the caller finds on its stack: the top of the callee's stack, if any.
ReturnValue == IF stack = <<>> THEN Nil ELSE Top(0)

Suspended == callStack[Len(callStack)]

\* The end of call_func_with_args, after an error too.
LeaveFrame ==
  /\ callStack # <<>>
  /\ stack' = Append(Suspended.stack, ReturnValue)
  /\ scopes' = Suspended.scopes
  /\ callStack' = SubSeq(callStack, 1, Len(callStack) - 1)
  /\ UNCHANGED <<error, heapVars>>

\* Ret, or the code is exhausted.
Return ==
  /\ Ready
  /\ \/ LeaveFrame /\ status' = status
     \/ /\ callStack = <<>>
        /\ status' = "done"
        /\ UNCHANGED <<stack, scopes, callStack, error, heapVars>>

\* Mutant: the result of the callee is not looked at, the caller goes on.
UnwindOnce ==
  /\ status = "unwinding"
  /\ \/ LeaveFrame /\ status' = "running"
     \/ /\ callStack = <<>>
        /\ status' = "failed"
        /\ UNCHANGED <<stack, scopes, callStack, error, heapVars>>

\* result?; the error is passed on from frame to frame.
Unwind ==
  /\ status = "unwinding"
  /\ \/ LeaveFrame /\ status' = status
     \/ /\ callStack = <<>>
        /\ status' = "failed"
        /\ UNCHANGED <<stack, scopes, callStack, error, heapVars>>
-----------------------------------------------------------------------------
(* Objects. *)

\* Mutant: the collection runs before the handle is pushed.
AllocCollectFirst(obj, n) ==
  /\ Hp!CanAlloc
  /\ Len(stack) - n < MaxStack
  /\ stack' = Push(n, Ref(Hp!AllocId))
  /\ slots' = Hp!AllocSlots(obj)
  /\ freeList' = Hp!AllocFreeList
  /\ pending' = pending + 1
  /\ UNCHANGED <<scopes, callStack, status, error>>
  /\ IF Hp!ShouldCollect(pending') THEN Hp!StartCollect(Roots) ELSE UNCHANGED gcVars

\* Mutant: vectors, which are built from n > 0 operands, do not call maybe_gc.
AllocUnchecked(obj, n) ==
  /\ Hp!CanAlloc
  /\ Len(stack) - n < MaxStack
  /\ stack' = Push(n, Ref(Hp!AllocId))
  /\ slots' = Hp!AllocSlots(obj)
  /\ freeList' = Hp!AllocFreeList
  /\ pending' = pending + 1
  /\ UNCHANGED <<scopes, callStack, status, error>>
  /\ IF n = 0 /\ Hp!ShouldCollect(pending') THEN Hp!StartCollect(Roots') ELSE UNCHANGED gcVars

\* heap.alloc, the handle is pushed, maybe_gc; n operands were popped.
Alloc(obj, n) ==
  /\ Hp!CanAlloc
  /\ Len(stack) - n < MaxStack
  /\ stack' = Push(n, Ref(Hp!AllocId))
  /\ slots' = Hp!AllocSlots(obj)
  /\ freeList' = Hp!AllocFreeList
  /\ pending' = pending + 1
  /\ UNCHANGED <<scopes, callStack, status, error>>
  /\ IF Hp!ShouldCollect(pending') THEN Hp!StartCollect(Roots') ELSE UNCHANGED gcVars

\* SetField, VecPush: the fields of object i become these.
SetFields(i, fields) ==
  /\ slots' = [slots EXCEPT ![i] = [@ EXCEPT !.fields = fields]]
  /\ UNCHANGED <<scopes, callStack, status, error, freeList, pending, gcVars>>

NewObject(t) == Ready /\ Alloc([type |-> t, fields |-> NoBindings], 0)

\* The object on top of the stack. Hp!NoDangling: its slot is live.
Receiver == Top(0).val
Fields(i) == slots[i].fields

\* Mutant: a field without an entry is read all the same.
GetFieldUnchecked(n) ==
  /\ Ready
  /\ \/ Accepted(<<"object">>) /\ SetStack(Push(1, Fields(Receiver)[n]))
     \/ FailOperands(<<"object">>)

GetField(n) ==
  /\ Ready
  /\ \/ /\ Accepted(<<"object">>)
        /\ Fields(Receiver)[n] # Unbound
        /\ SetStack(Push(1, Fields(Receiver)[n]))
     \/ /\ Accepted(<<"object">>)
        /\ Fields(Receiver)[n] = Unbound
        /\ Fail(1, "UndefinedField")
     \/ FailOperands(<<"object">>)

SetField(n) ==
  /\ Ready
  /\ \/ /\ Accepted(<<"object", "any">>)
        /\ stack' = Push(2, Top(1))
        /\ SetFields(Receiver, [Fields(Receiver) EXCEPT ![n] = Top(1)])
     \/ FailOperands(<<"object", "any">>)

\* The types the walks of resolve_method and conforms visit, from t upwards. A
\* cycle of parents, which semantic analysis rules out, would never end.
Lineage(t) ==
  LET up[k \in 0 .. Cardinality(TypeName)] ==
        IF k = 0 THEN t
        ELSE IF up[k - 1] \in DOMAIN Parent THEN Parent[up[k - 1]] ELSE ObjectType
  IN  up

\* The function that implements method m for type t: the nearest type up the
\* lineage has it. Only registered types do.
Implementors(t, m) ==
  { k \in DOMAIN Lineage(t) :
      Lineage(t)[k] \in DOMAIN Parent /\ Methods[Lineage(t)[k]][m] # NoFunc }

ResolveMethod(t, m) ==
  LET found == Implementors(t, m)
  IN  IF found = {} THEN NoFunc
      ELSE Methods[Lineage(t)[CHOOSE k \in found : \A j \in found : k <= j]][m]

\* Dispatch to fn with the receiver before the other arguments. Of a method that
\* is not found, only a missing iter is forgiven.
Dispatch(fn, argc) ==
  \/ fn # NoFunc /\ Enter(argc + 1, fn, <<Top(0)>> \o TopArgs(1, argc))
  \/ fn = NoFunc /\ Fail(argc + 1, "UndefinedMethod")

CallMethod(m, argc) ==
  /\ Ready
  /\ LET kinds == <<"object">> \o AnyKinds(argc)
         fn    == ResolveMethod(slots[Receiver].type, m)
     IN  \/ /\ Accepted(kinds)
            /\ fn = NoFunc /\ m = IterMethod /\ argc = 0
            /\ SetStack(Push(1, Top(0)))
         \/ /\ Accepted(kinds)
            /\ ~ (fn = NoFunc /\ m = IterMethod /\ argc = 0)
            /\ Dispatch(fn, argc)
         \/ FailOperands(kinds)

CallBase(t, m, argc) ==
  /\ Ready
  /\ LET kinds == <<"object">> \o AnyKinds(argc)
     IN  \/ Accepted(kinds) /\ Dispatch(ResolveMethod(t, m), argc)
         \/ FailOperands(kinds)

\* conforms compares t itself with the target, then the parent of every
\* registered type up the lineage.
Conforms(t, target) ==
  \/ t = target
  \/ \E k \in DOMAIN Lineage(t) :
       Lineage(t)[k] \in DOMAIN Parent /\ Parent[Lineage(t)[k]] = target

ValueConforms(v, target) ==
  \/ v.tag = "object" /\ (target = ObjectType \/ Conforms(slots[v.val].type, target))
  \/ v.tag = "num" /\ target \in {"Number", ObjectType}
  \/ v.tag = "str" /\ target \in {"String", ObjectType}
  \/ v.tag = "bool" /\ target \in {"Boolean", ObjectType}

IsType(target) ==
  /\ Ready
  /\ \/ Accepted(<<"any">>) /\ SetStack(Push(1, BoolV(ValueConforms(Top(0), target))))
     \/ FailOperands(<<"any">>)

AsType(target) ==
  /\ Ready
  /\ \/ /\ Accepted(<<"any">>)
        /\ ValueConforms(Top(0), target)
        /\ SetStack(stack)
     \/ /\ Accepted(<<"any">>)
        /\ ~ ValueConforms(Top(0), target)
        /\ Fail(1, "InvalidCast")
     \/ FailOperands(<<"any">>)
-----------------------------------------------------------------------------
(* Vectors: objects whose fields are the elements and the length. *)

VectorFields(elems) ==
  [n \in Name |->
    IF n = LenField THEN NumV(Len(elems))
    ELSE LET at == { i \in DOMAIN elems : ElemField(i - 1) = n }
         IN  IF at = {} THEN Unbound ELSE elems[CHOOSE i \in at : TRUE]]

MakeVector(n) ==
  /\ Ready
  /\ n <= MaxLen
  /\ \/ Accepted(AnyKinds(n)) /\ Alloc([type |-> VectorType, fields |-> VectorFields(TopArgs(0, n))], n)
     \/ FailOperands(AnyKinds(n))

HasLen(i) == Fields(i)[LenField].tag = "num"
VecLen(i) == IF Fields(i)[LenField].val < 0 THEN 0 ELSE Fields(i)[LenField].val

\* The vector is below the index; numbers of the model have no fraction.
Index ==
  /\ Ready
  /\ LET kinds == <<"num", "object">>
         vec   == Top(1).val
         index == Top(0).val
         found == /\ 0 <= index /\ index < VecLen(vec) /\ index < MaxLen
                  /\ Fields(vec)[ElemField(index)] # Unbound
     IN  \/ /\ Accepted(kinds) /\ HasLen(vec) /\ found
            /\ SetStack(Push(2, Fields(vec)[ElemField(index)]))
         \/ /\ Accepted(kinds) /\ HasLen(vec) /\ ~ found
            /\ Fail(2, "IndexOutOfBounds")
         \/ Accepted(kinds) /\ ~ HasLen(vec) /\ Fail(2, "UndefinedField")
         \/ FailOperands(kinds)

\* The vector is on top, the new element below; nothing is pushed.
VecPush ==
  /\ Ready
  /\ LET kinds == <<"object", "any">>
         len   == VecLen(Receiver)
     IN  \/ /\ Accepted(kinds) /\ HasLen(Receiver)
            /\ len < MaxLen
            /\ stack' = Popped(2)
            /\ SetFields(Receiver, [Fields(Receiver) EXCEPT ![ElemField(len)] = Top(1),
                                                           ![LenField] = NumV(len + 1)])
         \/ Accepted(kinds) /\ ~ HasLen(Receiver) /\ Fail(2, "UndefinedField")
         \/ FailOperands(kinds)
-----------------------------------------------------------------------------
Init ==
  /\ stack = <<>> /\ scopes = <<>> /\ callStack = <<>>
  /\ status = "running" /\ error = "none"
  /\ slots = <<>> /\ freeList = <<>> /\ pending = 0
  /\ phase = "idle" /\ work = {} /\ marked = {} /\ sweepAt = 1

DataStep ==
  \/ \E op \in Operators : Compute(op)
  \/ \E v \in Literals : PushLiteral(v)
  \/ Pop \/ Dup \/ Jump \/ JumpIfFalse
  \/ \E n \in VarName : LoadVar(n) \/ StoreVar(n) \/ BindVar(n)
  \/ BeginScope \/ EndScope
  \/ \E t \in TypeName : NewObject(t)
  \/ \E n \in FieldName : GetField(n) \/ SetField(n)
  \/ \E t \in Targets : IsType(t) \/ AsType(t)
  \/ \E n \in 0 .. MaxArgs : MakeVector(n)
  \/ Index \/ VecPush

CallStep ==
  \E argc \in 0 .. MaxArgs :
    \/ \E fn \in FuncName : Call(fn, argc)
    \/ \E m \in MethodName : CallMethod(m, argc)
    \/ \E t \in TypeName, m \in MethodName : CallBase(t, m, argc)

Collect == UNCHANGED machineVars /\ Hp!Collector

\* Vm::force_gc, which the owner of the machine may call after a run.
ForceGc ==
  /\ status \in {"done", "failed"} /\ phase = "idle"
  /\ Hp!StartCollect(Roots)
  /\ UNCHANGED <<machineVars, slots, freeList, pending>>

Next == DataStep \/ CallStep \/ Return \/ Unwind \/ ForceGc \/ Collect

Spec == Init /\ [][Next]_vars
-----------------------------------------------------------------------------
Frame == [stack : Seq(Value), scopes : Seq(Bindings)]

\* Every value on a stack, in a scope or in a field is a value: no map entry
\* that does not exist is ever read or stored.
TypeOK ==
  /\ stack \in Seq(Value)
  /\ scopes \in Seq(Bindings)
  /\ callStack \in Seq(Frame) /\ Len(callStack) <= MaxCallDepth
  /\ status \in {"running", "unwinding", "done", "failed"}
  /\ error \in VmError \union {"none"} /\ (error = "none" <=> status \in {"running", "done"})
  /\ Hp!TypeOK

\* Whatever instructions run, in any order, a handle on a stack or in a scope of
\* any frame names a live object, and so do the handles it leads to: the
\* "dangling ObjectId" panics of Heap::get and get_mut are out of reach.
NoDangling == Hp!NoDangling

\* No instruction ever runs while a collection is due: every way to allocate
\* ends in maybe_gc, so the garbage between two collections is bounded.
GcPunctual == Ready => pending < Threshold

\* To the program the slots, the free list and the collector are an ObjectStore.
ImplementsStore == Hp!ImplementsStore

\* A step only ever works on the running frame and the frame it calls or returns
\* to: the frames below are left alone, a call suspends the running frame with
\* its operands gone, and a return, after an error too, gives the caller back
\* its scopes and its stack with one value more.
CallsBalance ==
  [][LET below == IF Len(callStack') < Len(callStack) THEN callStack' ELSE callStack
     IN  /\ \A k \in DOMAIN below : callStack'[k] = callStack[k]
         /\ Len(callStack') = Len(callStack) + 1 =>
              /\ Len(callStack'[Len(callStack')].stack) <= Len(stack)
              /\ callStack'[Len(callStack')].scopes = scopes
         /\ Len(callStack') < Len(callStack) =>
              /\ Len(callStack') = Len(callStack) - 1
              /\ scopes' = callStack[Len(callStack)].scopes
              /\ Len(stack') = Len(callStack[Len(callStack)].stack) + 1]_vars

\* An error, wherever it is raised, reaches the top with every frame restored on
\* the way: run_program returns it.
ErrorUnwinds == status = "unwinding" ~> status = "failed" /\ callStack = <<>>
=============================================================================
