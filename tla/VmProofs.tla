------------------------------ MODULE VmProofs ------------------------------
(***************************************************************************)
(* Theorems about Vm, for every set of values, names and functions and     *)
(* every sequence of instructions: the machine uses the heap only in the   *)
(* ways Heap allows, so what HeapProofs proves of the heap holds of the    *)
(* heap inside the machine, with Vm::roots for the handles held.           *)
(***************************************************************************)
EXTENDS Vm, NatLemmas

P == INSTANCE HeapProofs
       WITH held <- Roots, Plain <- { v \in Value \union {Unbound} : ~ IsRef(v) }

-----------------------------------------------------------------------------
(* Handles on stacks and in scopes. *)

RefOf(v) == IF IsRef(v) THEN {v.val} ELSE {}

\* A value that is a handle names an id.
LEMMA RefOfValue == ASSUME NEW v \in Value \union {Unbound} PROVE RefOf(v) \subseteq Id
  BY DEF RefOf, Value, Unbound, IsRef, Nil

\* The handles of a stack of values are ids, and each of its values is among them.
LEMMA RefsInSeqFacts ==
  ASSUME NEW st \in Seq(Value)
  PROVE  /\ RefsInSeq(st) \subseteq Id
         /\ \A k \in 1 .. Len(st) : st[k] \in Value /\ RefOf(st[k]) \subseteq RefsInSeq(st)
  <1>1. \A k \in 1 .. Len(st) : st[k] \in Value
    OBVIOUS
  <1>2. \A k \in 1 .. Len(st) : RefOf(st[k]) \subseteq RefsInSeq(st)
    BY DEF RefsInSeq, RefOf
  <1>3. RefsInSeq(st) \subseteq Id
    <2> SUFFICES ASSUME NEW k \in DOMAIN st, IsRef(st[k]) PROVE st[k].val \in Id
      BY DEF RefsInSeq
    <2> QED
      BY <1>1, RefOfValue DEF RefOf
  <1> QED
    BY <1>1, <1>2, <1>3

\* Dropping n values and pushing one adds no handle but that of the value pushed.
LEMMA PopPushFacts ==
  ASSUME NEW st \in Seq(Value), NEW n \in 0 .. Len(st), NEW v \in Value
  PROVE  LET rest == SubSeq(st, 1, Len(st) - n)
         IN  /\ rest \in Seq(Value) /\ RefsInSeq(rest) \subseteq RefsInSeq(st)
             /\ Append(rest, v) \in Seq(Value)
             /\ RefsInSeq(Append(rest, v)) \subseteq RefsInSeq(st) \union RefOf(v)
             /\ Len(rest) = Len(st) - n
             /\ Len(Append(rest, v)) = Len(st) - n + 1
             /\ RefOf(v) \subseteq RefsInSeq(Append(rest, v))
             /\ RefsInSeq(rest) \subseteq RefsInSeq(Append(rest, v))
  <1> DEFINE rest == SubSeq(st, 1, Len(st) - n)
             new  == Append(rest, v)
  <1>1. /\ rest \in Seq(Value) /\ Len(rest) = Len(st) - n /\ Len(rest) \in Nat
        /\ DOMAIN rest = 1 .. Len(rest)
        /\ \A k \in 1 .. Len(rest) : k \in 1 .. Len(st) /\ rest[k] = st[k]
    OBVIOUS
  <1>2. RefsInSeq(rest) \subseteq RefsInSeq(st)
    BY <1>1 DEF RefsInSeq
  <1> HIDE DEF rest
  <1>3. /\ new \in Seq(Value) /\ Len(new) = Len(rest) + 1
        /\ DOMAIN new = 1 .. Len(rest) + 1
        /\ new[Len(rest) + 1] = v
        /\ \A k \in 1 .. Len(rest) : new[k] = rest[k]
    BY <1>1
  <1> HIDE DEF new
  <1>4. RefsInSeq(new) \subseteq RefsInSeq(rest) \union RefOf(v)
    <2> SUFFICES ASSUME NEW k \in 1 .. Len(rest) + 1, IsRef(new[k])
                 PROVE  new[k].val \in RefsInSeq(rest) \union RefOf(v)
      BY <1>3 DEF RefsInSeq
    <2>1. CASE k = Len(rest) + 1
      BY <1>3, <2>1 DEF RefOf
    <2>2. CASE k \in 1 .. Len(rest)
      <3>1. k \in DOMAIN rest /\ new[k] = rest[k]
        BY <1>1, <1>3, <2>2
      <3> QED
        BY <3>1 DEF RefsInSeq
    <2>3. k = Len(rest) + 1 \/ k \in 1 .. Len(rest)
      BY <1>1
    <2> QED
      BY <2>1, <2>2, <2>3
  <1>5. RefOf(v) \subseteq RefsInSeq(new)
    <2>1. Len(rest) + 1 \in DOMAIN new /\ new[Len(rest) + 1] = v
      BY <1>1, <1>3
    <2>2. \A k \in DOMAIN new : IsRef(new[k]) => new[k].val \in RefsInSeq(new)
      BY DEF RefsInSeq
    <2> QED
      BY <2>1, <2>2 DEF RefOf
  <1>6. RefsInSeq(rest) \subseteq RefsInSeq(new)
    <2>1. \A k \in DOMAIN rest : k \in DOMAIN new /\ new[k] = rest[k]
      BY <1>1, <1>3
    <2> QED
      BY <2>1 DEF RefsInSeq, IsRef
  <1>7. rest \in Seq(Value)
    BY <1>1
  <1> QED
    BY <1>1, <1>2, <1>3, <1>4, <1>5, <1>6 DEF rest, new

\* The handles of the scopes are ids, and every binding is among them.
LEMMA ScopesFacts ==
  ASSUME NEW sc \in Seq(Bindings)
  PROVE  /\ RefsInScopes(sc) \subseteq Id
         /\ \A k \in 1 .. Len(sc), n \in Name :
              /\ sc[k] \in Bindings
              /\ sc[k][n] \in Value \union {Unbound}
              /\ RefOf(sc[k][n]) \subseteq RefsInScopes(sc)
  <1>1. \A k \in 1 .. Len(sc) : sc[k] \in Bindings
    OBVIOUS
  <1>2. \A k \in 1 .. Len(sc), n \in Name : sc[k][n] \in Value \union {Unbound}
    BY <1>1 DEF Bindings
  <1>3. ASSUME NEW k \in 1 .. Len(sc), NEW n \in Name
        PROVE  RefOf(sc[k][n]) \subseteq RefsIn(sc[k])
    BY DEF RefOf, RefsIn
  <1>4. \A k \in 1 .. Len(sc) : RefsIn(sc[k]) \subseteq RefsInScopes(sc)
    BY DEF RefsInScopes
  <1>5. ASSUME NEW k \in 1 .. Len(sc) PROVE RefsIn(sc[k]) \subseteq Id
    BY <1>2, RefOfValue DEF RefsIn, RefOf
  <1>6. RefsInScopes(sc) \subseteq Id
    BY <1>5 DEF RefsInScopes
  <1> QED
    BY <1>1, <1>2, <1>3, <1>4, <1>6

\* One more scope, one less, and one binding overwritten.
LEMMA AppendScope ==
  ASSUME NEW sc \in Seq(Bindings), NEW b \in Bindings
  PROVE  /\ Append(sc, b) \in Seq(Bindings)
         /\ RefsInScopes(Append(sc, b)) \subseteq RefsInScopes(sc) \union RefsIn(b)
  <1> DEFINE new == Append(sc, b)
  <1>1. /\ new \in Seq(Bindings) /\ Len(new) = Len(sc) + 1
        /\ DOMAIN new = 1 .. Len(sc) + 1 /\ DOMAIN sc = 1 .. Len(sc) /\ Len(sc) \in Nat
        /\ new[Len(sc) + 1] = b
        /\ \A k \in 1 .. Len(sc) : new[k] = sc[k]
    OBVIOUS
  <1> HIDE DEF new
  <1>2. \A k \in DOMAIN new : new[k] = b \/ \E j \in DOMAIN sc : new[k] = sc[j]
    BY <1>1
  <1>3. RefsInScopes(new) \subseteq RefsInScopes(sc) \union RefsIn(b)
    BY <1>2 DEF RefsInScopes
  <1> QED
    BY <1>1, <1>3 DEF new

LEMMA DropScope ==
  ASSUME NEW sc \in Seq(Bindings), sc # <<>>
  PROVE  LET new == SubSeq(sc, 1, Len(sc) - 1)
         IN  new \in Seq(Bindings) /\ RefsInScopes(new) \subseteq RefsInScopes(sc)
  <1> DEFINE new == SubSeq(sc, 1, Len(sc) - 1)
  <1>1. /\ new \in Seq(Bindings) /\ DOMAIN sc = 1 .. Len(sc)
        /\ \A k \in DOMAIN new : k \in 1 .. Len(sc) /\ new[k] = sc[k]
    OBVIOUS
  <1> HIDE DEF new
  <1>2. RefsInScopes(new) \subseteq RefsInScopes(sc)
    BY <1>1 DEF RefsInScopes
  <1> QED
    BY <1>1, <1>2 DEF new

LEMMA Rebind ==
  ASSUME NEW b \in Bindings, NEW n \in Name, NEW v \in Value
  PROVE  /\ [b EXCEPT ![n] = v] \in Bindings
         /\ RefsIn([b EXCEPT ![n] = v]) \subseteq RefsIn(b) \union RefOf(v)
  <1> DEFINE new == [b EXCEPT ![n] = v]
  <1>1. new \in Bindings /\ \A j \in Name : new[j] = b[j] \/ new[j] = v
    BY DEF Bindings
  <1> HIDE DEF new
  <1>2. RefsIn(new) \subseteq RefsIn(b) \union RefOf(v)
    BY <1>1 DEF RefsIn, RefOf, IsRef
  <1> QED
    BY <1>1, <1>2 DEF new

LEMMA RebindScope ==
  ASSUME NEW sc \in Seq(Bindings), NEW k \in 1 .. Len(sc), NEW n \in Name, NEW v \in Value
  PROVE  LET new == [sc EXCEPT ![k] = [@ EXCEPT ![n] = v]]
         IN  /\ new \in Seq(Bindings)
             /\ RefsInScopes(new) \subseteq RefsInScopes(sc) \union RefOf(v)
  <1> DEFINE b   == [sc[k] EXCEPT ![n] = v]
             new == [sc EXCEPT ![k] = b]
  <1>1. sc[k] \in Bindings
    OBVIOUS
  <1>2. b \in Bindings /\ RefsIn(b) \subseteq RefsIn(sc[k]) \union RefOf(v)
    BY <1>1, Rebind
  <1> HIDE DEF b
  <1>3. /\ new \in Seq(Bindings) /\ DOMAIN new = DOMAIN sc /\ k \in DOMAIN sc
        /\ \A j \in DOMAIN sc : new[j] = IF j = k THEN b ELSE sc[j]
    BY <1>2
  <1> HIDE DEF new
  <1>4. RefsInScopes(new) \subseteq RefsInScopes(sc) \union RefOf(v)
    BY <1>2, <1>3 DEF RefsInScopes
  <1> QED
    BY <1>3, <1>4 DEF new, b

LEMMA NoBindingsFacts == NoBindings \in Bindings /\ RefsIn(NoBindings) = {}
  BY DEF NoBindings, Bindings, RefsIn, IsRef, Unbound

-----------------------------------------------------------------------------
(* The suspended frames. *)

CallRefs(cs) == UNION { FrameRefs(cs[k]) : k \in DOMAIN cs }

\* Suspending a frame keeps its handles; resuming one loses none of the others.
LEMMA SuspendFacts ==
  ASSUME NEW cs \in Seq(Frame), NEW st \in Seq(Value), NEW sc \in Seq(Bindings)
  PROVE  LET new == Append(cs, [stack |-> st, scopes |-> sc])
         IN  /\ new \in Seq(Frame) /\ Len(new) = Len(cs) + 1
             /\ CallRefs(new) \subseteq CallRefs(cs) \union RefsInSeq(st) \union RefsInScopes(sc)
  <1> DEFINE f   == [stack |-> st, scopes |-> sc]
             new == Append(cs, f)
  <1>1. f \in Frame /\ FrameRefs(f) = RefsInSeq(st) \union RefsInScopes(sc)
    BY DEF Frame, FrameRefs
  <1> HIDE DEF f
  <1>2. /\ new \in Seq(Frame) /\ Len(new) = Len(cs) + 1
        /\ \A k \in DOMAIN new : new[k] = f \/ \E j \in DOMAIN cs : new[k] = cs[j]
    BY <1>1
  <1> HIDE DEF new
  <1>3. CallRefs(new) \subseteq CallRefs(cs) \union FrameRefs(f)
    BY <1>2 DEF CallRefs
  <1> QED
    BY <1>1, <1>2, <1>3 DEF new, f

LEMMA ResumeFacts ==
  ASSUME NEW cs \in Seq(Frame), cs # <<>>
  PROVE  LET rest == SubSeq(cs, 1, Len(cs) - 1)
             last == cs[Len(cs)]
         IN  /\ rest \in Seq(Frame) /\ Len(rest) = Len(cs) - 1
             /\ CallRefs(rest) \subseteq CallRefs(cs)
             /\ last \in Frame
             /\ RefsInSeq(last.stack) \subseteq CallRefs(cs)
             /\ RefsInScopes(last.scopes) \subseteq CallRefs(cs)
  <1> DEFINE rest == SubSeq(cs, 1, Len(cs) - 1)
  <1>1. /\ rest \in Seq(Frame) /\ Len(rest) = Len(cs) - 1
        /\ \A k \in DOMAIN rest : k \in DOMAIN cs /\ rest[k] = cs[k]
        /\ Len(cs) \in DOMAIN cs /\ cs[Len(cs)] \in Frame
    <2>1. Len(cs) \in Nat \ {0} /\ DOMAIN cs = 1 .. Len(cs)
      OBVIOUS
    <2> HIDE DEF Frame
    <2>2. /\ rest \in Seq(Frame) /\ Len(rest) = Len(cs) - 1
          /\ \A k \in DOMAIN rest : k \in DOMAIN cs /\ rest[k] = cs[k]
      BY <2>1
    <2> QED
      BY <2>1, <2>2
  <1> HIDE DEF rest
  <1>2. CallRefs(rest) \subseteq CallRefs(cs) /\ FrameRefs(cs[Len(cs)]) \subseteq CallRefs(cs)
    BY <1>1 DEF CallRefs
  <1> QED
    BY <1>1, <1>2 DEF rest, FrameRefs

\* The handles of every frame are ids.
LEMMA CallRefsAreIds ==
  ASSUME NEW cs \in Seq(Frame)
  PROVE  CallRefs(cs) \subseteq Id
  <1>1. ASSUME NEW k \in DOMAIN cs PROVE FrameRefs(cs[k]) \subseteq Id
    <2>1. cs[k] \in Frame
      OBVIOUS
    <2>2. cs[k].stack \in Seq(Value) /\ cs[k].scopes \in Seq(Bindings)
      BY <2>1 DEF Frame
    <2> QED
      BY <2>2, RefsInSeqFacts, ScopesFacts DEF FrameRefs
  <1> QED
    BY <1>1 DEF CallRefs

-----------------------------------------------------------------------------
(* The inductive invariant: the machine's variables have their types, an error *)
(* is only ever passed on while no collection runs, and the heap's own         *)
(* inductive invariant holds with the machine's roots for the handles held.    *)

MachineOK ==
  /\ stack \in Seq(Value)
  /\ scopes \in Seq(Bindings)
  /\ callStack \in Seq(Frame) /\ Len(callStack) <= MaxCallDepth
  /\ status \in {"running", "unwinding", "done", "failed"}
  /\ error \in VmError \union {"none"} /\ (error = "none" <=> status \in {"running", "done"})
  /\ status = "unwinding" => phase = "idle"

IInv == MachineOK /\ P!IInv

\* What every action is shown to do: keep the machine's types, and take a step of
\* Heap or none.
Progress == MachineOK' /\ (P!Next \/ UNCHANGED P!vars)

\* The instance's operators on values are the machine's.
LEMMA SameValues ==
  /\ \A v : P!IsRef(v) = IsRef(v)
  /\ \A i : P!Ref(i) = Ref(i)
  /\ \A map : P!RefsIn(map) = RefsIn(map)
  /\ \A obj : P!Refs(obj) = Refs(obj)
  /\ P!Id = Id /\ P!Value = Value /\ P!Unbound = Unbound /\ P!Bindings = Bindings
  /\ P!Object = Object
  BY DEF P!IsRef, IsRef, P!Ref, Ref, P!Refs, Refs, P!RefsIn, RefsIn, P!Id, Id,
         P!Value, Value, P!Nil, Nil, P!Unbound, Unbound, P!Bindings, Bindings, P!Object, Object

LEMMA SameHeap ==
  /\ Hp!CanAlloc = P!CanAlloc /\ Hp!AllocId = P!AllocId
  /\ \A obj : Hp!AllocSlots(obj) = P!AllocSlots(obj)
  /\ Hp!AllocFreeList = P!AllocFreeList
  /\ \A n : Hp!ShouldCollect(n) = P!ShouldCollect(n)
  BY DEF Hp!CanAlloc, P!CanAlloc, Hp!AllocId, P!AllocId, Hp!AllocSlots, P!AllocSlots,
         Hp!AllocFreeList, P!AllocFreeList, Hp!ShouldCollect, P!ShouldCollect

\* The roots, frame by frame.
LEMMA RootsFacts ==
  Roots = RefsInSeq(stack) \union RefsInScopes(scopes) \union CallRefs(callStack)
  BY DEF Roots, CallRefs

\* Between two collections every handle of the machine names a live object, and
\* the machine may pick up the handles that object holds.
LEMMA HeldFacts ==
  ASSUME IInv, phase = "idle"
  PROVE  /\ Roots \subseteq P!Live
         /\ Roots \subseteq P!Reachables
         /\ \A i \in Roots : slots[i] \in Object /\ Refs(slots[i]) \subseteq P!Reachables
  <1>1. P!TypeOK /\ P!GcInv
    BY DEF IInv, P!IInv
  <1>2. Roots \subseteq P!Live
    BY <1>1 DEF P!GcInv
  <1>3. \A i \in P!Live : slots[i] \in Object
    <2>1. slots \in Seq(Object \union {Free})
      BY <1>1, SameValues DEF P!TypeOK
    <2> QED
      BY <2>1 DEF P!Live
  <1>4. \A i \in Roots : Refs(slots[i]) \subseteq P!Reachables
    <2>1. \A i \in Roots : P!Refs(slots[i]) \subseteq P!Reachables
      BY <1>2 DEF P!Reachables
    <2> QED
      BY <2>1, SameValues
  <1> QED
    BY <1>2, <1>3, <1>4 DEF P!Reachables

\* An instruction that leaves the heap alone, and whose handles afterwards were
\* held or in a held object, is a Use of the heap.
LEMMA UseStep ==
  ASSUME phase = "idle", UNCHANGED heapVars, Roots' \subseteq P!Reachables
  PROVE  P!Next
  <1>1. P!Use(Roots')
    BY DEF P!Use, P!heapVars, P!gcVars, heapVars
  <1> QED
    BY <1>1 DEF P!Next, P!Program

\* SetStack.
LEMMA SetStackStep ==
  ASSUME IInv, Ready, NEW st \in Seq(Value), RefsInSeq(st) \subseteq P!Reachables, SetStack(st)
  PROVE  Progress
  <1>1. /\ stack' = st /\ phase = "idle" /\ status = "running"
        /\ UNCHANGED <<scopes, callStack, status, error>> /\ UNCHANGED heapVars
    BY DEF SetStack, Ready
  <1>2. MachineOK'
    BY <1>1 DEF IInv, MachineOK
  <1>3. Roots' = RefsInSeq(st) \union RefsInScopes(scopes) \union CallRefs(callStack)
    BY <1>1 DEF Roots, CallRefs
  <1>4. Roots' \subseteq P!Reachables
    BY <1>1, <1>3, HeldFacts, RootsFacts
  <1> QED
    BY <1>1, <1>2, <1>4, UseStep DEF Progress

\* Fail.
LEMMA FailStep ==
  ASSUME IInv, Ready, NEW n \in 0 .. Len(stack), NEW e \in VmError, Fail(n, e)
  PROVE  Progress
  <1>1. /\ stack' = SubSeq(stack, 1, Len(stack) - n) /\ status' = "unwinding" /\ error' = e
        /\ phase = "idle" /\ phase' = phase
        /\ UNCHANGED <<scopes, callStack>> /\ UNCHANGED heapVars
    BY DEF Fail, Ready, Popped, heapVars
  <1>2. stack \in Seq(Value)
    BY DEF IInv, MachineOK
  <1>3. stack' \in Seq(Value) /\ RefsInSeq(stack') \subseteq RefsInSeq(stack)
    <2>1. Nil \in Value
      BY DEF Value
    <2> QED
      BY <1>1, <1>2, <2>1, PopPushFacts
  <1>4. MachineOK'
    BY <1>1, <1>3 DEF IInv, MachineOK, VmError
  <1>5. Roots' = RefsInSeq(stack') \union RefsInScopes(scopes) \union CallRefs(callStack)
    BY <1>1 DEF Roots, CallRefs
  <1>6. Roots' \subseteq P!Reachables
    BY <1>1, <1>3, <1>5, HeldFacts, RootsFacts
  <1> QED
    BY <1>1, <1>4, <1>6, UseStep DEF Progress

\* The assumptions of the instance, on which its theorems rest.
LEMMA HeapAssumptions ==
  P!CapacityAssumption /\ P!PlainAssumption /\ P!FreeAssumption /\ P!ThresholdAssumption
  <1>1. P!PlainAssumption
    BY SameValues DEF P!PlainAssumption
  <1> QED
    BY <1>1, SameValues, CapacityAssumption, FreeAssumption, ThresholdAssumption
    DEF P!CapacityAssumption, P!FreeAssumption, P!ThresholdAssumption

\* What Progress is for.
LEMMA ProgressInv ==
  ASSUME IInv, Progress
  PROVE  IInv'
  <1>1. P!IInv /\ [P!Next]_(P!vars)
    BY DEF IInv, Progress
  <1>2. P!IInv'
    BY <1>1, HeapAssumptions, P!NextIInv
  <1> QED
    BY <1>2 DEF IInv, Progress

-----------------------------------------------------------------------------
(* Operands. *)

LEMMA TopFacts ==
  ASSUME stack \in Seq(Value), NEW n \in Nat, n < Len(stack)
  PROVE  Top(n) \in Value /\ RefOf(Top(n)) \subseteq RefsInSeq(stack)
  <1>1. Len(stack) - n \in 1 .. Len(stack)
    OBVIOUS
  <1> QED
    BY <1>1, RefsInSeqFacts DEF Top

Kind == {"any", "num", "bool", "object"}

\* What an instruction knows of the operands it accepts.
LEMMA AcceptedFacts ==
  ASSUME stack \in Seq(Value), NEW kinds \in Seq(Kind), Accepted(kinds)
  PROVE  /\ Len(kinds) \in 0 .. Len(stack)
         /\ \A k \in 1 .. Len(kinds) :
              /\ kinds[k] = "any" \/ Top(k - 1).tag = kinds[k]
              /\ Top(k - 1) \in Value /\ RefOf(Top(k - 1)) \subseteq RefsInSeq(stack)
  <1>1. /\ Len(kinds) \in Nat /\ Len(stack) \in Nat
        /\ \A k \in 1 .. Len(kinds) : k <= Len(stack) /\ kinds[k] \in {"any", Top(k - 1).tag}
    BY DEF Accepted, Wrong
  <1>2. Len(kinds) <= Len(stack)
    <2>1. CASE Len(kinds) = 0
      BY <1>1, <2>1
    <2>2. CASE Len(kinds) # 0
      <3>1. Len(kinds) \in 1 .. Len(kinds)
        BY <1>1, <2>2
      <3> QED
        BY <1>1, <3>1
    <2> QED
      BY <2>1, <2>2
  <1>3. ASSUME NEW k \in 1 .. Len(kinds)
        PROVE  Top(k - 1) \in Value /\ RefOf(Top(k - 1)) \subseteq RefsInSeq(stack)
    <2>1. k - 1 \in Nat /\ k - 1 < Len(stack)
      BY <1>1
    <2> QED
      BY <2>1, TopFacts
  <1> QED
    BY <1>1, <1>2, <1>3

\* Operands that are not accepted make the instruction fail.
LEMMA FailOperandsStep ==
  ASSUME IInv, Ready, NEW kinds \in Seq(Kind), FailOperands(kinds)
  PROVE  Progress
  <1> DEFINE k == FirstWrong(kinds)
             n == IF k > Len(stack) THEN Len(stack) ELSE k
             W == { j \in DOMAIN kinds : Wrong(kinds, j) }
  <1>1. Len(stack) \in Nat /\ DOMAIN kinds = 1 .. Len(kinds) /\ Len(kinds) \in Nat
    BY DEF IInv, MachineOK
  <1>2. W \subseteq Nat /\ W # {}
    BY <1>1 DEF FailOperands, Accepted
  <1>3. PICK j \in W : \A i \in W : j <= i
    BY <1>2, NatMin
  <1>4. j \in DOMAIN kinds /\ Wrong(kinds, j) /\ \A i \in 1 .. j - 1 : ~ Wrong(kinds, i)
    BY <1>1, <1>3
  <1>5. k \in DOMAIN kinds
    BY <1>4 DEF FirstWrong
  <1>6. n \in 0 .. Len(stack)
    BY <1>1, <1>5
  <1>7. OperandError(kinds) \in VmError
    BY Zenon DEF OperandError, VmError
  <1>8. Fail(n, OperandError(kinds))
    BY DEF FailOperands
  <1> HIDE DEF n, k
  <1> QED
    BY <1>6, <1>7, <1>8, FailStep

\* An instruction that pops n operands and pushes a value that was there, or one
\* that is no handle.
LEMMA PushStep ==
  ASSUME IInv, Ready, NEW n \in 0 .. Len(stack), NEW v \in Value,
         RefOf(v) \subseteq P!Reachables, SetStack(Push(n, v))
  PROVE  Progress
  <1>1. stack \in Seq(Value) /\ phase = "idle"
    BY DEF IInv, MachineOK, Ready
  <1>2. RefsInSeq(stack) \subseteq P!Reachables
    BY <1>1, HeldFacts, RootsFacts
  <1>3. Push(n, v) \in Seq(Value) /\ RefsInSeq(Push(n, v)) \subseteq RefsInSeq(stack) \union RefOf(v)
    BY <1>1, PopPushFacts DEF Push, Popped
  <1> QED
    BY <1>2, <1>3, SetStackStep

\* The same for a value that is on the stack already.
LEMMA PopStep ==
  ASSUME IInv, Ready, NEW n \in 0 .. Len(stack), SetStack(Popped(n))
  PROVE  Progress
  <1>1. stack \in Seq(Value) /\ phase = "idle"
    BY DEF IInv, MachineOK, Ready
  <1>2. RefsInSeq(stack) \subseteq P!Reachables
    BY <1>1, HeldFacts, RootsFacts
  <1>3. Nil \in Value
    BY DEF Value
  <1>4. Popped(n) \in Seq(Value) /\ RefsInSeq(Popped(n)) \subseteq RefsInSeq(stack)
    BY <1>1, <1>3, PopPushFacts DEF Popped
  <1> QED
    BY <1>2, <1>4, SetStackStep

\* What the stack holds may be pushed again.
LEMMA StackReachable ==
  ASSUME IInv, phase = "idle"
  PROVE  /\ stack \in Seq(Value) /\ scopes \in Seq(Bindings) /\ callStack \in Seq(Frame)
         /\ RefsInSeq(stack) \subseteq P!Reachables
         /\ RefsInScopes(scopes) \subseteq P!Reachables
         /\ CallRefs(callStack) \subseteq P!Reachables
  BY HeldFacts, RootsFacts DEF IInv, MachineOK

-----------------------------------------------------------------------------
(* Instructions that leave scopes and objects alone. *)

\* The result of an operator is no handle, unless it is Print's operand.
LEMMA ResultFacts ==
  ASSUME NEW op \in PureOps, NEW a \in Value, NEW b \in Value,
         op \in NumOps \union NumFuncs \union NumTests => a.tag = "num" /\ b.tag = "num"
  PROVE  Result(op, a, b) \in Value /\ RefOf(Result(op, a, b)) \subseteq RefOf(b)
  <1>1. ASSUME NEW c \in BOOLEAN PROVE BoolV(c) \in Value /\ RefOf(BoolV(c)) = {}
    BY DEF BoolV, Value, RefOf, IsRef
  <1>2. ASSUME NEW c \in Num PROVE NumV(c) \in Value /\ RefOf(NumV(c)) = {}
    BY DEF NumV, Value, RefOf, IsRef
  <1>3. ASSUME NEW c \in Str PROVE StrV(c) \in Value /\ RefOf(StrV(c)) = {}
    BY DEF StrV, Value, RefOf, IsRef
  <1>4. ASSUME NEW c \in Value, c.tag = "num" PROVE c.val \in Num
    BY <1>4 DEF Value, Nil
  <1>5. CASE op \in NumOps
    <2>1. Result(op, a, b) = NumV(Arith(op, a.val, b.val))
      BY <1>5 DEF Result, NumOps, NumFuncs, Joins
    <2>2. Arith(op, a.val, b.val) \in Num
      BY <1>4, <1>5, ArithAssumption
    <2> QED
      BY <1>2, <2>1, <2>2
  <1>6. CASE op \in NumFuncs
    <2>1. Result(op, a, b) = NumV(Arith(op, b.val, b.val))
      BY <1>6 DEF Result, NumOps, NumFuncs, Joins
    <2>2. Arith(op, b.val, b.val) \in Num
      BY <1>4, <1>6, ArithAssumption
    <2> QED
      BY <1>2, <2>1, <2>2
  <1>7. CASE op \in Joins
    <2>1. Result(op, a, b) = StrV(Join(op, a, b))
      BY <1>7 DEF Result, NumOps, NumFuncs, Joins
    <2>2. Join(op, a, b) \in Str
      BY <1>7, JoinAssumption
    <2> QED
      BY <1>3, <2>1, <2>2
  <1>8. CASE op = "Print"
    BY <1>8 DEF Result, NumOps, NumFuncs, Joins
  <1>9. CASE op \in NumTests \union BoolOps \union AnyTests \union {"Not"}
    <2>1. \E c \in BOOLEAN : Result(op, a, b) = BoolV(c)
      <3>1. op \notin NumOps /\ op \notin NumFuncs /\ op \notin Joins
        BY <1>9 DEF NumOps, NumFuncs, Joins, NumTests, BoolOps, AnyTests
      <3>2. op \in {"Lt", "Le", "Gt", "Ge", "And", "Or", "Eq", "Ne", "Not"}
        BY <1>9 DEF NumTests, BoolOps, AnyTests
      <3>0. op \in {"Lt", "Le", "Gt", "Ge"} => a.val \in Int /\ b.val \in Int
        BY <1>4, NumAssumption DEF NumTests
      <3>3. CASE op = "Lt"
        <4>1. Result(op, a, b) = BoolV(a.val < b.val)
          BY <3>1, <3>3 DEF Result
        <4>2. (a.val < b.val) \in BOOLEAN
          BY <3>0, <3>3
        <4> QED
          BY <4>1, <4>2
      <3>4. CASE op = "Le"
        <4>1. Result(op, a, b) = BoolV(a.val <= b.val)
          BY <3>1, <3>4 DEF Result
        <4>2. (a.val <= b.val) \in BOOLEAN
          BY <3>0, <3>4
        <4> QED
          BY <4>1, <4>2
      <3>5. CASE op = "Gt"
        <4>1. Result(op, a, b) = BoolV(a.val > b.val)
          BY <3>1, <3>5 DEF Result
        <4>2. (a.val > b.val) \in BOOLEAN
          BY <3>0, <3>5
        <4> QED
          BY <4>1, <4>2
      <3>6. CASE op = "Ge"
        <4>1. Result(op, a, b) = BoolV(a.val >= b.val)
          BY <3>1, <3>6 DEF Result
        <4>2. (a.val >= b.val) \in BOOLEAN
          BY <3>0, <3>6
        <4> QED
          BY <4>1, <4>2
      <3>7. CASE op = "And"
        BY <3>1, <3>7 DEF Result
      <3>8. CASE op = "Or"
        BY <3>1, <3>8 DEF Result
      <3>9. CASE op = "Eq"
        BY <3>1, <3>9 DEF Result, Same
      <3>10. CASE op = "Ne"
        BY <3>1, <3>10 DEF Result, Same
      <3>11. CASE op = "Not"
        BY <3>1, <3>11 DEF Result
      <3> QED
        BY <3>2, <3>3, <3>4, <3>5, <3>6, <3>7, <3>8, <3>9, <3>10, <3>11
    <2> QED
      BY <1>1, <2>1
  <1> QED
    BY <1>5, <1>6, <1>7, <1>8, <1>9 DEF PureOps

\* AcceptedFacts for one and for two operands.
LEMMA Accepted1 ==
  ASSUME stack \in Seq(Value), NEW k \in Kind, Accepted(<<k>>)
  PROVE  /\ 1 \in 0 .. Len(stack)
         /\ k = "any" \/ Top(0).tag = k
         /\ Top(0) \in Value /\ RefOf(Top(0)) \subseteq RefsInSeq(stack)
  <1> DEFINE kinds == <<k>>
  <1>1. kinds \in Seq(Kind) /\ Len(kinds) = 1 /\ kinds[1] = k /\ 1 \in 1 .. Len(kinds) /\ 1 - 1 = 0
    OBVIOUS
  <1> HIDE DEF kinds
  <1>2. Accepted(kinds)
    BY DEF kinds
  <1> QED
    BY <1>1, <1>2, AcceptedFacts

LEMMA Accepted2 ==
  ASSUME stack \in Seq(Value), NEW j \in Kind, NEW k \in Kind, Accepted(<<j, k>>)
  PROVE  /\ 2 \in 0 .. Len(stack)
         /\ j = "any" \/ Top(0).tag = j
         /\ k = "any" \/ Top(1).tag = k
         /\ Top(0) \in Value /\ RefOf(Top(0)) \subseteq RefsInSeq(stack)
         /\ Top(1) \in Value /\ RefOf(Top(1)) \subseteq RefsInSeq(stack)
  <1> DEFINE kinds == <<j, k>>
  <1>1. /\ kinds \in Seq(Kind) /\ Len(kinds) = 2 /\ kinds[1] = j /\ kinds[2] = k
        /\ 1 \in 1 .. Len(kinds) /\ 2 \in 1 .. Len(kinds) /\ 1 - 1 = 0 /\ 2 - 1 = 1
    OBVIOUS
  <1> HIDE DEF kinds
  <1>2. Accepted(kinds)
    BY DEF kinds
  <1> QED
    BY <1>1, <1>2, AcceptedFacts

LEMMA KindsFacts ==
  /\ \A k \in Kind : <<k>> \in Seq(Kind)
  /\ \A j, k \in Kind : <<j, k>> \in Seq(Kind)
  /\ \A n \in Nat : AnyKinds(n) \in Seq(Kind) /\ Len(AnyKinds(n)) = n
  <1>1. ASSUME NEW n \in Nat PROVE AnyKinds(n) \in Seq(Kind) /\ Len(AnyKinds(n)) = n
    BY DEF AnyKinds, Kind
  <1> QED
    BY <1>1

LEMMA ComputeStep ==
  ASSUME IInv, NEW op \in PureOps, Compute(op)
  PROVE  Progress
  <1> DEFINE kinds == Kinds(op)
             a     == Top(Len(kinds) - 1)
             b     == Top(0)
  <1>1. /\ Ready /\ phase = "idle" /\ stack \in Seq(Value)
        /\ RefsInSeq(stack) \subseteq P!Reachables
    BY StackReachable DEF Compute, Ready
  <1>2. \/ /\ op \in NumOps \union NumTests
           /\ kinds = <<"num", "num">>
        \/ op \in NumFuncs /\ kinds = <<"num">>
        \/ op \in BoolOps /\ kinds = <<"bool", "bool">>
        \/ op \in AnyTests \union Joins /\ kinds = <<"any", "any">>
        \/ op = "Not" /\ kinds = <<"bool">>
        \/ op = "Print" /\ kinds = <<"any">>
    BY DEF Kinds, PureOps, NumOps, NumFuncs, NumTests, BoolOps, AnyTests, Joins
  <1> HIDE DEF kinds
  <1>3. kinds \in Seq(Kind) /\ Len(kinds) \in 1 .. 2
    <2>1. (\E j, k \in Kind : kinds = <<j, k>>) \/ (\E k \in Kind : kinds = <<k>>)
      BY <1>2 DEF Kind
    <2> QED
      BY <2>1, KindsFacts
  <1>4. ASSUME Accepted(kinds)
        PROVE  /\ Len(kinds) \in 0 .. Len(stack)
               /\ a \in Value /\ b \in Value /\ RefOf(b) \subseteq RefsInSeq(stack)
               /\ op \in NumOps \union NumFuncs \union NumTests => a.tag = "num" /\ b.tag = "num"
    <2>1. CASE Len(kinds) = 2
      <3>1. PICK j, k \in Kind : kinds = <<j, k>>
        BY <1>2, <2>1 DEF Kind
      <3>2. op \in NumOps \union NumFuncs \union NumTests => j = "num" /\ k = "num"
        BY <1>2, <2>1, <3>1 DEF NumOps, NumFuncs, NumTests, BoolOps, AnyTests, Joins
      <3>3. Accepted(<<j, k>>)
        BY <1>4, <3>1
      <3>4. /\ 2 \in 0 .. Len(stack)
            /\ j = "any" \/ Top(0).tag = j
            /\ k = "any" \/ Top(1).tag = k
            /\ Top(0) \in Value /\ RefOf(Top(0)) \subseteq RefsInSeq(stack)
            /\ Top(1) \in Value
        BY <1>1, <3>3, Accepted2
      <3>5. a = Top(1)
        BY <2>1
      <3> QED
        BY <2>1, <3>2, <3>4, <3>5
    <2>2. CASE Len(kinds) = 1
      <3>1. PICK k \in Kind : kinds = <<k>>
        BY <1>2, <2>2 DEF Kind
      <3>2. op \in NumOps \union NumFuncs \union NumTests => k = "num"
        BY <1>2, <2>2, <3>1 DEF NumOps, NumFuncs, NumTests, BoolOps, AnyTests, Joins
      <3>3. Accepted(<<k>>)
        BY <1>4, <3>1
      <3>4. /\ 1 \in 0 .. Len(stack)
            /\ k = "any" \/ Top(0).tag = k
            /\ Top(0) \in Value /\ RefOf(Top(0)) \subseteq RefsInSeq(stack)
        BY <1>1, <3>3, Accepted1
      <3>5. a = Top(0)
        BY <2>2
      <3> QED
        BY <2>2, <3>2, <3>4, <3>5
    <2> QED
      BY <1>3, <2>1, <2>2
  <1>5. CASE Accepted(kinds) /\ SetStack(Push(Len(kinds), Result(op, a, b)))
    <2>1. Result(op, a, b) \in Value /\ RefOf(Result(op, a, b)) \subseteq RefOf(b)
      BY <1>4, <1>5, ResultFacts
    <2> QED
      BY <1>1, <1>4, <1>5, <2>1, PushStep
  <1>6. CASE Accepted(kinds) /\ FailAfter(kinds, "DivisionByZero")
    BY <1>1, <1>4, <1>6, FailStep DEF FailAfter, VmError
  <1>7. CASE FailOperands(kinds)
    BY <1>1, <1>3, <1>7, FailOperandsStep
  <1> QED
    BY <1>5, <1>6, <1>7 DEF Compute, kinds

\* PushLiteral, Pop, Dup and the jumps.
LEMMA StackStep ==
  ASSUME IInv, (\E v \in Literals : PushLiteral(v)) \/ Pop \/ Dup \/ Jump \/ JumpIfFalse
  PROVE  Progress
  <1>1. /\ Ready /\ phase = "idle" /\ stack \in Seq(Value) /\ Len(stack) \in Nat
        /\ RefsInSeq(stack) \subseteq P!Reachables
    BY StackReachable DEF PushLiteral, Pop, Dup, Jump, JumpIfFalse, Ready
  <1>2. "any" \in Kind /\ "bool" \in Kind
    BY DEF Kind
  <1>3. ASSUME NEW v \in Literals, PushLiteral(v) PROVE Progress
    <2>1. v \in Value /\ RefOf(v) = {}
      BY LiteralsAssumption DEF RefOf
    <2> QED
      BY <1>1, <1>3, <2>1, PushStep DEF PushLiteral
  <1>4. ASSUME NEW k \in Kind, Accepted(<<k>>), SetStack(Popped(1)) PROVE Progress
    BY <1>1, <1>4, Accepted1, PopStep
  <1>5. ASSUME Accepted(<<"any">>), SetStack(Push(0, Top(0))) PROVE Progress
    <2>1. Top(0) \in Value /\ RefOf(Top(0)) \subseteq P!Reachables
      BY <1>1, <1>2, <1>5, Accepted1
    <2> QED
      BY <1>1, <1>5, <2>1, PushStep
  <1>6. ASSUME NEW k \in Kind, FailOperands(<<k>>) PROVE Progress
    BY <1>1, <1>6, KindsFacts, FailOperandsStep
  <1>7. CASE Fail(0, "UndefinedLabel")
    BY <1>1, <1>7, FailStep DEF VmError
  <1>8. ASSUME FailAfter(<<"bool">>, "UndefinedLabel") PROVE Progress
    <2>1. Accepted(<<"bool">>) /\ Fail(1, "UndefinedLabel")
      BY <1>8 DEF FailAfter
    <2>2. 1 \in 0 .. Len(stack)
      BY <1>1, <1>2, <2>1, Accepted1
    <2> QED
      BY <1>1, <2>1, <2>2, FailStep DEF VmError
  <1> QED
    BY <1>2, <1>3, <1>4, <1>5, <1>6, <1>7, <1>8 DEF Pop, Dup, Jump, JumpIfFalse

-----------------------------------------------------------------------------
(* Variables and scopes. *)

LEMMA InnermostFacts ==
  ASSUME scopes \in Seq(Bindings), NEW n \in Name, Binding(n) # {}
  PROVE  /\ Innermost(n) \in 1 .. Len(scopes)
         /\ scopes[Innermost(n)][n] \in Value
         /\ RefOf(scopes[Innermost(n)][n]) \subseteq RefsInScopes(scopes)
  <1>1. Len(scopes) \in Nat /\ DOMAIN scopes = 1 .. Len(scopes)
    OBVIOUS
  <1>2. Binding(n) \subseteq 1 .. Len(scopes)
    BY <1>1 DEF Binding
  <1>3. \E k \in Binding(n) : \A j \in Binding(n) : j <= k
    BY <1>1, <1>2, NatMax
  <1>4. Innermost(n) \in Binding(n)
    BY <1>3 DEF Innermost
  <1>5. Innermost(n) \in 1 .. Len(scopes) /\ scopes[Innermost(n)][n] # Unbound
    BY <1>2, <1>4 DEF Binding
  <1>6. scopes[Innermost(n)][n] \in Value \union {Unbound}
        /\ RefOf(scopes[Innermost(n)][n]) \subseteq RefsInScopes(scopes)
    BY <1>5, ScopesFacts
  <1> QED
    BY <1>5, <1>6

LEMMA LoadVarStep ==
  ASSUME IInv, NEW n \in Name, LoadVar(n)
  PROVE  Progress
  <1>1. /\ Ready /\ phase = "idle" /\ scopes \in Seq(Bindings) /\ stack \in Seq(Value)
        /\ RefsInScopes(scopes) \subseteq P!Reachables
        /\ 0 \in 0 .. Len(stack)
    BY StackReachable DEF LoadVar, Ready
  <1>2. CASE Binding(n) # {} /\ SetStack(Push(0, scopes[Innermost(n)][n]))
    <2>1. /\ scopes[Innermost(n)][n] \in Value
          /\ RefOf(scopes[Innermost(n)][n]) \subseteq P!Reachables
      BY <1>1, <1>2, InnermostFacts
    <2> QED
      BY <1>1, <1>2, <2>1, PushStep
  <1>3. CASE Fail(0, "UndefinedVariable")
    BY <1>1, <1>3, FailStep DEF VmError
  <1> QED
    BY <1>2, <1>3 DEF LoadVar

\* A step that changes the stack and the scopes of the running frame only.
LEMMA FrameStep ==
  ASSUME IInv, Ready, stack' \in Seq(Value), scopes' \in Seq(Bindings),
         RefsInSeq(stack') \subseteq P!Reachables, RefsInScopes(scopes') \subseteq P!Reachables,
         UNCHANGED <<callStack, status, error>>, UNCHANGED heapVars
  PROVE  Progress
  <1>1. MachineOK'
    BY DEF IInv, MachineOK, heapVars
  <1>2. phase = "idle"
    BY DEF Ready
  <1>3. Roots' = RefsInSeq(stack') \union RefsInScopes(scopes') \union CallRefs(callStack)
    BY DEF Roots, CallRefs
  <1>4. Roots' \subseteq P!Reachables
    BY <1>2, <1>3, StackReachable
  <1> QED
    BY <1>1, <1>2, <1>4, UseStep DEF Progress

\* Binding a value: in a scope that exists, or in one made for it.
LEMMA BindFacts ==
  ASSUME NEW n \in Name, NEW v \in Value
  PROVE  LET new == <<[NoBindings EXCEPT ![n] = v]>>
         IN  new \in Seq(Bindings) /\ RefsInScopes(new) \subseteq RefOf(v)
  <1> DEFINE b == [NoBindings EXCEPT ![n] = v]
  <1>1. b \in Bindings /\ RefsIn(b) \subseteq RefOf(v)
    BY NoBindingsFacts, Rebind
  <1> HIDE DEF b
  <1>2. <<b>> \in Seq(Bindings)
    BY <1>1
  <1>3. RefsInScopes(<<b>>) \subseteq RefOf(v)
    BY <1>1 DEF RefsInScopes
  <1> QED
    BY <1>2, <1>3 DEF b

LEMMA VarStep ==
  ASSUME IInv, NEW n \in Name, StoreVar(n) \/ BindVar(n)
  PROVE  Progress
  <1>1. /\ Ready /\ phase = "idle" /\ scopes \in Seq(Bindings) /\ stack \in Seq(Value)
        /\ Len(scopes) \in Nat
        /\ RefsInScopes(scopes) \subseteq P!Reachables
        /\ RefsInSeq(stack) \subseteq P!Reachables
        /\ "any" \in Kind
    BY StackReachable DEF StoreVar, BindVar, Ready, Kind
  <1>2. ASSUME Accepted(<<"any">>)
        PROVE  /\ 1 \in 0 .. Len(stack)
               /\ Top(0) \in Value /\ RefOf(Top(0)) \subseteq P!Reachables
               /\ Popped(1) \in Seq(Value) /\ RefsInSeq(Popped(1)) \subseteq P!Reachables
    <2>1. 1 \in 0 .. Len(stack) /\ Top(0) \in Value /\ RefOf(Top(0)) \subseteq RefsInSeq(stack)
      BY <1>1, <1>2, Accepted1
    <2>2. Popped(1) \in Seq(Value) /\ RefsInSeq(Popped(1)) \subseteq RefsInSeq(stack)
      BY <1>1, <2>1, PopPushFacts DEF Popped
    <2> QED
      BY <1>1, <2>1, <2>2
  <1>3. ASSUME Accepted(<<"any">>), NEW k \in 1 .. Len(scopes),
               scopes' = [scopes EXCEPT ![k] = [@ EXCEPT ![n] = Top(0)]],
               stack' = Popped(1), UNCHANGED <<callStack, status, error, heapVars>>
        PROVE  Progress
    <2>1. /\ scopes' \in Seq(Bindings)
          /\ RefsInScopes(scopes') \subseteq RefsInScopes(scopes) \union RefOf(Top(0))
      BY <1>1, <1>2, <1>3, RebindScope
    <2> QED
      BY <1>1, <1>2, <1>3, <2>1, FrameStep
  <1>4. ASSUME Accepted(<<"any">>), scopes' = <<[NoBindings EXCEPT ![n] = Top(0)]>>,
               stack' = Popped(1), UNCHANGED <<callStack, status, error, heapVars>>
        PROVE  Progress
    <2>1. scopes' \in Seq(Bindings) /\ RefsInScopes(scopes') \subseteq RefOf(Top(0))
      BY <1>2, <1>4, BindFacts
    <2> QED
      BY <1>1, <1>2, <1>4, <2>1, FrameStep
  <1>5. CASE FailAfter(<<"any">>, "UndefinedVariable")
    BY <1>1, <1>2, <1>5, FailStep DEF FailAfter, VmError
  <1>6. CASE FailOperands(<<"any">>)
    BY <1>1, <1>6, KindsFacts, FailOperandsStep
  <1>7. CASE StoreVar(n)
    <2>1. Binding(n) # {} => Innermost(n) \in 1 .. Len(scopes)
      BY <1>1, InnermostFacts
    <2> QED
      BY <1>3, <1>5, <1>6, <1>7, <2>1 DEF StoreVar
  <1>8. CASE BindVar(n)
    <2>1. scopes # <<>> => Len(scopes) \in 1 .. Len(scopes)
      BY <1>1
    <2> QED
      BY <1>3, <1>4, <1>6, <1>8, <2>1 DEF BindVar
  <1> QED
    BY <1>7, <1>8

LEMMA ScopeStep ==
  ASSUME IInv, BeginScope \/ EndScope
  PROVE  Progress
  <1>1. /\ Ready /\ phase = "idle" /\ scopes \in Seq(Bindings) /\ stack \in Seq(Value)
        /\ RefsInScopes(scopes) \subseteq P!Reachables
        /\ RefsInSeq(stack) \subseteq P!Reachables
    BY StackReachable DEF BeginScope, EndScope, Ready
  <1>2. CASE BeginScope
    <2>1. scopes' \in Seq(Bindings) /\ RefsInScopes(scopes') \subseteq RefsInScopes(scopes)
      BY <1>1, <1>2, NoBindingsFacts, AppendScope DEF BeginScope
    <2> QED
      BY <1>1, <1>2, <2>1, FrameStep DEF BeginScope
  <1>3. CASE EndScope
    <2>1. scopes' \in Seq(Bindings) /\ RefsInScopes(scopes') \subseteq RefsInScopes(scopes)
      <3>1. CASE scopes = <<>>
        BY <1>1, <1>3, <3>1 DEF EndScope
      <3>2. CASE scopes # <<>>
        BY <1>1, <1>3, <3>2, DropScope DEF EndScope
      <3> QED
        BY <3>1, <3>2
    <2> QED
      BY <1>1, <1>3, <2>1, FrameStep DEF EndScope
  <1> QED
    BY <1>2, <1>3

-----------------------------------------------------------------------------
(* Calls. *)

\* A callee's first scope holds nothing but its arguments.
LEMMA BoundFacts ==
  ASSUME NEW params \in Seq(Name), NEW args \in Seq(Value)
  PROVE  Bound(params, args) \in Bindings /\ RefsIn(Bound(params, args)) \subseteq RefsInSeq(args)
  <1> DEFINE b        == Bound(params, args)
             given(n) == { k \in DOMAIN params \intersect DOMAIN args : params[k] = n }
             last(n)  == CHOOSE k \in given(n) : \A j \in given(n) : j <= k
  <1>1. Len(args) \in Nat /\ DOMAIN args = 1 .. Len(args)
    OBVIOUS
  <1>2. ASSUME NEW n \in Name, given(n) # {} PROVE last(n) \in 1 .. Len(args)
    <2>1. given(n) \subseteq 1 .. Len(args)
      BY <1>1
    <2> HIDE DEF given
    <2>2. \E k \in given(n) : \A j \in given(n) : j <= k
      BY <1>1, <1>2, <2>1, NatMax
    <2>3. last(n) \in given(n)
      BY <2>2
    <2> QED
      BY <2>1, <2>3
  <1>3. b = [n \in Name |-> IF given(n) = {} THEN Unbound ELSE args[last(n)]]
    BY DEF Bound
  <1> HIDE DEF b, given, last
  <1>4. \A k \in 1 .. Len(args) : args[k] \in Value /\ RefOf(args[k]) \subseteq RefsInSeq(args)
    BY RefsInSeqFacts
  <1>5. \A n \in Name : b[n] = Unbound \/ (b[n] \in Value /\ RefOf(b[n]) \subseteq RefsInSeq(args))
    BY <1>2, <1>3, <1>4
  <1>6. b \in Bindings
    BY <1>3, <1>5 DEF Bindings
  <1>7. RefsIn(b) \subseteq RefsInSeq(args)
    BY <1>5 DEF RefsIn, RefOf, IsRef, Unbound
  <1> QED
    BY <1>6, <1>7 DEF b

LEMMA TopArgsFacts ==
  ASSUME stack \in Seq(Value), NEW n \in Nat, NEW k \in Nat, n + k <= Len(stack)
  PROVE  /\ TopArgs(n, k) \in Seq(Value) /\ Len(TopArgs(n, k)) = k
         /\ \A j \in 1 .. k : /\ TopArgs(n, k)[j] \in Value
                              /\ RefOf(TopArgs(n, k)[j]) \subseteq RefsInSeq(stack)
         /\ RefsInSeq(TopArgs(n, k)) \subseteq RefsInSeq(stack)
  <1> DEFINE args == TopArgs(n, k)
  <1>1. ASSUME NEW j \in 1 .. k
        PROVE  Top(n + k - j) \in Value /\ RefOf(Top(n + k - j)) \subseteq RefsInSeq(stack)
    <2>1. n + k - j \in Nat /\ n + k - j < Len(stack)
      OBVIOUS
    <2> QED
      BY <2>1, TopFacts
  <1>2. /\ args \in Seq(Value) /\ DOMAIN args = 1 .. k /\ Len(args) = k
        /\ \A j \in 1 .. k : args[j] = Top(n + k - j)
    BY <1>1 DEF TopArgs
  <1> HIDE DEF args
  <1>3. \A j \in 1 .. k : RefOf(args[j]) \subseteq RefsInSeq(stack)
    BY <1>1, <1>2
  <1>4. RefsInSeq(args) \subseteq RefsInSeq(stack)
    BY <1>2, <1>3 DEF RefsInSeq, RefOf
  <1> QED
    BY <1>1, <1>2, <1>3, <1>4 DEF args

LEMMA EnterStep ==
  ASSUME IInv, Ready, NEW n \in 0 .. Len(stack), NEW fn, NEW args \in Seq(Value),
         RefsInSeq(args) \subseteq RefsInSeq(stack), Enter(n, fn, args)
  PROVE  Progress
  <1>1. CASE Fail(n, "StackOverflow") \/ Fail(n, "UndefinedFunction")
    BY <1>1, FailStep DEF VmError
  <1>2. CASE /\ Len(callStack) < MaxCallDepth
             /\ fn \in DOMAIN Params
             /\ callStack' = Append(callStack, [stack |-> Popped(n), scopes |-> scopes])
             /\ stack' = <<>>
             /\ scopes' = <<Bound(Params[fn], args)>>
             /\ UNCHANGED <<status, error, heapVars>>
    <2>1. /\ phase = "idle" /\ phase' = phase /\ UNCHANGED heapVars
          /\ stack \in Seq(Value) /\ scopes \in Seq(Bindings) /\ callStack \in Seq(Frame)
          /\ RefsInSeq(stack) \subseteq P!Reachables
          /\ RefsInScopes(scopes) \subseteq P!Reachables
          /\ CallRefs(callStack) \subseteq P!Reachables
          /\ Nil \in Value
      BY <1>2, StackReachable DEF Ready, heapVars, Value
    <2>2. Popped(n) \in Seq(Value) /\ RefsInSeq(Popped(n)) \subseteq RefsInSeq(stack)
      BY <2>1, PopPushFacts DEF Popped
    <2>3. /\ callStack' \in Seq(Frame) /\ Len(callStack') = Len(callStack) + 1
          /\ CallRefs(callStack') \subseteq P!Reachables
      BY <1>2, <2>1, <2>2, SuspendFacts
    <2>4. /\ Bound(Params[fn], args) \in Bindings
          /\ RefsIn(Bound(Params[fn], args)) \subseteq P!Reachables
      BY <1>2, <2>1, FuncAssumption, BoundFacts
    <2>5. scopes' \in Seq(Bindings) /\ RefsInScopes(scopes') \subseteq P!Reachables
      BY <1>2, <2>4 DEF RefsInScopes
    <2>6. stack' \in Seq(Value) /\ RefsInSeq(stack') = {}
      BY <1>2 DEF RefsInSeq
    <2>7. MachineOK'
      BY <1>2, <2>1, <2>3, <2>5, <2>6, BoundsAssumption DEF IInv, MachineOK
    <2>8. Roots' = RefsInSeq(stack') \union RefsInScopes(scopes') \union CallRefs(callStack')
      BY DEF Roots, CallRefs
    <2>9. Roots' \subseteq P!Reachables
      BY <2>3, <2>5, <2>6, <2>8
    <2> QED
      BY <2>1, <2>7, <2>9, UseStep DEF Progress
  <1> QED
    BY <1>1, <1>2 DEF Enter

\* Operands of calls: argc arguments, and a receiver above them.
LEMMA CallOperands ==
  ASSUME stack \in Seq(Value), NEW argc \in Nat, Accepted(AnyKinds(argc))
  PROVE  /\ argc \in 0 .. Len(stack)
         /\ TopArgs(0, argc) \in Seq(Value) /\ Len(TopArgs(0, argc)) = argc
         /\ \A j \in 1 .. argc : RefOf(TopArgs(0, argc)[j]) \subseteq RefsInSeq(stack)
         /\ RefsInSeq(TopArgs(0, argc)) \subseteq RefsInSeq(stack)
  <1>1. AnyKinds(argc) \in Seq(Kind) /\ Len(AnyKinds(argc)) = argc
    BY KindsFacts
  <1>2. argc \in 0 .. Len(stack)
    BY <1>1, AcceptedFacts
  <1> QED
    BY <1>2, TopArgsFacts

LEMMA MethodOperands ==
  ASSUME stack \in Seq(Value), NEW argc \in Nat, Accepted(<<"object">> \o AnyKinds(argc))
  PROVE  LET args == <<Top(0)>> \o TopArgs(1, argc)
         IN  /\ argc + 1 \in 0 .. Len(stack)
             /\ args \in Seq(Value) /\ RefsInSeq(args) \subseteq RefsInSeq(stack)
             /\ Top(0) \in Value /\ RefOf(Top(0)) \subseteq RefsInSeq(stack)
  <1> DEFINE kinds == <<"object">> \o AnyKinds(argc)
             rest  == TopArgs(1, argc)
             args  == <<Top(0)>> \o rest
  <1>1. AnyKinds(argc) \in Seq(Kind) /\ Len(AnyKinds(argc)) = argc
    BY KindsFacts
  <1>2. kinds \in Seq(Kind) /\ Len(kinds) = argc + 1
    <2>1. <<"object">> \in Seq(Kind) /\ Len(<<"object">>) = 1
      BY DEF Kind
    <2> QED
      BY <1>1, <2>1
  <1> HIDE DEF kinds
  <1>3. argc + 1 \in 0 .. Len(stack)
    BY <1>2, AcceptedFacts DEF kinds
  <1>4. Top(0) \in Value /\ RefOf(Top(0)) \subseteq RefsInSeq(stack)
    BY <1>3, TopFacts
  <1>5. /\ rest \in Seq(Value) /\ Len(rest) = argc
        /\ \A j \in 1 .. argc : RefOf(rest[j]) \subseteq RefsInSeq(stack)
    BY <1>3, TopArgsFacts
  <1> HIDE DEF rest
  <1>6. /\ args \in Seq(Value) /\ DOMAIN args = 1 .. argc + 1
        /\ \A j \in 1 .. argc + 1 : args[j] = IF j = 1 THEN Top(0) ELSE rest[j - 1]
    BY <1>4, <1>5
  <1> HIDE DEF args
  <1>7. \A j \in DOMAIN args : RefOf(args[j]) \subseteq RefsInSeq(stack)
    <2> SUFFICES ASSUME NEW j \in 1 .. argc + 1, j # 1
                 PROVE  RefOf(args[j]) \subseteq RefsInSeq(stack)
      BY <1>4, <1>6
    <2>1. j - 1 \in 1 .. argc /\ args[j] = rest[j - 1]
      BY <1>6
    <2> QED
      BY <1>5, <2>1
  <1>8. RefsInSeq(args) \subseteq RefsInSeq(stack)
    BY <1>7 DEF RefsInSeq, RefOf
  <1> QED
    BY <1>3, <1>4, <1>6, <1>8 DEF args, rest

LEMMA DispatchStep ==
  ASSUME IInv, Ready, NEW argc \in Nat, Accepted(<<"object">> \o AnyKinds(argc)), NEW fn,
         Dispatch(fn, argc)
  PROVE  Progress
  <1> DEFINE args == <<Top(0)>> \o TopArgs(1, argc)
  <1>1. stack \in Seq(Value)
    BY DEF IInv, MachineOK
  <1>2. /\ argc + 1 \in 0 .. Len(stack)
        /\ args \in Seq(Value) /\ RefsInSeq(args) \subseteq RefsInSeq(stack)
    BY <1>1, MethodOperands
  <1>3. Enter(argc + 1, fn, args) \/ Fail(argc + 1, "UndefinedMethod")
    BY DEF Dispatch
  <1> HIDE DEF args
  <1>4. CASE Enter(argc + 1, fn, args)
    BY <1>2, <1>4, EnterStep
  <1>5. CASE Fail(argc + 1, "UndefinedMethod")
    BY <1>2, <1>5, FailStep DEF VmError
  <1> QED
    BY <1>3, <1>4, <1>5

LEMMA CallsStep ==
  ASSUME IInv, CallStep
  PROVE  Progress
  <1>1. PICK argc \in 0 .. MaxArgs :
          \/ \E fn \in FuncName : Call(fn, argc)
          \/ \E m \in MethodName : CallMethod(m, argc)
          \/ \E t \in TypeName, m \in MethodName : CallBase(t, m, argc)
    BY DEF CallStep
  <1> DEFINE kinds == <<"object">> \o AnyKinds(argc)
  <1>2. /\ argc \in Nat /\ stack \in Seq(Value) /\ Ready /\ phase = "idle"
        /\ RefsInSeq(stack) \subseteq P!Reachables
    BY <1>1, BoundsAssumption, StackReachable DEF Call, CallMethod, CallBase, Ready
  <1>3. AnyKinds(argc) \in Seq(Kind) /\ kinds \in Seq(Kind)
    <2>1. <<"object">> \in Seq(Kind) /\ AnyKinds(argc) \in Seq(Kind)
      BY <1>2, KindsFacts DEF Kind
    <2> QED
      BY <2>1
  <1>4. ASSUME FailOperands(kinds) PROVE Progress
    BY <1>2, <1>3, <1>4, FailOperandsStep
  <1>5. ASSUME NEW fn, Accepted(kinds), Dispatch(fn, argc) PROVE Progress
    BY <1>2, <1>5, DispatchStep
  <1>6. ASSUME NEW fn \in FuncName, Call(fn, argc) PROVE Progress
    <2>1. CASE Accepted(AnyKinds(argc)) /\ Enter(argc, fn, TopArgs(0, argc))
      <3>1. /\ argc \in 0 .. Len(stack)
            /\ TopArgs(0, argc) \in Seq(Value)
            /\ RefsInSeq(TopArgs(0, argc)) \subseteq RefsInSeq(stack)
        BY <1>2, <2>1, CallOperands
      <3> QED
        BY <1>2, <2>1, <3>1, EnterStep
    <2>2. CASE FailOperands(AnyKinds(argc))
      BY <1>2, <1>3, <2>2, FailOperandsStep
    <2> QED
      BY <1>6, <2>1, <2>2 DEF Call
  <1>7. ASSUME Accepted(kinds), SetStack(Push(1, Top(0))) PROVE Progress
    <2>1. /\ argc + 1 \in 0 .. Len(stack)
          /\ Top(0) \in Value /\ RefOf(Top(0)) \subseteq RefsInSeq(stack)
      BY <1>2, <1>7, MethodOperands
    <2>2. 1 \in 0 .. Len(stack)
      BY <1>2, <2>1
    <2> QED
      BY <1>2, <1>7, <2>1, <2>2, PushStep
  <1>8. ASSUME NEW m \in MethodName, CallMethod(m, argc) PROVE Progress
    BY <1>4, <1>5, <1>7, <1>8 DEF CallMethod
  <1>9. ASSUME NEW t \in TypeName, NEW m \in MethodName, CallBase(t, m, argc) PROVE Progress
    BY <1>4, <1>5, <1>9 DEF CallBase
  <1> QED
    BY <1>1, <1>6, <1>8, <1>9

\* Resuming a frame, after an error too: its handles were among the roots all along.
LEMMA LeaveFrameStep ==
  ASSUME IInv, phase = "idle", LeaveFrame, status' = status
  PROVE  Progress
  <1>1. /\ stack \in Seq(Value) /\ callStack \in Seq(Frame) /\ callStack # <<>>
        /\ RefsInSeq(stack) \subseteq P!Reachables
        /\ CallRefs(callStack) \subseteq P!Reachables
        /\ UNCHANGED error /\ UNCHANGED heapVars
    BY StackReachable DEF LeaveFrame
  <1>2. /\ callStack' \in Seq(Frame) /\ Len(callStack') = Len(callStack) - 1
        /\ CallRefs(callStack') \subseteq P!Reachables
        /\ Suspended \in Frame
        /\ RefsInSeq(Suspended.stack) \subseteq P!Reachables
        /\ RefsInScopes(Suspended.scopes) \subseteq P!Reachables
    BY <1>1, ResumeFacts DEF LeaveFrame, Suspended
  <1>3. Suspended.stack \in Seq(Value) /\ Suspended.scopes \in Seq(Bindings)
    BY <1>2 DEF Frame
  <1>4. ReturnValue \in Value /\ RefOf(ReturnValue) \subseteq RefsInSeq(stack)
    <2>1. CASE stack = <<>>
      BY <2>1 DEF ReturnValue, RefOf, Nil, Value, IsRef
    <2>2. CASE stack # <<>>
      <3>1. 0 < Len(stack)
        BY <1>1, <2>2
      <3> QED
        BY <1>1, <2>2, <3>1, TopFacts DEF ReturnValue
    <2> QED
      BY <2>1, <2>2
  <1>5. /\ stack' \in Seq(Value)
        /\ RefsInSeq(stack') \subseteq RefsInSeq(Suspended.stack) \union RefOf(ReturnValue)
    <2> DEFINE st == Suspended.stack
    <2>1. 0 \in 0 .. Len(st) /\ SubSeq(st, 1, Len(st) - 0) = st
      BY <1>3
    <2>2. stack' = Append(SubSeq(st, 1, Len(st) - 0), ReturnValue)
      BY <2>1 DEF LeaveFrame
    <2> QED
      BY <1>3, <1>4, <2>1, <2>2, PopPushFacts
  <1>6. scopes' = Suspended.scopes
    BY DEF LeaveFrame
  <1>7. MachineOK'
    BY <1>1, <1>2, <1>3, <1>5, <1>6, BoundsAssumption DEF IInv, MachineOK, heapVars
  <1>8. Roots' = RefsInSeq(stack') \union RefsInScopes(scopes') \union CallRefs(callStack')
    BY DEF Roots, CallRefs
  <1>9. Roots' \subseteq P!Reachables
    BY <1>1, <1>2, <1>4, <1>5, <1>6, <1>8
  <1> QED
    BY <1>1, <1>7, <1>9, UseStep DEF Progress

\* The end of the program.
LEMMA StopStep ==
  ASSUME IInv, phase = "idle", UNCHANGED <<stack, scopes, callStack, error, heapVars>>,
         \/ status = "running" /\ status' = "done"
         \/ status = "unwinding" /\ status' = "failed"
  PROVE  Progress
  <1>1. UNCHANGED heapVars
    OBVIOUS
  <1>2. MachineOK'
    BY DEF IInv, MachineOK
  <1>3. Roots' = Roots
    BY DEF Roots
  <1>4. Roots' \subseteq P!Reachables
    BY <1>3, HeldFacts
  <1> QED
    BY <1>1, <1>2, <1>4, UseStep DEF Progress

LEMMA ReturnStep ==
  ASSUME IInv, Return \/ Unwind
  PROVE  Progress
  <1>1. phase = "idle"
    BY DEF IInv, MachineOK, Return, Unwind, Ready
  <1>2. CASE LeaveFrame /\ status' = status
    BY <1>1, <1>2, LeaveFrameStep
  <1>3. CASE /\ UNCHANGED <<stack, scopes, callStack, error, heapVars>>
             /\ \/ status = "running" /\ status' = "done"
                \/ status = "unwinding" /\ status' = "failed"
    BY <1>1, <1>3, StopStep
  <1> QED
    BY <1>2, <1>3 DEF Return, Unwind, Ready

-----------------------------------------------------------------------------
(* Objects. *)

\* Alloc: the object is built from what the stack holds, the handle is pushed.
LEMMA AllocStep ==
  ASSUME IInv, Ready, NEW n \in 0 .. Len(stack), NEW t \in TypeName, NEW f \in Bindings,
         RefsIn(f) \subseteq RefsInSeq(stack), Alloc([type |-> t, fields |-> f], n)
  PROVE  Progress
  <1> DEFINE obj  == [type |-> t, fields |-> f]
             id   == P!AllocId
             keep == Roots' \ {id}
  <1>1. /\ stack \in Seq(Value) /\ phase = "idle" /\ status = "running" /\ P!TypeOK
        /\ freeList \in Seq(Id) /\ Len(slots) \in Nat
    BY SameValues, StackReachable DEF Ready, IInv, P!IInv, P!TypeOK
  <1>2. /\ P!CanAlloc
        /\ stack' = Push(n, Ref(id))
        /\ slots' = P!AllocSlots(obj) /\ freeList' = P!AllocFreeList /\ pending' = pending + 1
        /\ UNCHANGED <<scopes, callStack, status, error>>
        /\ IF P!ShouldCollect(pending') THEN P!StartCollect(Roots')
           ELSE UNCHANGED <<phase, work, marked, sweepAt>>
    <2>1. Hp!StartCollect(Roots') = P!StartCollect(Roots')
      BY DEF Hp!StartCollect, P!StartCollect
    <2> QED
      BY <2>1, SameHeap DEF Alloc, gcVars
  <1>3. id \in Id
    <2>1. CASE freeList # <<>>
      <3>1. Len(freeList) \in 1 .. Len(freeList)
        BY <1>1, <2>1
      <3> QED
        BY <1>1, <2>1, <3>1 DEF P!AllocId
    <2>2. CASE freeList = <<>>
      <3>1. id = Len(slots) + 1 /\ Len(slots) < Capacity
        BY <1>2, <2>2 DEF P!AllocId, P!CanAlloc
      <3> QED
        BY <1>1, <3>1, CapacityAssumption DEF Id
    <2> QED
      BY <2>1, <2>2
  <1> HIDE DEF id
  <1>4. Ref(id) \in Value /\ RefOf(Ref(id)) = {id}
    BY <1>3 DEF Ref, Value, RefOf, IsRef
  <1>5. /\ stack' \in Seq(Value)
        /\ RefsInSeq(stack') \subseteq RefsInSeq(stack) \union {id}
        /\ id \in RefsInSeq(stack')
    <2>1. /\ Push(n, Ref(id)) \in Seq(Value)
          /\ RefsInSeq(Push(n, Ref(id))) \subseteq RefsInSeq(stack) \union RefOf(Ref(id))
          /\ RefOf(Ref(id)) \subseteq RefsInSeq(Push(n, Ref(id)))
      BY <1>1, <1>4, PopPushFacts DEF Push, Popped
    <2> QED
      BY <1>2, <1>4, <2>1
  <1>6. MachineOK'
    BY <1>1, <1>2, <1>5 DEF IInv, MachineOK
  <1>7. Roots' = RefsInSeq(stack') \union RefsInScopes(scopes) \union CallRefs(callStack)
    BY <1>2 DEF Roots, CallRefs
  <1>8. keep \subseteq Roots /\ Roots' = keep \union {id}
    BY <1>5, <1>7, RootsFacts
  <1> HIDE DEF keep
  <1>9. f \in [Name -> P!HeldValues]
    <2>1. ASSUME NEW m \in Name PROVE f[m] \in P!HeldValues
      <3>1. f[m] \in Value \union {Unbound}
        BY DEF Bindings
      <3>2. CASE IsRef(f[m])
        <4>1. f[m] \in Value
          BY <3>1, <3>2 DEF Unbound, IsRef
        <4>2. f[m] = Ref(f[m].val)
          BY <3>2, <4>1 DEF Value, IsRef, Ref, Nil
        <4>3. f[m].val \in Roots
          BY <3>2, RootsFacts DEF RefsIn
        <4> QED
          BY <4>2, <4>3, SameValues DEF P!HeldValues
      <3>3. CASE ~ IsRef(f[m])
        BY <3>1, <3>3, SameValues DEF P!HeldValues
      <3> QED
        BY <3>2, <3>3
    <2> QED
      BY <2>1 DEF Bindings
  <1>10. P!Allocate(obj, keep)
    BY <1>1, <1>2, <1>8 DEF P!Allocate, P!gcVars, id
  <1>11. P!Next
    <2>1. t \in TypeName /\ keep \in SUBSET Roots
      BY <1>8
    <2> QED
      BY <1>9, <1>10, <2>1 DEF P!Next, P!Program
  <1> QED
    BY <1>6, <1>11 DEF Progress

LEMMA NewObjectStep ==
  ASSUME IInv, NEW t \in TypeName, NewObject(t)
  PROVE  Progress
  <1>1. 0 \in 0 .. Len(stack) /\ Ready
    BY StackReachable DEF NewObject, Ready
  <1> QED
    BY <1>1, NoBindingsFacts, AllocStep DEF NewObject

\* A vector's fields are its elements and its length.
LEMMA VectorFieldsFacts ==
  ASSUME NEW elems \in Seq(Value), Len(elems) <= MaxLen
  PROVE  /\ VectorFields(elems) \in Bindings
         /\ RefsIn(VectorFields(elems)) \subseteq RefsInSeq(elems)
  <1> DEFINE f     == VectorFields(elems)
             at(n) == { i \in DOMAIN elems : ElemField(i - 1) = n }
  <1>1. Len(elems) \in Nat /\ DOMAIN elems = 1 .. Len(elems)
    OBVIOUS
  <1>2. NumV(Len(elems)) \in Value /\ RefOf(NumV(Len(elems))) = {}
    <2>1. Len(elems) \in 0 .. MaxLen
      BY <1>1, BoundsAssumption
    <2> QED
      BY <2>1, VectorAssumption DEF NumV, Value, RefOf, IsRef
  <1>3. ASSUME NEW n \in Name, at(n) # {} PROVE (CHOOSE i \in at(n) : TRUE) \in 1 .. Len(elems)
    BY <1>1, <1>3
  <1>4. f = [n \in Name |->
               IF n = LenField THEN NumV(Len(elems))
               ELSE IF at(n) = {} THEN Unbound ELSE elems[CHOOSE i \in at(n) : TRUE]]
    BY DEF VectorFields
  <1> HIDE DEF f, at
  <1>5. \A k \in 1 .. Len(elems) : elems[k] \in Value /\ RefOf(elems[k]) \subseteq RefsInSeq(elems)
    BY RefsInSeqFacts
  <1>6. \A n \in Name : f[n] = Unbound \/ (f[n] \in Value /\ RefOf(f[n]) \subseteq RefsInSeq(elems))
    BY <1>2, <1>3, <1>4, <1>5
  <1>7. f \in Bindings
    BY <1>4, <1>6 DEF Bindings
  <1>8. RefsIn(f) \subseteq RefsInSeq(elems)
    BY <1>6 DEF RefsIn, RefOf, IsRef, Unbound
  <1> QED
    BY <1>7, <1>8 DEF f

LEMMA MakeVectorStep ==
  ASSUME IInv, NEW n \in 0 .. MaxArgs, MakeVector(n)
  PROVE  Progress
  <1>1. n \in Nat /\ stack \in Seq(Value) /\ Ready /\ n <= MaxLen
    BY BoundsAssumption, StackReachable DEF MakeVector, Ready
  <1>2. CASE /\ Accepted(AnyKinds(n))
             /\ Alloc([type |-> VectorType, fields |-> VectorFields(TopArgs(0, n))], n)
    <2> DEFINE elems == TopArgs(0, n)
    <2>1. /\ n \in 0 .. Len(stack) /\ elems \in Seq(Value) /\ Len(elems) = n
          /\ RefsInSeq(elems) \subseteq RefsInSeq(stack)
      BY <1>1, <1>2, CallOperands
    <2> HIDE DEF elems
    <2>2. /\ VectorFields(elems) \in Bindings
          /\ RefsIn(VectorFields(elems)) \subseteq RefsInSeq(stack)
      BY <1>1, <2>1, VectorFieldsFacts
    <2>3. Alloc([type |-> VectorType, fields |-> VectorFields(elems)], n)
      BY <1>2 DEF elems
    <2> QED
      BY <1>1, <2>1, <2>2, <2>3, VectorAssumption, AllocStep
  <1>3. CASE FailOperands(AnyKinds(n))
    BY <1>1, <1>3, KindsFacts, FailOperandsStep
  <1> QED
    BY <1>2, <1>3 DEF MakeVector

\* A held object: it lives, and what its fields hold may be picked up.
LEMMA ReceiverFacts ==
  ASSUME IInv, phase = "idle", NEW v \in Value, v.tag = "object", RefOf(v) \subseteq RefsInSeq(stack)
  PROVE  /\ v.val \in Roots \intersect P!Live
         /\ slots[v.val] \in Object
         /\ Fields(v.val) \in Bindings
         /\ \A n \in Name : Fields(v.val)[n] # Unbound =>
              /\ Fields(v.val)[n] \in Value
              /\ RefOf(Fields(v.val)[n]) \subseteq P!Reachables
  <1>1. v.val \in Roots
    BY RootsFacts DEF RefOf, IsRef
  <1>2. /\ v.val \in P!Live /\ slots[v.val] \in Object
        /\ Refs(slots[v.val]) \subseteq P!Reachables
    BY <1>1, HeldFacts
  <1>3. Fields(v.val) \in Bindings /\ RefsIn(Fields(v.val)) = Refs(slots[v.val])
    BY <1>2 DEF Fields, Object, Refs
  <1> DEFINE f == Fields(v.val)
  <1>4. \A n \in Name : f[n] \in Value \union {Unbound} /\ RefOf(f[n]) \subseteq RefsIn(f)
    BY <1>3 DEF Bindings, RefOf, RefsIn
  <1> QED
    BY <1>1, <1>2, <1>3, <1>4

LEMMA GetFieldStep ==
  ASSUME IInv, NEW n \in FieldName, GetField(n)
  PROVE  Progress
  <1>1. Ready /\ phase = "idle" /\ stack \in Seq(Value) /\ "object" \in Kind /\ n \in Name
    BY StackReachable, NamesAssumption DEF GetField, Ready, Kind
  <1>2. ASSUME Accepted(<<"object">>)
        PROVE  /\ 1 \in 0 .. Len(stack)
               /\ Fields(Receiver)[n] # Unbound =>
                    /\ Fields(Receiver)[n] \in Value
                    /\ RefOf(Fields(Receiver)[n]) \subseteq P!Reachables
    <2>1. /\ 1 \in 0 .. Len(stack) /\ Top(0).tag = "object"
          /\ Top(0) \in Value /\ RefOf(Top(0)) \subseteq RefsInSeq(stack)
      BY <1>1, <1>2, Accepted1
    <2> QED
      BY <1>1, <2>1, ReceiverFacts DEF Receiver
  <1>3. CASE /\ Accepted(<<"object">>)
             /\ Fields(Receiver)[n] # Unbound
             /\ SetStack(Push(1, Fields(Receiver)[n]))
    BY <1>1, <1>2, <1>3, PushStep
  <1>4. CASE Accepted(<<"object">>) /\ Fail(1, "UndefinedField")
    BY <1>1, <1>2, <1>4, FailStep DEF VmError
  <1>5. CASE FailOperands(<<"object">>)
    BY <1>1, <1>5, KindsFacts, FailOperandsStep
  <1> QED
    BY <1>3, <1>4, <1>5 DEF GetField

\* SetFields: fields that were there or are on the stack, in an object on the stack.
LEMMA SetFieldsStep ==
  ASSUME IInv, Ready, NEW v \in Value, v.tag = "object", RefOf(v) \subseteq RefsInSeq(stack),
         NEW f \in Bindings,
         \A m \in Name : \/ f[m] = Fields(v.val)[m]
                         \/ f[m] \in Value /\ RefOf(f[m]) \subseteq RefsInSeq(stack),
         stack' \in Seq(Value), RefsInSeq(stack') \subseteq RefsInSeq(stack),
         SetFields(v.val, f)
  PROVE  Progress
  <1> DEFINE i == v.val
  <1>1. /\ slots' = [slots EXCEPT ![i] = [@ EXCEPT !.fields = f]]
        /\ UNCHANGED <<scopes, callStack, status, error>>
        /\ UNCHANGED <<freeList, pending, phase, work, marked, sweepAt>>
        /\ phase = "idle"
    BY DEF SetFields, gcVars, Ready
  <1>2. i \in Roots \intersect P!Live
    BY <1>1, ReceiverFacts
  <1> HIDE DEF i
  <1>3. MachineOK'
    BY <1>1 DEF IInv, MachineOK
  <1>4. Roots' = RefsInSeq(stack') \union RefsInScopes(scopes) \union CallRefs(callStack)
    BY <1>1 DEF Roots, CallRefs
  <1>5. Roots' \subseteq Roots
    BY <1>4, RootsFacts
  <1>6. ASSUME NEW m \in Name
        PROVE  f[m] = slots[i].fields[m] \/ f[m] \in P!HeldValues
    <2>1. CASE f[m] = Fields(v.val)[m]
      BY <2>1 DEF Fields, i
    <2>2. CASE f[m] \in Value /\ RefOf(f[m]) \subseteq RefsInSeq(stack)
      <3>1. CASE IsRef(f[m])
        <4>1. f[m] = Ref(f[m].val)
          BY <2>2, <3>1 DEF Value, IsRef, Ref, Nil
        <4>2. f[m].val \in Roots
          BY <2>2, <3>1, RootsFacts DEF RefOf
        <4> QED
          BY <4>1, <4>2, SameValues DEF P!HeldValues
      <3>2. CASE ~ IsRef(f[m])
        BY <2>2, <3>2, SameValues DEF P!HeldValues
      <3> QED
        BY <3>1, <3>2
    <2> QED
      BY <2>1, <2>2
  <1>7. f \in P!Rewrites(i)
    <2> DEFINE old == slots[i].fields
    <2>1. f \in [Name -> P!HeldValues \union { old[n] : n \in Name }]
      BY <1>6 DEF Bindings
    <2> QED
      BY <1>6, <2>1 DEF P!Rewrites
  <1>8. P!Store(i, f, Roots')
    BY <1>1, <1>2, <1>5 DEF P!Store, P!gcVars
  <1>9. P!Next
    BY <1>2, <1>5, <1>7, <1>8 DEF P!Next, P!Program
  <1> QED
    BY <1>3, <1>9 DEF Progress

LEMMA SetFieldStep ==
  ASSUME IInv, NEW n \in FieldName, SetField(n)
  PROVE  Progress
  <1>1. /\ Ready /\ phase = "idle" /\ stack \in Seq(Value)
        /\ "object" \in Kind /\ "any" \in Kind /\ n \in Name
    BY StackReachable, NamesAssumption DEF SetField, Ready, Kind
  <1>2. CASE /\ Accepted(<<"object", "any">>)
             /\ stack' = Push(2, Top(1))
             /\ SetFields(Receiver, [Fields(Receiver) EXCEPT ![n] = Top(1)])
    <2> DEFINE old == Fields(Receiver)
               f   == [old EXCEPT ![n] = Top(1)]
    <2>1. /\ 2 \in 0 .. Len(stack) /\ Top(0).tag = "object"
          /\ Top(0) \in Value /\ RefOf(Top(0)) \subseteq RefsInSeq(stack)
          /\ Top(1) \in Value /\ RefOf(Top(1)) \subseteq RefsInSeq(stack)
      BY <1>1, <1>2, Accepted2
    <2>2. old \in Bindings
      BY <1>1, <2>1, ReceiverFacts DEF Receiver
    <2>3. stack' \in Seq(Value) /\ RefsInSeq(stack') \subseteq RefsInSeq(stack)
      <3>1. /\ Push(2, Top(1)) \in Seq(Value)
            /\ RefsInSeq(Push(2, Top(1))) \subseteq RefsInSeq(stack) \union RefOf(Top(1))
        BY <1>1, <2>1, PopPushFacts DEF Push, Popped
      <3> QED
        BY <1>2, <2>1, <3>1
    <2>4. f \in Bindings
      BY <2>1, <2>2, Rebind, <1>1
    <2>5. \A m \in Name : \/ f[m] = old[m]
                          \/ f[m] \in Value /\ RefOf(f[m]) \subseteq RefsInSeq(stack)
      BY <2>1, <2>2 DEF Bindings
    <2>6. SetFields(Top(0).val, f)
      BY <1>2 DEF Receiver
    <2>7. old = Fields(Top(0).val)
      BY DEF Receiver
    <2> HIDE DEF f, old
    <2> QED
      BY <1>1, <2>1, <2>3, <2>4, <2>5, <2>6, <2>7, SetFieldsStep
  <1>3. CASE FailOperands(<<"object", "any">>)
    BY <1>1, <1>3, KindsFacts, FailOperandsStep
  <1> QED
    BY <1>2, <1>3 DEF SetField

LEMMA TypeTestStep ==
  ASSUME IInv, NEW t, IsType(t) \/ AsType(t)
  PROVE  Progress
  <1>1. /\ Ready /\ phase = "idle" /\ stack \in Seq(Value) /\ "any" \in Kind
        /\ RefsInSeq(stack) \subseteq P!Reachables
    BY StackReachable DEF IsType, AsType, Ready, Kind
  <1>2. ASSUME Accepted(<<"any">>) PROVE 1 \in 0 .. Len(stack)
    BY <1>1, <1>2, Accepted1
  <1>3. CASE Accepted(<<"any">>) /\ SetStack(Push(1, BoolV(ValueConforms(Top(0), t))))
    <2>1. BoolV(ValueConforms(Top(0), t)) \in Value
      BY DEF BoolV, Value
    <2>2. RefOf(BoolV(ValueConforms(Top(0), t))) = {}
      BY DEF BoolV, RefOf, IsRef
    <2> QED
      BY <1>1, <1>2, <1>3, <2>1, <2>2, PushStep
  <1>4. CASE SetStack(stack)
    BY <1>1, <1>4, SetStackStep
  <1>5. CASE Accepted(<<"any">>) /\ Fail(1, "InvalidCast")
    BY <1>1, <1>2, <1>5, FailStep DEF VmError
  <1>6. CASE FailOperands(<<"any">>)
    BY <1>1, <1>6, KindsFacts, FailOperandsStep
  <1> QED
    BY <1>3, <1>4, <1>5, <1>6 DEF IsType, AsType

\* The length of a vector.
LEMMA VecLenFacts ==
  ASSUME IInv, phase = "idle", NEW v \in Value, v.tag = "object", RefOf(v) \subseteq RefsInSeq(stack),
         HasLen(v.val)
  PROVE  VecLen(v.val) \in Nat
  <1> DEFINE f == Fields(v.val)
  <1>1. f \in Bindings
    BY ReceiverFacts
  <1>2. f[LenField] \in Value \union {Unbound} /\ f[LenField].tag = "num"
    BY <1>1, VectorAssumption DEF Bindings, HasLen
  <1>3. f[LenField].val \in Num
    BY <1>2 DEF Value, Unbound, Nil
  <1>4. f[LenField].val \in Int
    BY <1>3, NumAssumption
  <1> QED
    BY <1>4 DEF VecLen

LEMMA IndexStep ==
  ASSUME IInv, Index
  PROVE  Progress
  <1> DEFINE kinds == <<"num", "object">>
             vec   == Top(1).val
             index == Top(0).val
             elem  == Fields(vec)[ElemField(index)]
  <1>1. /\ Ready /\ phase = "idle" /\ stack \in Seq(Value) /\ "num" \in Kind /\ "object" \in Kind
    BY StackReachable DEF Index, Ready, Kind
  <1>2. ASSUME Accepted(kinds)
        PROVE  /\ 2 \in 0 .. Len(stack)
               /\ Top(0) \in Value /\ Top(0).tag = "num"
               /\ Top(1) \in Value /\ Top(1).tag = "object"
               /\ RefOf(Top(1)) \subseteq RefsInSeq(stack)
    BY <1>1, <1>2, Accepted2
  <1>3. ASSUME Accepted(kinds), HasLen(vec), 0 <= index, index < VecLen(vec), index < MaxLen,
               elem # Unbound, SetStack(Push(2, elem))
        PROVE  Progress
    <2>1. index \in Int
      <3>1. index \in Num
        BY <1>2, <1>3 DEF Value, Nil
      <3> QED
        BY <3>1, NumAssumption
    <2>2. index \in 0 .. MaxLen
      BY <1>3, <2>1, BoundsAssumption
    <2>3. ElemField(index) \in Name
      BY <2>2, VectorAssumption
    <2>4. elem \in Value /\ RefOf(elem) \subseteq P!Reachables
      BY <1>1, <1>2, <1>3, <2>3, ReceiverFacts
    <2> QED
      BY <1>1, <1>2, <1>3, <2>4, PushStep
  <1>4. CASE Accepted(kinds) /\ (Fail(2, "IndexOutOfBounds") \/ Fail(2, "UndefinedField"))
    BY <1>1, <1>2, <1>4, FailStep DEF VmError
  <1>5. CASE FailOperands(kinds)
    BY <1>1, <1>5, KindsFacts, FailOperandsStep
  <1> QED
    BY <1>3, <1>4, <1>5 DEF Index

LEMMA VecPushStep ==
  ASSUME IInv, VecPush
  PROVE  Progress
  <1> DEFINE kinds == <<"object", "any">>
             old   == Fields(Receiver)
             len   == VecLen(Receiver)
             mid   == [old EXCEPT ![ElemField(len)] = Top(1)]
             f     == [mid EXCEPT ![LenField] = NumV(len + 1)]
  <1>1. /\ Ready /\ phase = "idle" /\ stack \in Seq(Value) /\ "any" \in Kind /\ "object" \in Kind
    BY StackReachable DEF VecPush, Ready, Kind
  <1>2. ASSUME Accepted(kinds)
        PROVE  /\ 2 \in 0 .. Len(stack) /\ Top(0).tag = "object"
               /\ Top(0) \in Value /\ RefOf(Top(0)) \subseteq RefsInSeq(stack)
               /\ Top(1) \in Value /\ RefOf(Top(1)) \subseteq RefsInSeq(stack)
    BY <1>1, <1>2, Accepted2
  <1>3. ASSUME Accepted(kinds), HasLen(Receiver), len < MaxLen, stack' = Popped(2),
               SetFields(Receiver, f)
        PROVE  Progress
    <2>1. len \in 0 .. MaxLen /\ len + 1 \in 0 .. MaxLen
      BY <1>1, <1>2, <1>3, VecLenFacts, BoundsAssumption DEF Receiver
    <2>2. NumV(len + 1) \in Value /\ RefOf(NumV(len + 1)) = {}
      BY <2>1, VectorAssumption DEF NumV, Value, RefOf, IsRef
    <2>3. ElemField(len) \in Name /\ LenField \in Name
      BY <2>1, VectorAssumption
    <2>4. old \in Bindings
      BY <1>1, <1>2, <1>3, ReceiverFacts DEF Receiver
    <2>5. SetFields(Top(0).val, f) /\ old = Fields(Top(0).val)
      BY <1>3 DEF Receiver
    <2>6. stack' \in Seq(Value) /\ RefsInSeq(stack') \subseteq RefsInSeq(stack)
      BY <1>1, <1>2, <1>3, PopPushFacts DEF Popped
    <2> HIDE DEF old, len
    <2>7. mid \in Bindings
      BY <1>2, <1>3, <2>3, <2>4, Rebind
    <2>8. \A m \in Name : mid[m] = old[m] \/ mid[m] = Top(1)
      BY <2>4 DEF Bindings
    <2> HIDE DEF mid
    <2>9. f \in Bindings
      BY <2>2, <2>3, <2>7, Rebind
    <2>10. \A m \in Name : f[m] = mid[m] \/ f[m] = NumV(len + 1)
      BY <2>7 DEF Bindings
    <2> HIDE DEF f
    <2>11. \A m \in Name : \/ f[m] = old[m]
                           \/ f[m] \in Value /\ RefOf(f[m]) \subseteq RefsInSeq(stack)
      BY <1>2, <1>3, <2>2, <2>8, <2>10
    <2> QED
      BY <1>1, <1>2, <1>3, <2>5, <2>6, <2>9, <2>11, SetFieldsStep
  <1>4. CASE Accepted(kinds) /\ Fail(2, "UndefinedField")
    BY <1>1, <1>2, <1>4, FailStep DEF VmError
  <1>5. CASE FailOperands(kinds)
    BY <1>1, <1>5, KindsFacts, FailOperandsStep
  <1>6. [old EXCEPT ![ElemField(len)] = Top(1), ![LenField] = NumV(len + 1)] = f
    OBVIOUS
  <1> HIDE DEF f
  <1> QED
    BY <1>3, <1>4, <1>5, <1>6 DEF VecPush

LEMMA DataStepProgress ==
  ASSUME IInv, DataStep
  PROVE  Progress
  <1>1. ASSUME NEW op \in Operators, Compute(op) PROVE Progress
    BY <1>1, OperatorsAssumption, ComputeStep
  <1>2. CASE (\E v \in Literals : PushLiteral(v)) \/ Pop \/ Dup \/ Jump \/ JumpIfFalse
    BY <1>2, StackStep
  <1>3. ASSUME NEW n \in VarName, LoadVar(n) \/ StoreVar(n) \/ BindVar(n) PROVE Progress
    BY <1>3, NamesAssumption, LoadVarStep, VarStep
  <1>4. CASE BeginScope \/ EndScope
    BY <1>4, ScopeStep
  <1>5. CASE \E t \in TypeName : NewObject(t)
    BY <1>5, NewObjectStep
  <1>6. CASE \E n \in FieldName : GetField(n) \/ SetField(n)
    BY <1>6, GetFieldStep, SetFieldStep
  <1>7. CASE \E t \in Targets : IsType(t) \/ AsType(t)
    BY <1>7, TypeTestStep
  <1>8. CASE \E n \in 0 .. MaxArgs : MakeVector(n)
    BY <1>8, MakeVectorStep
  <1>9. CASE Index \/ VecPush
    BY <1>9, IndexStep, VecPushStep
  <1> QED
    BY <1>1, <1>2, <1>3, <1>4, <1>5, <1>6, <1>7, <1>8, <1>9 DEF DataStep

-----------------------------------------------------------------------------
(* Collections. *)

\* A turn of the collector leaves the machine, and with it the roots, alone.
LEMMA CollectStep ==
  ASSUME IInv, Collect
  PROVE  Progress
  <1>1. UNCHANGED <<stack, scopes, callStack, status, error>> /\ Hp!Collector
    BY DEF Collect, machineVars
  <1>2. Roots' = Roots
    BY <1>1 DEF Roots
  <1>3. P!Collector
    BY <1>1, <1>2, SameValues
    DEF Hp!Collector, Hp!Mark, Hp!EndMark, Hp!Sweep, Hp!EndSweep, Hp!Live, Hp!heapVars,
        P!Collector, P!Mark, P!EndMark, P!Sweep, P!EndSweep, P!Live, P!heapVars,
        Hp!Refs, Hp!RefsIn, Hp!IsRef, P!Refs, P!RefsIn, P!IsRef
  <1>4. phase # "idle"
    BY <1>3 DEF P!Collector, P!Mark, P!EndMark, P!Sweep, P!EndSweep
  <1>5. MachineOK'
    BY <1>1, <1>4 DEF IInv, MachineOK
  <1> QED
    BY <1>3, <1>5 DEF Progress, P!Next

LEMMA ForceGcStep ==
  ASSUME IInv, ForceGc
  PROVE  Progress
  <1>1. /\ UNCHANGED <<stack, scopes, callStack, status, error>>
        /\ UNCHANGED <<slots, freeList, pending>>
        /\ phase = "idle" /\ status # "unwinding" /\ Hp!StartCollect(Roots)
    BY DEF ForceGc, machineVars
  <1>2. Roots' = Roots
    BY <1>1 DEF Roots
  <1>3. P!ForceGc
    BY <1>1, <1>2 DEF P!ForceGc, Hp!StartCollect, P!StartCollect, P!heapVars
  <1>4. MachineOK'
    BY <1>1 DEF IInv, MachineOK
  <1> QED
    BY <1>3, <1>4 DEF Progress, P!Next, P!Program

-----------------------------------------------------------------------------
(* Every step. *)

LEMMA NextProgress ==
  ASSUME IInv, [Next]_vars
  PROVE  Progress
  <1>1. CASE UNCHANGED vars
    <2>1. UNCHANGED <<stack, scopes, callStack, status, error>> /\ UNCHANGED heapVars
      BY <1>1 DEF vars, heapVars
    <2>2. MachineOK'
      BY <2>1 DEF IInv, MachineOK, heapVars
    <2>3. Roots' = Roots
      BY <2>1 DEF Roots
    <2>4. UNCHANGED P!vars
      BY <2>1, <2>3 DEF P!vars, heapVars
    <2> QED
      BY <2>2, <2>4 DEF Progress
  <1>2. CASE DataStep
    BY <1>2, DataStepProgress
  <1>3. CASE CallStep
    BY <1>3, CallsStep
  <1>4. CASE Return \/ Unwind
    BY <1>4, ReturnStep
  <1>5. CASE ForceGc
    BY <1>5, ForceGcStep
  <1>6. CASE Collect
    BY <1>6, CollectStep
  <1> QED
    BY <1>1, <1>2, <1>3, <1>4, <1>5, <1>6 DEF Next

LEMMA InitHeap ==
  ASSUME Init
  PROVE  P!Init
  <1>1. Roots = {}
    BY DEF Init, Roots, RefsInSeq, RefsInScopes
  <1> QED
    BY <1>1 DEF Init, P!Init

LEMMA InitIInv ==
  ASSUME Init
  PROVE  IInv
  <1>1. P!IInv
    BY InitHeap, HeapAssumptions, P!InitIInv
  <1>2. MachineOK
    BY BoundsAssumption DEF Init, MachineOK
  <1> QED
    BY <1>1, <1>2 DEF IInv

\* The inductive invariant, for every sequence of instructions.
THEOREM MachineInvariant == Spec => []IInv
  <1>1. Init => IInv
    BY InitIInv
  <1>2. IInv /\ [Next]_vars => IInv'
    BY NextProgress, ProgressInv
  <1> QED
    BY <1>1, <1>2, PTL DEF Spec

-----------------------------------------------------------------------------
(* What follows from it. *)

\* No instruction, in any order, with any operands, ever reads a map entry that
\* does not exist into a variable, a field or the stack; types, bounds and the
\* call depth are kept.
THEOREM TypeCorrect == Spec => []TypeOK
  <1>1. IInv => TypeOK
    <2> SUFFICES ASSUME IInv PROVE TypeOK
      OBVIOUS
    <2>1. P!TypeOK
      BY DEF IInv, P!IInv
    <2>2. Hp!TypeOK
      BY <2>1, SameValues
      DEF P!TypeOK, Hp!TypeOK, P!Phase, Hp!Phase, Hp!Id, P!Id, Hp!Object, P!Object,
          Hp!Bindings, P!Bindings, Hp!Value, P!Value, Hp!Nil, P!Nil, Hp!Unbound, P!Unbound
    <2> QED
      BY <2>2 DEF IInv, MachineOK, TypeOK
  <1> QED
    BY <1>1, MachineInvariant, PTL

\* The machine uses the heap only as Heap's Program does, with Vm::roots for the
\* handles it holds: every behaviour of Vm is one of Heap.
THEOREM VmImplementsHeap == Spec => P!Spec
  <1>1. Init => P!Init
    BY InitHeap
  <1>2. IInv /\ [Next]_vars => [P!Next]_(P!vars)
    BY NextProgress DEF Progress
  <1> QED
    BY <1>1, <1>2, MachineInvariant, PTL DEF Spec, P!Spec

\* So the panics of Heap::get and get_mut are out of reach, whatever the machine
\* executes and whenever the collector runs.
THEOREM HandlesNeverDangle == Spec => []NoDangling
  <1>1. Spec => []P!NoDangling
    BY VmImplementsHeap, HeapAssumptions, P!HandlesNeverDangle, PTL
  <1>2. P!NoDangling => NoDangling
    BY DEF NoDangling, Hp!NoDangling, P!NoDangling, Hp!Live, P!Live, Hp!Objects, P!Objects,
           Hp!ReachableIn, P!ReachableIn, Hp!ClosedIn, P!ClosedIn,
           Hp!Refs, Hp!RefsIn, Hp!IsRef, P!Refs, P!RefsIn, P!IsRef
  <1> QED
    BY <1>1, <1>2, PTL

\* The heap inside the machine keeps the promises of ObjectStore.
THEOREM MachineImplementsStore == Spec => ImplementsStore
  <1>1. Spec => P!ImplementsStore
    BY VmImplementsHeap, HeapAssumptions, P!HeapImplementsStore
  <1>2. P!Abstract!Init => Hp!Abstract!Init
    BY DEF P!Abstract!Init, Hp!Abstract!Init, P!Kept, Hp!Kept, P!Live, Hp!Live
  <1>3. [P!Abstract!Next]_(P!Abstract!storeVars) => [Hp!Abstract!Next]_(Hp!Abstract!storeVars)
    BY DEF P!Abstract!Next, Hp!Abstract!Next, P!Abstract!storeVars, Hp!Abstract!storeVars,
           P!Abstract!New, Hp!Abstract!New, P!Abstract!Use, Hp!Abstract!Use,
           P!Abstract!Write, Hp!Abstract!Write, P!Abstract!Collect, Hp!Abstract!Collect,
           P!Abstract!ReachableIn, Hp!Abstract!ReachableIn, P!Abstract!ClosedIn, Hp!Abstract!ClosedIn,
           P!Abstract!Refs, Hp!Abstract!Refs, P!Abstract!RefsIn, Hp!Abstract!RefsIn,
           P!Abstract!IsRef, Hp!Abstract!IsRef, P!Kept, Hp!Kept, P!Live, Hp!Live
  <1> QED
    BY <1>1, <1>2, <1>3, PTL
    DEF ImplementsStore, Hp!ImplementsStore, P!ImplementsStore, P!Abstract!Spec, Hp!Abstract!Spec

\* Each step of a collection inside the machine leaves it less to do, and no instruction runs
\* in between: whatever the program has built, maybe_gc returns.
THEOREM MachineCollectionsAdvance == Spec => P!CollectorAdvances
  BY VmImplementsHeap, HeapAssumptions, P!CollectionAdvances

-----------------------------------------------------------------------------
(* Properties of the machine alone. *)

\* Allocating is the only way a collection comes due, and it starts one.
LEMMA PunctualStep ==
  ASSUME IInv, phase = "idle" => pending < Threshold, [Next]_vars
  PROVE  phase' = "idle" => pending' < Threshold
  <1>1. pending \in Nat
    BY DEF IInv, P!IInv, P!TypeOK
  <1>2. CASE UNCHANGED <<pending, phase>>
    BY <1>2
  <1>3. ASSUME NEW obj, NEW n, Alloc(obj, n) PROVE phase' = "idle" => pending' < Threshold
    <2>1. CASE Hp!ShouldCollect(pending')
      BY <1>3, <2>1 DEF Alloc, Hp!StartCollect
    <2>2. CASE ~ Hp!ShouldCollect(pending')
      BY <1>1, <1>3, <2>2, ThresholdAssumption DEF Alloc, Hp!ShouldCollect
    <2> QED
      BY <2>1, <2>2
  <1>4. CASE UNCHANGED vars \/ Return \/ Unwind
    <2>1. UNCHANGED heapVars
      BY <1>4 DEF vars, heapVars, Return, Unwind, LeaveFrame
    <2> QED
      BY <1>2, <2>1 DEF heapVars
  <1>6. ASSUME NEW n, NEW e, Fail(n, e) PROVE UNCHANGED <<pending, phase>>
    BY <1>6 DEF Fail, heapVars
  <1>5. ASSUME NEW kinds, FailOperands(kinds) PROVE UNCHANGED <<pending, phase>>
    <2> DEFINE k == FirstWrong(kinds)
               n == IF k > Len(stack) THEN Len(stack) ELSE k
               e == OperandError(kinds)
    <2>1. Fail(n, e)
      BY <1>5 DEF FailOperands
    <2> HIDE DEF n, e
    <2> QED
      BY <1>6, <2>1
  <1>7. ASSUME NEW st, SetStack(st) PROVE UNCHANGED <<pending, phase>>
    BY <1>7 DEF SetStack, heapVars
  <1>8. ASSUME NEW n, NEW fn, NEW args, Enter(n, fn, args) PROVE UNCHANGED <<pending, phase>>
    BY <1>6, <1>8 DEF Enter, heapVars
  <1>9. ASSUME NEW i, NEW f, SetFields(i, f) PROVE UNCHANGED <<pending, phase>>
    BY <1>9 DEF SetFields, gcVars
  <1>10. CASE CallStep
    <2>1. ASSUME NEW fn, NEW argc, Call(fn, argc) PROVE UNCHANGED <<pending, phase>>
      BY <1>5, <1>8, <2>1 DEF Call
    <2>2. ASSUME NEW fn, NEW argc, Dispatch(fn, argc) PROVE UNCHANGED <<pending, phase>>
      BY <1>6, <1>8, <2>2 DEF Dispatch
    <2>3. ASSUME NEW m, NEW argc, CallMethod(m, argc) PROVE UNCHANGED <<pending, phase>>
      BY <1>5, <1>7, <2>2, <2>3 DEF CallMethod
    <2>4. ASSUME NEW t, NEW m, NEW argc, CallBase(t, m, argc) PROVE UNCHANGED <<pending, phase>>
      BY <1>5, <2>2, <2>4 DEF CallBase
    <2> QED
      BY <1>2, <1>10, <2>1, <2>3, <2>4 DEF CallStep
  <1>11. CASE DataStep
    <2>1. CASE \/ \E op \in Operators : Compute(op)
               \/ \E v \in Literals : PushLiteral(v)
               \/ Pop \/ Dup \/ Jump \/ JumpIfFalse
      BY <1>2, <1>5, <1>6, <1>7, <2>1
      DEF Compute, FailAfter, PushLiteral, Pop, Dup, Jump, JumpIfFalse
    <2>2. CASE \E n \in VarName : LoadVar(n) \/ StoreVar(n) \/ BindVar(n)
      BY <1>2, <1>5, <1>6, <1>7, <2>2 DEF LoadVar, StoreVar, BindVar, FailAfter, heapVars
    <2>3. CASE BeginScope \/ EndScope
      BY <1>2, <2>3 DEF BeginScope, EndScope, heapVars
    <2>4. CASE \/ \E t \in TypeName : NewObject(t)
               \/ \E n \in 0 .. MaxArgs : MakeVector(n)
      BY <1>2, <1>3, <1>5, <2>4 DEF NewObject, MakeVector
    <2>5. CASE \E n \in FieldName : GetField(n) \/ SetField(n)
      BY <1>2, <1>5, <1>6, <1>7, <1>9, <2>5 DEF GetField, SetField
    <2>6. CASE \E t \in Targets : IsType(t) \/ AsType(t)
      BY <1>2, <1>5, <1>6, <1>7, <2>6 DEF IsType, AsType
    <2>7. CASE Index \/ VecPush
      BY <1>2, <1>5, <1>6, <1>7, <1>9, <2>7 DEF Index, VecPush
    <2> QED
      BY <1>11, <2>1, <2>2, <2>3, <2>4, <2>5, <2>6, <2>7 DEF DataStep
  <1>12. CASE ForceGc
    BY <1>12 DEF ForceGc, Hp!StartCollect
  <1>13. CASE Collect
    BY <1>13, ThresholdAssumption
    DEF Collect, Hp!Collector, Hp!Mark, Hp!EndMark, Hp!Sweep, Hp!EndSweep, Hp!heapVars
  <1> QED
    BY <1>4, <1>10, <1>11, <1>12, <1>13 DEF Next

\* Every allocation ends in maybe_gc, before the next instruction.
THEOREM CollectionsArePunctual == Spec => []GcPunctual
  <1> DEFINE Inv == phase = "idle" => pending < Threshold
  <1>1. Init => Inv
    BY ThresholdAssumption DEF Init
  <1>2. IInv /\ Inv /\ [Next]_vars => Inv'
    BY PunctualStep
  <1>3. Inv => GcPunctual
    BY DEF GcPunctual, Ready
  <1> HIDE DEF Inv
  <1> QED
    BY <1>1, <1>2, <1>3, MachineInvariant, PTL DEF Spec

\* What CallsBalance says of a step.
Balance ==
  LET below == IF Len(callStack') < Len(callStack) THEN callStack' ELSE callStack
  IN  /\ \A k \in DOMAIN below : callStack'[k] = callStack[k]
      /\ Len(callStack') = Len(callStack) + 1 =>
           /\ Len(callStack'[Len(callStack')].stack) <= Len(stack)
           /\ callStack'[Len(callStack')].scopes = scopes
      /\ Len(callStack') < Len(callStack) =>
           /\ Len(callStack') = Len(callStack) - 1
           /\ scopes' = callStack[Len(callStack)].scopes
           /\ Len(stack') = Len(callStack[Len(callStack)].stack) + 1

LEMMA SameCallStack ==
  ASSUME callStack \in Seq(Frame), UNCHANGED callStack
  PROVE  Balance
  <1>1. Len(callStack) \in Nat
    OBVIOUS
  <1> QED
    BY <1>1 DEF Balance

LEMMA EnterBalance ==
  ASSUME stack \in Seq(Value), callStack \in Seq(Frame),
         NEW n \in 0 .. Len(stack), NEW fn, NEW args, Enter(n, fn, args)
  PROVE  Balance
  <1>1. CASE UNCHANGED callStack
    BY <1>1, SameCallStack
  <1>2. CASE callStack' = Append(callStack, [stack |-> Popped(n), scopes |-> scopes])
    <2> DEFINE f == [stack |-> Popped(n), scopes |-> scopes]
    <2>1. Len(f.stack) <= Len(stack) /\ f.scopes = scopes
      <3>0. Nil \in Value
        BY DEF Value
      <3>1. Len(Popped(n)) = Len(stack) - n
        BY <3>0, PopPushFacts DEF Popped
      <3> QED
        BY <3>1
    <2> HIDE DEF f
    <2>2. /\ Len(callStack) \in Nat /\ DOMAIN callStack = 1 .. Len(callStack)
          /\ Len(callStack') = Len(callStack) + 1
          /\ callStack'[Len(callStack')] = f
          /\ \A k \in 1 .. Len(callStack) : callStack'[k] = callStack[k]
      BY <1>2 DEF f
    <2>3. ~ (Len(callStack') < Len(callStack))
      BY <2>2
    <2>4. \A k \in DOMAIN callStack : callStack'[k] = callStack[k]
      BY <2>2
    <2>5. Len(callStack'[Len(callStack')].stack) <= Len(stack) /\ callStack'[Len(callStack')].scopes = scopes
      BY <2>1, <2>2
    <2> QED
      BY <2>3, <2>4, <2>5 DEF Balance
  <1> QED
    BY <1>1, <1>2 DEF Enter, Fail

LEMMA LeaveBalance ==
  ASSUME callStack \in Seq(Frame), LeaveFrame
  PROVE  Balance
  <1>1. /\ Len(callStack) \in Nat \ {0}
        /\ Len(callStack') = Len(callStack) - 1
        /\ DOMAIN callStack' = 1 .. Len(callStack) - 1
        /\ \A k \in 1 .. Len(callStack) - 1 : callStack'[k] = callStack[k]
        /\ Suspended \in Frame
    <2>1. callStack # <<>> /\ callStack' = SubSeq(callStack, 1, Len(callStack) - 1)
      BY DEF LeaveFrame
    <2>2. Len(callStack) \in Nat \ {0} /\ Len(callStack) \in DOMAIN callStack
      BY <2>1
    <2>3. Suspended \in Frame
      BY <2>2 DEF Suspended
    <2> DEFINE rest == SubSeq(callStack, 1, Len(callStack) - 1)
    <2>4. DOMAIN callStack = 1 .. Len(callStack)
      OBVIOUS
    <2>5. /\ rest \in Seq(Frame) /\ Len(rest) = Len(callStack) - 1
          /\ \A k \in DOMAIN rest : k \in DOMAIN callStack /\ rest[k] = callStack[k]
      BY <2>2, <2>4
    <2>6. DOMAIN rest = 1 .. Len(callStack) - 1
      BY <2>5
    <2> QED
      BY <2>1, <2>2, <2>3, <2>5, <2>6
  <1>2. scopes' = Suspended.scopes /\ Len(stack') = Len(Suspended.stack) + 1
    BY <1>1 DEF LeaveFrame, Frame
  <1> QED
    BY <1>1, <1>2 DEF Balance, Suspended

\* No instruction that computes touches a suspended frame.
LEMMA DataStepFrames ==
  ASSUME DataStep
  PROVE  UNCHANGED callStack
  <1>1. ASSUME NEW kinds, FailOperands(kinds) PROVE UNCHANGED callStack
    BY <1>1 DEF FailOperands, Fail
  <1>2. ASSUME NEW n, NEW e, Fail(n, e) PROVE UNCHANGED callStack
    BY <1>2 DEF Fail
  <1>3. ASSUME NEW st, SetStack(st) PROVE UNCHANGED callStack
    BY <1>3 DEF SetStack
  <1>4. ASSUME NEW obj, NEW n, Alloc(obj, n) PROVE UNCHANGED callStack
    BY <1>4 DEF Alloc
  <1>5. ASSUME NEW i, NEW f, SetFields(i, f) PROVE UNCHANGED callStack
    BY <1>5 DEF SetFields
  <1>6. CASE \/ \E op \in Operators : Compute(op)
             \/ \E v \in Literals : PushLiteral(v)
             \/ Pop \/ Dup \/ Jump \/ JumpIfFalse
    BY <1>1, <1>2, <1>3, <1>6
    DEF Compute, FailAfter, PushLiteral, Pop, Dup, Jump, JumpIfFalse
  <1>7. CASE \E n \in VarName : LoadVar(n) \/ StoreVar(n) \/ BindVar(n)
    BY <1>1, <1>2, <1>3, <1>7 DEF LoadVar, StoreVar, BindVar, FailAfter
  <1>8. CASE BeginScope \/ EndScope
    BY <1>8 DEF BeginScope, EndScope
  <1>9. CASE \/ \E t \in TypeName : NewObject(t)
             \/ \E n \in 0 .. MaxArgs : MakeVector(n)
    BY <1>1, <1>4, <1>9 DEF NewObject, MakeVector
  <1>10. CASE \E n \in FieldName : GetField(n) \/ SetField(n)
    BY <1>1, <1>2, <1>3, <1>5, <1>10 DEF GetField, SetField
  <1>11. CASE \E t \in Targets : IsType(t) \/ AsType(t)
    BY <1>1, <1>2, <1>3, <1>11 DEF IsType, AsType
  <1>12. CASE Index \/ VecPush
    BY <1>1, <1>2, <1>3, <1>5, <1>12 DEF Index, VecPush
  <1> QED
    BY <1>6, <1>7, <1>8, <1>9, <1>10, <1>11, <1>12 DEF DataStep

LEMMA StepBalance ==
  ASSUME IInv, [Next]_vars
  PROVE  Balance
  <1>1. stack \in Seq(Value) /\ callStack \in Seq(Frame)
    BY DEF IInv, MachineOK
  <1>2. ASSUME UNCHANGED callStack PROVE Balance
    BY <1>1, <1>2, SameCallStack
  <1>3. CASE UNCHANGED vars \/ Collect \/ ForceGc
    BY <1>2, <1>3 DEF vars, Collect, ForceGc, machineVars
  <1>4. CASE Return \/ Unwind
    BY <1>1, <1>2, <1>4, LeaveBalance DEF Return, Unwind
  <1>5. ASSUME NEW kinds, FailOperands(kinds) PROVE UNCHANGED callStack
    BY <1>5 DEF FailOperands, Fail
  <1>6. ASSUME NEW n, NEW e, Fail(n, e) PROVE UNCHANGED callStack
    BY <1>6 DEF Fail
  <1>7. ASSUME NEW st, SetStack(st) PROVE UNCHANGED callStack
    BY <1>7 DEF SetStack
  <1>8. CASE CallStep
    <2>1. PICK argc \in 0 .. MaxArgs :
            \/ \E fn \in FuncName : Call(fn, argc)
            \/ \E m \in MethodName : CallMethod(m, argc)
            \/ \E t \in TypeName, m \in MethodName : CallBase(t, m, argc)
      BY <1>8 DEF CallStep
    <2> DEFINE kinds == <<"object">> \o AnyKinds(argc)
    <2>2. argc \in Nat
      BY <2>1, BoundsAssumption
    <2>3. ASSUME NEW fn, Accepted(kinds), Dispatch(fn, argc) PROVE Balance
      <3>1. argc + 1 \in 0 .. Len(stack)
        BY <1>1, <2>2, <2>3, MethodOperands
      <3> QED
        BY <1>1, <1>2, <1>6, <2>3, <3>1, EnterBalance DEF Dispatch
    <2>4. ASSUME NEW fn, Call(fn, argc) PROVE Balance
      <3>1. CASE Accepted(AnyKinds(argc)) /\ Enter(argc, fn, TopArgs(0, argc))
        <4>1. argc \in 0 .. Len(stack)
          BY <1>1, <2>2, <3>1, CallOperands
        <4> QED
          BY <1>1, <3>1, <4>1, EnterBalance
      <3> QED
        BY <1>2, <1>5, <2>4, <3>1 DEF Call
    <2>5. ASSUME NEW m, CallMethod(m, argc) PROVE Balance
      BY <1>2, <1>5, <1>7, <2>3, <2>5 DEF CallMethod
    <2>6. ASSUME NEW t, NEW m, CallBase(t, m, argc) PROVE Balance
      BY <1>2, <1>5, <2>3, <2>6 DEF CallBase
    <2> QED
      BY <2>1, <2>4, <2>5, <2>6
  <1>9. CASE DataStep
    BY <1>2, <1>9, DataStepFrames
  <1> QED
    BY <1>3, <1>4, <1>8, <1>9 DEF Next

\* Frames below the running one are left alone; a call that ends, in an error
\* too, restores the caller's scopes and hands it exactly one value
\* (call_func_with_args).
THEOREM CallsAreBalanced == Spec => CallsBalance
  <1>1. IInv /\ [Next]_vars => [Balance]_vars
    BY StepBalance
  <1> QED
    BY <1>1, MachineInvariant, PTL DEF Spec, CallsBalance, Balance

=============================================================================
