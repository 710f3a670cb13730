-------------------------------- MODULE Heap --------------------------------
(***************************************************************************)
(* The mark-and-sweep heap of crates/hulk-vm/src/heap.rs: a vector of      *)
(* slots, a free list, and a collector that runs between two instructions  *)
(* of the virtual machine. Each turn of the mark loop and of the sweep     *)
(* loop is a step. The machine itself appears only as the set of handles   *)
(* it holds (Vm::roots) and the ways it may use them; Vm models it whole.  *)
(***************************************************************************)
EXTENDS HulkValues, Sequences, Measures

CONSTANTS
  Free,       \* what a released slot holds (Slot::Free)
  Threshold,  \* allocations between two collections (HULK_GC_THRESHOLD)
  Plain       \* what a field may hold that is not a handle (no entry included)

ASSUME PlainAssumption ==
  Plain \subseteq { v \in Value \union {Unbound} : ~ IsRef(v) }
ASSUME FreeAssumption == Free \notin Object
ASSUME ThresholdAssumption == Threshold \in Nat \ {0}

VARIABLES
  slots,      \* Vec<Slot>: an object or Free
  freeList,   \* released slots, the last one released is reused first
  pending,    \* allocations_since_gc
  held,       \* the handles in the machine's stacks and scopes
  phase,      \* "idle", or the loop of collect that is running
  work,       \* ids waiting to be visited by the mark loop
  marked,     \* slots marked so far
  sweepAt     \* the slot the sweep loop looks at next

heapVars == <<slots, freeList, pending>>
gcVars   == <<phase, work, marked, sweepAt>>
vars     == <<slots, freeList, pending, held, phase, work, marked, sweepAt>>

Live    == { i \in DOMAIN slots : slots[i] # Free }
Objects == [i \in Live |-> slots[i]]

-----------------------------------------------------------------------------
(* Allocation, as an operator on a slot vector and a free list: the Vm uses it too. *)

CanAlloc == freeList # <<>> \/ Len(slots) < Capacity

\* Mutant: the length is taken once the new slot is pushed.
AllocIdPushed ==
  IF freeList # <<>> THEN freeList[Len(freeList)] ELSE Len(slots) + 2

\* The id Heap::alloc returns.
AllocId ==
  IF freeList # <<>> THEN freeList[Len(freeList)] ELSE Len(slots) + 1

AllocSlots(obj) ==
  IF freeList # <<>> THEN [slots EXCEPT ![AllocId] = obj] ELSE Append(slots, obj)

AllocFreeList ==
  IF freeList # <<>> THEN SubSeq(freeList, 1, Len(freeList) - 1) ELSE freeList

ShouldCollect(n) == n >= Threshold
-----------------------------------------------------------------------------
(* The machine's use of the heap. *)

Init ==
  /\ slots = <<>> /\ freeList = <<>> /\ pending = 0
  /\ held = {}
  /\ phase = "idle" /\ work = {} /\ marked = {} /\ sweepAt = 1

\* collect starts: no slot is marked, and the roots wait to be visited.
StartCollect(roots) ==
  /\ phase' = "mark"
  /\ work' = roots
  /\ UNCHANGED <<marked, sweepAt>>

\* Mutant: the roots are gathered before the new handle is pushed.
AllocateRootsFirst(obj, keep) ==
  /\ phase = "idle"
  /\ CanAlloc
  /\ keep \subseteq held
  /\ slots' = AllocSlots(obj)
  /\ freeList' = AllocFreeList
  /\ pending' = pending + 1
  /\ held' = keep \union {AllocId}
  /\ IF ShouldCollect(pending') THEN StartCollect(keep) ELSE UNCHANGED gcVars

\* NewObject, MakeVector: the object is allocated, its handle is pushed, and
\* only then may a collection run. The operands were popped before: the machine
\* may hold fewer of the old handles.
Allocate(obj, keep) ==
  /\ phase = "idle"
  /\ CanAlloc
  /\ keep \subseteq held
  /\ slots' = AllocSlots(obj)
  /\ freeList' = AllocFreeList
  /\ pending' = pending + 1
  /\ held' = keep \union {AllocId}
  /\ IF ShouldCollect(pending') THEN StartCollect(held') ELSE UNCHANGED gcVars

\* What the machine holds, and what it can read from there with one instruction.
Reachables == held \union UNION { Refs(slots[i]) : i \in held \intersect Live }

\* Every instruction that leaves the heap alone: it forgets handles (Pop,
\* EndScope, the end of a call) or reads some from the objects it holds
\* (GetField, Index).
Use(handles) ==
  /\ phase = "idle"
  /\ handles \subseteq Reachables
  /\ held' = handles
  /\ UNCHANGED <<heapVars, gcVars>>

\* SetField, VecPush: some fields of a held object are overwritten.
Store(i, fields, keep) ==
  /\ phase = "idle"
  /\ i \in held \intersect Live
  /\ keep \subseteq held
  /\ slots' = [slots EXCEPT ![i] = [@ EXCEPT !.fields = fields]]
  /\ held' = keep
  /\ UNCHANGED <<freeList, pending, gcVars>>

\* Vm::force_gc, which the owner of a machine may call.
ForceGc ==
  /\ phase = "idle"
  /\ StartCollect(held)
  /\ UNCHANGED <<heapVars, held>>
-----------------------------------------------------------------------------
(* Heap::collect. *)

\* Mutant: only the roots are marked, the fields are not followed.
MarkRootsOnly(i) ==
  /\ phase = "mark"
  /\ i \in work
  /\ marked' = IF i \in Live THEN marked \union {i} ELSE marked
  /\ work' = work \ {i}
  /\ UNCHANGED <<heapVars, held, phase, sweepAt>>

\* Mutant: an id marked before is visited again.
MarkAgain(i) ==
  /\ phase = "mark"
  /\ i \in work
  /\ IF i \in Live
       THEN /\ marked' = marked \union {i}
            /\ work' = (work \ {i}) \union Refs(slots[i])
       ELSE /\ marked' = marked
            /\ work' = work \ {i}
  /\ UNCHANGED <<heapVars, held, phase, sweepAt>>

\* One id is popped; it is marked, and its children are pushed, unless it was
\* marked before, is out of range or names a free slot.
Mark(i) ==
  /\ phase = "mark"
  /\ i \in work
  /\ IF i \in Live \ marked
       THEN /\ marked' = marked \union {i}
            /\ work' = (work \ {i}) \union Refs(slots[i])
       ELSE /\ marked' = marked
            /\ work' = work \ {i}
  /\ UNCHANGED <<heapVars, held, phase, sweepAt>>

EndMark ==
  /\ phase = "mark"
  /\ work = {}
  /\ phase' = "sweep"
  /\ UNCHANGED <<heapVars, held, work, marked, sweepAt>>

\* Mutant: a slot without a mark is released though it is free already.
SweepFreeToo ==
  /\ phase = "sweep"
  /\ sweepAt <= Len(slots)
  /\ sweepAt' = sweepAt + 1
  /\ IF sweepAt \notin marked
       THEN /\ slots' = [slots EXCEPT ![sweepAt] = Free]
            /\ freeList' = Append(freeList, sweepAt)
       ELSE UNCHANGED <<slots, freeList>>
  /\ UNCHANGED <<pending, held, phase, work, marked>>

\* One slot is looked at; a live slot without a mark is released.
Sweep ==
  /\ phase = "sweep"
  /\ sweepAt <= Len(slots)
  /\ sweepAt' = sweepAt + 1
  /\ IF sweepAt \in Live \ marked
       THEN /\ slots' = [slots EXCEPT ![sweepAt] = Free]
            /\ freeList' = Append(freeList, sweepAt)
       ELSE UNCHANGED <<slots, freeList>>
  /\ UNCHANGED <<pending, held, phase, work, marked>>

\* Mutant: the sweep stops before the last slot.
EndSweepEarly ==
  /\ phase = "sweep"
  /\ sweepAt >= Len(slots)
  /\ phase' = "idle"
  /\ pending' = 0
  /\ marked' = {} /\ sweepAt' = 1
  /\ UNCHANGED <<slots, freeList, held, work>>

EndSweep ==
  /\ phase = "sweep"
  /\ sweepAt > Len(slots)
  /\ phase' = "idle"
  /\ pending' = 0
  /\ marked' = {} /\ sweepAt' = 1
  /\ UNCHANGED <<slots, freeList, held, work>>

Collector == (\E i \in work : Mark(i)) \/ EndMark \/ Sweep \/ EndSweep
-----------------------------------------------------------------------------
\* What the machine can put in a field.
HeldValues == { Ref(i) : i \in held } \union Plain

\* What the machine can make of an object's fields: it leaves each one alone or
\* overwrites it with such a value.
Rewrites(i) ==
  LET old == slots[i].fields
  IN  { f \in [Name -> HeldValues \union { old[n] : n \in Name }] :
          \A n \in Name : f[n] = old[n] \/ f[n] \in HeldValues }

Program ==
  \/ \E t \in TypeName : \E f \in [Name -> HeldValues] : \E keep \in SUBSET held :
       Allocate([type |-> t, fields |-> f], keep)
  \/ \E handles \in SUBSET Reachables : Use(handles)
  \/ \E i \in held \intersect Live : \E fields \in Rewrites(i) : \E keep \in SUBSET held :
       Store(i, fields, keep)
  \/ ForceGc

Next == Program \/ Collector

Spec == Init /\ [][Next]_vars

\* The collector runs to its end before the next instruction: it is one thread.
FairSpec == Spec /\ WF_vars(Collector)
-----------------------------------------------------------------------------
Phase == {"idle", "mark", "sweep"}

\* Every variable has its type, and every id the collector handles is an id.
TypeOK ==
  /\ slots \in Seq(Object \union {Free}) /\ Len(slots) <= Capacity
  /\ freeList \in Seq(Id)
  /\ pending \in Nat
  /\ held \in SUBSET Id
  /\ phase \in Phase
  /\ work \in SUBSET Id
  /\ marked \in SUBSET Id
  /\ sweepAt \in 1 .. Len(slots) + 1

\* The free list holds exactly the released slots, each once: a slot released
\* twice would later be handed to two objects, a slot left out would be lost.
FreeListExact ==
  /\ { freeList[k] : k \in DOMAIN freeList } = { i \in DOMAIN slots : slots[i] = Free }
  /\ \A j, k \in DOMAIN freeList : freeList[j] = freeList[k] => j = k

\* No handle dangles, while the program runs and at every point of a collection:
\* what the program holds, or can reach from there, is a live object, so
\* Heap::get never meets a free slot.
NoDangling ==
  /\ held \subseteq Live
  /\ \A i \in ReachableIn(Objects, held) : Refs(slots[i]) \subseteq Live

\* What the rest of a collection rests on, and why the two above hold. Outside a
\* sweep the live slots are closed under references; while marking, the marked
\* and waiting slots are what every closed set of slots around the roots must
\* hold; while sweeping, the marked slots are the least such set.
Least(K) == \A S \in SUBSET Live : held \subseteq S /\ ClosedIn(Objects, S) => K \subseteq S

GcInv ==
  /\ phase # "sweep" => held \subseteq Live /\ \A i \in Live : Refs(slots[i]) \subseteq Live
  /\ phase = "idle" => marked = {} /\ work = {} /\ sweepAt = 1
  /\ phase # "idle" => /\ marked \subseteq Live
                       /\ held \subseteq marked \union work
                       /\ \A i \in marked : Refs(slots[i]) \subseteq marked \union work
  /\ phase = "mark" => Least(marked \union work) /\ sweepAt = 1
  /\ phase = "sweep" => /\ Least(marked) /\ work = {}
                        /\ \A i \in Live : i < sweepAt => i \in marked

\* A collection that ends has released every object no root reaches, cycles
\* included, and kept every other one: a second one would release nothing.
CollectExact ==
  [][phase = "sweep" /\ phase' = "idle" => Live' = ReachableIn(Objects, held)']_vars

\* The program's next instruction is never kept waiting for ever: marking ends
\* on cyclic structures too.
CollectTerminates == phase # "idle" ~> phase = "idle"

\* What a collection has left to do: phases, objects to mark, ids that wait, slots to look
\* at. Each of its steps leaves less, even if with an object marked more ids wait than
\* before; and the program takes no step in between. So it ends, after so many steps at
\* most, on cyclic structures too.
Left ==
  <<CASE phase = "mark" -> 2 [] phase = "sweep" -> 1 [] phase = "idle" -> 0,
    Cardinality(Live \ marked), Cardinality(work), Len(slots) + 1 - sweepAt>>

CollectorAdvances == [][phase # "idle" => Less(Left', Left)]_vars

\* The heap keeps the promises of ObjectStore. An object is gone from the store
\* at the moment marking ends without having reached it: sweeping is invisible.
Kept == IF phase = "sweep" THEN marked ELSE Live

Abstract == INSTANCE ObjectStore WITH store <- [i \in Kept |-> slots[i]], held <- held

ImplementsStore == Abstract!Spec
=============================================================================
