----------------------------- MODULE HeapProofs -----------------------------
(***************************************************************************)
(* Theorems about Heap, for every set of names, types and values and every *)
(* threshold and capacity: its inductive invariant, that no handle ever    *)
(* dangles, that a collection is exact and ends, and that it implements    *)
(* ObjectStore.                                                            *)
(***************************************************************************)
EXTENDS Heap, NatLemmas, FiniteSetTheorems

IInv == TypeOK /\ FreeListExact /\ GcInv

-----------------------------------------------------------------------------
(* Values and objects. *)

\* A value that is a handle names an id: Unbound, numbers, strings, Booleans and
\* Nil are not handles.
LEMMA RefIsId ==
  ASSUME NEW v \in Value \union {Unbound}, IsRef(v)
  PROVE  v.val \in Id
  BY DEF Value, Unbound, IsRef, Nil

\* The references of an object are ids.
LEMMA RefsAreIds == ASSUME NEW obj \in Object PROVE Refs(obj) \subseteq Id
  <1> SUFFICES ASSUME NEW n \in Name, IsRef(obj.fields[n])
               PROVE  obj.fields[n].val \in Id
    BY DEF Refs, RefsIn
  <1>1. obj.fields[n] \in Value \union {Unbound}
    BY DEF Object, Bindings
  <1> QED
    BY <1>1, RefIsId

\* A set that holds the roots and is closed holds all they reach.
LEMMA ReachableInClosed ==
  ASSUME NEW store, NEW roots, NEW K \in SUBSET DOMAIN store,
         roots \subseteq K, \A i \in K : Refs(store[i]) \subseteq K
  PROVE  ReachableIn(store, roots) \subseteq K
  BY DEF ReachableIn, ClosedIn

-----------------------------------------------------------------------------
(* The slot vector. *)

\* A live slot holds an object.
LEMMA LiveFacts ==
  ASSUME TypeOK
  PROVE  /\ Live \subseteq DOMAIN slots
         /\ Live \subseteq Id
         /\ DOMAIN slots = 1 .. Len(slots)
         /\ Len(slots) \in Nat
         /\ \A i \in Live : slots[i] \in Object /\ Refs(slots[i]) \subseteq Id
         /\ DOMAIN Objects = Live
         /\ \A i \in Live : Objects[i] = slots[i]
  <1>1. slots \in Seq(Object \union {Free})
    BY DEF TypeOK
  <1>2. DOMAIN slots = 1 .. Len(slots) /\ Len(slots) \in Nat /\ Len(slots) <= Capacity
    BY <1>1 DEF TypeOK
  <1>3. \A i \in Live : slots[i] \in Object
    BY <1>1, <1>2 DEF Live
  <1>4. \A i \in Live : Refs(slots[i]) \subseteq Id
    BY <1>3, RefsAreIds
  <1> QED
    BY <1>2, <1>3, <1>4, CapacityAssumption DEF Live, Id, Objects

\* Heap::alloc: the id it returns was not in use, the slot vector gains exactly
\* that object, and the free list stays exact.
LEMMA AllocFacts ==
  ASSUME TypeOK, FreeListExact, CanAlloc, NEW obj \in Object,
         slots' = AllocSlots(obj), freeList' = AllocFreeList
  PROVE  /\ AllocId \in Id
         /\ AllocId \notin Live
         /\ slots' \in Seq(Object \union {Free})
         /\ Len(slots) <= Len(slots') /\ Len(slots') <= Capacity
         /\ freeList' \in Seq(Id)
         /\ Live' = Live \union {AllocId}
         /\ slots'[AllocId] = obj
         /\ \A i \in Live : slots'[i] = slots[i]
         /\ FreeListExact'
  <1>1. /\ slots \in Seq(Object \union {Free}) /\ Len(slots) \in Nat
        /\ DOMAIN slots = 1 .. Len(slots)
        /\ freeList \in Seq(Id) /\ Len(freeList) \in Nat
        /\ DOMAIN freeList = 1 .. Len(freeList)
        /\ obj # Free
        /\ Len(slots) <= Capacity
    BY FreeAssumption DEF TypeOK
  <1>2. CASE freeList # <<>>
    <2> DEFINE last == Len(freeList)
               id   == freeList[last]
    <2>1. last \in DOMAIN freeList /\ last >= 1
      BY <1>1, <1>2
    <2>2. id \in DOMAIN slots /\ slots[id] = Free /\ AllocId = id
      BY <1>2, <2>1 DEF FreeListExact, AllocId
    <2>3. /\ slots' = [slots EXCEPT ![id] = obj]
          /\ freeList' = SubSeq(freeList, 1, last - 1)
      BY <1>2, <2>2 DEF AllocSlots, AllocFreeList
    <2>4. /\ slots' \in Seq(Object \union {Free}) /\ DOMAIN slots' = DOMAIN slots
          /\ Len(slots') = Len(slots)
          /\ slots'[id] = obj
          /\ \A i \in DOMAIN slots : i # id => slots'[i] = slots[i]
      BY <1>1, <2>2, <2>3
    <2>5. /\ freeList' \in Seq(Id)
          /\ DOMAIN freeList' = 1 .. last - 1
          /\ \A k \in 1 .. last - 1 : freeList'[k] = freeList[k]
      BY <1>1, <2>1, <2>3
    <2>6. Live' = Live \union {id} /\ id \notin Live
      BY <1>1, <2>2, <2>4 DEF Live
    <2>7. { freeList'[k] : k \in DOMAIN freeList' } = { i \in DOMAIN slots' : slots'[i] = Free }
      <3>1. ASSUME NEW k \in DOMAIN freeList'
            PROVE  freeList'[k] \in DOMAIN slots' /\ slots'[freeList'[k]] = Free
        <4>1. k \in DOMAIN freeList /\ k # last /\ freeList'[k] = freeList[k]
          BY <1>1, <2>1, <2>5, <3>1
        <4>2. freeList[k] # id
          BY <2>1, <4>1 DEF FreeListExact
        <4>3. freeList[k] \in DOMAIN slots /\ slots[freeList[k]] = Free
          BY <4>1 DEF FreeListExact
        <4> QED
          BY <2>4, <4>1, <4>2, <4>3
      <3>2. ASSUME NEW i \in DOMAIN slots', slots'[i] = Free
            PROVE  \E k \in DOMAIN freeList' : freeList'[k] = i
        <4>1. i # id /\ i \in DOMAIN slots /\ slots[i] = Free
          BY <1>1, <2>4, <3>2
        <4>2. PICK k \in DOMAIN freeList : freeList[k] = i
          BY <4>1 DEF FreeListExact
        <4>3. k \in 1 .. last - 1
          BY <1>1, <4>1, <4>2
        <4> QED
          BY <2>5, <4>2, <4>3
      <3> QED
        BY <3>1, <3>2
    <2>8. \A j, k \in DOMAIN freeList' : freeList'[j] = freeList'[k] => j = k
      <3>1. DOMAIN freeList' \subseteq DOMAIN freeList
        BY <1>1, <2>1, <2>5
      <3> QED
        BY <2>5, <3>1 DEF FreeListExact
    <2>9. /\ id \in Id
          /\ \A i \in Live : slots'[i] = slots[i]
      BY <1>1, <2>2, <2>4, <2>6, CapacityAssumption DEF Live, Id
    <2>10. FreeListExact'
      BY <2>7, <2>8 DEF FreeListExact
    <2> QED
      BY <1>1, <2>2, <2>4, <2>5, <2>6, <2>9, <2>10
  <1>3. CASE freeList = <<>>
    <2> DEFINE id == Len(slots) + 1
    <2>1. AllocId = id /\ id \in Id /\ id \notin Live
      BY <1>1, <1>3, CapacityAssumption DEF AllocId, CanAlloc, Id, Live
    <2>2. slots' = Append(slots, obj) /\ freeList' = freeList
      BY <1>3 DEF AllocSlots, AllocFreeList
    <2>3. /\ slots' \in Seq(Object \union {Free}) /\ Len(slots') = id
          /\ DOMAIN slots' = DOMAIN slots \union {id}
          /\ slots'[id] = obj
          /\ \A i \in DOMAIN slots : slots'[i] = slots[i]
      BY <1>1, <2>2
    <2>4. Live' = Live \union {id} /\ \A i \in Live : slots'[i] = slots[i]
      BY <1>1, <2>3 DEF Live
    <2>5. { i \in DOMAIN slots' : slots'[i] = Free } = { i \in DOMAIN slots : slots[i] = Free }
      <3>1. /\ DOMAIN slots' = DOMAIN slots \union {id} /\ slots'[id] # Free
            /\ \A i \in DOMAIN slots : slots'[i] = slots[i]
        BY <1>1, <2>3
      <3> HIDE DEF id
      <3> QED
        BY <3>1
    <2>6. FreeListExact'
      BY <2>2, <2>5 DEF FreeListExact
    <2>7. Len(slots) <= Len(slots') /\ Len(slots') <= Capacity
      BY <1>1, <2>1, <2>3 DEF Id
    <2> HIDE DEF id
    <2> QED
      BY <1>1, <2>1, <2>2, <2>3, <2>4, <2>6, <2>7
  <1> QED
    BY <1>2, <1>3

\* A program's allocation and writes use only what it holds.
LEMMA HeldValuesFacts ==
  ASSUME TypeOK
  PROVE  /\ HeldValues \subseteq Value \union {Unbound}
         /\ \A v \in HeldValues : IsRef(v) => v.val \in held
         /\ \A t \in TypeName : \A f \in [Name -> HeldValues] :
              LET obj == [type |-> t, fields |-> f]
              IN  obj \in Object /\ Refs(obj) \subseteq held
  <1>1. HeldValues \subseteq Value \union {Unbound}
    BY PlainAssumption DEF TypeOK, HeldValues, Value, Ref
  <1>2. \A v \in HeldValues : IsRef(v) => v.val \in held
    BY PlainAssumption DEF HeldValues, IsRef, Ref
  <1>3. ASSUME NEW t \in TypeName, NEW f \in [Name -> HeldValues]
        PROVE  LET obj == [type |-> t, fields |-> f]
               IN  obj \in Object /\ Refs(obj) \subseteq held
    <2>1. f \in [Name -> Value \union {Unbound}]
      BY <1>1
    <2>2. [type |-> t, fields |-> f] \in Object
      BY <2>1 DEF Object, Bindings
    <2>3. RefsIn(f) \subseteq held
      BY <1>2 DEF RefsIn
    <2> QED
      BY <2>2, <2>3 DEF Refs
  <1> QED
    BY <1>1, <1>2, <1>3

\* Overwriting fields of a live object gives an object that refers to nothing but
\* what the old one referred to and what the machine holds.
LEMMA RewriteFacts ==
  ASSUME TypeOK, NEW i \in Live, NEW fields \in Rewrites(i)
  PROVE  LET new == [slots[i] EXCEPT !.fields = fields]
         IN  /\ new \in Object
             /\ new.fields = fields
             /\ Refs(new) = RefsIn(fields)
             /\ RefsIn(fields) \subseteq held \union Refs(slots[i])
  <1> DEFINE old == slots[i].fields
             new == [slots[i] EXCEPT !.fields = fields]
  <1>1. slots[i] \in Object /\ old \in [Name -> Value \union {Unbound}]
    BY LiveFacts DEF Object, Bindings
  <1>2. fields \in [Name -> HeldValues \union { old[n] : n \in Name }]
        /\ \A n \in Name : fields[n] = old[n] \/ fields[n] \in HeldValues
    BY DEF Rewrites
  <1>3. /\ HeldValues \subseteq Value \union {Unbound}
        /\ \A v \in HeldValues : IsRef(v) => v.val \in held
    BY HeldValuesFacts
  <1>4. fields \in [Name -> Value \union {Unbound}]
    BY <1>1, <1>2, <1>3
  <1>5. new \in Object /\ new.fields = fields
    BY <1>1, <1>4 DEF Object, Bindings
  <1>6. RefsIn(fields) \subseteq held \union RefsIn(old)
    BY <1>2, <1>3 DEF RefsIn
  <1> QED
    BY <1>5, <1>6 DEF Refs

-----------------------------------------------------------------------------
(* The inductive invariant. *)

LEMMA InitIInv == Init => IInv
  <1> SUFFICES ASSUME Init PROVE IInv
    OBVIOUS
  <1>1. Live = {}
    BY DEF Init, Live
  <1>2. TypeOK
    BY CapacityAssumption DEF Init, TypeOK, Phase
  <1>3. FreeListExact
    BY DEF Init, FreeListExact
  <1>4. GcInv
    BY <1>1 DEF Init, GcInv
  <1> QED
    BY <1>2, <1>3, <1>4 DEF IInv

\* When a collection starts from a heap closed under references, the waiting
\* roots are what a closed set must hold.
LEMMA StartCollectInv ==
  ASSUME phase = "idle", GcInv, StartCollect(held'), TypeOK,
         held' \subseteq Live', \A i \in Live' : Refs(slots'[i]) \subseteq Live'
  PROVE  GcInv'
  <1>1. /\ phase' = "mark" /\ work' = held' /\ marked' = {} /\ sweepAt' = 1
    BY DEF StartCollect, GcInv
  <1>2. Least(marked \union work)'
    BY <1>1 DEF Least
  <1> QED
    BY <1>1, <1>2 DEF GcInv

LEMMA AllocateInv ==
  ASSUME IInv, NEW obj \in Object, Refs(obj) \subseteq held, NEW keep, Allocate(obj, keep)
  PROVE  IInv'
  <1>1. /\ TypeOK /\ FreeListExact /\ GcInv /\ CanAlloc /\ phase = "idle"
        /\ slots' = AllocSlots(obj) /\ freeList' = AllocFreeList
        /\ pending' = pending + 1 /\ held' = keep \union {AllocId} /\ keep \subseteq held
        /\ IF ShouldCollect(pending') THEN StartCollect(held') ELSE UNCHANGED gcVars
    BY DEF IInv, Allocate
  <1>2. /\ AllocId \in Id
        /\ slots' \in Seq(Object \union {Free}) /\ freeList' \in Seq(Id)
        /\ Len(slots) <= Len(slots') /\ Len(slots') <= Capacity
        /\ Live' = Live \union {AllocId}
        /\ slots'[AllocId] = obj
        /\ \A i \in Live : slots'[i] = slots[i]
        /\ FreeListExact'
    BY <1>1, AllocFacts
  <1>3. held \subseteq Live /\ \A i \in Live : Refs(slots[i]) \subseteq Live
    BY <1>1 DEF GcInv
  <1>4. held' \subseteq Live' /\ \A i \in Live' : Refs(slots'[i]) \subseteq Live'
    BY <1>1, <1>2, <1>3
  <1>5. TypeOK'
    BY <1>1, <1>2 DEF TypeOK, StartCollect, gcVars, Phase
  <1>6. GcInv'
    <2>1. CASE StartCollect(held')
      BY <1>1, <1>4, <2>1, StartCollectInv
    <2>2. CASE UNCHANGED gcVars
      BY <1>1, <1>4, <2>2 DEF GcInv, gcVars
    <2> QED
      BY <1>1, <2>1, <2>2
  <1> QED
    BY <1>2, <1>5, <1>6 DEF IInv

LEMMA UseInv ==
  ASSUME IInv, NEW handles, Use(handles)
  PROVE  IInv'
  <1>1. /\ TypeOK /\ FreeListExact /\ GcInv /\ phase = "idle"
        /\ held' \subseteq Reachables
        /\ UNCHANGED <<slots, freeList, pending, phase, work, marked, sweepAt>>
    BY DEF IInv, Use, heapVars, gcVars
  <1>2. Reachables \subseteq Live /\ Live \subseteq Id
    BY <1>1, LiveFacts DEF GcInv, Reachables
  <1>3. Live' = Live
    BY <1>1 DEF Live
  <1>4. TypeOK' /\ FreeListExact'
    BY <1>1, <1>2 DEF TypeOK, FreeListExact
  <1>5. GcInv'
    BY <1>1, <1>2, <1>3 DEF GcInv
  <1> QED
    BY <1>4, <1>5 DEF IInv

LEMMA StoreInv ==
  ASSUME IInv, NEW i \in held \intersect Live, NEW fields \in Rewrites(i), NEW keep,
         Store(i, fields, keep)
  PROVE  IInv'
  <1> DEFINE new == [slots[i] EXCEPT !.fields = fields]
  <1>1. /\ TypeOK /\ FreeListExact /\ GcInv /\ phase = "idle"
        /\ slots' = [slots EXCEPT ![i] = new] /\ held' \subseteq held
        /\ UNCHANGED <<freeList, pending, phase, work, marked, sweepAt>>
    BY DEF IInv, Store, gcVars
  <1>2. /\ i \in Live /\ held \subseteq Live /\ \A j \in Live : Refs(slots[j]) \subseteq Live
    BY <1>1 DEF GcInv
  <1>3. /\ Live \subseteq DOMAIN slots
    BY <1>1, <1>2, LiveFacts
  <1>4. new \in Object /\ Refs(new) \subseteq held \union Refs(slots[i])
    BY <1>1, <1>2, RewriteFacts
  <1>5. Refs(new) \subseteq Live
    BY <1>2, <1>4
  <1>6. new # Free
    BY <1>4, FreeAssumption
  <1> HIDE DEF new
  <1>7. /\ slots' \in Seq(Object \union {Free}) /\ DOMAIN slots' = DOMAIN slots
        /\ Len(slots') = Len(slots)
        /\ slots'[i] = new
        /\ \A j \in DOMAIN slots : j # i => slots'[j] = slots[j]
    BY <1>1, <1>2, <1>3, <1>4 DEF TypeOK
  <1>8. Live' = Live
    BY <1>2, <1>3, <1>6, <1>7 DEF Live
  <1>9. { j \in DOMAIN slots' : slots'[j] = Free } = { j \in DOMAIN slots : slots[j] = Free }
    BY <1>2, <1>6, <1>7 DEF Live
  <1>10. \A j \in Live : Refs(slots'[j]) \subseteq Live
    BY <1>2, <1>3, <1>5, <1>7
  <1>11. TypeOK'
    BY <1>1, <1>7 DEF TypeOK
  <1>12. FreeListExact'
    BY <1>1, <1>9 DEF FreeListExact
  <1>13. GcInv'
    BY <1>1, <1>2, <1>8, <1>10 DEF GcInv
  <1> QED
    BY <1>11, <1>12, <1>13 DEF IInv

LEMMA ForceGcInv ==
  ASSUME IInv, ForceGc
  PROVE  IInv'
  <1>1. /\ TypeOK /\ FreeListExact /\ GcInv /\ phase = "idle" /\ StartCollect(held')
        /\ UNCHANGED <<slots, freeList, pending, held>>
    BY DEF IInv, ForceGc, heapVars
  <1>2. Live' = Live
    BY <1>1 DEF Live
  <1>3. GcInv'
    BY <1>1, <1>2, StartCollectInv DEF GcInv
  <1>4. TypeOK' /\ FreeListExact'
    BY <1>1 DEF TypeOK, FreeListExact, StartCollect, Phase
  <1> QED
    BY <1>3, <1>4 DEF IInv

LEMMA MarkInv ==
  ASSUME IInv, NEW i \in work, Mark(i)
  PROVE  IInv'
  <1>1. /\ TypeOK /\ FreeListExact /\ GcInv /\ phase = "mark"
        /\ UNCHANGED <<slots, freeList, pending, held, phase, sweepAt>>
    BY DEF IInv, Mark, heapVars
  <1>2. Live' = Live /\ Objects' = Objects
    BY <1>1 DEF Live, Objects
  <1>3. FreeListExact'
    BY <1>1 DEF FreeListExact
  <1>4. CASE i \in Live \ marked
    <2>1. marked' = marked \union {i} /\ work' = (work \ {i}) \union Refs(slots[i])
      BY <1>4 DEF Mark
    <2>2. /\ DOMAIN Objects = Live /\ Objects[i] = slots[i] /\ Refs(slots[i]) \subseteq Id
      BY <1>1, <1>4, LiveFacts
    <2>3. TypeOK'
      BY <1>1, <2>1, <2>2 DEF TypeOK
    <2>4. Least(marked \union work)'
      <3> SUFFICES ASSUME NEW S \in SUBSET Live, held \subseteq S, ClosedIn(Objects, S)
                   PROVE  marked' \union work' \subseteq S
        BY <1>1, <1>2 DEF Least
      <3>1. marked \union work \subseteq S
        BY <1>1 DEF GcInv, Least
      <3>2. Refs(slots[i]) \subseteq S
        BY <1>1, <1>4, <2>2, <3>1 DEF ClosedIn, GcInv
      <3> QED
        BY <2>1, <3>1, <3>2
    <2>5. GcInv'
      BY <1>1, <1>2, <1>4, <2>1, <2>4 DEF GcInv
    <2> QED
      BY <1>3, <2>3, <2>5 DEF IInv
  <1>5. CASE i \notin Live \ marked
    <2>1. marked' = marked /\ work' = work \ {i}
      BY <1>5 DEF Mark
    <2>2. i \in marked
      <3>1. DOMAIN Objects = Live
        BY DEF Objects
      <3>2. held \subseteq Live /\ ClosedIn(Objects, Live)
        BY <1>1, <3>1 DEF GcInv, ClosedIn
      <3>3. i \in Live
        BY <1>1, <3>2 DEF GcInv, Least
      <3> QED
        BY <1>5, <3>3
    <2>3. marked' \union work' = marked \union work
      BY <2>1, <2>2
    <2>4. TypeOK'
      BY <1>1, <2>1 DEF TypeOK
    <2>5. Least(marked \union work)'
      BY <1>1, <1>2, <2>3 DEF GcInv, Least
    <2>6. GcInv'
      BY <1>1, <1>2, <2>1, <2>2, <2>5 DEF GcInv
    <2> QED
      BY <1>3, <2>4, <2>6 DEF IInv
  <1> QED
    BY <1>4, <1>5

LEMMA EndMarkInv ==
  ASSUME IInv, EndMark
  PROVE  IInv'
  <1>1. /\ TypeOK /\ FreeListExact /\ GcInv /\ phase = "mark" /\ work = {} /\ phase' = "sweep"
        /\ UNCHANGED <<slots, freeList, pending, held, work, marked, sweepAt>>
    BY DEF IInv, EndMark, heapVars
  <1>2. Live' = Live /\ Objects' = Objects
    BY <1>1 DEF Live, Objects
  <1>3. TypeOK' /\ FreeListExact'
    BY <1>1 DEF TypeOK, FreeListExact, Phase
  <1>4. Least(marked)'
    BY <1>1, <1>2 DEF GcInv, Least
  <1>5. \A i \in Live : ~ (i < sweepAt)
    BY <1>1, LiveFacts DEF GcInv, Id
  <1>6. GcInv'
    BY <1>1, <1>2, <1>4, <1>5 DEF GcInv
  <1> QED
    BY <1>3, <1>6 DEF IInv

LEMMA SweepInv ==
  ASSUME IInv, Sweep
  PROVE  IInv'
  <1>1. /\ TypeOK /\ FreeListExact /\ GcInv /\ phase = "sweep"
        /\ sweepAt <= Len(slots) /\ sweepAt' = sweepAt + 1
        /\ UNCHANGED <<pending, held, phase, work, marked>>
    BY DEF IInv, Sweep
  <1>2. /\ slots \in Seq(Object \union {Free}) /\ DOMAIN slots = 1 .. Len(slots)
        /\ Len(slots) \in Nat /\ sweepAt \in DOMAIN slots /\ sweepAt \in Id
        /\ sweepAt' \in 1 .. Len(slots) + 1 /\ Len(slots) <= Capacity
        /\ Live \subseteq DOMAIN slots
    BY <1>1, LiveFacts, CapacityAssumption DEF TypeOK, Id
  <1>3. CASE sweepAt \in Live \ marked
    <2>1. /\ slots' = [slots EXCEPT ![sweepAt] = Free] /\ freeList' = Append(freeList, sweepAt)
      BY <1>3 DEF Sweep
    <2>2. /\ slots' \in Seq(Object \union {Free}) /\ DOMAIN slots' = DOMAIN slots
          /\ Len(slots') = Len(slots)
          /\ slots'[sweepAt] = Free
          /\ \A j \in DOMAIN slots : j # sweepAt => slots'[j] = slots[j]
      BY <1>2, <2>1
    <2>3. /\ freeList \in Seq(Id) /\ Len(freeList) \in Nat
          /\ freeList' \in Seq(Id)
          /\ DOMAIN freeList = 1 .. Len(freeList)
          /\ DOMAIN freeList' = 1 .. Len(freeList) + 1
          /\ freeList'[Len(freeList) + 1] = sweepAt
          /\ \A k \in DOMAIN freeList : freeList'[k] = freeList[k]
      BY <1>1, <1>2, <2>1 DEF TypeOK
    <2>4. Live' = Live \ {sweepAt}
      BY <1>2, <2>2 DEF Live
    <2>5. TypeOK'
      BY <1>1, <1>2, <2>2, <2>3 DEF TypeOK
    <2>6. { freeList'[k] : k \in DOMAIN freeList' } = { i \in DOMAIN slots' : slots'[i] = Free }
      <3>1. DOMAIN freeList' = DOMAIN freeList \union {Len(freeList) + 1}
        BY <2>3
      <3>2. { freeList'[k] : k \in DOMAIN freeList' }
              = { freeList[k] : k \in DOMAIN freeList } \union {sweepAt}
        BY <2>3, <3>1
      <3>3. { i \in DOMAIN slots' : slots'[i] = Free }
              = { i \in DOMAIN slots : slots[i] = Free } \union {sweepAt}
        BY <1>2, <2>2
      <3> QED
        BY <1>1, <3>2, <3>3 DEF FreeListExact
    <2>7. \A j, k \in DOMAIN freeList' : freeList'[j] = freeList'[k] => j = k
      <3>1. \A k \in DOMAIN freeList : freeList[k] # sweepAt
        BY <1>1, <1>3 DEF FreeListExact, Live
      <3>2. DOMAIN freeList' = DOMAIN freeList \union {Len(freeList) + 1}
        BY <2>3
      <3> QED
        BY <1>1, <2>3, <3>1, <3>2 DEF FreeListExact
    <2>8. FreeListExact'
      BY <2>6, <2>7 DEF FreeListExact
    <2>9. \A i \in marked : i \in Live /\ i # sweepAt /\ slots'[i] = slots[i]
      BY <1>1, <1>2, <1>3, <2>2 DEF GcInv
    <2>10. Least(marked)'
      <3> SUFFICES ASSUME NEW S \in SUBSET Live', held \subseteq S, ClosedIn(Objects', S)
                   PROVE  marked \subseteq S
        BY <1>1 DEF Least
      <3>1. /\ DOMAIN Objects = Live /\ DOMAIN Objects' = Live'
            /\ \A i \in Live' : i \in Live /\ Objects'[i] = Objects[i]
        BY <2>2, <2>4, <1>2 DEF Objects
      <3> DEFINE M == S \intersect marked
      <3>2. M \in SUBSET Live /\ held \subseteq M
        BY <1>1, <2>4 DEF GcInv
      <3>3. ASSUME NEW i \in M
            PROVE  Refs(Objects[i]) \intersect DOMAIN Objects \subseteq M
        <4>1. Refs(Objects[i]) \subseteq marked
          BY <1>1, <2>9, <3>1 DEF GcInv, Objects
        <4>2. marked \subseteq Live'
          BY <2>4, <2>9
        <4>3. Refs(Objects'[i]) \intersect DOMAIN Objects' \subseteq S
          BY DEF ClosedIn
        <4> QED
          BY <3>1, <4>1, <4>2, <4>3
      <3>4. ClosedIn(Objects, M)
        BY <3>3 DEF ClosedIn
      <3> QED
        BY <1>1, <3>2, <3>4 DEF GcInv, Least
    <2>11. \A i \in Live' : i < sweepAt' => i \in marked'
      BY <1>1, <1>2, <2>4 DEF GcInv, Id
    <2>12. GcInv'
      BY <1>1, <2>4, <2>9, <2>10, <2>11 DEF GcInv
    <2> QED
      BY <2>5, <2>8, <2>12 DEF IInv
  <1>4. CASE sweepAt \notin Live \ marked
    <2>1. UNCHANGED <<slots, freeList>>
      BY <1>4 DEF Sweep
    <2>2. Live' = Live /\ Objects' = Objects
      BY <2>1 DEF Live, Objects
    <2>3. TypeOK' /\ FreeListExact'
      BY <1>1, <1>2, <2>1 DEF TypeOK, FreeListExact
    <2>4. Least(marked)'
      BY <1>1, <2>2 DEF GcInv, Least
    <2>5. \A i \in Live' : i < sweepAt' => i \in marked'
      BY <1>1, <1>2, <1>4, <2>2 DEF GcInv, Id
    <2>6. GcInv'
      BY <1>1, <2>1, <2>2, <2>4, <2>5 DEF GcInv
    <2> QED
      BY <2>3, <2>6 DEF IInv
  <1> QED
    BY <1>3, <1>4

LEMMA EndSweepInv ==
  ASSUME IInv, EndSweep
  PROVE  IInv'
  <1>1. /\ TypeOK /\ FreeListExact /\ GcInv /\ phase = "sweep" /\ sweepAt > Len(slots)
        /\ phase' = "idle" /\ pending' = 0 /\ marked' = {} /\ sweepAt' = 1
        /\ UNCHANGED <<slots, freeList, held, work>>
    BY DEF IInv, EndSweep
  <1>2. Live' = Live
    BY <1>1 DEF Live
  <1>3. TypeOK' /\ FreeListExact'
    BY <1>1 DEF TypeOK, FreeListExact, Phase, Id
  <1>4. Live = marked
    <2>1. \A i \in Live : i < sweepAt
      BY <1>1, LiveFacts DEF TypeOK, Id
    <2> QED
      BY <1>1, <2>1 DEF GcInv
  <1>5. GcInv'
    BY <1>1, <1>2, <1>4 DEF GcInv
  <1> QED
    BY <1>3, <1>5 DEF IInv

LEMMA NextIInv == IInv /\ [Next]_vars => IInv'
  <1> SUFFICES ASSUME IInv, [Next]_vars PROVE IInv'
    OBVIOUS
  <1> USE DEF IInv
  <1>1. ASSUME NEW t \in TypeName, NEW f \in [Name -> HeldValues], NEW keep \in SUBSET held,
               Allocate([type |-> t, fields |-> f], keep)
        PROVE  IInv'
    BY <1>1, HeldValuesFacts, AllocateInv
  <1>2. ASSUME NEW handles \in SUBSET Reachables, Use(handles) PROVE IInv'
    BY <1>2, UseInv
  <1>3. ASSUME NEW i \in held \intersect Live, NEW fields \in Rewrites(i), NEW keep \in SUBSET held,
               Store(i, fields, keep)
        PROVE  IInv'
    BY <1>3, StoreInv
  <1>5. CASE ForceGc
    BY <1>5, ForceGcInv
  <1>6. ASSUME NEW i \in work, Mark(i) PROVE IInv'
    BY <1>6, MarkInv
  <1>7. CASE EndMark
    BY <1>7, EndMarkInv
  <1>8. CASE Sweep
    BY <1>8, SweepInv
  <1>9. CASE EndSweep
    BY <1>9, EndSweepInv
  <1>10. CASE UNCHANGED vars
    <2>1. Live' = Live /\ Objects' = Objects
      BY <1>10 DEF vars, Live, Objects
    <2>2. TypeOK' /\ FreeListExact'
      BY <1>10 DEF vars, TypeOK, FreeListExact
    <2>3. GcInv'
      BY <1>10, <2>1 DEF vars, GcInv, Least
    <2> QED
      BY <2>2, <2>3
  <1> QED
    BY <1>1, <1>2, <1>3, <1>5, <1>6, <1>7, <1>8, <1>9, <1>10 DEF Next, Program, Collector

\* The inductive invariant holds in every reachable state of the heap.
THEOREM HeapInvariant == Spec => []IInv
  BY InitIInv, NextIInv, PTL DEF Spec

-----------------------------------------------------------------------------
(* What follows from it. *)

\* Every variable of the heap keeps its type (heap.rs, the Heap struct).
THEOREM TypeCorrect == Spec => []TypeOK
  <1>1. IInv => TypeOK
    BY DEF IInv
  <1> QED
    BY <1>1, HeapInvariant, PTL

\* The free list holds exactly the released slots, each once (Heap::alloc pops
\* it, the sweep of Heap::collect extends it).
THEOREM FreeListCorrect == Spec => []FreeListExact
  <1>1. IInv => FreeListExact
    BY DEF IInv
  <1> QED
    BY <1>1, HeapInvariant, PTL

\* Heap::get never meets a released slot, in the middle of a collection either.
THEOREM HandlesNeverDangle == Spec => []NoDangling
  <1>1. IInv => NoDangling
    <2> SUFFICES ASSUME IInv PROVE NoDangling
      OBVIOUS
    <2> DEFINE K == IF phase = "sweep" THEN marked ELSE Live
    <2>1. /\ K \subseteq Live /\ held \subseteq K
          /\ \A i \in K : Refs(slots[i]) \subseteq K
      BY DEF IInv, GcInv
    <2>2. DOMAIN Objects = Live /\ \A i \in Live : Objects[i] = slots[i]
      BY DEF Objects
    <2>3. ReachableIn(Objects, held) \subseteq K
      <3> HIDE DEF K
      <3>1. K \in SUBSET DOMAIN Objects /\ \A i \in K : Refs(Objects[i]) \subseteq K
        BY <2>1, <2>2
      <3> QED
        BY <2>1, <3>1, ReachableInClosed
    <2> QED
      BY <2>1, <2>3 DEF NoDangling
  <1> QED
    BY <1>1, HeapInvariant, PTL

\* A closed set around the roots that is least is what the roots reach.
LEMMA LeastIsReachable ==
  ASSUME NEW K \in SUBSET Live, held \subseteq K, Least(K),
         \A i \in K : Refs(slots[i]) \subseteq K
  PROVE  ReachableIn(Objects, held) = K
  <1>1. DOMAIN Objects = Live /\ \A i \in Live : Objects[i] = slots[i]
    BY DEF Objects
  <1>2. ReachableIn(Objects, held) \subseteq K
    <2>1. K \in SUBSET DOMAIN Objects /\ \A i \in K : Refs(Objects[i]) \subseteq K
      BY <1>1
    <2> QED
      BY <2>1, ReachableInClosed
  <1>3. ASSUME NEW i \in K, NEW S \in SUBSET DOMAIN Objects,
               held \intersect DOMAIN Objects \subseteq S, ClosedIn(Objects, S)
        PROVE  i \in S
    <2>1. S \in SUBSET Live /\ held \subseteq S
      BY <1>1, <1>3
    <2>2. K \subseteq S
      BY <1>3, <2>1 DEF Least
    <2> QED
      BY <2>2
  <1>4. K \subseteq ReachableIn(Objects, held)
    BY <1>1, <1>3 DEF ReachableIn
  <1> QED
    BY <1>2, <1>4

\* After a collection the live objects are those the roots reach: none too few,
\* none too many, so collecting again releases nothing (vm-v4.spec.md).
THEOREM CollectionExact == Spec => CollectExact
  <1> DEFINE Exact == phase = "sweep" /\ phase' = "idle" => Live' = ReachableIn(Objects, held)'
  <1>1. IInv /\ IInv' /\ [Next]_vars => Exact
    <2> SUFFICES ASSUME IInv, IInv', [Next]_vars, phase = "sweep", phase' = "idle"
                 PROVE  Live' = ReachableIn(Objects, held)'
      OBVIOUS
    <2>1. EndSweep
      BY DEF Next, Program, Collector, vars, Allocate, Use, Store, ForceGc, Mark, EndMark,
             Sweep
    <2>2. /\ TypeOK /\ GcInv /\ sweepAt > Len(slots) /\ slots' = slots /\ held' = held
      BY <2>1 DEF EndSweep, IInv
    <2>3. Live' = Live /\ Objects' = Objects
      BY <2>2 DEF Live, Objects
    <2>4. Live = marked
      <3>1. \A i \in Live : i < sweepAt
        BY <2>2, LiveFacts DEF TypeOK, Id
      <3> QED
        BY <2>2, <3>1 DEF GcInv
    <2>5. /\ marked \in SUBSET Live /\ held \subseteq marked /\ Least(marked)
          /\ \A i \in marked : Refs(slots[i]) \subseteq marked
      BY <2>2 DEF GcInv
    <2>6. ReachableIn(Objects, held) = marked
      BY <2>5, LeastIsReachable
    <2> QED
      BY <2>2, <2>3, <2>4, <2>6
  <1> QED
    BY <1>1, HeapInvariant, PTL DEF Spec, CollectExact

-----------------------------------------------------------------------------
(* A collection ends. *)

\* What a collection has left to do is counted in natural numbers.
LEMMA LeftIsCount ==
  ASSUME TypeOK
  PROVE  /\ IsFiniteSet(Live \ marked) /\ Cardinality(Live \ marked) \in Nat
         /\ IsFiniteSet(work) /\ Cardinality(work) \in Nat
         /\ Len(slots) \in Nat /\ sweepAt \in Nat
<1>1. IsFiniteSet(Id)
  BY CapacityAssumption, FS_Interval DEF Id
<1>2. Live \ marked \subseteq Id /\ work \subseteq Id
  BY LiveFacts DEF TypeOK
<1>3. IsFiniteSet(Live \ marked) /\ IsFiniteSet(work)
  BY <1>1, <1>2, FS_Subset
<1>4. Len(slots) \in Nat /\ sweepAt \in Nat
  BY LiveFacts DEF TypeOK
<1> QED
  BY <1>3, <1>4, FS_CardinalityType

\* An object that is marked is one less to mark, whatever its fields add to the ids that
\* wait; any other id is one less that waits.
LEMMA MarkAdvances ==
  ASSUME TypeOK, NEW i \in work, Mark(i)
  PROVE  Less(Left', Left)
<1>1. phase = "mark" /\ UNCHANGED <<slots, phase, sweepAt>>
  BY DEF Mark, heapVars
<1>2. Live' = Live
  BY <1>1 DEF Live
<1>3. CASE i \in Live \ marked
  <2>1. Live' \ marked' = (Live \ marked) \ {i}
    BY <1>2, <1>3 DEF Mark
  <2>2. /\ Cardinality((Live \ marked) \ {i}) = Cardinality(Live \ marked) - 1
        /\ Cardinality(Live \ marked) \in Nat
    BY <1>3, LeftIsCount, FS_RemoveElement
  <2>3. Cardinality(Live' \ marked') < Cardinality(Live \ marked)
    <3> HIDE DEF Live
    <3> QED
      BY <2>1, <2>2
  <2> QED
    BY <1>1, <2>3, FirstDiffers DEF Left
<1>4. CASE i \notin Live \ marked
  <2>1. marked' = marked /\ work' = work \ {i}
    BY <1>4 DEF Mark
  <2>2. Cardinality(work \ {i}) = Cardinality(work) - 1 /\ Cardinality(work) \in Nat
    BY LeftIsCount, FS_RemoveElement
  <2>3. Cardinality(work') < Cardinality(work)
    BY <2>1, <2>2
  <2> QED
    BY <1>1, <1>2, <2>1, <2>3, FirstDiffers DEF Left
<1> QED
  BY <1>3, <1>4

\* A slot that is looked at is one less; if its object is released, it was not marked, and
\* there is one less of those.
LEMMA SweepAdvances ==
  ASSUME TypeOK, Sweep
  PROVE  Less(Left', Left)
<1>1. phase = "sweep" /\ sweepAt <= Len(slots) /\ sweepAt' = sweepAt + 1
      /\ UNCHANGED <<phase, work, marked>>
  BY DEF Sweep
<1>2. CASE sweepAt \in Live \ marked
  <2>1. slots' = [slots EXCEPT ![sweepAt] = Free]
    BY <1>2 DEF Sweep
  <2>2. Live' = Live \ {sweepAt}
    <3>1. DOMAIN slots' = DOMAIN slots
      BY <2>1
    <3> QED
      BY <1>2, <2>1, <3>1 DEF Live
  <2>3. Live' \ marked' = (Live \ marked) \ {sweepAt}
    BY <1>1, <2>2
  <2>4. /\ Cardinality((Live \ marked) \ {sweepAt}) = Cardinality(Live \ marked) - 1
        /\ Cardinality(Live \ marked) \in Nat
    BY <1>2, LeftIsCount, FS_RemoveElement
  <2>5. Cardinality(Live' \ marked') < Cardinality(Live \ marked)
    <3> HIDE DEF Live
    <3> QED
      BY <2>3, <2>4
  <2> QED
    BY <1>1, <2>5, FirstDiffers DEF Left
<1>3. CASE sweepAt \notin Live \ marked
  <2>1. slots' = slots
    BY <1>3 DEF Sweep
  <2>2. Live' = Live
    BY <2>1 DEF Live
  <2>3. Len(slots') + 1 - sweepAt' < Len(slots) + 1 - sweepAt
    BY <1>1, <2>1, LeftIsCount
  <2> QED
    BY <1>1, <2>2, <2>3, FirstDiffers DEF Left
<1> QED
  BY <1>2, <1>3

\* Every step of a collection leaves less to do, on cyclic structures and after any history
\* of the heap: collect returns.
THEOREM CollectionAdvances == Spec => CollectorAdvances
<1>1. IInv /\ [Next]_vars => [phase # "idle" => Less(Left', Left)]_vars
  <2> SUFFICES ASSUME IInv, Next, phase # "idle" PROVE Less(Left', Left)
    OBVIOUS
  <2>1. TypeOK
    BY DEF IInv
  <2>2. ~ Program
    BY DEF Program, Allocate, Use, Store, ForceGc
  <2>3. ASSUME NEW i \in work, Mark(i) PROVE Less(Left', Left)
    BY <2>1, <2>3, MarkAdvances
  <2>4. CASE Sweep
    BY <2>1, <2>4, SweepAdvances
  <2>5. CASE EndMark
    BY <2>5, FirstDiffers DEF EndMark, Left
  <2>6. CASE EndSweep
    BY <2>6, FirstDiffers DEF EndSweep, Left
  <2> QED
    BY <2>2, <2>3, <2>4, <2>5, <2>6 DEF Next, Collector
<1> QED
  BY <1>1, HeapInvariant, PTL DEF Spec, CollectorAdvances
-----------------------------------------------------------------------------
(* Heap implements ObjectStore. *)

LEMMA InitImplements == Init => Abstract!Init
  <1> SUFFICES ASSUME Init PROVE Abstract!Init
    OBVIOUS
  <1>1. Kept = {} /\ held = {}
    BY DEF Init, Kept, Live
  <1> QED
    BY <1>1 DEF Abstract!Init

\* The store speaks of values and reachability as the heap does.
LEMMA SameValues ==
  /\ \A v : Abstract!IsRef(v) = IsRef(v)
  /\ \A map : Abstract!RefsIn(map) = RefsIn(map)
  /\ \A obj : Abstract!Refs(obj) = Refs(obj)
  /\ \A st, roots : Abstract!ReachableIn(st, roots) = ReachableIn(st, roots)
  BY DEF Abstract!IsRef, IsRef, Abstract!Refs, Refs, Abstract!RefsIn, RefsIn,
         Abstract!ReachableIn, ReachableIn, Abstract!ClosedIn, ClosedIn

\* Each instruction is a New, a Write or a Use of the store; the end of marking
\* is its Collect; every other step of a collection leaves the store alone.
LEMMA NextImplements ==
  IInv /\ IInv' /\ [Next]_vars => [Abstract!Next]_(Abstract!storeVars)
  <1> DEFINE store == [i \in Kept |-> slots[i]]
  <1> SUFFICES ASSUME IInv, IInv', [Next]_vars
               PROVE  Abstract!Next \/ UNCHANGED <<store, held>>
    BY DEF Abstract!storeVars
  <1> USE DEF IInv
  <1>0. phase # "sweep" => Kept = Live /\ store = Objects
    BY DEF Kept, Objects
  <1>1. ASSUME NEW t \in TypeName, NEW f \in [Name -> HeldValues], NEW keep \in SUBSET held,
               Allocate([type |-> t, fields |-> f], keep)
        PROVE  Abstract!Next
    <2> DEFINE obj == [type |-> t, fields |-> f]
               id  == AllocId
    <2>1. obj \in Object /\ Refs(obj) \subseteq held
      BY HeldValuesFacts
    <2> HIDE DEF obj
    <2>2. /\ CanAlloc /\ phase = "idle" /\ phase' # "sweep"
          /\ slots' = AllocSlots(obj) /\ freeList' = AllocFreeList
          /\ held' = keep \union {id}
      BY <1>1 DEF Allocate, StartCollect, gcVars, obj
    <2>3. /\ id \notin Live /\ Live' = Live \union {id} /\ slots'[id] = obj
          /\ \A i \in Live : slots'[i] = slots[i]
      BY <2>1, <2>2, AllocFacts
    <2> HIDE DEF id
    <2>4. /\ Kept = Live /\ Kept' = Live'
          /\ DOMAIN store = Live /\ DOMAIN store' = Live \union {id}
          /\ store' = [i \in DOMAIN store \union {id} |-> IF i = id THEN obj ELSE store[i]]
          /\ store'[id] = obj
      BY <2>2, <2>3 DEF Kept
    <2>5. Abstract!New(id, store'[id])
      BY <2>1, <2>2, <2>3, <2>4, SameValues DEF Abstract!New
    <2> QED
      BY <2>3, <2>4, <2>5 DEF Abstract!Next
  <1>2. ASSUME NEW handles \in SUBSET Reachables, Use(handles)
        PROVE  Abstract!Next
    <2>1. /\ phase = "idle" /\ phase' = phase /\ slots' = slots /\ held' \subseteq Reachables
      BY <1>2 DEF Use, heapVars, gcVars
    <2>2. Kept = Live /\ Kept' = Kept /\ store' = store /\ DOMAIN store = Live
          /\ \A i \in Live : store[i] = slots[i]
      BY <2>1 DEF Kept, Live
    <2>3. held' \subseteq held \union UNION { Refs(store[i]) : i \in held \intersect DOMAIN store }
      BY <2>1, <2>2 DEF Reachables
    <2>4. Abstract!Use
      BY <2>2, <2>3, SameValues DEF Abstract!Use
    <2> QED
      BY <2>4 DEF Abstract!Next
  <1>3. ASSUME NEW i \in held \intersect Live, NEW fields \in Rewrites(i), NEW keep \in SUBSET held,
               Store(i, fields, keep)
        PROVE  Abstract!Next
    <2> DEFINE new == [slots[i] EXCEPT !.fields = fields]
    <2>1. /\ phase = "idle" /\ phase' = phase /\ held' \subseteq held
          /\ slots' = [slots EXCEPT ![i] = new]
      BY <1>3 DEF Store, gcVars
    <2>2. i \in Live /\ Kept = Live /\ Kept' = Live' /\ slots[i] \in Object /\ Live \subseteq DOMAIN slots
      BY <2>1, LiveFacts DEF GcInv, Kept
    <2>3. new \in Object /\ new.fields = fields /\ RefsIn(fields) \subseteq held \union Refs(slots[i])
      BY <2>2, RewriteFacts
    <2> HIDE DEF new
    <2>4. Live' = Live /\ slots'[i] = new /\ \A j \in Live : j # i => slots'[j] = slots[j]
      BY <2>1, <2>2, <2>3, FreeAssumption DEF Live, TypeOK
    <2>5. store' = [store EXCEPT ![i] = new] /\ store'[i] = new /\ store[i] = slots[i]
          /\ DOMAIN store = Live /\ DOMAIN store' = Live
      BY <2>2, <2>4
    <2>6. store' = [store EXCEPT ![i] = [@ EXCEPT !.fields = fields]]
      BY <2>2, <2>5 DEF new
    <2>7. Abstract!Write(i, store'[i].fields)
      BY <2>1, <2>2, <2>3, <2>5, <2>6, SameValues DEF Abstract!Write
    <2>8. i \in held \intersect DOMAIN store'
      BY <2>2, <2>5
    <2> QED
      BY <2>7, <2>8 DEF Abstract!Next, Abstract!Write
  <1>5. CASE ForceGc
    BY <1>5 DEF ForceGc, StartCollect, heapVars, Kept, Live
  <1>6. ASSUME NEW i \in work, Mark(i)
        PROVE  UNCHANGED <<store, held>>
    BY <1>6 DEF Mark, heapVars, Kept, Live
  <1>7. CASE EndMark
    <2>1. /\ phase = "mark" /\ work = {} /\ phase' = "sweep"
          /\ slots' = slots /\ held' = held /\ marked' = marked
      BY <1>7 DEF EndMark, heapVars
    <2>2. /\ marked \in SUBSET Live /\ held \subseteq marked /\ Least(marked)
          /\ \A i \in marked : Refs(slots[i]) \subseteq marked
      BY <2>1 DEF GcInv
    <2>3. ReachableIn(store, held) = marked
      BY <1>0, <2>1, <2>2, LeastIsReachable
    <2>4. store' = [i \in marked |-> store[i]]
      BY <2>1, <2>2 DEF Kept
    <2>5. Abstract!Collect
      BY <2>1, <2>3, <2>4, SameValues DEF Abstract!Collect
    <2> QED
      BY <2>5 DEF Abstract!Next
  <1>8. CASE Sweep
    <2>1. phase = "sweep" /\ phase' = phase /\ marked' = marked /\ held' = held
      BY <1>8 DEF Sweep
    <2>2. \A i \in marked : slots'[i] = slots[i]
      BY <1>8, <2>1, LiveFacts DEF Sweep, GcInv, TypeOK
    <2> QED
      BY <2>1, <2>2 DEF Kept
  <1>9. CASE EndSweep
    <2>1. /\ phase = "sweep" /\ phase' = "idle" /\ slots' = slots /\ held' = held
          /\ sweepAt > Len(slots)
      BY <1>9 DEF EndSweep
    <2>2. Live = marked
      <3>1. \A i \in Live : i < sweepAt
        BY <2>1, LiveFacts DEF TypeOK, Id
      <3> QED
        BY <2>1, <3>1 DEF GcInv
    <2>3. Kept = marked /\ Kept' = Live
      BY <2>1 DEF Kept, Live
    <2> QED
      BY <2>1, <2>2, <2>3
  <1>10. CASE UNCHANGED vars
    BY <1>10 DEF vars, Kept, Live
  <1> QED
    BY <1>1, <1>2, <1>3, <1>5, <1>6, <1>7, <1>8, <1>9, <1>10 DEF Next, Program, Collector

\* The mark-and-sweep heap is an ObjectStore: the virtual machine cannot tell
\* it from a heap that is never out of step with what is reachable.
THEOREM HeapImplementsStore == Spec => ImplementsStore
  BY InitImplements, NextImplements, HeapInvariant, PTL DEF Spec, ImplementsStore, Abstract!Spec
=============================================================================
