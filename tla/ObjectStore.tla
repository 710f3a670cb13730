---------------------------- MODULE ObjectStore -----------------------------
(***************************************************************************)
(* What the heap promises the virtual machine, without slots, free list,   *)
(* mark bits or thresholds: a store of objects of which the program only   *)
(* ever touches those it holds a handle to, and a collection that removes  *)
(* at once every object no held handle reaches and touches no other.       *)
(***************************************************************************)
EXTENDS HulkValues

VARIABLES
  store,   \* the objects in existence: id |-> object
  held     \* the ids the program holds outside the store

storeVars == <<store, held>>

Init == store = [i \in {} |-> NoBindings] /\ held = {}

\* A new object has an id that names no other object, and is built from what
\* the program holds.
New(id, obj) ==
  /\ id \notin DOMAIN store
  /\ Refs(obj) \subseteq held
  /\ store' = [i \in DOMAIN store \union {id} |-> IF i = id THEN obj ELSE store[i]]
  /\ held' \subseteq held \union {id}

\* The program forgets handles, or picks some up from the objects it holds.
Use ==
  /\ held' \subseteq held \union UNION { Refs(store[i]) : i \in held \intersect DOMAIN store }
  /\ store' = store

\* Fields of a held object are bound to values the program holds.
Write(id, fields) ==
  /\ id \in held \intersect DOMAIN store
  /\ RefsIn(fields) \subseteq held \union Refs(store[id])
  /\ store' = [store EXCEPT ![id] = [@ EXCEPT !.fields = fields]]
  /\ held' \subseteq held

Collect ==
  /\ store' = [i \in ReachableIn(store, held) |-> store[i]]
  /\ held' = held

\* The new id and the fields written are read off the next state: any will do.
Next ==
  \/ \E id \in DOMAIN store' : New(id, store'[id])
  \/ Use
  \/ \E id \in held \intersect DOMAIN store' : Write(id, store'[id].fields)
  \/ Collect

Spec == Init /\ [][Next]_storeVars
=============================================================================
