----------------------------- MODULE HulkValues -----------------------------
(***************************************************************************)
(* The runtime values and heap objects of the HULK virtual machine         *)
(* (hulk-ir's Value and Object) and reachability over a store of objects.  *)
(* A number and a string are members of constant sets: their arithmetic    *)
(* and their text matter to nothing that this module's users state.        *)
(***************************************************************************)
EXTENDS Integers, FiniteSets

CONSTANTS
  Num,        \* the numbers a program computes with (f64 in the code)
  Str,        \* the strings (owned by the value, never on the heap)
  Name,       \* identifiers: variables, parameters and fields
  TypeName,   \* runtime type names of objects
  Capacity    \* the most slots a heap may grow to (u32 in the code, small in a run)

ASSUME CapacityAssumption == Capacity \in Nat \ {0}

\* An object handle: the index of a heap slot, counted from 1.
Id == 1 .. Capacity

Ref(i)     == [tag |-> "object", val |-> i]
NumV(n)    == [tag |-> "num", val |-> n]
StrV(s)    == [tag |-> "str", val |-> s]
BoolV(b)   == [tag |-> "bool", val |-> IF b THEN 1 ELSE 0]
Nil        == [tag |-> "nil", val |-> 0]

Value ==
  [tag : {"object"}, val : Id] \union [tag : {"num"}, val : Num]
    \union [tag : {"str"}, val : Str] \union [tag : {"bool"}, val : {0, 1}] \union {Nil}

IsRef(v)  == v.tag = "object"
IsTrue(v) == v.val = 1

\* A HashMap<String, Value> is a total function here: Unbound is no entry.
Unbound    == [tag |-> "unbound", val |-> 0]
Bindings   == [Name -> Value \union {Unbound}]
NoBindings == [n \in Name |-> Unbound]

Object == [type : TypeName, fields : Bindings]

\* The handles among the values of a map (its entries are visited in any order).
RefsIn(map) == { map[n].val : n \in { m \in Name : IsRef(map[m]) } }

Refs(obj) == RefsIn(obj.fields)

(***************************************************************************)
(* A store maps the ids in use to objects. What the roots reach is the     *)
(* least set of stored objects that holds the roots and is closed under    *)
(* following the fields.                                                   *)
(***************************************************************************)
ClosedIn(store, S) == \A i \in S : Refs(store[i]) \intersect DOMAIN store \subseteq S

ReachableIn(store, roots) ==
  { i \in DOMAIN store :
      \A S \in SUBSET DOMAIN store :
        (roots \intersect DOMAIN store \subseteq S /\ ClosedIn(store, S)) => i \in S }
=============================================================================
