-------------------------- MODULE HierarchyProofs --------------------------
(***************************************************************************)
(* For every program, and whatever order its types are looked at in, the   *)
(* hierarchy collect leaves has no cycle, only a type whose parents lead   *)
(* into a cycle is reported, and errors are reported exactly if something  *)
(* is wrong with the program. A cycle is seen through the sets that a walk *)
(* cannot leave (Unending): none contains a type that was checked. Over    *)
(* what is left the loops along parents end, inheritance is an order with  *)
(* joins, and overriding can be checked one parent at a time. Each cycle   *)
(* of declarations is cut once.                                            *)
(***************************************************************************)
EXTENDS Hierarchy, NatLemmas, FiniteSetTheorems

Grouped == {"types", "interfaces", "parents"}   \* the passes before has_cycle

\* What a type's entry has come from: its declaration, or Object in its place.
Parentage ==
  \A t \in Types :
    /\ parent[t] \notin Builtins
    /\ \/ parent[t] = ObjectName
       \/ pass \notin {"types", "interfaces"} /\ parent[t] \in Types
       \/ /\ pass \in Grouped
          /\ \E k \in DOMAIN program.types :
               /\ pass = "parents" => at <= k
               /\ program.types[k].name = t /\ program.types[k].parent = parent[t]

\* The walk that is under way: what it has seen leads to where it is.
WalkInv ==
  IF pass = "cycles" /\ start # NoType
    THEN /\ cur \in Types
         /\ start \in seen \union {cur}
         /\ \A u \in seen : parent[u] \in seen \union {cur}
    ELSE start = NoType

\* A set that no walk leaves has no type that was checked, and the walk under way
\* is inside of it from its start on.
CutInv ==
  pass = "cycles" =>
    \A S \in SUBSET Types : Unending(S, parent) =>
      /\ S \subseteq unchecked \union {start}
      /\ start \in S => seen \union {cur} \subseteq S

IInv == TypeOK /\ Parentage /\ WalkInv /\ CutInv /\ Grounded
-----------------------------------------------------------------------------
(* Facts about the state. *)

\* The passes, and what follows each of them.
LEMMA Passes ==
  /\ DOMAIN Follows = {"types", "interfaces", "parents", "cycles", "functions"}
  /\ Follows["types"] = "interfaces" /\ Follows["interfaces"] = "parents"
  /\ Follows["parents"] = "cycles" /\ Follows["cycles"] = "functions"
  /\ Follows["functions"] = "done"
BY DEF Follows

\* The declarations of a program that is analysed are as ProgramType says.
LEMMA ProgramParts ==
  ASSUME program \in Programs
  PROVE  /\ program.types \in Seq([name : Identifier, parent : Identifier])
         /\ program.interfaces \in Seq(Identifier)
         /\ program.functions \in Seq(Identifier)
BY ProgramsAssumption DEF ProgramType

\* An element of a sequence.
LEMMA ElementOf ==
  ASSUME NEW X, NEW s \in Seq(X), NEW i \in Nat \ {0}, i <= Len(s)
  PROVE  i \in DOMAIN s /\ s[i] \in X
OBVIOUS

\* The bound of has_cycle's loop is out of the walk's reach: the types a walk has
\* seen are among those registered, so it ends by finding one again.
LEMMA LimitUnreached ==
  ASSUME TypeOK
  PROVE  Cardinality(seen) # Limit
<1>1. IsFiniteSet(Types) /\ seen \subseteq Types
  BY DEF TypeOK
<1>2. Cardinality(Types) \in Nat /\ Cardinality(seen) \in Nat /\ Cardinality(seen) <= Cardinality(Types)
  BY <1>1, FS_Subset, FS_CardinalityType
<1> QED  BY <1>2 DEF Limit

\* A walk along parents that were all resolved stays among the types.
LEMMA ParentsResolved ==
  ASSUME Parentage, pass \notin Grouped, NEW t \in Types
  PROVE  parent[t] \in Types \union {ObjectName}
BY DEF Parentage, Grouped
-----------------------------------------------------------------------------
(* Type correctness. *)

\* The passes before and after the cycles leave the walk alone.
LEMMA TypeSteps ==
  ASSUME TypeOK, Parentage, WalkInv, Next
  PROVE  TypeOK'
<1> USE DEF TypeOK, Types
<1>0. program \in ProgramType
  BY ProgramsAssumption
<1>1. ASSUME NEW t \in Identifier \ Reserved, NEW p \in Identifier, SetParent(t, p)
      PROVE  /\ parent' \in [Types' -> Identifier] /\ Types' = Types \union {t}
             /\ IsFiniteSet(Types') /\ Types' \subseteq Identifier \ Reserved
  <2>1. parent' \in [Types \union {t} -> Identifier]
    BY <1>1 DEF SetParent
  <2>2. IsFiniteSet(Types \union {t})
    BY FS_AddElement
  <2> QED  BY <2>1, <2>2
<1>2. CASE CollectType
  <2>1. program.types[at] \in [name : Identifier, parent : Identifier]
    <3>1. program.types \in Seq([name : Identifier, parent : Identifier]) /\ at <= Len(program.types)
      BY <1>2, ProgramParts DEF CollectType, Pending
    <3> HIDE DEF TypeOK
    <3>2. at \in Nat \ {0}
      BY DEF TypeOK
    <3> QED  BY <3>1, <3>2, ElementOf
  <2>2. CASE UNCHANGED parent
    BY <1>2, <2>2 DEF CollectType, Advance, walk
  <2>3. CASE program.types[at].name \notin Reserved \union Types
    <3>1. PICK p \in Identifier : SetParent(program.types[at].name, p)
      BY <1>2, <2>1, <2>3, IdentifierAssumption DEF CollectType
    <3>2. /\ parent' \in [Types' -> Identifier] /\ Types \subseteq Types'
          /\ IsFiniteSet(Types') /\ Types' \subseteq Identifier \ Reserved
      BY <1>1, <2>1, <2>3, <3>1
    <3> QED  BY <1>2, <3>2 DEF CollectType, Advance, walk
  <2> QED  BY <1>2, <2>2, <2>3 DEF CollectType
<1>3. CASE CollectInterface
  <2>1. program.interfaces[at] \in Identifier
    BY <1>3, ProgramParts DEF CollectInterface, Pending
  <2> QED  BY <1>3, <2>1 DEF CollectInterface, Advance, walk
<1>4. CASE ResolveParent
  <2>1. program.types[at] \in [name : Identifier, parent : Identifier]
    <3>1. program.types \in Seq([name : Identifier, parent : Identifier]) /\ at <= Len(program.types)
      BY <1>4, ProgramParts DEF ResolveParent, Pending
    <3> HIDE DEF TypeOK
    <3>2. at \in Nat \ {0}
      BY DEF TypeOK
    <3> QED  BY <3>1, <3>2, ElementOf
  <2>2. CASE UNCHANGED parent
    BY <1>4, <2>2 DEF ResolveParent, Advance, walk
  <2>3. CASE program.types[at].name \in Types /\ SetParent(program.types[at].name, ObjectName)
    <3>1. program.types[at].name \in Identifier \ Reserved /\ ObjectName \in Identifier
      BY <2>3, IdentifierAssumption
    <3>2. /\ parent' \in [Types' -> Identifier] /\ Types' = Types \union {program.types[at].name}
          /\ IsFiniteSet(Types') /\ Types' \subseteq Identifier \ Reserved
      BY <1>1, <2>3, <3>1
    <3>3. Types' = Types
      BY <2>3, <3>2
    <3> QED  BY <1>4, <3>2, <3>3 DEF ResolveParent, Advance, walk
  <2> QED  BY <1>4, <2>2, <2>3 DEF ResolveParent
<1>5. CASE CollectFunction
  <2>1. program.functions[at] \in Identifier
    BY <1>5, ProgramParts DEF CollectFunction, Pending
  <2> QED  BY <1>5, <2>1 DEF CollectFunction, Advance, walk
<1>6. CASE CheckType
  BY <1>6 DEF CheckType, Unregistered
<1>7. CASE WalkUp
  <2>1. cur \in Types /\ parent[cur] \in Types
    BY <1>7, ParentsResolved DEF WalkUp, Walking, HasParent, Grouped
  <2> QED  BY <1>7, <2>1 DEF WalkUp, Unregistered
<1>8. CASE WalkEnds
  BY <1>8 DEF WalkEnds, Unregistered
<1>9. CASE CutCycle
  <2>1. start \in Types /\ start \in Identifier \ Reserved
    BY <1>9 DEF CutCycle, Walking
  <2>2. /\ parent' \in [Types' -> Identifier] /\ Types' = Types
        /\ IsFiniteSet(Types') /\ Types' \subseteq Identifier \ Reserved
    BY <1>1, <1>9, <2>1, IdentifierAssumption DEF CutCycle
  <2> QED  BY <1>9, <2>2 DEF CutCycle, Unregistered
<1>10. CASE NextPass
  BY <1>10, Passes DEF NextPass, Finished
<1> QED  BY <1>2, <1>3, <1>4, <1>5, <1>6, <1>7, <1>8, <1>9, <1>10 DEF Next
-----------------------------------------------------------------------------
(* Where a parent comes from. *)

\* Only ResolveParent and the cut change a parent once it is registered, and
\* both put Object in its place.
LEMMA ParentageSteps ==
  ASSUME TypeOK, Parentage, WalkInv, Next
  PROVE  Parentage'
<1>0. /\ at \in Nat \ {0} /\ program \in Programs
      /\ parent \in [Types -> Identifier] /\ Types \subseteq Identifier \ Reserved
  BY DEF TypeOK
<1>1. CASE CollectType
  <2> DEFINE d == program.types[at]
  <2>1. at \in DOMAIN program.types
    BY <1>0, <1>1, ProgramParts, ElementOf DEF CollectType, Pending
  <2>2. pass = "types" /\ UNCHANGED <<program, pass>>
    BY <1>1 DEF CollectType, Pending, Advance
  <2>3. CASE UNCHANGED parent
    BY <2>2, <2>3 DEF Parentage, Grouped, Types
  <2>4. CASE d.name \notin Reserved \union Types
    <3>1. PICK p : p \in {ObjectName, d.parent} /\ p \notin Builtins /\ SetParent(d.name, p)
      BY <1>1, <2>4 DEF CollectType, ObjectName, Builtins
    <3>2. /\ Types' = Types \union {d.name} /\ parent'[d.name] = p
          /\ \A t \in Types : parent'[t] = parent[t]
      BY <2>4, <3>1 DEF SetParent, Types
    <3> HIDE DEF d
    <3>3. \A t \in Types : /\ parent[t] \notin Builtins
                           /\ \/ parent[t] = ObjectName
                              \/ \E k \in DOMAIN program.types :
                                   program.types[k].name = t /\ program.types[k].parent = parent[t]
      BY <2>2 DEF Parentage
    <3>4. p = ObjectName \/ \E k \in DOMAIN program.types :
                              program.types[k].name = d.name /\ program.types[k].parent = p
      BY <2>1, <3>1 DEF d
    <3> QED  BY <2>2, <3>1, <3>2, <3>3, <3>4 DEF Parentage, Grouped
  <2> QED  BY <1>1, <2>3, <2>4 DEF CollectType
<1>2. CASE CollectInterface
  BY <1>2 DEF CollectInterface, Pending, Advance, Parentage, Grouped, Types
<1>3. CASE ResolveParent
  <2> DEFINE d == program.types[at]
  <2>1. pass = "parents" /\ UNCHANGED <<program, pass>> /\ at' = at + 1
    BY <1>3 DEF ResolveParent, Pending, Advance
  <2>2. /\ Types' = Types
        /\ \A t \in Types : parent'[t] = parent[t] \/ parent'[t] = ObjectName
        /\ d.name \in Types /\ d.parent \notin Reserved \union Types => parent'[d.name] = ObjectName
    BY <1>0, <1>3 DEF ResolveParent, SetParent, Types
  <2>3. ASSUME NEW t \in Types, parent'[t] = parent[t], parent[t] # ObjectName, parent[t] \notin Types
        PROVE  \E k \in DOMAIN program.types :
                 at + 1 <= k /\ program.types[k].name = t /\ program.types[k].parent = parent[t]
    <3>1. PICK k \in DOMAIN program.types :
                 at <= k /\ program.types[k].name = t /\ program.types[k].parent = parent[t]
      BY <2>1, <2>3 DEF Parentage
    <3>2. k # at
      BY <2>2, <2>3, <3>1 DEF Parentage, Reserved
    <3>3. k \in Int
      BY <1>0, ProgramParts
    <3> QED  BY <1>0, <3>1, <3>2, <3>3
  <2>4. ObjectName \notin Builtins
    BY DEF ObjectName, Builtins
  <2> HIDE DEF d
  <2>5. ASSUME NEW t \in Types
        PROVE  /\ parent'[t] \notin Builtins
               /\ parent'[t] # ObjectName /\ parent'[t] \notin Types =>
                    \E k \in DOMAIN program.types :
                      at + 1 <= k /\ program.types[k].name = t /\ program.types[k].parent = parent'[t]
    BY <2>2, <2>3, <2>4 DEF Parentage
  <2> QED  BY <2>1, <2>2, <2>5 DEF Parentage, Grouped
<1>4. CASE CollectFunction
  BY <1>4 DEF CollectFunction, Pending, Advance, Parentage, Grouped, Types
<1>5. CASE CheckType \/ WalkUp \/ WalkEnds
  BY <1>5 DEF CheckType, WalkUp, WalkEnds, Unregistered, Parentage, Types
<1>6. CASE CutCycle
  <2>1. /\ start \in Types /\ pass = "cycles" /\ pass' = pass
        /\ Types' = Types /\ \A t \in Types : parent'[t] = parent[t] \/ parent'[t] = ObjectName
    BY <1>0, <1>6 DEF CutCycle, Walking, SetParent, Unregistered, Types, TypeOK
  <2> QED  BY <2>1 DEF Parentage, Grouped, ObjectName, Builtins
<1>7. CASE NextPass
  <2>1. UNCHANGED <<program, parent>> /\ pass \in DOMAIN Follows /\ pass' = Follows[pass] /\ at' = 1
    BY <1>7, Passes DEF NextPass, Finished
  <2>2. CASE pass = "parents"
    <3>1. ~ \E k \in DOMAIN program.types : at <= k
      BY <1>0, <1>7, <2>2, ProgramParts DEF NextPass, Finished
    <3> QED  BY <2>1, <2>2, <3>1, Passes DEF Parentage, Grouped, Types
  <2>3. CASE pass \in {"types", "interfaces"}
    <3>1. \A k \in DOMAIN program.types : 1 <= k
      BY <1>0, ProgramParts
    <3> QED  BY <2>1, <2>3, <3>1, Passes DEF Parentage, Grouped, Types
  <2>4. CASE pass \in {"cycles", "functions"}
    BY <2>1, <2>4, Passes DEF Parentage, Grouped, Types
  <2> QED  BY <2>1, <2>2, <2>3, <2>4, Passes
<1> QED  BY <1>1, <1>2, <1>3, <1>4, <1>5, <1>6, <1>7 DEF Next
-----------------------------------------------------------------------------
(* The walk, and the sets it cannot leave. *)

\* What has_cycle knows of the way it has come.
LEMMA WalkSteps ==
  ASSUME TypeOK, Parentage, WalkInv, Next
  PROVE  WalkInv'
<1>0. NoType \notin Types /\ parent \in [Types -> Identifier]
  BY IdentifierAssumption DEF TypeOK
<1>1. CASE CollectType \/ CollectInterface \/ ResolveParent \/ CollectFunction
  BY <1>1 DEF CollectType, CollectInterface, ResolveParent, CollectFunction, Pending, Advance,
              walk, WalkInv
<1>2. CASE CheckType
  BY <1>0, <1>2 DEF CheckType, Unregistered, WalkInv, TypeOK, Types
<1>3. CASE WalkUp
  <2>1. cur \in Types /\ parent[cur] \in Types
    BY <1>3, ParentsResolved DEF WalkUp, Walking, HasParent, Grouped
  <2>2. /\ seen' = seen \union {cur} /\ cur' = parent[cur]
        /\ UNCHANGED <<pass, parent, start>> /\ pass = "cycles" /\ start # NoType
    BY <1>3 DEF WalkUp, Unregistered, Walking
  <2> QED  BY <2>1, <2>2 DEF WalkInv, Types
<1>4. CASE WalkEnds \/ CutCycle
  BY <1>4 DEF WalkEnds, CutCycle, WalkInv
<1>5. CASE NextPass
  BY <1>5 DEF NextPass, Finished, WalkInv
<1> QED  BY <1>1, <1>2, <1>3, <1>4, <1>5 DEF Next

\* Object is no type of the program, so no set that a walk cannot leave has a
\* type whose parent is Object.
LEMMA NoObjectInside ==
  ASSUME TypeOK, NEW S, Unending(S, parent), NEW t \in S
  PROVE  parent[t] # ObjectName
BY DEF TypeOK, Unending, Reserved, Types

LEMMA CutSteps ==
  ASSUME TypeOK, Parentage, WalkInv, CutInv, Next
  PROVE  CutInv'
<1>0. NoType \notin Types /\ ObjectName \notin Types /\ parent \in [Types -> Identifier]
  BY IdentifierAssumption DEF TypeOK, Reserved
<1>1. CASE CollectType \/ CollectInterface \/ ResolveParent \/ CollectFunction
  BY <1>1 DEF CollectType, CollectInterface, ResolveParent, CollectFunction, Pending, Advance, CutInv
<1>2. CASE CheckType
  <2>1. /\ pass = "cycles" /\ start = NoType /\ UNCHANGED <<pass, parent>>
        /\ unchecked \subseteq unchecked' \union {start'}
        /\ cur' = start' /\ seen' = {}
    BY <1>2 DEF CheckType, Unregistered
  <2> QED  BY <1>0, <2>1 DEF CutInv, Types
<1>3. CASE WalkUp
  <2>1. /\ pass = "cycles" /\ UNCHANGED <<pass, parent, start, unchecked>>
        /\ seen' = seen \union {cur} /\ cur' = parent[cur]
    BY <1>3 DEF WalkUp, Unregistered, Walking
  <2>2. ASSUME NEW S \in SUBSET Types, Unending(S, parent)
        PROVE  /\ S \subseteq unchecked \union {start}
               /\ start \in S => seen \union {cur, parent[cur]} \subseteq S
    BY <2>1, <2>2 DEF CutInv, Unending
  <2> QED  BY <2>1, <2>2 DEF CutInv, Types
<1>4. CASE WalkEnds
  <2>1. /\ pass = "cycles" /\ start # NoType /\ start' = NoType
        /\ UNCHANGED <<pass, parent, unchecked>> /\ parent[cur] = ObjectName
    BY <1>4 DEF WalkEnds, Walking, Unregistered, HasParent, WalkInv
  <2>2. ASSUME NEW S \in SUBSET Types, Unending(S, parent)
        PROVE  start \notin S /\ S \subseteq unchecked \union {start}
    BY <2>1, <2>2, NoObjectInside DEF CutInv
  <2> QED  BY <1>0, <2>1, <2>2 DEF CutInv, Types
<1>5. CASE CutCycle
  <2>1. /\ pass = "cycles" /\ start \in Types /\ start' = NoType /\ UNCHANGED <<pass, unchecked>>
        /\ Types' = Types /\ parent'[start] = ObjectName
        /\ \A t \in Types : t # start => parent'[t] = parent[t]
    BY <1>0, <1>5 DEF CutCycle, Walking, SetParent, Unregistered, TypeOK, Types
  <2>2. ASSUME NEW S \in SUBSET Types, Unending(S, parent')
        PROVE  start \notin S /\ S \subseteq unchecked
    <3>1. start \notin S
      BY <1>0, <2>1, <2>2 DEF Unending
    <3>2. Unending(S, parent)
      BY <2>1, <2>2, <3>1 DEF Unending, Types
    <3> QED  BY <2>1, <3>1, <3>2 DEF CutInv
  <2> QED  BY <1>0, <2>1, <2>2 DEF CutInv
<1>6. CASE NextPass
  <2>1. pass' = "cycles" => pass = "parents"
    BY <1>6, Passes DEF NextPass, Finished
  <2>2. CASE pass = "parents"
    <3>1. start' = NoType /\ unchecked' = Types /\ UNCHANGED parent
      BY <1>6, <2>2 DEF NextPass, WalkInv
    <3> QED  BY <1>0, <3>1 DEF CutInv, Types
  <2> QED  BY <2>1, <2>2 DEF CutInv
<1> QED  BY <1>1, <1>2, <1>3, <1>4, <1>5, <1>6 DEF Next

\* When every type was checked no set is left that a walk cannot leave.
LEMMA GroundedSteps ==
  ASSUME TypeOK, Parentage, Parentage', WalkInv, CutInv, Grounded, Next
  PROVE  Grounded'
<1>1. CASE pass' \notin {"functions", "done"}
  BY <1>1 DEF Grounded
<1>2. CASE CollectFunction
  BY <1>2 DEF CollectFunction, Pending, Advance, Grounded, Types
<1>3. CASE NextPass
  <2>1. UNCHANGED parent /\ pass \in DOMAIN Follows /\ pass' = Follows[pass]
    BY <1>3, Passes DEF NextPass, Finished
  <2>2. CASE pass = "cycles"
    <3>1. unchecked = {} /\ start = NoType /\ NoType \notin Types
      BY <1>3, <2>2, IdentifierAssumption DEF NextPass, Finished, TypeOK
    <3>2. ~ \E S \in SUBSET Types : Unending(S, parent)
      BY <2>2, <3>1 DEF CutInv, Unending
    <3>3. \A t \in Types : parent[t] \in Types \union {ObjectName}
      BY <2>2, ParentsResolved DEF Grouped
    <3> QED  BY <2>1, <3>2, <3>3 DEF Grounded, Types
  <2>3. CASE pass # "cycles"
    BY <2>1, <2>3, Passes DEF Grounded, Types
  <2> QED  BY <2>2, <2>3
<1>4. CASE CollectType \/ CollectInterface \/ ResolveParent \/ CheckType \/ WalkUp \/ WalkEnds \/ CutCycle
  BY <1>1, <1>4 DEF CollectType, CollectInterface, ResolveParent, CheckType, WalkUp, WalkEnds,
     CutCycle, Pending, Advance, Walking, Unregistered
<1> QED  BY <1>2, <1>3, <1>4 DEF Next
-----------------------------------------------------------------------------
(* Theorems. *)

LEMMA InitInv == Init => IInv
<1> SUFFICES ASSUME Init PROVE IInv
  OBVIOUS
<1>1. Types = {}
  BY DEF Init, Types
<1>2. IsFiniteSet({})
  BY FS_EmptySet
<1> QED  BY <1>1, <1>2, Passes DEF Init, IInv, TypeOK, Parentage, WalkInv, CutInv, Grounded

LEMMA NextInv == IInv /\ [Next]_vars => IInv'
<1> SUFFICES ASSUME IInv, [Next]_vars PROVE IInv'
  OBVIOUS
<1>1. CASE Next
  BY <1>1, TypeSteps, ParentageSteps, WalkSteps, CutSteps, GroundedSteps DEF IInv
<1>2. CASE UNCHANGED vars
  BY <1>2 DEF vars, walk, IInv, TypeOK, Parentage, WalkInv, CutInv, Grounded, Types
<1> QED  BY <1>1, <1>2

\* The inductive invariant, for every set of programs: every program analysed, every
\* state of collect and every order of has_cycle's calls.
THEOREM HierarchyInvariant == Spec => []IInv
BY InitInv, NextInv, PTL DEF Spec

\* The variables keep their types; the hierarchy stays a finite function over
\* names that are not reserved.
THEOREM TypeCorrect == Spec => []TypeOK
<1>1. IInv => TypeOK
  BY DEF IInv
<1> QED  BY <1>1, HierarchyInvariant, PTL

\* The hierarchy that collect leaves, with or without errors, has no cycle and no
\* parent that is not a type.
THEOREM HierarchyIsGrounded == Spec => []Grounded
<1>1. IInv => Grounded
  BY DEF IInv
<1> QED  BY <1>1, HierarchyInvariant, PTL

\* A type is reported as cyclic only if the walk along its parents never ends.
THEOREM AccusationsAreRight == Spec => AccusedRightly
<1> DEFINE Right == \A t \in Types : <<"CyclicInheritance", t>> \in errors' \ errors =>
                      \E S \in SUBSET Types : t \in S /\ Unending(S, parent)
<1>1. ASSUME IInv, Next  PROVE Right
  <2>1. CASE CutCycle
    <3>1. TypeOK /\ start # NoType /\ pass = "cycles" /\ cur \in seen
      BY <1>1, <2>1, LimitUnreached DEF CutCycle, Turned, Walking, IInv
    <3>2. start \in seen /\ seen \in SUBSET Types /\ Unending(seen, parent)
      BY <1>1, <3>1 DEF IInv, WalkInv, TypeOK, Unending, Types
    <3>3. errors' = errors \union {<<"CyclicInheritance", start>>}
      BY <2>1 DEF CutCycle, Report
    <3> QED  BY <3>2, <3>3
  <2>2. CASE CollectType \/ CollectInterface \/ ResolveParent \/ CollectFunction
    <3>1. \A n : <<"CyclicInheritance", n>> \notin errors' \ errors
      BY <2>2 DEF CollectType, CollectInterface, ResolveParent, CollectFunction, Report
    <3> QED  BY <3>1
  <2>3. CASE CheckType \/ WalkUp \/ WalkEnds \/ NextPass
    BY <2>3 DEF CheckType, WalkUp, WalkEnds, NextPass
  <2> QED  BY <1>1, <2>1, <2>2, <2>3 DEF Next
<1>2. IInv /\ [Next]_vars => [Right]_vars
  BY <1>1
<1> QED  BY <1>2, HierarchyInvariant, PTL DEF Spec, AccusedRightly
-----------------------------------------------------------------------------
(* Errors. The declarations that each loop has passed, and what is known of *)
(* them as long as nothing was reported.                                    *)

TypesPassed   == { k \in DOMAIN program.types : pass = "types" => k < at }
IfacesPassed  == { k \in DOMAIN program.interfaces :
                     pass # "types" /\ (pass = "interfaces" => k < at) }
FuncsPassed   == { k \in DOMAIN program.functions :
                     pass \in {"functions", "done"} /\ (pass = "functions" => k < at) }

CleanTypes ==
  /\ Types = { program.types[k].name : k \in TypesPassed }
  /\ \A k \in TypesPassed : parent[program.types[k].name] = program.types[k].parent
  /\ \A j, k \in TypesPassed : program.types[j].name = program.types[k].name => j = k

CleanIfaces ==
  /\ interfaces = { program.interfaces[k] : k \in IfacesPassed }
  /\ interfaces \intersect (Reserved \union Types) = {}
  /\ \A j, k \in IfacesPassed : program.interfaces[j] = program.interfaces[k] => j = k

CleanFuncs ==
  /\ functions = BuiltinFuncs \union { program.functions[k] : k \in FuncsPassed }
  /\ \A k \in FuncsPassed : program.functions[k] \notin BuiltinFuncs \union {"self"}
  /\ \A j, k \in FuncsPassed : program.functions[j] = program.functions[k] => j = k

ErrorInv ==
  /\ errors = {} => CleanTypes /\ CleanIfaces /\ CleanFuncs
  /\ errors # {} => ~ WellFormed(program)

\* The loops only take declarations in their order.
LEMMA PassedFacts ==
  ASSUME TypeOK
  PROVE  /\ at \in Nat \ {0} /\ program \in Programs
         /\ DOMAIN program.types = 1 .. Len(program.types)
         /\ DOMAIN program.interfaces = 1 .. Len(program.interfaces)
         /\ DOMAIN program.functions = 1 .. Len(program.functions)
         /\ Len(program.types) \in Nat /\ Len(program.interfaces) \in Nat
         /\ Len(program.functions) \in Nat
BY ProgramParts DEF TypeOK

LEMMA ErrorsOfCollectType ==
  ASSUME TypeOK, ErrorInv, CollectType
  PROVE  ErrorInv'
<1> DEFINE d == program.types[at]
<1>1. /\ at \in DOMAIN program.types /\ pass = "types" /\ at' = at + 1
      /\ UNCHANGED <<program, pass, interfaces, functions>>
  BY PassedFacts DEF CollectType, Pending, Advance
<1>2. /\ TypesPassed = 1 .. at - 1 /\ TypesPassed' = 1 .. at
      /\ IfacesPassed' = IfacesPassed /\ FuncsPassed' = FuncsPassed /\ IfacesPassed = {}
  BY <1>1, PassedFacts DEF TypesPassed, IfacesPassed, FuncsPassed
<1>3. CASE errors # {}
  BY <1>1, <1>3 DEF CollectType, Report, ErrorInv
<1>4. CASE errors = {}
  <2>0. CleanTypes /\ CleanIfaces /\ CleanFuncs
    BY <1>4 DEF ErrorInv
  <2>1. CASE d.name \in Reserved
    <3>1. ~ WellFormed(program)
      BY <1>1, <2>1 DEF WellFormed
    <3> QED  BY <1>1, <2>1, <3>1 DEF CollectType, Report, ErrorInv
  <2>2. CASE d.name \in Types
    <3>1. PICK k \in 1 .. at - 1 : program.types[k].name = d.name
      BY <1>2, <2>0, <2>2 DEF CleanTypes
    <3>2. k \in DOMAIN program.types /\ k # at
      BY <1>1, <3>1, PassedFacts
    <3>3. ~ WellFormed(program)
      BY <1>1, <3>1, <3>2 DEF WellFormed
    <3>4. errors' # {}
      BY <2>2 DEF CollectType, Report
    <3> QED  BY <1>1, <3>3, <3>4 DEF ErrorInv
  <2>3. CASE d.name \notin Reserved \union Types /\ d.parent \in Builtins
    <3>1. ~ WellFormed(program)
      <4>1. SUFFICES ASSUME WellFormed(program) PROVE FALSE
        OBVIOUS
      <4>2. d.parent \in Declared(program) \union {ObjectName}
        BY <1>1, <4>1 DEF WellFormed
      <4>3. d.parent \in Declared(program) /\ d.parent \in Reserved
        BY <2>3, <4>2 DEF Builtins, ObjectName, Reserved
      <4> QED  BY <4>1, <4>3 DEF WellFormed, Declared
    <3>2. errors' # {}
      BY <2>3 DEF CollectType, Report
    <3> QED  BY <1>1, <3>1, <3>2 DEF ErrorInv
  <2>4. CASE d.name \notin Reserved \union Types /\ d.parent \notin Builtins
    <3>1. SetParent(d.name, d.parent) /\ UNCHANGED errors
      BY <2>4 DEF CollectType
    <3>2. /\ Types' = Types \union {d.name} /\ parent'[d.name] = d.parent
          /\ \A t \in Types : parent'[t] = parent[t]
      BY <2>4, <3>1 DEF SetParent, Types
    <3> HIDE DEF d
    <3>3. \A k \in 1 .. at - 1 : program.types[k].name \in Types
      BY <1>2, <2>0 DEF CleanTypes
    <3>4. 1 .. at = (1 .. at - 1) \union {at}
      BY PassedFacts
    <3>5. program.types[at] = d
      BY DEF d
    <3>6. CleanTypes'
      <4>1. Types' = { program.types[k].name : k \in 1 .. at }
        BY <1>2, <2>0, <3>2, <3>4, <3>5 DEF CleanTypes
      <4>2. \A k \in 1 .. at : parent'[program.types[k].name] = program.types[k].parent
        BY <1>2, <2>0, <3>2, <3>3, <3>4, <3>5 DEF CleanTypes
      <4>3. \A j, k \in 1 .. at : program.types[j].name = program.types[k].name => j = k
        BY <1>2, <2>0, <2>4, <3>3, <3>4, <3>5 DEF CleanTypes
      <4> QED  BY <1>1, <1>2, <4>1, <4>2, <4>3 DEF CleanTypes
    <3>7. CleanIfaces' /\ CleanFuncs'
      BY <1>1, <1>2, <2>0 DEF CleanIfaces, CleanFuncs
    <3> QED  BY <1>4, <3>1, <3>6, <3>7 DEF ErrorInv
  <2> QED  BY <2>1, <2>2, <2>3, <2>4
<1> QED  BY <1>3, <1>4

LEMMA ErrorsOfCollectInterface ==
  ASSUME TypeOK, ErrorInv, CollectInterface
  PROVE  ErrorInv'
<1> DEFINE n == program.interfaces[at]
<1>1. /\ at \in DOMAIN program.interfaces /\ pass = "interfaces" /\ at' = at + 1
      /\ UNCHANGED <<program, pass, parent, functions>>
  BY PassedFacts DEF CollectInterface, Pending, Advance
<1>2. /\ IfacesPassed = 1 .. at - 1 /\ IfacesPassed' = 1 .. at
      /\ TypesPassed' = TypesPassed /\ FuncsPassed' = FuncsPassed
      /\ TypesPassed = DOMAIN program.types
  BY <1>1, PassedFacts DEF TypesPassed, IfacesPassed, FuncsPassed
<1>3. CASE errors # {}
  BY <1>1, <1>3 DEF CollectInterface, Report, ErrorInv
<1>4. CASE errors = {}
  <2>0. CleanTypes /\ CleanIfaces /\ CleanFuncs
    BY <1>4 DEF ErrorInv
  <2>1. CASE n \in Reserved \union Types
    <3>1. n \in Reserved \union Declared(program)
      BY <1>2, <2>0, <2>1 DEF CleanTypes, Declared
    <3>2. ~ WellFormed(program)
      BY <1>1, <3>1 DEF WellFormed
    <3>3. errors' # {}
      BY <2>1 DEF CollectInterface, Report
    <3> QED  BY <1>1, <3>2, <3>3 DEF ErrorInv
  <2>2. CASE n \in interfaces
    <3>1. PICK k \in 1 .. at - 1 : program.interfaces[k] = n
      BY <1>2, <2>0, <2>2 DEF CleanIfaces
    <3>2. k \in DOMAIN program.interfaces /\ k # at
      BY <1>1, <3>1, PassedFacts
    <3>3. ~ WellFormed(program)
      BY <1>1, <3>1, <3>2 DEF WellFormed, Distinct
    <3>4. errors' # {}
      BY <2>2 DEF CollectInterface, Report
    <3> QED  BY <1>1, <3>3, <3>4 DEF ErrorInv
  <2>3. CASE n \notin Reserved \union Types \union interfaces
    <3>1. interfaces' = interfaces \union {n} /\ UNCHANGED errors
      BY <2>3 DEF CollectInterface
    <3> HIDE DEF n
    <3>2. 1 .. at = (1 .. at - 1) \union {at} /\ program.interfaces[at] = n
      BY PassedFacts DEF n
    <3>3. \A k \in 1 .. at - 1 : program.interfaces[k] \in interfaces
      BY <1>2, <2>0 DEF CleanIfaces
    <3>4. /\ interfaces' = { program.interfaces[k] : k \in 1 .. at }
          /\ \A j, k \in 1 .. at : program.interfaces[j] = program.interfaces[k] => j = k
      BY <1>2, <2>0, <2>3, <3>1, <3>2, <3>3 DEF CleanIfaces
    <3>5. CleanIfaces'
      <4>1. Types' = Types /\ program' = program /\ IfacesPassed' = 1 .. at
        BY <1>1, <1>2 DEF Types
      <4>2. interfaces' \intersect (Reserved \union Types) = {}
        BY <2>0, <2>3, <3>1 DEF CleanIfaces
      <4> QED  BY <3>4, <4>1, <4>2 DEF CleanIfaces
    <3>6. CleanTypes' /\ CleanFuncs'
      BY <1>1, <1>2, <2>0 DEF CleanTypes, CleanFuncs, Types
    <3> QED  BY <1>4, <3>1, <3>5, <3>6 DEF ErrorInv
  <2> QED  BY <2>1, <2>2, <2>3
<1> QED  BY <1>3, <1>4

LEMMA ErrorsOfCollectFunction ==
  ASSUME TypeOK, ErrorInv, CollectFunction
  PROVE  ErrorInv'
<1> DEFINE n == program.functions[at]
<1>1. /\ at \in DOMAIN program.functions /\ pass = "functions" /\ at' = at + 1
      /\ UNCHANGED <<program, pass, parent, interfaces>>
  BY PassedFacts DEF CollectFunction, Pending, Advance
<1>2. /\ FuncsPassed = 1 .. at - 1 /\ FuncsPassed' = 1 .. at
      /\ TypesPassed' = TypesPassed /\ IfacesPassed' = IfacesPassed
  BY <1>1, PassedFacts DEF TypesPassed, IfacesPassed, FuncsPassed
<1>3. CASE errors # {}
  BY <1>1, <1>3 DEF CollectFunction, Report, ErrorInv
<1>4. CASE errors = {}
  <2>0. CleanTypes /\ CleanIfaces /\ CleanFuncs
    BY <1>4 DEF ErrorInv
  <2>1. CASE n = "self" \/ n \in BuiltinFuncs
    <3>1. n \in functions \/ n = "self"
      BY <2>0, <2>1 DEF CleanFuncs
    <3>2. ~ WellFormed(program)
      BY <1>1, <2>1 DEF WellFormed
    <3>3. errors' # {}
      BY <3>1 DEF CollectFunction, Report
    <3> QED  BY <1>1, <3>2, <3>3 DEF ErrorInv
  <2>2. CASE n \in functions \ BuiltinFuncs
    <3>1. PICK k \in 1 .. at - 1 : program.functions[k] = n
      BY <1>2, <2>0, <2>2 DEF CleanFuncs
    <3>2. k \in DOMAIN program.functions /\ k # at
      BY <1>1, <3>1, PassedFacts
    <3>3. ~ WellFormed(program)
      BY <1>1, <3>1, <3>2 DEF WellFormed, Distinct
    <3>4. errors' # {}
      BY <2>2 DEF CollectFunction, Report
    <3> QED  BY <1>1, <3>3, <3>4 DEF ErrorInv
  <2>3. CASE n # "self" /\ n \notin BuiltinFuncs \union functions
    <3>1. functions' = functions \union {n} /\ UNCHANGED errors
      BY <2>3 DEF CollectFunction
    <3> HIDE DEF n
    <3>2. 1 .. at = (1 .. at - 1) \union {at} /\ program.functions[at] = n
      BY PassedFacts DEF n
    <3>3. \A k \in 1 .. at - 1 : program.functions[k] \in functions
      BY <1>2, <2>0 DEF CleanFuncs
    <3>4. functions' = BuiltinFuncs \union { program.functions[k] : k \in 1 .. at }
      BY <1>2, <2>0, <3>1, <3>2 DEF CleanFuncs
    <3>5. /\ \A k \in 1 .. at : program.functions[k] \notin BuiltinFuncs \union {"self"}
          /\ \A j, k \in 1 .. at : program.functions[j] = program.functions[k] => j = k
      BY <1>2, <2>0, <2>3, <3>2, <3>3 DEF CleanFuncs
    <3>6. CleanFuncs'
      BY <1>1, <1>2, <3>4, <3>5 DEF CleanFuncs
    <3>7. CleanTypes' /\ CleanIfaces'
      BY <1>1, <1>2, <2>0 DEF CleanTypes, CleanIfaces, Types
    <3> QED  BY <1>4, <3>1, <3>6, <3>7 DEF ErrorInv
  <2> QED  BY <2>1, <2>2, <2>3
<1> QED  BY <1>3, <1>4

LEMMA ErrorsOfResolveParent ==
  ASSUME TypeOK, ErrorInv, ResolveParent
  PROVE  ErrorInv'
<1> DEFINE d == program.types[at]
<1>1. /\ at \in DOMAIN program.types /\ pass = "parents" /\ at' = at + 1
      /\ UNCHANGED <<program, pass, interfaces, functions>>
  BY PassedFacts DEF ResolveParent, Pending, Advance
<1>2. /\ TypesPassed = DOMAIN program.types /\ TypesPassed' = TypesPassed
      /\ IfacesPassed' = IfacesPassed /\ FuncsPassed' = FuncsPassed
  BY <1>1 DEF TypesPassed, IfacesPassed, FuncsPassed
<1>3. CASE errors # {}
  BY <1>1, <1>3 DEF ResolveParent, Report, ErrorInv
<1>4. CASE errors = {} /\ d.parent \in Reserved \union Types
  <2>1. UNCHANGED <<parent, errors>>
    BY <1>4 DEF ResolveParent
  <2> QED  BY <1>1, <1>2, <1>4, <2>1 DEF ErrorInv, CleanTypes, CleanIfaces, CleanFuncs, Types
<1>5. CASE errors = {} /\ d.parent \notin Reserved \union Types
  <2>1. Types = Declared(program)
    BY <1>2, <1>5 DEF ErrorInv, CleanTypes, Declared
  <2>2. ~ WellFormed(program)
    BY <1>1, <1>5, <2>1 DEF WellFormed, Reserved
  <2>3. errors' # {}
    BY <1>5 DEF ResolveParent, Report
  <2> QED  BY <1>1, <2>2, <2>3 DEF ErrorInv
<1> QED  BY <1>3, <1>4, <1>5

\* What a walk has seen when it turns is declared to have no end.
LEMMA ErrorsOfCutCycle ==
  ASSUME TypeOK, WalkInv, ErrorInv, CutCycle
  PROVE  ErrorInv'
<1> DEFINE S == { k \in DOMAIN program.types : program.types[k].name \in seen }
<1>1. pass = "cycles" /\ UNCHANGED program /\ errors' # {}
  BY DEF CutCycle, Walking, Unregistered, Report
<1>2. CASE errors # {}
  BY <1>1, <1>2 DEF ErrorInv
<1>3. CASE errors = {}
  <2>1. /\ Types = { program.types[k].name : k \in DOMAIN program.types }
        /\ \A k \in DOMAIN program.types : parent[program.types[k].name] = program.types[k].parent
    BY <1>1, <1>3 DEF ErrorInv, CleanTypes, TypesPassed
  <2>2. start # NoType /\ cur \in seen
    BY LimitUnreached DEF CutCycle, Walking, Turned
  <2>3. seen # {} /\ seen \subseteq Types /\ \A u \in seen : parent[u] \in seen
    BY <1>1, <2>2 DEF WalkInv, TypeOK
  <2>4. S # {}
    BY <2>1, <2>3
  <2>5. ASSUME NEW k \in S
        PROVE  \E j \in S : program.types[j].name = program.types[k].parent
    <3>1. program.types[k].parent \in seen
      BY <2>1, <2>3
    <3> QED  BY <2>1, <2>3, <3>1
  <2>6. ~ WellFormed(program)
    <3>1. S \in SUBSET DOMAIN program.types
      OBVIOUS
    <3> HIDE DEF S
    <3> QED  BY <2>4, <2>5, <3>1 DEF WellFormed
  <2> QED  BY <1>1, <2>6 DEF ErrorInv
<1> QED  BY <1>2, <1>3

\* A loop that has ended has passed all that the next one starts from.
LEMMA ErrorsOfNextPass ==
  ASSUME TypeOK, ErrorInv, NextPass
  PROVE  ErrorInv'
<1>1. /\ UNCHANGED <<program, parent, interfaces, functions, errors>>
      /\ at' = 1 /\ Finished /\ pass \in DOMAIN Follows /\ pass' = Follows[pass]
  BY Passes DEF NextPass, Finished
<1>2. TypesPassed' = TypesPassed
  BY <1>1, Passes, PassedFacts DEF TypesPassed, Finished
<1>3. IfacesPassed' = IfacesPassed
  BY <1>1, Passes, PassedFacts DEF IfacesPassed, Finished
<1>4. FuncsPassed' = FuncsPassed
  BY <1>1, Passes, PassedFacts DEF FuncsPassed, Finished
<1> QED  BY <1>1, <1>2, <1>3, <1>4 DEF ErrorInv, CleanTypes, CleanIfaces, CleanFuncs, Types

LEMMA ErrorsUnchanged ==
  ASSUME ErrorInv, UNCHANGED <<program, pass, at, parent, interfaces, functions, errors>>
  PROVE  ErrorInv'
BY DEF ErrorInv, CleanTypes, CleanIfaces, CleanFuncs, TypesPassed, IfacesPassed, FuncsPassed, Types

LEMMA InitErrors == Init => ErrorInv
<1> SUFFICES ASSUME Init PROVE ErrorInv
  OBVIOUS
<1>1. TypeOK
  BY InitInv DEF IInv
<1>2. TypesPassed = {} /\ IfacesPassed = {} /\ FuncsPassed = {} /\ Types = {}
  BY <1>1, PassedFacts DEF Init, TypesPassed, IfacesPassed, FuncsPassed, Types
<1> QED  BY <1>2 DEF Init, ErrorInv, CleanTypes, CleanIfaces, CleanFuncs

LEMMA NextErrors == IInv /\ ErrorInv /\ [Next]_vars => ErrorInv'
<1> SUFFICES ASSUME IInv, ErrorInv, [Next]_vars PROVE ErrorInv'
  OBVIOUS
<1>1. TypeOK /\ WalkInv
  BY DEF IInv
<1>2. CASE CollectType
  BY <1>1, <1>2, ErrorsOfCollectType
<1>3. CASE CollectInterface
  BY <1>1, <1>3, ErrorsOfCollectInterface
<1>4. CASE ResolveParent
  BY <1>1, <1>4, ErrorsOfResolveParent
<1>5. CASE CollectFunction
  BY <1>1, <1>5, ErrorsOfCollectFunction
<1>6. CASE CutCycle
  BY <1>1, <1>6, ErrorsOfCutCycle
<1>7. CASE NextPass
  BY <1>1, <1>7, ErrorsOfNextPass
<1>8. CASE CheckType \/ WalkUp \/ WalkEnds
  BY <1>8, ErrorsUnchanged DEF CheckType, WalkUp, WalkEnds, Unregistered
<1>9. CASE UNCHANGED vars
  BY <1>9, ErrorsUnchanged DEF vars
<1> QED  BY <1>2, <1>3, <1>4, <1>5, <1>6, <1>7, <1>8, <1>9 DEF Next

\* When collect returns, every declaration was passed: with no error reported there
\* is nothing wrong with the program.
LEMMA NothingMissed ==
  ASSUME IInv, ErrorInv, pass = "done", errors = {}
  PROVE  /\ WellFormed(program)
         /\ Types = Declared(program)
         /\ \A k \in DOMAIN program.types : parent[program.types[k].name] = program.types[k].parent
<1>1. TypeOK /\ Grounded /\ CleanTypes /\ CleanIfaces /\ CleanFuncs
  BY DEF IInv, ErrorInv
<1>2. /\ TypesPassed = DOMAIN program.types /\ IfacesPassed = DOMAIN program.interfaces
      /\ FuncsPassed = DOMAIN program.functions
  BY DEF TypesPassed, IfacesPassed, FuncsPassed
<1>3. /\ Types = Declared(program)
      /\ \A k \in DOMAIN program.types :
           /\ program.types[k].name \in Types
           /\ parent[program.types[k].name] = program.types[k].parent
  BY <1>1, <1>2 DEF CleanTypes, Declared
<1>4. \A k \in DOMAIN program.types :
        program.types[k].name \notin Reserved /\ program.types[k].parent \in Types \union {ObjectName}
  BY <1>1, <1>3 DEF TypeOK, Grounded
<1>5. ASSUME NEW S \in SUBSET DOMAIN program.types, S # {},
             \A k \in S : \E j \in S : program.types[j].name = program.types[k].parent
      PROVE  FALSE
  <2> DEFINE T == { program.types[k].name : k \in S }
  <2>1. T # {} /\ T \in SUBSET Types
    BY <1>3, <1>5
  <2>2. ASSUME NEW t \in T
        PROVE  parent[t] \in T
    <3>1. PICK k \in S : program.types[k].name = t
      OBVIOUS
    <3>2. PICK j \in S : program.types[j].name = program.types[k].parent
      BY <1>5
    <3> QED  BY <1>3, <3>1, <3>2
  <2> HIDE DEF T
  <2>3. Unending(T, parent)
    BY <2>1, <2>2 DEF Unending, Types
  <2> QED  BY <1>1, <2>1, <2>3 DEF Grounded
<1>6. \A j, k \in DOMAIN program.types : program.types[j].name = program.types[k].name => j = k
  BY <1>1, <1>2 DEF CleanTypes
<1>7. /\ Distinct(program.interfaces)
      /\ \A k \in DOMAIN program.interfaces : program.interfaces[k] \notin Reserved \union Types
  BY <1>1, <1>2 DEF CleanIfaces, Distinct
<1>8. /\ Distinct(program.functions)
      /\ \A k \in DOMAIN program.functions : program.functions[k] \notin BuiltinFuncs \union {"self"}
  BY <1>1, <1>2 DEF CleanFuncs, Distinct
<1>9. WellFormed(program)
  BY <1>3, <1>4, <1>5, <1>6, <1>7, <1>8 DEF WellFormed
<1> QED  BY <1>3, <1>9

\* collect rejects a program exactly if something is wrong with it, whatever order
\* the HashMap gives; the hierarchy of one it accepts is the one declared.
THEOREM RejectionIsExact == Spec => []RejectsExactly
<1>1. IInv /\ ErrorInv => RejectsExactly
  <2> SUFFICES ASSUME IInv, ErrorInv, pass = "done"
               PROVE  /\ errors = {} <=> WellFormed(program)
                      /\ errors = {} =>
                           /\ Types = Declared(program)
                           /\ \A k \in DOMAIN program.types :
                                parent[program.types[k].name] = program.types[k].parent
    BY DEF RejectsExactly
  <2> QED  BY NothingMissed DEF ErrorInv
<1> QED  BY <1>1, InitErrors, NextErrors, HierarchyInvariant, PTL DEF Spec
-----------------------------------------------------------------------------
(* Loops along parents (Parents). *)

\* What Grounded says, of any function up and what it ends in.
Rooted(up, root) ==
  /\ IsFiniteSet(DOMAIN up) /\ root \notin DOMAIN up
  /\ \A t \in DOMAIN up : up[t] \in DOMAIN up \union {root}
  /\ ~ \E S \in SUBSET DOMAIN up : Unending(S, up)

\* n turns of a loop that starts at t.
Turns(t, up, n, f) ==
  f = [k \in 0 .. n |-> IF k = 0 THEN t
                        ELSE IF f[k - 1] \in DOMAIN up THEN up[f[k - 1]] ELSE f[k - 1]]

\* However often a loop turns, cur has a value after each turn: those of a loop that
\* turns once less can be continued.
LEMMA TurnsExist ==
  ASSUME NEW t, NEW up, NEW n \in Nat
  PROVE  \E f : Turns(t, up, n, f)
<1> DEFINE D == { m \in Nat : ~ \E f : Turns(t, up, m, f) }
<1>1. ASSUME D # {} PROVE FALSE
  <2>1. PICK m \in D : \A j \in D : m <= j
    BY <1>1, NatMin
  <2>2. m \in Nat /\ ~ \E f : Turns(t, up, m, f)
    OBVIOUS
  <2>3. CASE m = 0
    <3> DEFINE f == [k \in 0 .. 0 |-> t]
    <3>1. Turns(t, up, 0, f)
      BY DEF Turns
    <3> QED
      BY <2>2, <2>3, <3>1
  <2>4. CASE m # 0
    <3>1. m - 1 \in Nat /\ ~ (m <= m - 1)
      BY <2>2, <2>4
    <3>2. PICK f : Turns(t, up, m - 1, f)
      BY <2>1, <3>1
    <3> DEFINE last == IF f[m - 1] \in DOMAIN up THEN up[f[m - 1]] ELSE f[m - 1]
               g    == [k \in 0 .. m |-> IF k = m THEN last ELSE f[k]]
    <3>3. ASSUME NEW k \in 0 .. m
          PROVE  g[k] = IF k = 0 THEN t
                        ELSE IF g[k - 1] \in DOMAIN up THEN up[g[k - 1]] ELSE g[k - 1]
      <4>1. CASE k = m
        <5>1. g[k - 1] = f[m - 1] /\ g[k] = last
          BY <2>2, <2>4, <4>1
        <5> QED
          BY <2>4, <4>1, <5>1
      <4>2. CASE k # m
        <5>1. k \in 0 .. m - 1 /\ g[k] = f[k]
          BY <2>2, <4>2
        <5>2. k # 0 => k - 1 \in 0 .. m - 1 /\ g[k - 1] = f[k - 1]
          BY <2>2, <4>2
        <5>3. f[k] = IF k = 0 THEN t ELSE IF f[k - 1] \in DOMAIN up THEN up[f[k - 1]] ELSE f[k - 1]
          BY <3>2, <5>1 DEF Turns
        <5> QED
          BY <5>1, <5>2, <5>3
      <4> QED
        BY <4>1, <4>2
    <3>4. Turns(t, up, m, g)
      BY <3>3 DEF Turns
    <3> QED
      BY <2>2, <3>4
  <2> QED
    BY <2>3, <2>4
<1> QED
  BY <1>1

\* What cur is after each turn.
LEMMA CurTurns ==
  ASSUME NEW t, NEW up, IsFiniteSet(DOMAIN up)
  PROVE  /\ Cardinality(DOMAIN up) \in Nat
         /\ DOMAIN Cur(t, up) = 0 .. Cardinality(DOMAIN up)
         /\ Cur(t, up)[0] = t
         /\ \A k \in 1 .. Cardinality(DOMAIN up) :
              Cur(t, up)[k] = IF Cur(t, up)[k - 1] \in DOMAIN up THEN up[Cur(t, up)[k - 1]] ELSE Cur(t, up)[k - 1]
<1> DEFINE n == Cardinality(DOMAIN up)
           f == CHOOSE f : Turns(t, up, n, f)
<1>1. n \in Nat
  BY FS_CardinalityType
<1>2. Cur(t, up) = f
  BY Zenon DEF Cur, Turns
<1> HIDE DEF n
<1>3. Turns(t, up, n, f)
  BY <1>1, TurnsExist, Zenon
<1> HIDE DEF f
<1>4. f = [k \in 0 .. n |-> IF k = 0 THEN t
                            ELSE IF f[k - 1] \in DOMAIN up THEN up[f[k - 1]] ELSE f[k - 1]]
  BY <1>3 DEF Turns
<1>5. DOMAIN f = 0 .. n /\ f[0] = t
  BY <1>1, <1>4
<1>6. \A k \in 1 .. n : f[k] = IF f[k - 1] \in DOMAIN up THEN up[f[k - 1]] ELSE f[k - 1]
  BY <1>1, <1>4
<1> QED
  BY <1>1, <1>2, <1>5, <1>6 DEF n

LEMMA SelfPassed ==
  ASSUME NEW t, NEW up, IsFiniteSet(DOMAIN up)
  PROVE  t \in Passed(t, up)
<1>1. 0 \in DOMAIN Cur(t, up) /\ Cur(t, up)[0] = t
  BY CurTurns
<1> QED
  BY <1>1 DEF Passed, OnWay

\* A set that has t and with each of its members the parent has all a loop from t comes by.
LEMMA PassedLeast ==
  ASSUME NEW t, NEW up, IsFiniteSet(DOMAIN up),
         NEW C, t \in C, \A u \in C \intersect DOMAIN up : up[u] \in C
  PROVE  Passed(t, up) \subseteq C
<1> DEFINE n == Cardinality(DOMAIN up)
           c == Cur(t, up)
           D == { k \in 0 .. n : c[k] \notin C }
<1>1. /\ n \in Nat /\ DOMAIN c = 0 .. n /\ c[0] = t
      /\ \A k \in 1 .. n : c[k] = IF c[k - 1] \in DOMAIN up THEN up[c[k - 1]] ELSE c[k - 1]
  BY CurTurns
<1> HIDE DEF n, c
<1>2. ASSUME D # {} PROVE FALSE
  <2>1. D \subseteq Nat
    BY <1>1
  <2>2. PICK k \in D : \A j \in D : k <= j
    BY <1>2, <2>1, NatMin
  <2>3. k \in 1 .. n /\ k - 1 \in 0 .. n /\ ~ (k <= k - 1)
    BY <1>1
  <2>4. c[k - 1] \in C
    BY <2>2, <2>3
  <2> QED
    BY <1>1, <2>3, <2>4
<1>3. Passed(t, up) = { c[k] : k \in 0 .. n }
  BY <1>1 DEF Passed, OnWay, c
<1> QED
  BY <1>2, <1>3

\* A loop that has come to what has no parent stays there.
LEMMA LoopStays ==
  ASSUME NEW t, NEW up, IsFiniteSet(DOMAIN up),
         NEW i \in DOMAIN Cur(t, up), Cur(t, up)[i] \notin DOMAIN up,
         NEW k \in DOMAIN Cur(t, up), i <= k
  PROVE  Cur(t, up)[k] = Cur(t, up)[i]
<1> DEFINE n == Cardinality(DOMAIN up)
           c == Cur(t, up)
           D == { j \in 0 .. n : i <= j /\ c[j] # c[i] }
<1>1. /\ n \in Nat /\ DOMAIN c = 0 .. n
      /\ \A j \in 1 .. n : c[j] = IF c[j - 1] \in DOMAIN up THEN up[c[j - 1]] ELSE c[j - 1]
  BY CurTurns
<1>2. c[i] \notin DOMAIN up /\ i \in 0 .. n /\ k \in 0 .. n
  BY <1>1
<1>3. c[k] = c[i] <=> k \notin D
  BY <1>2
<1> HIDE DEF n, c
<1>4. ASSUME D # {} PROVE FALSE
  <2>1. D \subseteq Nat
    BY <1>1
  <2>2. PICK j \in D : \A m \in D : j <= m
    BY <1>4, <2>1, NatMin
  <2>3. j \in 1 .. n /\ j - 1 \in 0 .. n /\ i <= j - 1 /\ ~ (j <= j - 1)
    BY <1>1, <1>2
  <2>4. c[j - 1] = c[i]
    BY <2>2, <2>3
  <2> QED
    BY <1>1, <1>2, <2>3, <2>4
<1> QED
  BY <1>3, <1>4 DEF c

\* After as many turns as there are types a loop has ended: with one more value than types
\* two were the same, and what lies between them never ends.
LEMMA LoopEnds ==
  ASSUME NEW up, NEW root, Rooted(up, root), NEW t
  PROVE  Cur(t, up)[Cardinality(DOMAIN up)] \notin DOMAIN up
<1> DEFINE n == Cardinality(DOMAIN up)
           c == Cur(t, up)
<1>0. IsFiniteSet(DOMAIN up) /\ ~ \E S \in SUBSET DOMAIN up : Unending(S, up)
  BY DEF Rooted
<1>1. /\ n \in Nat /\ DOMAIN c = 0 .. n
      /\ \A j \in 1 .. n : c[j] = IF c[j - 1] \in DOMAIN up THEN up[c[j - 1]] ELSE c[j - 1]
  BY <1>0, CurTurns
<1>2. SUFFICES ASSUME c[n] \in DOMAIN up PROVE FALSE
  OBVIOUS
<1>3. \A k \in 0 .. n : c[k] \in DOMAIN up
  <2> SUFFICES ASSUME NEW k \in 0 .. n, c[k] \notin DOMAIN up PROVE FALSE
    OBVIOUS
  <2>1. k \in DOMAIN c /\ n \in DOMAIN c /\ k <= n
    BY <1>1
  <2>2. c[n] = c[k]
    BY <1>0, <2>1, LoopStays
  <2> QED
    BY <1>2, <2>2
<1>4. \E x, y \in 0 .. n : x # y /\ c[x] = c[y]
  <2> DEFINE f == [k \in 0 .. n |-> c[k]]
  <2>1. f \in [0 .. n -> DOMAIN up]
    BY <1>3
  <2>2. IsFiniteSet(0 .. n) /\ Cardinality(0 .. n) = n + 1
    BY <1>1, FS_Interval
  <2>3. Cardinality(DOMAIN up) < Cardinality(0 .. n)
    BY <1>1, <2>2
  <2> HIDE DEF f
  <2>4. \E x, y \in 0 .. n : x # y /\ f[x] = f[y]
    BY <1>0, <2>1, <2>2, <2>3, FS_PigeonHole
  <2> QED
    BY <2>4 DEF f
<1>5. PICK x \in 0 .. n, y \in 0 .. n : x < y /\ c[x] = c[y]
  BY <1>1, <1>4
<1> HIDE DEF n, c
<1> DEFINE S == { c[k] : k \in x .. y - 1 }
<1>6. S \in SUBSET DOMAIN up /\ S # {}
  <2>1. x \in x .. y - 1 /\ \A k \in x .. y - 1 : k \in 0 .. n
    BY <1>1, <1>5
  <2> QED
    BY <1>3, <2>1
<1>7. ASSUME NEW u \in S PROVE up[u] \in S
  <2>1. PICK k \in x .. y - 1 : u = c[k]
    OBVIOUS
  <2>2. k + 1 \in 1 .. n /\ (k + 1) - 1 = k /\ k \in 0 .. n
    BY <1>1, <1>5, <2>1
  <2>3. c[k + 1] = up[u]
    BY <1>1, <1>3, <2>1, <2>2
  <2>4. CASE k + 1 = y
    <3>1. x \in x .. y - 1 /\ c[x] = up[u]
      BY <1>1, <1>5, <2>3, <2>4
    <3> QED
      BY <3>1
  <2>5. CASE k + 1 # y
    <3>1. k + 1 \in x .. y - 1
      BY <1>1, <1>5, <2>1, <2>5
    <3> QED
      BY <2>3, <3>1
  <2> QED
    BY <2>4, <2>5
<1> HIDE DEF S
<1>8. Unending(S, up)
  BY <1>6, <1>7 DEF Unending
<1> QED
  BY <1>0, <1>6, <1>8

\* A loop that comes by a type comes by its parent.
LEMMA PassedClosed ==
  ASSUME NEW up, NEW root, Rooted(up, root), NEW t, NEW u \in Passed(t, up) \intersect DOMAIN up
  PROVE  up[u] \in Passed(t, up)
<1> DEFINE n == Cardinality(DOMAIN up)
           c == Cur(t, up)
<1>1. /\ n \in Nat /\ DOMAIN c = 0 .. n
      /\ \A j \in 1 .. n : c[j] = IF c[j - 1] \in DOMAIN up THEN up[c[j - 1]] ELSE c[j - 1]
  BY CurTurns DEF Rooted
<1>2. PICK k \in 0 .. n : u = c[k]
  BY <1>1 DEF Passed, OnWay
<1>3. c[n] \notin DOMAIN up
  BY LoopEnds
<1> HIDE DEF n
<1>4. k + 1 \in 1 .. n /\ (k + 1) - 1 = k
  BY <1>1, <1>2, <1>3
<1>5. c[k + 1] = up[u]
  BY <1>1, <1>2, <1>4
<1> QED
  BY <1>1, <1>4, <1>5 DEF Passed, OnWay

LEMMA PassedTransitive ==
  ASSUME NEW up, NEW root, Rooted(up, root), NEW t, NEW u \in Passed(t, up)
  PROVE  Passed(u, up) \subseteq Passed(t, up)
BY PassedClosed, PassedLeast DEF Rooted

\* Each loop that starts at a type ends in the root.
LEMMA RootPassed ==
  ASSUME NEW up, NEW root, Rooted(up, root), NEW t \in DOMAIN up \union {root}
  PROVE  root \in Passed(t, up) /\ Passed(t, up) \subseteq DOMAIN up \union {root}
<1>1. Passed(t, up) \subseteq DOMAIN up \union {root}
  <2> DEFINE C == DOMAIN up \union {root}
  <2>1. t \in C /\ \A u \in C \intersect DOMAIN up : up[u] \in C
    BY DEF Rooted
  <2> HIDE DEF C
  <2>2. Passed(t, up) \subseteq C
    BY <2>1, PassedLeast DEF Rooted
  <2> QED
    BY <2>2 DEF C
<1> DEFINE n == Cardinality(DOMAIN up)
<1>2. n \in DOMAIN Cur(t, up)
  <2>1. n \in Nat /\ DOMAIN Cur(t, up) = 0 .. n
    BY CurTurns DEF Rooted
  <2> QED
    BY <2>1
<1>3. Cur(t, up)[n] \in Passed(t, up)
  BY <1>2 DEF Passed, OnWay
<1>4. Cur(t, up)[n] \notin DOMAIN up
  BY LoopEnds
<1> QED
  BY <1>1, <1>3, <1>4

\* What a loop comes by is what it starts from and what that inherits from.
LEMMA PassedAreAbove ==
  ASSUME NEW up, NEW root, Rooted(up, root), NEW t, NEW u
  PROVE  u \in Passed(t, up) <=> u = t \/ InheritsFrom(t, u, up)
<1>1. t \in Passed(t, up)
  BY SelfPassed DEF Rooted
<1>2. InheritsFrom(t, u, up) => u \in Passed(t, up)
  BY PassedClosed DEF InheritsFrom
<1>3. ASSUME u \in Passed(t, up) PROVE u = t \/ InheritsFrom(t, u, up)
  <2> DEFINE C == { v \in Passed(t, up) : v = t \/ InheritsFrom(t, v, up) }
  <2>1. \A v \in C \intersect DOMAIN up : up[v] \in C
    BY PassedClosed DEF InheritsFrom
  <2>2. t \in C
    BY <1>1
  <2> HIDE DEF C
  <2>3. Passed(t, up) \subseteq C
    BY <2>1, <2>2, PassedLeast DEF Rooted
  <2> QED
    BY <1>3, <2>3 DEF C
<1> QED
  BY <1>1, <1>2, <1>3

LEMMA InheritanceTransitive ==
  ASSUME NEW up, NEW root, Rooted(up, root), NEW a, NEW b, NEW c,
         InheritsFrom(a, b, up), InheritsFrom(b, c, up)
  PROVE  InheritsFrom(a, c, up)
<1>1. b \in Passed(a, up)
  BY PassedAreAbove
<1>2. Passed(b, up) \subseteq Passed(a, up)
  BY <1>1, PassedTransitive
<1> QED
  BY <1>2 DEF InheritsFrom

\* What inherits is a type.
LEMMA InheritorIsType ==
  ASSUME NEW up, IsFiniteSet(DOMAIN up), NEW a, NEW b, InheritsFrom(a, b, up)
  PROVE  a \in DOMAIN up
<1>1. SUFFICES ASSUME a \notin DOMAIN up PROVE FALSE
  OBVIOUS
<1> DEFINE C == {a}
<1>2. a \in C /\ \A v \in C \intersect DOMAIN up : up[v] \in C
  BY <1>1
<1>3. Passed(a, up) \subseteq C
  BY <1>2, PassedLeast
<1> QED
  BY <1>1, <1>3 DEF InheritsFrom

\* A loop from a type is that type and then the loop from its parent.
LEMMA PassedFromParent ==
  ASSUME NEW up, NEW root, Rooted(up, root), NEW t \in DOMAIN up
  PROVE  Passed(t, up) = {t} \union Passed(up[t], up)
<1> DEFINE C == {t} \union Passed(up[t], up)
<1>1. up[t] \in Passed(up[t], up) /\ t \in Passed(t, up)
  BY SelfPassed DEF Rooted
<1>2. \A u \in C \intersect DOMAIN up : up[u] \in C
  BY <1>1, PassedClosed
<1>3. t \in C
  OBVIOUS
<1>4. C \subseteq Passed(t, up)
  BY <1>1, PassedClosed, PassedTransitive
<1> HIDE DEF C
<1>5. Passed(t, up) \subseteq C
  BY <1>2, <1>3, PassedLeast DEF Rooted
<1> QED
  BY <1>4, <1>5 DEF C

\* What inherits from itself has nothing but such types above it.
LEMMA InheritanceIrreflexive ==
  ASSUME NEW up, NEW root, Rooted(up, root), NEW a
  PROVE  ~ InheritsFrom(a, a, up)
<1> SUFFICES ASSUME InheritsFrom(a, a, up) PROVE FALSE
  OBVIOUS
<1> DEFINE S == { v \in DOMAIN up : InheritsFrom(v, a, up) }
<1>1. a \in S /\ S \subseteq DOMAIN up
  BY InheritorIsType DEF Rooted
<1>2. ASSUME NEW v \in S PROVE up[v] \in S
  <2>1. PICK u \in Passed(v, up) \intersect DOMAIN up : up[u] = a
    BY DEF InheritsFrom
  <2>2. CASE u = v
    BY <1>1, <2>1, <2>2
  <2>3. CASE u # v
    <3>1. u \in Passed(up[v], up)
      BY <2>1, <2>3, PassedFromParent
    <3>2. InheritsFrom(up[v], a, up)
      BY <2>1, <3>1 DEF InheritsFrom
    <3>3. up[v] \in DOMAIN up
      BY <3>2, InheritorIsType DEF Rooted
    <3> QED
      BY <3>2, <3>3
  <2> QED
    BY <2>2, <2>3
<1> HIDE DEF S
<1>3. Unending(S, up)
  BY <1>1, <1>2 DEF Unending
<1> QED
  BY <1>1, <1>3 DEF Rooted

LEMMA PassedAntisymmetric ==
  ASSUME NEW up, NEW root, Rooted(up, root), NEW a, NEW b, a \in Passed(b, up), b \in Passed(a, up)
  PROVE  a = b
BY PassedAreAbove, InheritanceTransitive, InheritanceIrreflexive

\* Nearest finds something if there is something, and all else that it could have found
\* is on the way from there.
LEMMA NearestFound ==
  ASSUME NEW up, NEW root, Rooted(up, root), NEW t, NEW S
  PROVE  /\ S \intersect Passed(t, up) = {} => Nearest(t, S, up) = <<>>
         /\ S \intersect Passed(t, up) # {} =>
              \E u \in S \intersect Passed(t, up) :
                /\ Nearest(t, S, up) = <<u>>
                /\ S \intersect Passed(t, up) \subseteq Passed(u, up)
<1> DEFINE n == Cardinality(DOMAIN up)
           c == Cur(t, up)
           found == { k \in DOMAIN c : c[k] \in S }
           first == CHOOSE k \in found : \A j \in found : k <= j
<1>1. /\ n \in Nat /\ DOMAIN c = 0 .. n
      /\ \A j \in 1 .. n : c[j] = IF c[j - 1] \in DOMAIN up THEN up[c[j - 1]] ELSE c[j - 1]
  BY CurTurns DEF Rooted
<1>2. Nearest(t, S, up) = IF found = {} THEN <<>> ELSE <<c[first]>>
  BY Zenon DEF Nearest, FirstIn, FirstAt
<1>3. S \intersect Passed(t, up) = { c[k] : k \in found }
  BY DEF Passed, OnWay
<1>4. Passed(t, up) = { c[k] : k \in 0 .. n }
  BY <1>1 DEF Passed, OnWay
<1>5. found \subseteq 0 .. n
  BY <1>1
<1> HIDE DEF n
<1>6. ASSUME found # {}
      PROVE  first \in found /\ \A j \in found : first <= j
  <2>1. found \subseteq Nat
    BY <1>1, <1>5
  <2> HIDE DEF found
  <2>2. \E k \in found : \A j \in found : k <= j
    BY <1>6, <2>1, NatMin
  <2> QED
    BY <2>2, Zenon
<1> HIDE DEF found, first, c
<1>7. ASSUME found # {}, NEW j \in found
      PROVE  c[j] \in Passed(c[first], up)
  <2> DEFINE D == { k \in 0 .. n : first <= k /\ c[k] \notin Passed(c[first], up) }
  <2>1. first \in 0 .. n /\ first <= j /\ j \in 0 .. n
    BY <1>5, <1>6, <1>7
  <2>2. ASSUME D # {} PROVE FALSE
    <3>1. D \subseteq Nat
      BY <1>1
    <3>2. PICK k \in D : \A m \in D : k <= m
      BY <2>2, <3>1, NatMin
    <3>3. k # first
      BY SelfPassed DEF Rooted
    <3>4. k \in 1 .. n /\ k - 1 \in 0 .. n /\ first <= k - 1 /\ ~ (k <= k - 1)
      BY <1>1, <2>1, <3>3
    <3>5. c[k - 1] \in Passed(c[first], up)
      BY <3>2, <3>4
    <3>6. c[k] \in Passed(c[first], up)
      <4>1. c[k] = IF c[k - 1] \in DOMAIN up THEN up[c[k - 1]] ELSE c[k - 1]
        BY <1>1, <3>4
      <4> QED
        BY <3>5, <4>1, PassedClosed
    <3> QED
      BY <3>6
  <2> QED
    BY <2>1, <2>2
<1>8. CASE found = {}
  BY <1>2, <1>3, <1>8
<1>9. CASE found # {}
  <2>1. c[first] \in S \intersect Passed(t, up)
    BY <1>3, <1>6, <1>9
  <2>2. S \intersect Passed(t, up) \subseteq Passed(c[first], up)
    BY <1>3, <1>7, <1>9
  <2> QED
    BY <1>2, <1>9, <2>1, <2>2
<1> QED
  BY <1>8, <1>9

\* The least common ancestor: it exists, is the same from both sides, and is what all
\* common ancestors are above.
LEMMA CommonIsLeast ==
  ASSUME NEW up, NEW root, Rooted(up, root),
         NEW a \in DOMAIN up \union {root}, NEW b \in DOMAIN up \union {root}
  PROVE  \E j \in Passed(a, up) \intersect Passed(b, up) :
           /\ NearestCommon(a, b, up) = <<j>> /\ NearestCommon(b, a, up) = <<j>>
           /\ Passed(a, up) \intersect Passed(b, up) \subseteq Passed(j, up)
<1> DEFINE C == Passed(a, up) \intersect Passed(b, up)
<1>1. C # {}
  BY RootPassed
<1>2. PICK i \in C : NearestCommon(a, b, up) = <<i>> /\ C \subseteq Passed(i, up)
  BY <1>1, NearestFound DEF NearestCommon
<1>3. PICK j \in C : NearestCommon(b, a, up) = <<j>> /\ C \subseteq Passed(j, up)
  <2>1. Passed(b, up) \intersect Passed(a, up) = C
    OBVIOUS
  <2> QED
    BY <1>1, <2>1, NearestFound DEF NearestCommon
<1>4. i = j
  BY <1>2, <1>3, PassedAntisymmetric
<1> QED
  BY <1>2, <1>3, <1>4

LEMMA NearestFromParent ==
  ASSUME NEW up, NEW root, Rooted(up, root), NEW t \in DOMAIN up, NEW S
  PROVE  Nearest(t, S, up) = IF t \in S THEN <<t>> ELSE Nearest(up[t], S, up)
<1>1. Passed(t, up) = {t} \union Passed(up[t], up)
  BY PassedFromParent
<1>2. CASE t \in S
  <2>1. t \in S \intersect Passed(t, up)
    BY <1>1, <1>2
  <2>2. PICK u \in S \intersect Passed(t, up) :
          Nearest(t, S, up) = <<u>> /\ S \intersect Passed(t, up) \subseteq Passed(u, up)
    BY <2>1, NearestFound
  <2>3. u = t
    BY <2>1, <2>2, PassedAntisymmetric
  <2> QED
    BY <1>2, <2>2, <2>3
<1>3. CASE t \notin S
  <2>1. S \intersect Passed(t, up) = S \intersect Passed(up[t], up)
    BY <1>1, <1>3
  <2>2. CASE S \intersect Passed(t, up) = {}
    BY <1>3, <2>1, <2>2, NearestFound
  <2>3. CASE S \intersect Passed(t, up) # {}
    <3>1. PICK u \in S \intersect Passed(t, up) :
            Nearest(t, S, up) = <<u>> /\ S \intersect Passed(t, up) \subseteq Passed(u, up)
      BY <2>3, NearestFound
    <3>2. PICK v \in S \intersect Passed(t, up) :
            Nearest(up[t], S, up) = <<v>> /\ S \intersect Passed(t, up) \subseteq Passed(v, up)
      BY <2>1, <2>3, NearestFound
    <3>3. u = v
      BY <3>1, <3>2, PassedAntisymmetric
    <3> QED
      BY <1>3, <3>1, <3>2, <3>3
  <2> QED
    BY <2>2, <2>3
<1> QED
  BY <1>2, <1>3

LEMMA LookupFromParent ==
  ASSUME NEW up, NEW root, Rooted(up, root), NEW says, DOMAIN says = DOMAIN up, NEW n,
         NEW t \in DOMAIN up
  PROVE  Lookup(t, n, says, up) = IF n \in DOMAIN says[t] THEN <<says[t][n]>> ELSE Lookup(up[t], n, says, up)
<1> DEFINE S == { u \in DOMAIN says : n \in DOMAIN says[u] }
<1>1. \A u : Lookup(u, n, says, up) = Said(Nearest(u, S, up), n, says)
  BY DEF Lookup
<1>2. Nearest(t, S, up) = IF t \in S THEN <<t>> ELSE Nearest(up[t], S, up)
  <2> HIDE DEF S
  <2> QED
    BY NearestFromParent
<1>3. t \in S <=> n \in DOMAIN says[t]
  OBVIOUS
<1>4. Said(<<t>>, n, says) = <<says[t][n]>>
  BY DEF Said
<1> HIDE DEF S
<1> QED
  BY <1>1, <1>2, <1>3, <1>4

\* check_overrides, for the name n: what a type says itself is what would be found from
\* its parent.
Overrides(n, says, up) ==
  \A t \in DOMAIN up : n \in DOMAIN says[t] /\ Lookup(up[t], n, says, up) # <<>> =>
    Lookup(up[t], n, says, up) = <<says[t][n]>>

\* It is enough to compare a type with its parent: however far above a call was checked,
\* what is found there is what is found from the type of the object. Otherwise there were
\* types, one above the other without end, from which something else is found.
LEMMA OverridesAgree ==
  ASSUME NEW up, NEW root, Rooted(up, root), NEW says, DOMAIN says = DOMAIN up, NEW n,
         Overrides(n, says, up),
         NEW a, NEW b, InheritsFrom(a, b, up), Lookup(b, n, says, up) # <<>>
  PROVE  Lookup(a, n, says, up) = Lookup(b, n, says, up)
<1> DEFINE S == { v \in DOMAIN up : InheritsFrom(v, b, up) /\ Lookup(v, n, says, up) # Lookup(b, n, says, up) }
<1>1. ASSUME NEW v \in S PROVE up[v] \in S
  <2>1. up[v] = b \/ InheritsFrom(up[v], b, up)
    <3>1. b \in Passed(v, up) /\ b # v
      BY <1>1, PassedAreAbove, InheritanceIrreflexive
    <3>2. b \in Passed(up[v], up)
      BY <3>1, PassedFromParent
    <3> QED
      BY <3>2, PassedAreAbove
  <2>2. Lookup(v, n, says, up) = IF n \in DOMAIN says[v] THEN <<says[v][n]>> ELSE Lookup(up[v], n, says, up)
    BY LookupFromParent
  <2>3. Lookup(up[v], n, says, up) # Lookup(b, n, says, up)
    BY <1>1, <2>2 DEF Overrides
  <2>4. InheritsFrom(up[v], b, up)
    BY <2>1, <2>3
  <2>5. up[v] \in DOMAIN up
    BY <2>4, InheritorIsType DEF Rooted
  <2> QED
    BY <2>3, <2>4, <2>5
<1>2. S = {}
  <2>1. S \in SUBSET DOMAIN up
    OBVIOUS
  <2> HIDE DEF S
  <2> QED
    BY <1>1, <2>1 DEF Unending, Rooted
<1>3. a \in DOMAIN up
  BY InheritorIsType DEF Rooted
<1> QED
  BY <1>2, <1>3
-----------------------------------------------------------------------------
(* What the later passes rely on. *)

LEMMA CollectedIsRooted ==
  ASSUME IInv, pass \in {"functions", "done"}
  PROVE  Rooted(parent, ObjectName)
BY DEF IInv, TypeOK, Grounded, Rooted, Types, Reserved

\* Inheritance is a strict order below Object in whatever hierarchy collect leaves, and the
\* loops of conforms get to Object.
THEOREM InheritanceIsOrder == Spec => []InheritanceOrders
<1>1. IInv => InheritanceOrders
  <2> SUFFICES ASSUME IInv, pass \in {"functions", "done"}
               PROVE  /\ \A t \in Types : InheritsFrom(t, ObjectName, parent) /\ ~ InheritsFrom(t, t, parent)
                      /\ \A a, b, c \in Types \union {ObjectName} :
                           InheritsFrom(a, b, parent) /\ InheritsFrom(b, c, parent) => InheritsFrom(a, c, parent)
    BY DEF InheritanceOrders
  <2>1. Rooted(parent, ObjectName)
    BY CollectedIsRooted
  <2>2. ASSUME NEW t \in Types PROVE InheritsFrom(t, ObjectName, parent)
    <3>1. ObjectName \in Passed(t, parent)
      BY <2>1, RootPassed DEF Types
    <3>2. t # ObjectName
      BY <2>1 DEF Rooted, Types
    <3> QED
      BY <2>1, <3>1, <3>2, PassedAreAbove
  <2>3. \A t : ~ InheritsFrom(t, t, parent)
    BY <2>1, InheritanceIrreflexive
  <2>4. \A a, b, c : InheritsFrom(a, b, parent) /\ InheritsFrom(b, c, parent) => InheritsFrom(a, c, parent)
    BY <2>1, InheritanceTransitive
  <2> QED
    BY <2>2, <2>3, <2>4
<1> QED
  BY <1>1, HierarchyInvariant, PTL

\* Any two types have a least common ancestor, which is what lca finds from both sides.
THEOREM CommonAncestorsAreLeast == Spec => []JoinsLeast
<1>1. IInv => JoinsLeast
  <2> SUFFICES ASSUME IInv, pass \in {"functions", "done"}, NEW a \in Types, NEW b \in Types
               PROVE  /\ NearestCommon(a, b, parent) # <<>>
                      /\ NearestCommon(a, b, parent) = NearestCommon(b, a, parent)
                      /\ LET j == NearestCommon(a, b, parent)[1]
                         IN  /\ Above(a, j) /\ Above(b, j)
                             /\ \A u \in Types \union {ObjectName} : Above(a, u) /\ Above(b, u) => Above(j, u)
    BY DEF JoinsLeast
  <2>1. Rooted(parent, ObjectName)
    BY CollectedIsRooted
  <2>2. \A t, u : u \in Passed(t, parent) <=> Above(t, u)
    BY <2>1, PassedAreAbove DEF Above
  <2>3. PICK j \in Passed(a, parent) \intersect Passed(b, parent) :
          /\ NearestCommon(a, b, parent) = <<j>> /\ NearestCommon(b, a, parent) = <<j>>
          /\ Passed(a, parent) \intersect Passed(b, parent) \subseteq Passed(j, parent)
    BY <2>1, CommonIsLeast DEF Types
  <2>4. Above(a, j) /\ Above(b, j) /\ \A u : Above(a, u) /\ Above(b, u) => Above(j, u)
    BY <2>2, <2>3
  <2> QED
    BY <2>3, <2>4
<1> QED
  BY <1>1, HierarchyInvariant, PTL

\* In the hierarchy that collect leaves it is enough that check_overrides compares each type
\* with its parent, whatever signatures it has been given: what a call was checked against,
\* from a type any number of types above, is what is found from the type of the object.
THEOREM OverridingIsLocal ==
  Spec => [](pass \in {"functions", "done"} =>
               \A n, says :
                 DOMAIN says = Types /\ Overrides(n, says, parent) =>
                   \A a, b \in Types :
                     InheritsFrom(a, b, parent) /\ Lookup(b, n, says, parent) # <<>> =>
                       Lookup(a, n, says, parent) = Lookup(b, n, says, parent))
<1>1. IInv => (pass \in {"functions", "done"} =>
               \A n, says :
                 DOMAIN says = Types /\ Overrides(n, says, parent) =>
                   \A a, b \in Types :
                     InheritsFrom(a, b, parent) /\ Lookup(b, n, says, parent) # <<>> =>
                       Lookup(a, n, says, parent) = Lookup(b, n, says, parent))
  BY CollectedIsRooted, OverridesAgree DEF Types
<1> QED
  BY <1>1, HierarchyInvariant, PTL
-----------------------------------------------------------------------------
(* Each cycle of declarations is cut once. *)

\* The declaration that registers a type.
FirstDecl(t, k) ==
  /\ k \in DOMAIN program.types /\ program.types[k].name = t
  /\ \A j \in DOMAIN program.types : program.types[j].name = t => k <= j

\* No declaration of it has a parent that does not exist.
Undisturbed(t) ==
  \A k \in DOMAIN program.types :
    program.types[k].name = t => program.types[k].parent \in Reserved \union Types

\* No type of a cycle was reported yet.
AsDeclared(S) ==
  \A t \in S : <<"CyclicInheritance", t>> \notin errors /\ parent[t] = DeclaredParent(t)

\* The first declaration of a name is the one that is registered.
FirstKept ==
  /\ \A t \in Types : \E k : FirstDecl(t, k) /\ (pass = "types" => k < at)
  /\ pass = "types" => \A j \in DOMAIN program.types :
                         j < at => program.types[j].name \in Reserved \union Types

\* Before has_cycle is called nobody is accused, and parents are as declared unless they
\* cannot be.
NoneAccused == pass \in Grouped => \A n : <<"CyclicInheritance", n>> \notin errors

ParentKept(t) ==
  \/ parent[t] = DeclaredParent(t)
  \/ DeclaredParent(t) \in Builtins
  \/ pass = "parents" /\ ~ Undisturbed(t)

ParentsKept == pass \in Grouped => \A t \in Types : ParentKept(t)

\* Each call leaves a cycle as it is or is the one that cuts it.
CyclesKept ==
  pass \notin Grouped => \A S \in SUBSET Types : Circle(S) => AsDeclared(S) \/ CutOnce(S)

Kept == NoneAccused /\ ParentsKept /\ CyclesKept

\* DeclaredParent is that of the first declaration.
LEMMA DeclaredParentIs ==
  ASSUME program \in Programs, NEW t, NEW k, FirstDecl(t, k)
  PROVE  DeclaredParent(t) = program.types[k].parent
<1> DEFINE First(i) == /\ program.types[i].name = t
                       /\ \A j \in DOMAIN program.types : program.types[j].name = t => i <= j
           i0 == CHOOSE i \in DOMAIN program.types : First(i)
<1>1. DOMAIN program.types \subseteq Int
  BY ProgramParts
<1>2. k \in DOMAIN program.types /\ First(k)
  BY DEF FirstDecl
<1>3. i0 \in DOMAIN program.types /\ First(i0)
  BY <1>2
<1>4. i0 = k
  <2>1. i0 <= k /\ k <= i0 /\ i0 \in Int /\ k \in Int
    BY <1>1, <1>2, <1>3
  <2> HIDE DEF i0
  <2> QED  BY <2>1
<1> QED  BY <1>4 DEF DeclaredParent

\* What the declarations say does not change.
LEMMA DeclarationsStay ==
  ASSUME UNCHANGED program
  PROVE  /\ \A t, k : FirstDecl(t, k)' <=> FirstDecl(t, k)
         /\ \A t : DeclaredParent(t)' = DeclaredParent(t)
BY DEF FirstDecl, DeclaredParent

LEMMA FirstKeptSteps ==
  ASSUME TypeOK, FirstKept, Next
  PROVE  FirstKept'
<1>0. /\ at \in Nat \ {0} /\ program \in Programs /\ UNCHANGED program
      /\ DOMAIN program.types \subseteq Int
  BY ProgramParts DEF TypeOK, Next, CollectType, CollectInterface, ResolveParent, CollectFunction,
     CheckType, WalkUp, WalkEnds, CutCycle, NextPass, Advance, Unregistered
<1>1. CASE CollectType
  <2> DEFINE d == program.types[at]
  <2>1. /\ pass = "types" /\ pass' = "types" /\ at' = at + 1 /\ at \in DOMAIN program.types
    BY <1>0, <1>1, ProgramParts, ElementOf DEF CollectType, Pending, Advance
  <2>2. \/ d.name \in Reserved \union Types /\ Types' = Types
        \/ d.name \notin Reserved \union Types /\ Types' = Types \union {d.name}
    BY <1>1 DEF CollectType, SetParent, Types
  <2>3. \A j \in DOMAIN program.types : j < at + 1 => j < at \/ j = at
    BY <1>0
  <2>4. d.name \notin Reserved \union Types => FirstDecl(d.name, at)
    <3>1. ASSUME d.name \notin Reserved \union Types, NEW j \in DOMAIN program.types,
                 program.types[j].name = d.name
          PROVE  at <= j
      BY <1>0, <2>1, <3>1 DEF FirstKept
    <3> QED  BY <2>1, <3>1 DEF FirstDecl
  <2>5. \A t \in Types : \E k : FirstDecl(t, k) /\ k < at + 1
    <3>1. ASSUME NEW t \in Types  PROVE \E k : FirstDecl(t, k) /\ k < at + 1
      <4>1. PICK k : FirstDecl(t, k) /\ k < at
        BY <2>1 DEF FirstKept
      <4>2. k \in Int
        BY <1>0, <4>1 DEF FirstDecl
      <4> QED  BY <1>0, <4>1, <4>2
    <3> QED  BY <3>1
  <2>6. \A j \in DOMAIN program.types : j < at => program.types[j].name \in Reserved \union Types
    BY <2>1 DEF FirstKept
  <2>7. at < at + 1
    BY <1>0
  <2>8. \A t \in Types' : \E k : FirstDecl(t, k) /\ k < at + 1
    <3> HIDE DEF d
    <3> QED  BY <2>2, <2>4, <2>5, <2>7
  <2>9. \A j \in DOMAIN program.types :
          j < at + 1 => program.types[j].name \in Reserved \union Types'
    BY <2>2, <2>3, <2>6
  <2> QED  BY <1>0, <2>1, <2>8, <2>9, DeclarationsStay DEF FirstKept
<1>2. ASSUME Types' = Types, pass' # "types"  PROVE FirstKept'
  BY <1>0, <1>2, DeclarationsStay DEF FirstKept
<1>3. CASE CollectInterface \/ CollectFunction
  BY <1>2, <1>3 DEF CollectInterface, CollectFunction, Pending, Advance, Types
<1>4. CASE ResolveParent
  BY <1>2, <1>4 DEF ResolveParent, Pending, Advance, SetParent, Types
<1>5. CASE CheckType \/ WalkUp \/ WalkEnds
  BY <1>2, <1>5 DEF CheckType, WalkUp, WalkEnds, Walking, Unregistered, Types
<1>6. CASE CutCycle
  BY <1>2, <1>6 DEF CutCycle, Walking, Unregistered, SetParent, Types, TypeOK
<1>7. CASE NextPass
  BY <1>2, <1>7, Passes DEF NextPass, Finished, Types
<1> QED  BY <1>1, <1>3, <1>4, <1>5, <1>6, <1>7 DEF Next

\* The types a walk has seen when it turns are without end, so no cycle that was cut has
\* the type it began at: what it had seen of that cycle would be one with fewer types.
LEMMA CutIsFirst ==
  ASSUME TypeOK, WalkInv, CutCycle, NEW S \in SUBSET Types, Circle(S), CutOnce(S)
  PROVE  start \notin S
<1>1. start \in seen /\ seen \subseteq Types /\ Unending(seen, parent)
  <2>1. pass = "cycles" /\ start # NoType /\ cur \in seen /\ seen \subseteq Types
    BY LimitUnreached DEF CutCycle, Walking, Turned, TypeOK
  <2> QED  BY <2>1 DEF WalkInv, Unending, Types
<1>2. PICK t \in S : parent[t] = ObjectName /\ \A u \in S \ {t} : parent[u] = DeclaredParent(u)
  BY DEF CutOnce
<1>3. t \notin seen
  BY <1>1, <1>2, NoObjectInside
<1>4. SUFFICES ASSUME start \in S  PROVE FALSE
  OBVIOUS
<1>5. \A u \in seen \intersect S : DeclaredParent(u) \in seen \intersect S
  BY <1>1, <1>2, <1>3 DEF Circle, Confined, Unending
<1>6. Confined(seen \intersect S)
  BY <1>1, <1>4, <1>5 DEF Confined
<1>7. seen \intersect S = S
  BY <1>6 DEF Circle
<1> QED  BY <1>3, <1>7

LEMMA NoneAccusedSteps ==
  ASSUME NoneAccused, Next
  PROVE  NoneAccused'
<1>1. CASE pass' \notin Grouped
  BY <1>1 DEF NoneAccused
<1>2. CASE CollectType \/ CollectInterface \/ ResolveParent
  <2>1. \A n : <<"CyclicInheritance", n>> \notin errors' \ errors
    BY <1>2 DEF CollectType, CollectInterface, ResolveParent, Report
  <2>2. pass' = pass
    BY <1>2 DEF CollectType, CollectInterface, ResolveParent, Advance
  <2> QED  BY <2>1, <2>2 DEF NoneAccused
<1>3. CASE CollectFunction \/ CheckType \/ WalkUp \/ WalkEnds \/ CutCycle
  BY <1>1, <1>3 DEF CollectFunction, CheckType, WalkUp, WalkEnds, CutCycle, Pending, Walking, Advance,
     Unregistered, Grouped
<1>4. CASE NextPass
  <2>1. pass' \in Grouped => pass \in Grouped
    BY <1>4, Passes DEF NextPass, Finished, Grouped
  <2> QED  BY <1>4, <2>1 DEF NextPass, NoneAccused
<1> QED  BY <1>2, <1>3, <1>4 DEF Next

LEMMA ParentsKeptSteps ==
  ASSUME TypeOK, FirstKept, ParentsKept, Next
  PROVE  ParentsKept'
<1>0. at \in Nat \ {0} /\ program \in Programs
  BY DEF TypeOK
<1>1. CASE pass' \notin Grouped
  BY <1>1 DEF ParentsKept
<1>2. ASSUME UNCHANGED program  PROVE \A t : DeclaredParent(t)' = DeclaredParent(t)
  BY <1>2, DeclarationsStay
<1>3. CASE CollectType
  <2> DEFINE d == program.types[at]
  <2>1. pass = "types" /\ pass' = "types" /\ UNCHANGED program
    BY <1>3 DEF CollectType, Pending, Advance
  <2>2. \A t \in Types : parent[t] = DeclaredParent(t) \/ DeclaredParent(t) \in Builtins
    BY <2>1 DEF ParentsKept, ParentKept, Grouped
  <2>3. \/ UNCHANGED parent
        \/ /\ d.name \notin Reserved \union Types
           /\ Types' = Types \union {d.name} /\ \A t \in Types : parent'[t] = parent[t]
           /\ parent'[d.name] = d.parent \/ d.parent \in Builtins
    BY <1>3 DEF CollectType, SetParent, Types
  <2>4. d.name \notin Reserved \union Types => DeclaredParent(d.name) = d.parent
    <3>1. SUFFICES ASSUME d.name \notin Reserved \union Types
                   PROVE  FirstDecl(d.name, at)
      BY <1>0, DeclaredParentIs
    <3>2. at \in DOMAIN program.types
      BY <1>0, <1>3, ProgramParts, ElementOf DEF CollectType, Pending
    <3>3. ASSUME NEW j \in DOMAIN program.types, program.types[j].name = d.name
          PROVE  at <= j
      <4>1. j \in Int /\ ~ (j < at)
        BY <1>0, <2>1, <3>1, <3>3, ProgramParts DEF FirstKept
      <4> QED  BY <1>0, <4>1
    <3> QED  BY <3>2, <3>3 DEF FirstDecl
  <2> HIDE DEF d
  <2>5. ASSUME NEW t \in Types'
        PROVE  parent'[t] = DeclaredParent(t) \/ DeclaredParent(t) \in Builtins
    BY <2>2, <2>3, <2>4 DEF Types
  <2>6. \A t \in Types' : ParentKept(t)'
    BY <1>2, <2>1, <2>5 DEF ParentKept
  <2> QED  BY <2>6 DEF ParentsKept
<1>4. CASE CollectInterface
  <2>1. UNCHANGED <<program, parent, pass>> /\ pass = "interfaces" /\ Types' = Types
    BY <1>4 DEF CollectInterface, Pending, Advance, Types
  <2>2. \A t \in Types : ParentKept(t)'
    BY <1>2, <2>1 DEF ParentsKept, ParentKept, Grouped
  <2> QED  BY <2>1, <2>2 DEF ParentsKept
<1>5. CASE ResolveParent
  <2> DEFINE d == program.types[at]
  <2>0. at \in DOMAIN program.types
    BY <1>0, <1>5, ProgramParts, ElementOf DEF ResolveParent, Pending
  <2>1. pass = "parents" /\ UNCHANGED <<program, pass>> /\ Types' = Types
    BY <1>5 DEF ResolveParent, Pending, Advance, SetParent, Types
  <2>2. ASSUME NEW t \in Types  PROVE Undisturbed(t)' <=> Undisturbed(t)
    BY <2>1 DEF Undisturbed
  <2>3. ASSUME NEW t \in Types, parent'[t] # parent[t]  PROVE ~ Undisturbed(t)
    <3>1. d.parent \notin Reserved \union Types /\ d.name = t
      BY <1>5, <2>3 DEF ResolveParent, SetParent, Types
    <3> QED  BY <2>0, <3>1 DEF Undisturbed
  <2>4. ASSUME NEW t \in Types  PROVE ParentKept(t)'
    <3>1. DeclaredParent(t)' = DeclaredParent(t)
      BY <1>2, <2>1
    <3>2. ParentKept(t) /\ (parent'[t] = parent[t] \/ ~ Undisturbed(t))
      BY <2>1, <2>3, <2>4 DEF ParentsKept, Grouped
    <3> QED  BY <2>1, <2>2, <3>1, <3>2 DEF ParentKept
  <2> QED  BY <2>1, <2>4 DEF ParentsKept
<1>6. CASE CollectFunction \/ CheckType \/ WalkUp \/ WalkEnds \/ CutCycle
  BY <1>1, <1>6 DEF CollectFunction, CheckType, WalkUp, WalkEnds, CutCycle, Pending, Walking, Advance,
     Unregistered, Grouped
<1>7. CASE NextPass
  <2>1. UNCHANGED <<program, parent>> /\ Types' = Types
    BY <1>7 DEF NextPass, Types
  <2>2. pass' \in Grouped => pass \in {"types", "interfaces"}
    BY <1>7, Passes DEF NextPass, Finished, Grouped
  <2>3. ASSUME pass' \in Grouped, NEW t \in Types  PROVE ParentKept(t)'
    BY <1>2, <2>1, <2>2, <2>3 DEF ParentsKept, ParentKept, Grouped
  <2> QED  BY <2>1, <2>3 DEF ParentsKept
<1> QED  BY <1>3, <1>4, <1>5, <1>6, <1>7 DEF Next

\* A cycle is kept as long as its types are neither reported nor changed.
LEMMA CycleStays ==
  ASSUME UNCHANGED program, Types' = Types, NEW S \in SUBSET Types,
         \A t \in S : /\ parent'[t] = parent[t]
                      /\ <<"CyclicInheritance", t>> \in errors' <=>
                           <<"CyclicInheritance", t>> \in errors
  PROVE  /\ Circle(S)' <=> Circle(S)
         /\ AsDeclared(S) => AsDeclared(S)'
         /\ CutOnce(S) => CutOnce(S)'
<1>1. \A t : DeclaredParent(t)' = DeclaredParent(t)
  BY DeclarationsStay
<1>2. Circle(S)' <=> Circle(S)
  BY <1>1 DEF Circle, Confined
<1>3. AsDeclared(S) => AsDeclared(S)'
  BY <1>1 DEF AsDeclared
<1>4. CutOnce(S) => CutOnce(S)'
  BY <1>1 DEF CutOnce
<1> QED  BY <1>2, <1>3, <1>4

LEMMA CyclesKeptSteps ==
  ASSUME TypeOK, WalkInv, NoneAccused, ParentsKept, CyclesKept, Next
  PROVE  CyclesKept'
<1>0. ObjectName \notin Types /\ Types \intersect Builtins = {}
  BY DEF TypeOK, Reserved
<1>1. CASE pass' \in Grouped
  BY <1>1 DEF CyclesKept
<1>2. ASSUME UNCHANGED <<program, parent>>, pass \notin Grouped,
             \A n : <<"CyclicInheritance", n>> \in errors' <=> <<"CyclicInheritance", n>> \in errors
      PROVE  CyclesKept'
  <2>1. Types' = Types
    BY <1>2 DEF Types
  <2>2. ASSUME NEW S \in SUBSET Types  PROVE Circle(S)' => AsDeclared(S)' \/ CutOnce(S)'
    BY <1>2, <2>1, CycleStays DEF CyclesKept
  <2> QED  BY <2>1, <2>2 DEF CyclesKept
<1>3. CASE CollectType \/ CollectInterface \/ ResolveParent
  BY <1>1, <1>3 DEF CollectType, CollectInterface, ResolveParent, Pending, Advance, Grouped
<1>4. CASE CollectFunction
  <2>1. \A n : <<"CyclicInheritance", n>> \in errors' <=> <<"CyclicInheritance", n>> \in errors
    BY <1>4 DEF CollectFunction, Report
  <2> QED  BY <1>2, <1>4, <2>1 DEF CollectFunction, Pending, Advance, Grouped
<1>5. CASE CheckType \/ WalkUp \/ WalkEnds
  BY <1>2, <1>5 DEF CheckType, WalkUp, WalkEnds, Walking, Unregistered, Grouped
<1>6. CASE CutCycle
  <2>1. /\ start \in Types /\ pass \notin Grouped /\ Types' = Types /\ UNCHANGED program
        /\ parent'[start] = ObjectName /\ \A t \in Types \ {start} : parent'[t] = parent[t]
        /\ errors' = errors \union {<<"CyclicInheritance", start>>}
    BY <1>6 DEF CutCycle, Walking, SetParent, Report, Unregistered, TypeOK, Types, Grouped
  <2>2. ASSUME NEW S \in SUBSET Types, Circle(S)'  PROVE AsDeclared(S)' \/ CutOnce(S)'
    <3>1. \A t : DeclaredParent(t)' = DeclaredParent(t)
      BY <2>1, DeclarationsStay
    <3>2. Circle(S)
      BY <2>1, <2>2, <3>1 DEF Circle, Confined
    <3>3. AsDeclared(S) \/ CutOnce(S)
      BY <2>1, <3>2 DEF CyclesKept
    <3>4. CASE start \in S
      <4>1. AsDeclared(S)
        BY <1>6, <3>2, <3>3, <3>4, CutIsFirst
      <4>2. ASSUME NEW u \in S \ {start}
            PROVE  <<"CyclicInheritance", u>> \notin errors' /\ parent'[u] = DeclaredParent(u)'
        BY <2>1, <3>1, <4>1 DEF AsDeclared
      <4> QED  BY <2>1, <3>4, <4>2 DEF CutOnce
    <3>5. CASE start \notin S
      <4>1. \A t \in S : /\ parent'[t] = parent[t]
                         /\ <<"CyclicInheritance", t>> \in errors' <=>
                              <<"CyclicInheritance", t>> \in errors
        BY <2>1, <3>5
      <4>2. UNCHANGED program /\ Types' = Types
        BY <2>1
      <4> QED  BY <3>3, <4>1, <4>2, CycleStays
    <3> QED  BY <3>4, <3>5
  <2> QED  BY <2>1, <2>2 DEF CyclesKept
<1>7. CASE NextPass
  <2>1. UNCHANGED <<program, parent, errors>> /\ Types' = Types
    BY <1>7 DEF NextPass, Types
  <2>2. CASE pass = "parents"
    <3>1. ASSUME NEW S \in SUBSET Types, Circle(S)'  PROVE AsDeclared(S)'
      <4>1. Circle(S) /\ (AsDeclared(S) => AsDeclared(S)')
        BY <2>1, <3>1, CycleStays
      <4>2. ASSUME NEW t \in S  PROVE parent[t] = DeclaredParent(t)
        <5>1. DeclaredParent(t) \notin Builtins
          BY <1>0, <4>1 DEF Circle, Confined
        <5>2. Undisturbed(t)
          BY <4>1 DEF Circle, Undisturbed
        <5> QED  BY <2>2, <5>1, <5>2 DEF ParentsKept, ParentKept, Grouped
      <4>3. AsDeclared(S)
        BY <2>2, <4>2 DEF AsDeclared, NoneAccused, Grouped
      <4> QED  BY <4>1, <4>3
    <3> QED  BY <2>1, <3>1 DEF CyclesKept
  <2>3. CASE pass # "parents"
    <3>1. pass' \notin Grouped => pass \notin Grouped
      BY <1>7, <2>3, Passes DEF NextPass, Finished, Grouped
    <3> QED  BY <1>1, <1>2, <2>1, <3>1
  <2> QED  BY <2>2, <2>3
<1> QED  BY <1>3, <1>4, <1>5, <1>6, <1>7 DEF Next

LEMMA NextKept == IInv /\ FirstKept /\ Kept /\ [Next]_vars => FirstKept' /\ Kept'
<1> SUFFICES ASSUME IInv, FirstKept, Kept, [Next]_vars  PROVE FirstKept' /\ Kept'
  OBVIOUS
<1>1. CASE Next
  BY <1>1, FirstKeptSteps, NoneAccusedSteps, ParentsKeptSteps, CyclesKeptSteps DEF IInv, Kept
<1>2. CASE UNCHANGED vars
  <2>1. FirstKept'
    BY <1>2 DEF vars, walk, FirstKept, FirstDecl, Types
  <2>2. NoneAccused'
    BY <1>2 DEF vars, walk, Kept, NoneAccused
  <2>3. ParentsKept'
    BY <1>2 DEF vars, walk, Kept, ParentsKept, ParentKept, Undisturbed, DeclaredParent, Types
  <2>4. CyclesKept'
    <3>1. UNCHANGED <<program, parent, errors, pass>> /\ Types' = Types
      BY <1>2 DEF vars, Types
    <3> QED  BY <3>1, CycleStays DEF Kept, CyclesKept
  <2> QED  BY <2>1, <2>2, <2>3, <2>4 DEF Kept
<1> QED  BY <1>1, <1>2

\* Whatever else is wrong with the program, and in whatever order the types are looked at,
\* each cycle of declarations loses one parent: that of the one type reported for it.
THEOREM CyclesAreCutOnce == Spec => []CyclesCutOnce
<1>1. Init => FirstKept /\ Kept
  <2> SUFFICES ASSUME Init  PROVE FirstKept /\ Kept
    OBVIOUS
  <2>1. /\ Types = {} /\ pass = "types" /\ errors = {} /\ at = 1
        /\ program.types \in Seq([name : Identifier, parent : Identifier])
    BY ProgramParts DEF Init, Types
  <2>2. \A j \in DOMAIN program.types : ~ (j < 1)
    BY <2>1
  <2> QED  BY <2>1, <2>2 DEF FirstKept, Kept, NoneAccused, ParentsKept, CyclesKept, Grouped
<1>2. IInv /\ Kept => CyclesCutOnce
  <2> SUFFICES ASSUME IInv, Kept, pass \in {"functions", "done"},
                      NEW S \in SUBSET Types, Circle(S)
               PROVE  CutOnce(S)
    BY DEF CyclesCutOnce
  <2>1. AsDeclared(S) \/ CutOnce(S)
    BY DEF Kept, CyclesKept, Grouped
  <2>2. AsDeclared(S) => Unending(S, parent)
    BY DEF AsDeclared, Circle, Confined, Unending, Types
  <2> QED  BY <2>1, <2>2 DEF IInv, Grounded
<1> QED  BY <1>1, <1>2, NextKept, HierarchyInvariant, PTL DEF Spec

=============================================================================
