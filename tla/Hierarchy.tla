------------------------------ MODULE Hierarchy ------------------------------
(***************************************************************************)
(* The first pass of semantic analysis, Checker::collect: the names of a   *)
(* program's types, interfaces and functions are registered, parents that  *)
(* cannot be are replaced by Object, and cycles of parents are looked for  *)
(* and cut, type by type in the order of a HashMap, which is any order.    *)
(* Analysis goes on with what collect leaves after errors too: each later  *)
(* walk along the parents, which has no bound, relies on it.               *)
(***************************************************************************)
EXTENDS Integers, Sequences, FiniteSets, Parents

CONSTANTS
  Identifier,   \* the names a program may use
  Programs      \* the programs that may be analysed

ObjectName == "Object"
Builtins   == {"Number", "String", "Boolean"}
Reserved   == Builtins \union {ObjectName}

\* The functions of TypeCtx::new.
BuiltinFuncs == {"print", "sqrt", "sin", "cos", "exp", "log", "rand", "range"}

\* Not a name: no type is being looked at.
NoType == ""

\* The declarations; a type without `inherits` has the parent Object.
ProgramType ==
  [types : Seq([name : Identifier, parent : Identifier]),
   interfaces : Seq(Identifier), functions : Seq(Identifier)]

ASSUME ProgramsAssumption == Programs \subseteq ProgramType
ASSUME IdentifierAssumption ==
  ObjectName \in Identifier /\ NoType \notin Identifier

VARIABLES
  program,      \* the program that is analysed
  pass, at,     \* the loop of collect that runs, and its index
  parent,       \* TypeInfo.parent, for the types registered so far
  interfaces,   \* the interfaces registered so far
  functions,    \* the functions registered so far
  errors,       \* the errors reported: kind and name
  unchecked,    \* the types has_cycle is still to be called for
  start, cur, seen   \* has_cycle: where its walk began, where it is, where it was

vars  == <<program, pass, at, parent, interfaces, functions, errors, unchecked, start, cur, seen>>
walk  == <<unchecked, start, cur, seen>>

Types == DOMAIN parent

\* The next declaration of the pass that runs.
Pending(p, decls) == pass = p /\ at <= Len(decls)

Report(kind, n) == errors' = errors \union {<<kind, n>>}

SetParent(t, p) == parent' = [u \in Types \union {t} |-> IF u = t THEN p ELSE parent[u]]

Advance == at' = at + 1 /\ UNCHANGED <<program, pass, walk>>
-----------------------------------------------------------------------------
(* Registration: an error leaves the earlier declaration in place. *)

CollectType ==
  /\ Pending("types", program.types)
  /\ LET d == program.types[at]
     IN  \/ d.name \in Reserved /\ Report("ReservedTypeName", d.name) /\ UNCHANGED parent
         \/ d.name \in Types /\ Report("DuplicateType", d.name) /\ UNCHANGED parent
         \/ /\ d.name \notin Reserved \union Types
            /\ IF d.parent \in Builtins
                 THEN SetParent(d.name, ObjectName) /\ Report("InheritBuiltin", d.parent)
                 ELSE SetParent(d.name, d.parent) /\ UNCHANGED errors
  /\ Advance /\ UNCHANGED <<interfaces, functions>>

\* Mutant: an interface is only told from other interfaces.
CollectInterfaceAlone ==
  /\ Pending("interfaces", program.interfaces)
  /\ LET n == program.interfaces[at]
     IN  IF n \in Reserved \union interfaces
           THEN Report("DuplicateType", n) /\ UNCHANGED interfaces
           ELSE interfaces' = interfaces \union {n} /\ UNCHANGED errors
  /\ Advance /\ UNCHANGED <<parent, functions>>

CollectInterface ==
  /\ Pending("interfaces", program.interfaces)
  /\ LET n == program.interfaces[at]
     IN  \/ n \in Reserved /\ Report("ReservedTypeName", n) /\ UNCHANGED interfaces
         \/ /\ n \in Types \union interfaces
            /\ Report("DuplicateType", n) /\ UNCHANGED interfaces
         \/ /\ n \notin Reserved \union Types \union interfaces
            /\ interfaces' = interfaces \union {n} /\ UNCHANGED errors
  /\ Advance /\ UNCHANGED <<parent, functions>>

\* A parent that was not registered. Of two declarations of one name the second
\* can change the type that the first one registered.
ResolveParent ==
  /\ Pending("parents", program.types)
  /\ LET d == program.types[at]
     IN  IF d.parent \in Reserved \union Types
           THEN UNCHANGED <<parent, errors>>
           ELSE /\ Report("UndefinedType", d.parent)
                /\ IF d.name \in Types THEN SetParent(d.name, ObjectName) ELSE UNCHANGED parent
  /\ Advance /\ UNCHANGED <<interfaces, functions>>

CollectFunction ==
  /\ Pending("functions", program.functions)
  /\ LET n == program.functions[at]
     IN  \/ n = "self" /\ Report("ReservedName", n) /\ UNCHANGED functions
         \/ /\ n # "self" /\ n \in functions
            /\ Report("DuplicateFunction", n) /\ UNCHANGED functions
         \/ /\ n # "self" /\ n \notin functions
            /\ functions' = functions \union {n} /\ UNCHANGED errors
  /\ Advance /\ UNCHANGED <<parent, interfaces>>
-----------------------------------------------------------------------------
(* has_cycle, for one type after the other. *)

\* The bound of its loop. That it is reached counts as a cycle.
Limit == Cardinality(Types) + 2

Unregistered == <<program, pass, at, interfaces, functions>>

\* Mutant: the walk goes on from where an earlier one has been.
CheckTypeSeen ==
  /\ pass = "cycles" /\ start = NoType
  /\ \E t \in unchecked :
       /\ unchecked' = unchecked \ {t}
       /\ start' = t /\ cur' = t /\ seen' = seen
  /\ UNCHANGED <<Unregistered, parent, errors>>

CheckType ==
  /\ pass = "cycles" /\ start = NoType
  /\ \E t \in unchecked :
       /\ unchecked' = unchecked \ {t}
       /\ start' = t /\ cur' = t /\ seen' = {}
  /\ UNCHANGED <<Unregistered, parent, errors>>

Walking == pass = "cycles" /\ start # NoType

Turned == cur \in seen \/ Cardinality(seen) = Limit

HasParent(t) == t \in Types /\ parent[t] # ObjectName

WalkUp ==
  /\ Walking /\ ~ Turned
  /\ HasParent(cur)
  /\ seen' = seen \union {cur}
  /\ cur' = parent[cur]
  /\ UNCHANGED <<Unregistered, parent, errors, unchecked, start>>

WalkEnds ==
  /\ Walking /\ ~ Turned
  /\ ~ HasParent(cur)
  /\ start' = NoType
  /\ UNCHANGED <<Unregistered, parent, errors, unchecked, cur, seen>>

\* Mutant: the cycle is reported and stays.
CutCycleReport ==
  /\ Walking /\ Turned
  /\ Report("CyclicInheritance", start)
  /\ start' = NoType
  /\ UNCHANGED <<Unregistered, parent, unchecked, cur, seen>>

\* Mutant: the type at which the walk turned loses its parent.
CutCycleThere ==
  /\ Walking /\ Turned
  /\ Report("CyclicInheritance", start)
  /\ SetParent(cur, ObjectName)
  /\ start' = NoType
  /\ UNCHANGED <<Unregistered, unchecked, cur, seen>>

\* The type the walk began at loses its parent, in the cycle or only below it.
CutCycle ==
  /\ Walking /\ Turned
  /\ Report("CyclicInheritance", start)
  /\ SetParent(start, ObjectName)
  /\ start' = NoType
  /\ UNCHANGED <<Unregistered, unchecked, cur, seen>>
-----------------------------------------------------------------------------
Follows == [types |-> "interfaces", interfaces |-> "parents", parents |-> "cycles",
            cycles |-> "functions", functions |-> "done"]

Finished ==
  \/ pass \in {"types", "parents"} /\ at > Len(program.types)
  \/ pass = "interfaces" /\ at > Len(program.interfaces)
  \/ pass = "functions" /\ at > Len(program.functions)
  \/ pass = "cycles" /\ start = NoType /\ unchecked = {}

\* The next loop; type_names is taken as the one over cycles starts.
NextPass ==
  /\ Finished
  /\ pass' = Follows[pass]
  /\ at' = 1
  /\ unchecked' = IF pass = "parents" THEN Types ELSE {}
  /\ UNCHANGED <<program, parent, interfaces, functions, errors, start, cur, seen>>

Init ==
  /\ program \in Programs
  /\ pass = "types" /\ at = 1
  /\ parent = [t \in {} |-> ObjectName] /\ interfaces = {} /\ functions = BuiltinFuncs
  /\ errors = {}
  /\ unchecked = {} /\ start = NoType /\ cur = NoType /\ seen = {}

Next ==
  \/ CollectType \/ CollectInterface \/ ResolveParent \/ CollectFunction
  \/ CheckType \/ WalkUp \/ WalkEnds \/ CutCycle
  \/ NextPass

Spec == Init /\ [][Next]_vars
-----------------------------------------------------------------------------
(* Properties. *)

TypeOK ==
  /\ program \in Programs
  /\ pass \in DOMAIN Follows \union {"done"} /\ at \in Nat \ {0}
  /\ Types \subseteq Identifier \ Reserved /\ IsFiniteSet(Types)
  /\ parent \in [Types -> Identifier]
  /\ interfaces \subseteq Identifier /\ functions \subseteq Identifier \union BuiltinFuncs
  /\ unchecked \subseteq Types /\ start \in Types \union {NoType}
  /\ cur \in Types \union {NoType} /\ seen \subseteq Types

\* Types whose parents are among them: what the types of a cycle, and of nothing
\* but cycles, have in common. A walk that starts in such a set never leaves it.
Unending(S, up) == S # {} /\ S \subseteq DOMAIN up /\ \A t \in S : up[t] \in S

\* Once the cycles are cut, and whatever was wrong with the program, each walk
\* along the parents ends in Object: the loops of conforms, lookup_type_method,
\* lca, effective_ctor_params and all later passes terminate, and so do those of
\* the machine. Every parent on the way is registered.
Grounded ==
  pass \in {"functions", "done"} =>
    /\ \A t \in Types : parent[t] \in Types \union {ObjectName}
    /\ ~ \E S \in SUBSET Types : Unending(S, parent)

\* What the later passes ask of the parents has answers that fit together, for a rejected
\* program too: inheritance is a strict order below Object, to which each type gets in
\* the turns that the loops have (conforms);
InheritanceOrders ==
  pass \in {"functions", "done"} =>
    /\ \A t \in Types : InheritsFrom(t, ObjectName, parent) /\ ~ InheritsFrom(t, t, parent)
    /\ \A a, b, c \in Types \union {ObjectName} :
         InheritsFrom(a, b, parent) /\ InheritsFrom(b, c, parent) => InheritsFrom(a, c, parent)

\* and two types have a least common ancestor, whichever comes first: all that is above
\* both of them is above it, or is it (lca).
Above(t, u) == t = u \/ InheritsFrom(t, u, parent)

JoinsLeast ==
  pass \in {"functions", "done"} =>
    \A a, b \in Types :
      /\ NearestCommon(a, b, parent) # <<>> /\ NearestCommon(a, b, parent) = NearestCommon(b, a, parent)
      /\ LET j == NearestCommon(a, b, parent)[1]
         IN  /\ Above(a, j) /\ Above(b, j)
             /\ \A u \in Types \union {ObjectName} : Above(a, u) /\ Above(b, u) => Above(j, u)

\* A type is only accused of a cycle if its parents lead into one, whatever was
\* cut before, and the bound of the walk is never what decides.
AccusedRightly ==
  [][\A t \in Types : <<"CyclicInheritance", t>> \in errors' \ errors =>
       \E S \in SUBSET Types : t \in S /\ Unending(S, parent)]_vars

\* The parent in the declaration of t that is registered, the first.
DeclaredParent(t) ==
  program.types[CHOOSE k \in DOMAIN program.types :
    /\ program.types[k].name = t
    /\ \A j \in DOMAIN program.types : program.types[j].name = t => k <= j].parent

\* A cycle of declarations, and nothing but one: types of which the parents are no other
\* ones, and no fewer of which are like that. (A further declaration of one of them, with
\* a parent that does not exist, would have cut it before.)
Confined(S) == S # {} /\ \A t \in S : DeclaredParent(t) \in S

Circle(S) ==
  /\ Confined(S) /\ \A Q \in SUBSET S : Confined(Q) => Q = S
  /\ \A k \in DOMAIN program.types :
       program.types[k].name \in S => program.types[k].parent \in Reserved \union Types

\* One of its types is reported and has lost its parent, the others have theirs.
CutOnce(S) ==
  \E t \in S : /\ <<"CyclicInheritance", t>> \in errors /\ parent[t] = ObjectName
              /\ \A u \in S \ {t} : /\ <<"CyclicInheritance", u>> \notin errors
                                    /\ parent[u] = DeclaredParent(u)

\* Every cycle is cut exactly once, at the type that is reported for it, and the rest of
\* it stays as it was declared: in whatever order the HashMap gives the types, and
\* however many below the cycle are looked at, and cut off, before it is.
CyclesCutOnce ==
  pass \in {"functions", "done"} => \A S \in SUBSET Types : Circle(S) => CutOnce(S)

\* What a program must be like: names are declared once and are not reserved,
\* parents are declared types, and no parents form a cycle.
Declared(p) == { p.types[k].name : k \in DOMAIN p.types }
Distinct(s) == \A j, k \in DOMAIN s : s[j] = s[k] => j = k

WellFormed(p) ==
  /\ \A j, k \in DOMAIN p.types : p.types[j].name = p.types[k].name => j = k
  /\ Distinct(p.interfaces) /\ Distinct(p.functions)
  /\ \A k \in DOMAIN p.types :
       p.types[k].name \notin Reserved /\ p.types[k].parent \in Declared(p) \union {ObjectName}
  /\ \A k \in DOMAIN p.interfaces : p.interfaces[k] \notin Reserved \union Declared(p)
  /\ \A k \in DOMAIN p.functions : p.functions[k] \notin BuiltinFuncs \union {"self"}
  /\ ~ \E S \in SUBSET DOMAIN p.types :
         S # {} /\ \A k \in S : \E j \in S : p.types[j].name = p.types[k].parent

\* A program is rejected exactly if something is wrong with it, in whatever order
\* its types were looked at; the hierarchy of one that is not is the declared one.
RejectsExactly ==
  pass = "done" =>
    /\ errors = {} <=> WellFormed(program)
    /\ errors = {} => /\ Types = Declared(program)
                      /\ \A k \in DOMAIN program.types :
                           parent[program.types[k].name] = program.types[k].parent
=============================================================================
