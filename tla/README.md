# A verification of the HULK compiler and its virtual machine

The repository compiles HULK, a small object-oriented language, to the code of a
stack machine and runs it. This directory holds TLA+ models of that program, the
TLC configurations that check them on small instances, and TLAPS proofs of what
holds on every instance. Paths below are relative to `src/`; `heap.rs` is
`crates/hulk-vm/src/heap.rs`, `vm` is `crates/hulk-vm/src/lib.rs`, `ir` is
`crates/hulk-ir/src/lib.rs`, `check.rs` and `types.rs` are in
`crates/hulk-semantic/src/`, `main.rs` is `hulkc/src/main.rs`.

## 1. The system

A source text goes through five stages, each of which hands a data structure to the
next: lexer and parser make an `hulk_ast::Program`; semantic analysis accepts or
rejects it; `lower_program` makes an `IrProgram`, a table of functions, a table of
types and the code of the entry expression; the virtual machine runs it; `hulkc`
calls them in order and turns what they return into exit codes. Everything runs in
one thread. What is hard is therefore not interleaving of threads but long
sequences of legal steps over shared state: a collector that runs between any two
instructions of any frame, errors that leave through suspended frames, code whose
parts are generated apart and must agree on labels, scopes and stack heights,
analysis passes that go on with a repaired program after errors and infer types from
signatures they are still changing, and a file that outlives the commands, written in
several steps of which each may fail or be the last.

| Component | State it keeps | Operations | What makes it correct |
|---|---|---|---|
| Heap (`heap.rs`) | vector of slots, free list, allocation counter | `alloc`, `get`, `get_mut`, `should_collect`, `collect` | no handle dangles; exactly the unreachable is released; the free list is exact |
| Machine (`vm`) | operand stack, scopes, suspended frames, heap | one per instruction, calls, returns, `roots`, `maybe_gc` | its roots keep what it uses alive; calls, returns and errors restore the caller |
| Code (`vm` 248-300) | instruction pointer and code, of each frame | labels, jumps, calls, the end of a function | control stays in the code; a callee returns behind its call |
| Lowering of expressions (`ir` 285-720) | emitted code, one counter for labels and hidden names | one case of `lower_inner` per expression | the code does what the expression means and leaves one value |
| Lowering of declarations (`ir` 721-1175) | tables of functions and types | functions, methods, constructors along the ancestry, built-in types | parameters reach every ancestor, as analysis promised |
| Collection of declarations (`check.rs` 101-253) | types with parents, interfaces, functions, errors | registration, repair of parents, search for cycles | what is left has no cycle; errors are reported exactly when there is one |
| Types and conformance (`types.rs`) | read only | references, `conforms`, `lca`, lookups along parents and `extends` | a preorder with joins, by whichever way types conform |
| Signatures and inference (`check.rs` 255-612, 842-1367) | signatures, constructor and attribute types | rounds until nothing changes | the rounds settle, take nothing back and do not depend on order |
| Interfaces and overrides (`check.rs` 614-759) | read only | `check_interfaces`, `check_overrides` | what is called through a supertype has the signature it was called with |
| Bodies (`check.rs` 1369-2185) | environments | `check_bodies`, `check_expr` | what is accepted does not fail with a type error |
| Driver (`main.rs`) | the file `./output`, exit code, diagnostics | `compile`, `exec`, `parse`, `./output` itself | a complete `./output` is of an accepted source and does what it does |
| Lexer, parser | none between calls | generated automata | only what the driver sees of them, see section 8 |

They interact by calls only, with four exceptions that carry most of the hazards:
the machine and the heap share handles (the heap learns of them only through
`Vm::roots`); the interpreter recurses natively for each call, so half of a frame
is in `call_stack` and half in a Rust frame; and the lowering of constructors
re-derives, from the syntax tree, the parameters that analysis derived from its own
tables; and one command of the driver finds the `./output` that an earlier one left.

`PROJECT.json` lists the hazards, each at its line, with the properties that would
catch it going wrong.

## 2. The modules

    HulkValues        values, objects, reachability
    ObjectStore       abstract: what the heap promises
    Heap              heap.rs, one step for each turn of a loop       refines ObjectStore
    HeapProofs        theorems about Heap
    Operations        what operators compute, without state
    Vm                the machine, which instruction is next left open; INSTANCEs Heap
    VmProofs          theorems about Vm, from those of HeapProofs
    VmCode            Vm with code, instruction pointer, jumps, output; EXTENDS Vm
    VmCodeProofs      theorems about VmCode, from those of VmProofs
    StackDiscipline   what code must be like for the machine to run it; EXTENDS VmCode
    StackDisciplineProofs
                      theorems about programs whose code is like that
    HulkAst           the syntax tree, as records
    Lowering          lower_inner
    ProgramLowering   lower_program; EXTENDS Lowering
    LoweringProofs    theorems about all code that is lowered; EXTENDS StackDisciplineProofs
    Evaluator         reference: what a program means
    Parents           the loops of types.rs along parents
    Hierarchy         Checker::collect; EXTENDS Parents
    HierarchyProofs   theorems about Hierarchy, and about Parents over what it leaves
    StaticTypes       types.rs: references, conformance, lca; EXTENDS HulkAst, Parents
    Checker           check_expr and collect_param_constraints; EXTENDS StaticTypes
    Inference         sign, the inferences, the checks: one declaration at a time
    Analysis          analyze: the passes and their rounds; INSTANCEs Hierarchy
    TypeSafety        what analysis promises; INSTANCEs Evaluator
    Driver            hulkc, ./output, the commands of a user
    DriverProofs      theorems about Driver
    Measures          what it is for a loop to get on: tuples of numbers, ordered
    NatLemmas         least and greatest numbers, for the proofs
    MCHeap MCVm MCVmCode MCLowering MCConstructors MCHierarchy MCAnalysis MCDriver
                      instances for TLC

**HulkValues, ObjectStore, Heap.** A value is a tagged record; numbers and strings
are members of the constants `Num` and `Str`. A Rust map of fields is a total
function in which `Unbound` stands for "no entry". `Heap` keeps `slots`,
`freeList` and `pending` (`allocations_since_gc`), and in `phase`, `work`,
`marked`, `sweepAt` what `collect` has in local variables: `StartCollect`,
`Mark`, `EndMark`, `Sweep`, `EndSweep` are the loops of `heap.rs` 129-163. `held`
is what `Vm::roots` would return; `Program` is every use a holder of handles can
make of a heap: allocate, read, write, forget. `work` is a set: the order in which
the source pops its worklist is left open. `ObjectStore` is the promise without
slots or marks: a new object has a fresh id, fields change only by writing, and a
collection atomically removes what no held handle reaches. The refinement mapping
removes an object from the store at the moment marking ends without having reached
it, so that sweeping is a stutter.

**Vm** has one action per instruction (`Compute` for the arithmetic and comparison
ones, which differ by operand types and errors only), each with its error cases in
the order the source pops its operands: an instruction that fails has popped those
before. `Fail` sets `status` to `"unwinding"`; `Unwind` is the `?` behind the
recursive `run_with_labels`, which restores one caller and pushes nothing more than
the source does. `Alloc` is `heap.alloc`, push, `maybe_gc` in this order. The
instance `Hp` of Heap has `held <- Roots`, so a step of the machine is a step of
Heap only if the roots it would hand over are sound.

**VmCode** adds `entry`, `block`, `ip`, `returns`, `output`. Each instruction of
the code performs the Vm action of its name. `returns` is the part of the
interpreter's native stack that matters: the function and the index behind the call.
The cache of resolved labels is left out, it holds what `LabelsAt` computes.

**StackDiscipline** writes down the contract between lowering and machine that neither
states: the machine does not check that code leaves one value per expression, or closes
its scopes, and the lowering has no place where it is said. `Takes`, `Gives` and `Opens`
are what an instruction does to the stack and the scopes of its frame when it does not
fail; a *shape* gives each index of some code a number of values and of scopes, and code
is `Disciplined` if there is a shape on which all ways to an instruction agree. Labels
are resolved as `resolve_labels` does, the last of two alike.

**Lowering, ProgramLowering** are translations of `lower_inner` and
`lower_program`. `Exprs[d]` are the expressions that nest at most `d` deep
(`Forms` of HulkAst has one case per kind), and the lowering of an expression is a
function from the counter, as it finds it, to the code it emits and the counter it
leaves. A construct is an operator of the lowerings of its parts (`LowerWhile`,
`LowerLet`, ...), which puts their code one behind the other and hands the counter on,
in the order of the source; `Lowered(at)[e]` ties the knot, depth by depth, as a
recursive function, so that it can be proved about. Names of functions and hidden
variables are glued together as in the source, because two different ones may yield the
same name. A label is the tuple of its word and its numbers: the text it is glued to in
the source is different wherever the tuple is. **Evaluator** is not code of the
repository: it defines by recursion over expressions what a program means, without
stack, scopes, labels or frames, from the language's rules as the documents under
`docs/` and the comments of `ir` state them (arguments before the receiver, a
parent's arguments in the child's scope, a `while` without a round is Nil).

**Hierarchy** has one action per turn of each loop of `collect`; the loop over
`type_names`, which a HashMap orders, takes any type that is left (`CheckType`),
and `has_cycle` walks step by step (`WalkUp`, `WalkEnds`, `CutCycle`). `pass` says
which loop runs. Spans, generic parameters and signatures are left out: no branch of
this pass reads them.

**Parents** has the walk that `conforms`, `lookup_type_method` and `lca` share, as a
function of the number of turns (`Cur`), and what each of them looks for on it. It is
apart from StaticTypes so that it can be proved about: nothing in it is recursive.

**StaticTypes, Checker, Inference, Analysis** compose bottom up. A type is a tagged
record, `TypeCtx` a record `ctx` of functions from names. `Conformance` answers
`"yes"`, `"no"` or `"never"`: a walk along `extends` that is deeper than there are
interfaces will not return, and `hung` carries that up through whatever asked.
`Check(e, s)` is `check_expr`: it takes the state of a check (environment, scope of
type parameters, method, observations of `new`, errors) and gives the state with the
type of `e`. Conformance is not asked at once: `needs` collects the pairs and `Judged`
asks when an expression is done, since the answer never changes a type. The one
answer that does, in `GetField`, is asked where it stands. `Parts` lists what an
expression asks of its parts, and `Constrain` folds that into constraints, as
`collect_param_constraints` does in its recursion. A turn of Inference is one
declaration of one pass, an operator from `Checker` to `Checker`; Analysis makes
each turn an action, with `k` for the declaration, `left` for the rounds that the
code's bound leaves, `changed` for its flag of this name. `collect` is the instance of
Hierarchy with the program's skeleton. `crashed` stands for the two ways analysis does
not return: a position that is not in a signature (`sig.params[*i]`, 1131 and 1169) and a
recursion without end.

**TypeSafety** states what analysis promises. The passes appear a second time as
functions (`SignAllOf`, `CtorSettled`, `ParamsSettled`, ...), so that a state can be
compared with what would have become of the same program with its declarations in
another order, or without one of the inferences (`AcceptedWith`). `Run(source)` is
Evaluator: the meaning of the program that was accepted.

**Driver** has the commands one after the other (`Main`, `Usage`, `RunWhole`, `RunCut`,
`RunNothing`), an action per call that may fail (`Read`, `Parse`, `Analyze`, `Run`,
`Locate`, `Open`, `Write`, `Chmod`), `Edit` for the user and `Kill` for the system. A
text is a sequence of pieces with what analysis and machine would say of it: the
verdict is data, the order of verdicts, exits and writes is the model. An analysis that
does not return ends the command by a panic (101) or by the SIGABRT of a stack overflow
(134). `fs::write`
is `Open`, which empties a file that exists and keeps its mode, and any number of
`Write`s; `script`, `part` and `mode` are what is on disk. A script that is cut off
hands on what is left of the source (`CutsOf`, any text that agrees with the source
but for its last piece), does nothing, or does not find its interpreter.

## 3. The runs

| Run | Instance | What it asks |
|---|---|---|
| `heap` | 3 slots, 2 fields, a collection every 2nd allocation | TypeOK, FreeListExact, NoDangling at every turn of a collection; CollectExact; ImplementsStore; CollectorAdvances, CollectTerminates |
| `vm_heap` | 2 slots, a collection after every allocation, stacks of 2, one suspended frame, one scope, objects and vectors, any instruction at any time | NoDangling, GcPunctual, ImplementsStore inside the machine; CallsBalance |
| `vm_code` | each of the 32768 entries of three instructions over 32, with recursion, double and missing labels, no Ret; 916 more with every operator and type test on values of every kind | TypeOK, ErrorUnwinds, ReturnsBehindCalls, RunsMachine |
| `lowering` | 2326 programs over 5 functions and 5 types | RunsAsEvaluated, KeepsContract, WaysAgree, EveryRunEnds |
| `hierarchy` | 625 hierarchies of 4 types in every order; 1275 programs with mistakes in names | Grounded, RejectsExactly, InheritanceOrders, JoinsLeast, AccusedRightly, CyclesCutOnce |
| `analysis` | 4702 programs, from collect to the verdict | RoundsSettle, CtorRoundsSettle, ParamsOnlyNarrow, ParamInferenceIsSafe, FunctionOrderIrrelevant, ConformanceIsOrder, JoinsAreBounds, CallsMeetSignatures, AcceptedNeverFails |
| `driver` | 69 texts, any sequence of commands, failures and kills | Delivered, OutputValidated, OnlyAcceptedRuns, OutputRunsSource, ReportsFaults |
| `constructors` | 4 programs | refutes RunsAsEvaluated, findings 1, 2, 5 and 6 |
| `ctor_inference` | 8 programs | refutes CtorInferenceIsSafe, finding 3 |
| `declaration_order` | 12 programs | refutes OrderIrrelevant, finding 4 |
| `never_aborts` | the programs of `analysis` that declare something twice, or circles | refutes NeverAborts, finding 7 |
| `lexical_first` | the texts of `driver` | refutes LexicalFirst, finding 8 |

What the less obvious properties say:

* `CollectExact`: when a collection ends, the live slots are exactly those the roots
  reach, cycles included.
* `GcPunctual`: no instruction runs while a collection is due, so that every way to
  allocate ends in `maybe_gc`.
* `CallsBalance`: a step leaves all frames below the running one and its caller
  alone; a call suspends a frame without its operands; a return gives the caller its
  scopes back and its stack with one value more.
* `ErrorUnwinds`: an error reaches the top with every frame restored.
* `ReturnsBehindCalls`: one return address per suspended frame, right behind a call
  of the code it belongs to; the instruction pointer never leaves its code.
* `RunsMachine`: VmCode implements Vm.
* `RunsAsEvaluated`: a program's output, its error, and its value are what
  Evaluator says, and what it printed before an error is what came before it. It
  holds of lowering and machine together, with collections in between.
* `KeepsContract`: code that ends has one value on its stack and closed its scopes, and
  until then no instruction misses an operand, a label or a scope.
* `WaysAgree`: by whichever branch, round or return an instruction is reached, it finds
  as many values and scopes as the shape of its code says, and all code of the program
  has a shape (`CodeIsDisciplined`).
* `CollectorAdvances`: each turn of the collector makes a measure in natural numbers
  smaller. This is why CollectTerminates holds, and what can be proved of it.
* `Grounded`: after the search for cycles each walk along the parents ends in
  Object, for a rejected program too; `conforms`, `lca`, `lookup_type_method` and
  `effective_ctor_params` walk without a bound.
* `InheritanceOrders`, `JoinsLeast`: over what collect leaves, inheritance as `conforms`
  decides it is a strict order, every walk ends within its turns, and the walks of `lca`
  find the least of what is above both types, whichever comes first.
* `AccusedRightly`: a type is reported as cyclic only if its parents, as they are at
  that moment, lead into a cycle; the bound of the loop of `has_cycle` never decides.
* `CyclesCutOnce`: of each cycle of parents one type is reported and loses its parent;
  the others keep the parents they were declared with, whichever the HashMap gives first
  and however many types below the cycle are looked at before it is cut.
* `RejectsExactly`: errors are reported if and only if a declarative definition of a
  well-formed program (`WellFormed`) is not met, in whatever order the HashMap gave
  the types, and a program that is accepted has the hierarchy it declares. This is
  also why the machine's own walk, over the declared parents, ends.
* `RoundsSettle`, `CtorRoundsSettle`: when an inference stops, by itself or at its bound, one round more
  would change nothing, for parameters and results, and for the parameters of
  constructors, which are inferred from `new` expressions that depend on each other.
* `ParamsOnlyNarrow`, `ParamInferenceIsSafe`: from round to round what is known of a
  parameter only becomes more specific, and no program is rejected that would have been
  accepted without inferring parameters. The comment over `infer_params` says so.
* `FunctionOrderIrrelevant`: the verdict is the same with functions and interfaces
  reversed.
* `ConformanceIsOrder`, `JoinsAreBounds`: in an accepted program conformance is
  transitive over all types that can be written, although its steps may go by parents,
  `implements`, structure or iteration; `lca` is above both its arguments, symmetric,
  and the least among the classes. Both rest on `check_overrides` and
  `check_interfaces`, not on `types.rs` alone: a mutant of the first breaks them.
* `CallsMeetSignatures`: the method an object runs has the signature that a call through
  any of its superclasses was checked against, though `check_overrides` compares a
  method with one other only: the nearest above it, which may stand two classes up.
* `AcceptedNeverFails`: the meaning of an accepted program has no TypeMismatch,
  NullReference, UndefinedVariable, UndefinedField or UndefinedMethod. With
  RunsAsEvaluated, which says that the machine does what the meaning says, this is type
  safety from source to machine. The routes the checker leaves open are named at the
  property and kept in `Loose` or out of the programs: iteration over Object (which
  `range` needs), a `next` that is no Boolean, `next` and `current` of a vector, casts
  to what is erased at run time, loops that run no round (Nil of a type that has no Nil),
  a child whose own parameters are forwarded to a parent that takes others.
* `Delivered`, `OutputValidated`, `OnlyAcceptedRuns`, `OutputRunsSource`: exit code 0
  means a complete, executable `./output` of the source that was read; whatever failed or
  was killed, a `./output` that is complete is of an accepted source; a part of one is
  analysed like any source before anything of it runs; and a complete one ends as its
  source does, with no error of the front end.
* `ReportsFaults`: the position of a diagnostic, counted another way, is that of the first
  piece that is wrong in the way the exit code says: an odd one, a misplaced token, or the
  end of a text that stops too early. Semantic errors are reported all, each where it is.
  Which kind wins where there are several is not said: see finding 8.
* `NeverAborts`, `LexicalFirst`, which do not hold, say what the documents say of analysis
  and of exit codes: findings 7 and 8.

Every property of a passing run has a mutant: a definition with a plausible bug,
written beside the original and marked `Mutant:`, under which TLC finds the property
violated.

### Bounds

Handles are what the first two runs are about. Three slots make chains, diamonds,
self-references and cycles of two with garbage beside them, and reuse in every
order; the fourth slot would only repeat that. In the machine two slots, stacks of
two and one suspended frame are enough for a handle to be in each place a root can
be (running stack or scope, suspended stack or scope, field, element) while another
allocation collects; `Threshold = 1` collects at the worst moment each time. Bounds
of the model that are not in the code are `Capacity`, `MaxStack`, `MaxScopes`,
`MaxArgs`, `MaxLen`: an instruction that would exceed one is not taken. The proofs
hold for all values of them. What is computed does not matter to roots, so `vm_heap` has
no literals and no operators; `vm_code` has all of them.

`vm_code` is a closed set: all code of three instructions, so that no jump, label or
call was left out by choice, with two functions that no lowering would make, one of which
fails two calls deep. Three is enough to prepare two operands and use them, and so each
operator meets each pair of kinds of values, zero among them.

`lowering` takes every form of expression over simple parts (constants, a variable,
assignment, output: order of effects shows), and each form with control flow or
scopes in each place that evaluates an expression in the middle of something else;
in addition 64 programs with objects. Numbers are cut off at -3 and 5 and
`MaxCallDepth = 5` ends the endless recursion among the programs, and `Nesting = 11` is
more than any expression of the library or the programs nests. The library has a
type of each way to inherit: own parameters, forwarded ones, arguments, arguments with
a parameter of the same name two levels apart. Its initialisers have
no side effects, and no names collide: findings 5 and 6 and section 7 say what that
leaves out.

`hierarchy`: with four types there are cycles of one to four, tails of up to three
that lead into them, and two cycles side by side. For mistakes two declarations of a
type are enough, since a check compares one declaration with what was registered
before it.

`analysis` takes families of programs, each around one question: two functions that
call each other in every way among eleven kinds of bodies, with and without annotations
(`Mutual`); chains of four in the order that needs most rounds (`Chain`); parameters of
which several uses ask for related and unrelated classes (`Asked`); a type and an
interface related by inheritance, `implements`, structure or not at all, with methods
that match, differ or are missing (`Related`); three classes in a line, each of which declares
the method or leaves it out (`Lineages`); constructors that take, forward or pass values to
a parent (`Constructed`), and that are given what other constructors make (`Handed`); iterables, vectors and instantiated types in loops,
comprehensions and calls (`Collections`); each kind of error in each place that can
raise it (`Mistakes`); what is declared twice (`Twofold`), and circles of interfaces and
types (`Circles`). Two functions, two classes and an interface are enough for each
question but two: overriding, where a class that leaves the method out must come
between two that have it, and the number of rounds, where four are one more than a bound
that is off by one would let through. That what is inferred is right for programs of another shape is
not shown: the programs are a sample, chosen so that every branch of the passes is
taken.

`driver` has all texts of up to two pieces of the five kinds, ten of three, and programs
with each combination of verdict and fate, one of which is what may be left of another.
Three pieces put a fault before, in or behind a second line. Sequences of commands are
not bounded.

Where a run says `CHECK_DEADLOCK FALSE` the program may stop: the machine when it is
done or at a bound of the model, `collect` and `analyze` when they returned. In `driver`
a user can always give another command, and deadlock is checked.

### Fairness

There is one thread and nothing it waits for, so it goes on until it returns. `Heap`
has weak fairness of `Collector` only: `collect` is a loop that runs to its end, while
the program need not do anything. `Vm` has none: which instruction is next is open there,
and so is whether there is one. VmCode has it of `Run`, the interpreter's loop, which
passes errors on and runs collections (`ForceGc` is a caller's choice). Hierarchy,
Analysis and Driver state no fairness, since no property of theirs is about something
that must happen: the loops of `collect` and of the rounds are bounded where they are
written, commands may be killed, and programs need not end. No property rests on strong fairness.

## 4. What is proved

For all values of the constants that satisfy the named assumptions (`Free` is no
object, `Threshold` is positive, tables mention what exists, code is made of
instructions, a set of programs is a set of programs), tlapm checks:

* `HeapProofs`: HeapInvariant, TypeCorrect, FreeListCorrect, HandlesNeverDangle,
  CollectionExact, CollectionAdvances, HeapImplementsStore.
* `VmProofs`: MachineInvariant, TypeCorrect, VmImplementsHeap, HandlesNeverDangle,
  MachineImplementsStore, MachineCollectionsAdvance, CollectionsArePunctual,
  CallsAreBalanced.
* `VmCodeProofs`: CodeInvariant, CodeRunsMachine, CodeTypeCorrect, ReturnAddresses,
  ProgramsNeverDangle.
* `StackDisciplineProofs`, of programs whose code is disciplined: StackInvariant,
  AllWaysAgree, ContractIsKept.
* `LoweringProofs`, of all expressions and declarations: ExpressionsLeaveOneValue,
  BodiesAreDisciplined, ConstructorsAreDisciplined, FunctionsAreDisciplined,
  LoweringIsDisciplined; and of the machine on any code that is lowered:
  LoweredWaysAgree, LoweredKeepsContract.
* `HierarchyProofs`: HierarchyInvariant, TypeCorrect, HierarchyIsGrounded,
  AccusationsAreRight, RejectionIsExact, InheritanceIsOrder, CommonAncestorsAreLeast,
  OverridingIsLocal, CyclesAreCutOnce.
* `DriverProofs`: TypeCorrect, CompilationDelivers, CompleteIsValidated, RunsAccepted,
  RunsItsSource, FaultsAreReported.

**Heap.** NoDangling is not inductive: that the roots reach no free slot says
nothing about the objects marking has not got to, nor about those that a sweep has
still to look at. `IInv == TypeOK /\ FreeListExact /\ GcInv` strengthens it. GcInv
says that outside a sweep all live objects refer to live ones, not only those that are
reachable; that while marking, what a marked object refers to is marked or
waiting, and that marked and waiting slots are contained in every closed set around
the roots (`Least`); that while sweeping the marked slots are the least such set,
and every live slot below `sweepAt` is marked. Reachability is defined by closed
sets instead of by paths, so no step needs an induction over the length of a path.
CollectExact and the refinement of ObjectStore both follow from `Least` when marking
ends. CollectionAdvances gives the collector a measure, the turns that marking,
sweeping and the rest still have, of which each step makes the first that differs smaller,
cycles in the heap or not. MachineCollectionsAdvance is the same theorem inside the
machine, by VmImplementsHeap.

**Vm.** The machine's invariant is that its variables have their types and that the
heap in it satisfies Heap's invariant with `Roots` for `held`. Each action is shown
to be a step of Heap or to leave it alone: the handles in the new stacks, scopes and
frames were held before, or were read from a field of a held object. What is proved of
Heap then holds of it without being proved again (VmImplementsHeap).

**VmCode.** CodeRunsMachine is the refinement: each step of code is a step of Vm or a
stutter (labels). It lets the theorems of Vm speak of every program, lowered or not:
ProgramsNeverDangle. ReturnAddresses is inductive together with the types and with the
count of suspended frames.

**StackDiscipline.** The theorems are about programs with the hypothesis
CodeIsDisciplined, which is a fact about code and not about behaviours. It is what
LoweringProofs shows of lowered code, and run `lowering` evaluates it for every program
it runs (it is part of WaysAgree).
The invariant (`StackInv`) says of the running frame that it has the shape of its next
instruction, and of each suspended one that it will have the shape of the instruction
it goes on with, once it gets one more value: what a call does to the shape of its caller
is done when the callee returns. For that the number of values a frame keeps during a call
must be known, which is the shape in front of the call minus what it takes. An error
leaves by `Fail` and `Unwind`, where the shape no longer matters. Errors other than
StackUnderflow and UndefinedLabel may come at any instruction.

**Lowering.** That the code of an expression leaves one value cannot be proved of the
expression alone: the code is part of a longer one, jumps out of parts that are not
finished go to labels that are not put yet, and two parts that took the same number for
a label would take each other's jumps. `Flows(w, r, t, D)` says what a lowering under way
has come to: `w` is where it started (the counter, the shape, the labels around it that
are still open, the scopes that were there before), `r` the code and the counter so far, `t`
the shape behind its last instruction and `D` the labels of it that are put. In it there is
a set that gives each label one shape, with a number the counter had since the start, and
`Piece`: each instruction is consistent with the next, and each jump with the shape of a
label of this set or of an open one. There is one lemma for each way to emit (an
instruction, a jump, a label, an expression) and one for joining two pieces; that labels
are not confused is that the counter only grows, so the numbers of two pieces lie in ranges
that do not meet. From these there is one lemma per construct, and
ExpressionsLeaveOneValue is the induction on the depth over them. A whole body, behind which
nothing is open, is then Disciplined. Inductions, on depth, on the number of arguments,
of elifs, of ancestors and of declarations, are by a least counterexample (NatLemmas).
Constructors nest one scope per ancestor and must close as many; the code the source writes
out for Range and vectors is checked instruction by instruction.

The hypotheses of LoweredWaysAgree and LoweredKeepsContract are that the machine's tables
hold what `lower_program` makes of some functions, types and expressions (`IsLowered`:
their bodies are expressions, nothing is asked of names), and that `ShapeIn`, which only
the properties use, gives the code of the program a shape where one exists
(`FindsShapes`). MCLowering has TLC evaluate the first as an assumption, and WaysAgree, as it
evaluates CodeIsDisciplined, implies the second of its instance. `Nesting` is any number.
Nothing is assumed of types: code that semantic analysis would reject is disciplined too.
What calls need is that built-in functions have as many arguments as they take, which
`CallForms` says and analysis checks: `lower_inner` emits their instruction whatever the
number.

**Hierarchy.** That no cycle is left cannot be seen from the types that were checked
alone, for a later cut changes parents. The proof speaks of the sets of types whose
parents are all among them (`Unending`): a cycle is one, and so is a cycle with tails.
The invariant is that no type that was checked is in such a set, that the walk under
way is inside every such set that has its start, and that each type it has seen has
its parent among those seen or where the walk is. A walk that meets Object has refuted
all sets around its start; a cut removes its start from all of them and makes no new
one. That the walk never ends by its bound is a fact on cardinalities. Before, the
parents that are not registered must be shown to belong to declarations the third loop
has still to come to (`Parentage`).

RejectsExactly says nothing before collect returns, so its proof has an invariant of
its own (`ErrorInv`): while nothing was reported the tables hold exactly the
declarations the loops have passed, and once something was, the program is not
WellFormed. An error in a cycle is traced to the declarations through the set of types
the walk has seen; that none is missed follows from Grounded.

What collect leaves is `Rooted`: finite, closed but for the root, without a set that is
unending. Over any such function the loops of Parents are proved about as they stand in
the code, with a number of turns: a walk that had not ended after as many turns as there
are types would pass one type twice (the pigeonhole principle), and what lies between is
unending. So what a walk passes is the least set that has its start and is closed under
parents (`PassedLeast`), which is all that order, joins and overriding need.
CyclesAreCutOnce follows what was declared through the four passes: the first declaration
of a name is the one that stays, its parent is as declared until `has_cycle` comes, unless
it does not exist, and a type that is cut is in the cycle it closes, since what a walk
has seen when it turns back to its start is unending. So a cycle that was cut has lost the
one parent and cannot be closed again, and a cut below it is not one of its types.

**Driver.** For every set of texts. None of the properties is inductive alone. `Stages`
says what is known of the text at each call of a command: that it was parsed at
`analyze`, accepted at `run` and from `locate` to `chmod`; `Writing` that between `open`
and the end of the command the script on disk is the command's text; `Running` that a
command called `output` whose script is complete runs the embedding of it. The last
needs that a newline behind the source changes neither whether it is parsed nor what
analysis says (`EmbeddedType`, `EmbeddedAccepted`). FaultsAreReported compares two ways
to find a position: by counting from the text's start, piece by piece, and by looking for
the last newline before an offset. Were they to differ for some offset, they would for a
least one, and there the step from the one before shows that they do not; it stands in
place of an induction. A command that is killed leaves
`script` and `part` to the next one, so Delivered and OutputValidated are part of the
invariant.

## 5. What is only model-checked

Liveness (CollectTerminates, ErrorUnwinds, EveryRunEnds) and everything that needs
ENABLED: of CollectTerminates the measure is proved, not that a step is taken.

RunsAsEvaluated. The lowering is proved to keep the machine's stack and scopes in order for
every program; that the code also *means* what Evaluator says is checked on the programs
of `lowering`. Evaluator is a RECURSIVE definition, over expressions and over calls, whose
recursion ends only if the program does, so not even its values are known to the provers.

The properties of TypeSafety: RoundsSettle, CtorRoundsSettle, ParamInferenceIsSafe,
FunctionOrderIrrelevant, ConformanceIsOrder, JoinsAreBounds, CallsMeetSignatures,
AcceptedNeverFails, and the action property ParamsOnlyNarrow. StaticTypes, Checker and Inference are RECURSIVE
over references, expressions and hierarchies at once, and for some programs the recursion
has no end, which the models must be able to say (`hung`, `crashed`). Several of these
statements are, moreover, of programs that run `analysis` is a sample of, and are not known
to hold of all: the rounds have a fixed bound.

## 6. Findings

1. `constructors`. The comment at `ir` 796 says each `inherits Parent(args)`
   clause "is evaluated in the scope of the *child*'s parameters". The loop at 849
   evaluates an argument, binds it to the parent's parameter in the scope the next
   argument is evaluated in, and so on. With `type A(x, y)` and
   `type D(x, y) inherits A(y, x)` the second argument reads the x just bound:
   `new D(0, 1)` gives A the pair (1, 1).
2. `constructors`. The comment at `ir` 737 says `effective_ctor_param_names` mirrors
   the analyzer's `effective_ctor_params`, and a constructor does take the parameters
   `check_bodies` expects. But the binding of an ancestor's parameters (837) uses the
   ancestor's own `type_params`, which are empty if it forwards its parent's. With
   `type B(x, hi)`, `type C inherits B` and
   `type F(x, hi) inherits C(print(x + hi), 0)` the arguments are dropped without being
   evaluated and B gets F's x and hi.
3. `ctor_inference`. The comments at `check.rs` 853-857 and in
   `crates/hulk-semantic/tests/ctor_inference.rs` 6-8 say that the inference of
   constructor parameters rejects nothing that was accepted before. It narrows a
   parameter and with it the attributes; a setter that assigns its own, unconstrained
   parameter is then a mismatch:
   `type P(x) { v = x; get() => self.v; set(x) => self.v := x; }` and `new P(1)`.
4. `declaration_order`. `docs/PARSER_REFERENCE.md` 52 and `docs/REPORT.md` 136 say the
   order of declarations does not matter. `sign` infers attributes type by type
   (`check.rs` 330): an initialiser that calls a method of a type further down makes the
   attribute an Object.
5. `constructors`. `ir-v3.spec.md` 168 initialises attributes from the root to the
   leaf; the comment at `ir` 803-805 says that the code's order, from the leaf to the
   root, is observable only where attributes of two levels share a name. Two
   initialisers that print show it too: D's prints before A's.
6. `constructors`. `ir-v3.spec.md` 172 and `docs/PARSER_REFERENCE.md` 126: without an
   argument list the child's parameters are passed on as they are. The code (`ir` 860)
   loads variables of the names of the parent's parameters. With `type A(x, y)`,
   `type B(x, hi) inherits A` there is no `y`: the machine stops with
   UndefinedVariable, and semantic analysis, which compares arguments that are written
   down (`check.rs` 1401), accepts the program.

7. `never_aborts`. `docs/REPORT.md` 147-148 says the passes never panic but collect all
   errors, `docs/SEMANTIC_REPORT.md` 193 that analysis never aborts. Parameters are inferred
   for every declaration of a function, and their positions index the signature of the last
   one of that name (`check.rs` 1131): `f(x, y) => x + y` and then `f(x) => x` is reported as
   DuplicateFunction and then panics, so nothing is printed. Methods are no better
   (1169), and nothing reports them. Interfaces that extend each other in a circle overflow
   the stack, if conformance is asked (`types.rs` 443): with `Circles` alone as the
   programs, NeverAborts is refuted that way.
8. `lexical_first`. `docs/interface.md` 46-47, `main.rs` 9 and `docs/REPORT.md` 247 and
   260-261: with errors of several types the exit code is that of the most fundamental
   one, lexical before syntactic. Lexer and parser run in lockstep and stop at the first
   error, so a misplaced token before an illegal character exits with 2. That syntactic
   errors go before semantic ones does hold: nothing is analysed that was not parsed.

1, 2, 5 and 6 are checked on a hierarchy of their own. Each program of it meets all four:
`new D(0, 1)` prints 3, 1 and yields 0 where 1, 3 and 1 are meant, and `new F(0, 2)` prints
nothing and fails where A's parameters are loaded, instead of printing 2 and 2. The types
of run `lowering` keep clear of all four, which is why that run passes.
FunctionOrderIrrelevant and ParamInferenceIsSafe are what does hold of 4 and 3,
ReportsFaults of 8.

`docs/EXTENSIONS.md` 73 and 118 call subtyping of interfaces nominal: a type conforms
only if it declares `implements`. `conforms` (`types.rs` 305, 364) also takes a type whose
methods match, as its own comment says. No run is about that sentence of the document;
ConformanceIsOrder is about the order with both ways in it.

## 7. The plan

Done, in this order, because memory safety of the machine is what everything else
rests on: Heap, Vm, VmCode, with their proofs; then what is compiled (Lowering,
ProgramLowering against Evaluator); the first pass of analysis (Hierarchy), with
proofs; the other passes (StaticTypes to TypeSafety); the driver, with proofs; the
discipline of all lowered code.

Left:

1. That the type `lca` chooses is the least common one, for every hierarchy of types.
   HierarchyProofs proves it of the walk along parents (CommonAncestorsAreLeast);
   conformance to interfaces, which the rest of `lca` consults, is recursive and stays
   with `analysis`.
2. Names that collide (`ir` 1154), as an instance beside `lowering`.
3. Programs of `analysis` with two interfaces that classes implement at once.

## 8. What is not modelled, and why

* Lexer and parser: generated automata over text (logos, LALRPOP) without state
  between calls. The syntax tree they produce is where the models of analysis and
  lowering begin; Driver has of them that they stop at the first wrong token. The
  grammar's desugaring of a `let` with several bindings is not modelled.
* Two commands at a time in one directory: nothing in `main.rs` expects it, and the
  contract's `./output` belongs to one compilation.
* Which of several errors of a kind is reported, and where: an error of analysis is its
  kind, except in Driver, where positions are the question.
* Floating-point results, the text of strings and the generator behind `rand` are
  abstracted to small sets or choices: no property is about them.
* Messages, spans, formatting and the textual dump of code.
* `live_count` and other observers that only tests call.
* The cache of label tables (`vm`), which memoises a pure function.
