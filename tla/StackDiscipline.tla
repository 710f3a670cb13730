--------------------------- MODULE StackDiscipline ---------------------------
(***************************************************************************)
(* What code must be like for the machine to run it without ever missing   *)
(* an operand or a scope. The lowering keeps an unwritten contract with    *)
(* the machine, which checks almost none of it: every expression leaves    *)
(* one value, whichever way the code goes through it, and closes the       *)
(* scopes it opened. Here the contract is written down: a shape says for   *)
(* every instruction of some code how many values are on the stack and how *)
(* many scopes are open when it runs.                                      *)
(***************************************************************************)
EXTENDS VmCode

CONSTANT
  ShapeIn(_, _)   \* a shape for some code, that starts with so many scopes

Shape == [height : Nat, depth : Nat]

\* The values an instruction pops, and the values it pushes, unless it fails.
Takes(i) ==
  CASE i.op \in {"Literal", "Rand", "LoadVar", "NewObject", "BeginScope", "EndScope",
                 "Label", "Jump", "Ret"}                          -> 0
    [] i.op \in {"Pop", "Dup", "StoreVar", "BindVar", "JumpIfFalse",
                 "GetField", "IsType", "AsType"}                  -> 1
    [] i.op \in {"SetField", "Index", "VecPush"}                  -> 2
    [] i.op = "MakeVector"                                        -> i.size
    [] i.op = "Call"                                              -> i.argc
    [] i.op \in {"CallMethod", "CallBase"}                        -> i.argc + 1
    [] OTHER                                                      -> Len(Kinds(i.op))

Gives(i) ==
  CASE i.op \in {"Pop", "StoreVar", "BindVar", "JumpIfFalse", "VecPush", "BeginScope",
                 "EndScope", "Label", "Jump", "Ret"}              -> 0
    [] i.op = "Dup"                                               -> 2
    [] OTHER                                                      -> 1

Opens(i) == IF i.op = "BeginScope" THEN 1 ELSE IF i.op = "EndScope" THEN -1 ELSE 0

After(i, s) ==
  [height |-> s.height - Takes(i) + Gives(i), depth |-> s.depth + Opens(i)]

\* The label l that resolve_labels keeps is at j.
IsTarget(code, j, l) ==
  /\ code[j].op = "Label" /\ code[j].label = l
  /\ \A m \in DOMAIN code : code[m].op = "Label" /\ code[m].label = l => m <= j

\* All ways to an instruction agree on what they leave there, its operands are
\* among it, no scope is closed but one that was opened, and in the end there is
\* one value. A function starts with the scope of its parameters: its floor is 1.
Disciplined(code, floor, shape) ==
  LET end == [height |-> 1, depth |-> floor]
  IN  /\ shape \in [1 .. Len(code) + 1 -> Shape]
      /\ shape[1] = [height |-> 0, depth |-> floor]
      /\ shape[Len(code) + 1] = end
      /\ \A k \in DOMAIN code :
           /\ Takes(code[k]) <= shape[k].height
           /\ code[k].op = "EndScope" => shape[k].depth > floor
           /\ code[k].op = "BindVar" => shape[k].depth > 0
           /\ code[k].op = "Ret" => shape[k] = end
           /\ code[k].op \notin {"Jump", "Ret"} => shape[k + 1] = After(code[k], shape[k])
           /\ code[k].op \in {"Jump", "JumpIfFalse"} =>
                \E j \in DOMAIN code :
                  IsTarget(code, j, code[k].label) /\ shape[j] = After(code[k], shape[k])

\* (The bound variable is for TLC, which would compute the table for each entry.)
AllDisciplined(table, floor) ==
  \A t \in {table} : \A b \in DOMAIN t :
    \E shape \in {ShapeIn(t[b], floor)} : Disciplined(t[b], floor, shape)

\* Every function, method and constructor, and every program, keeps the contract.
CodeIsDisciplined == AllDisciplined(Code, 1) /\ AllDisciplined(EntryCode, 0)
-----------------------------------------------------------------------------
(* What disciplined code is promised. *)

Floor(b)   == IF b = NoFunc THEN 0 ELSE 1
ShapeOf(b) == ShapeIn(CodeOf(b), Floor(b))

\* There are as many values and scopes as the shape of code b has for instruction i.
HasShape(n, d, b, i) == n = ShapeOf(b)[i].height /\ d = ShapeOf(b)[i].depth

\* Whichever branch, round of a loop or short circuit leads to an instruction, and
\* whatever was called on the way, it finds the same number of values and scopes:
\* those the contract has for it, which all code keeps.
WaysAgree ==
  CodeIsDisciplined /\ (status = "running" => HasShape(Len(stack), Len(scopes), block, ip))

LeavesOneValue ==
  /\ Ready /\ (Exhausted \/ Current.op = "Ret") => Len(stack) = 1 /\ Len(scopes) = Floor(block)
  /\ status = "done" => Len(stack) = 1 /\ scopes = <<>>

NeverUnderflows ==
  /\ error \notin {"StackUnderflow", "UndefinedLabel"}
  /\ At({"BindVar"}) => scopes # <<>>
  /\ At({"EndScope"}) => Len(scopes) > Floor(block)

\* Code that ends, of a function or of a program, by a Ret or behind its last
\* instruction, has exactly one value on its stack, which is what the caller gets,
\* and has closed every scope it opened; a program that is done has left its value
\* and no scope. And until then the machine's ways out for broken code are never taken,
\* whatever the values, calls, collections and errors: no instruction finds the stack
\* too short, no jump misses its label, no binding has to make a scope of its own, and
\* no scope is closed that is not the code's own.
KeepsContract == LeavesOneValue /\ NeverUnderflows
=============================================================================
