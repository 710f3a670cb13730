------------------------------ MODULE Lowering ------------------------------
(***************************************************************************)
(* hulk-ir: from the declarations and expressions of a program to the code *)
(* of the virtual machine. What the source passes along by reference, the  *)
(* code emitted so far and the counter that keeps labels and hidden        *)
(* variables apart, is the state s of a lowering here. An expression is    *)
(* lowered to a function from the counter before to the code it adds and   *)
(* the counter after: only its labels and hidden variables depend on where *)
(* it stands. A label is the name and the number the source glues together *)
(* to a string, which gives a different one for each.                      *)
(***************************************************************************)
EXTENDS HulkValues, HulkAst, Sequences
LOCAL INSTANCE TLC

CONSTANTS
  Nesting,   \* how deep expressions nest
  TypeRef    \* the references to types that they mention

ASSUME NestingAssumption == Nesting \in Nat

\* The expressions that nest no deeper than so many times.
Exprs[d \in 0 .. Nesting] == IF d = 0 THEN {} ELSE Forms(Exprs[d - 1], Value, TypeRef)

Glue(prefix, n) == prefix \o ToString(n)

\* Instructions; the operand's name is that of VmCode's Instruction.
Plain(op)       == [op |-> op]
Lit(v)          == [op |-> "Literal", val |-> v]
OnVar(op, n)    == [op |-> op, name |-> n]
OnLabel(op, l)  == [op |-> op, label |-> l]
OnField(op, f)  == [op |-> op, field |-> f]
OnType(op, t)   == [op |-> op, type |-> t]
MakeVec(n)      == [op |-> "MakeVector", size |-> n]
CallTo(f, n)    == [op |-> "Call", fn |-> f, argc |-> n]
CallOn(m, n)    == [op |-> "CallMethod", method |-> m, argc |-> n]
CallUp(t, m, n) == [op |-> "CallBase", type |-> t, method |-> m, argc |-> n]

\* Nothing emitted, the counter at n. A construct that takes an id for itself, as
\* Ctx::next gives it, has id n and starts at n + 1.
Start(n) == [code |-> <<>>, counter |-> n]

Emit(s, instrs) == [code |-> s.code \o instrs, counter |-> s.counter]

\* The code of a part, and what lowers several in their order.
Inner(part, s) ==
  LET t == part[s.counter] IN [code |-> s.code \o t.code, counter |-> t.counter]

InTurn(parts, s) ==
  LET upto[k \in 0 .. Len(parts)] == IF k = 0 THEN s ELSE Inner(parts[k], upto[k - 1])
  IN  upto[Len(parts)]

\* A part of these instructions alone, and a part with these behind it.
Only(instrs)       == [n \in Nat |-> Emit(Start(n), instrs)]
Followed(part, instrs) == [n \in Nat |-> Emit(part[n], instrs)]

\* low gives each of the expressions inside of the one at hand its code.
LowerAll(low, es, s) == InTurn([k \in DOMAIN es |-> low[es[k]]], s)

\* An attribute's initialiser, and the field it sets.
LowerAttrs(low, attrs, s) ==
  InTurn([k \in DOMAIN attrs |->
           Followed(low[attrs[k].init],
                <<OnVar("LoadVar", "__self"), OnField("SetField", attrs[k].name), Plain("Pop")>>)], s)
-----------------------------------------------------------------------------
(* Control flow. *)

\* Mutant: no copy of a is made for the test.
LowerAndBare(low, e, n) ==
  LET end  == <<"and_end", n>>
      test == Emit(Inner(low[e.lhs], Start(n + 1)), <<OnLabel("JumpIfFalse", end), Plain("Pop")>>)
  IN  Emit(Inner(low[e.rhs], test), <<OnLabel("Label", end)>>)

\* `a & b`: a copy of a is the result if it is false.
LowerAnd(low, e, n) ==
  LET end  == <<"and_end", n>>
      test == Emit(Inner(low[e.lhs], Start(n + 1)),
                   <<Plain("Dup"), OnLabel("JumpIfFalse", end), Plain("Pop")>>)
  IN  Emit(Inner(low[e.rhs], test), <<OnLabel("Label", end)>>)

\* `a | b`: a copy of a is the result if it is true.
LowerOr(low, e, n) ==
  LET rhs  == <<"or_rhs", n>>
      end  == <<"or_end", n>>
      test == Emit(Inner(low[e.lhs], Start(n + 1)),
                   <<Plain("Dup"), OnLabel("JumpIfFalse", rhs), OnLabel("Jump", end)>>)
      other == Emit(test, <<OnLabel("Label", rhs), Plain("Pop")>>)
  IN  Emit(Inner(low[e.rhs], other), <<OnLabel("Label", end)>>)

\* One condition and its branch; otherwise the code goes on at label next.
LowerCase(low, c, e, next, end, s) ==
  Emit(Inner(low[e], Emit(Inner(low[c], s), <<OnLabel("JumpIfFalse", next)>>)),
       <<OnLabel("Jump", end)>>)

LowerIf(low, e, n) ==
  LET end     == <<"end_if", n>>
      other   == <<"else", n>>
      elif(k) == <<"elif", n, k - 1>>
      next(k) == IF k < Len(e.elifs) THEN elif(k + 1) ELSE other
      first   == LowerCase(low, e.cond, e.then, next(0), end, Start(n + 1))
      cases   == InTurn([k \in DOMAIN e.elifs |-> [m \in Nat |->
                          LowerCase(low, e.elifs[k][1], e.elifs[k][2], next(k), end,
                                    Emit(Start(m), <<OnLabel("Label", elif(k))>>))]], first)
  IN  Emit(Inner(low[e.else], Emit(cases, <<OnLabel("Label", other)>>)), <<OnLabel("Label", end)>>)

\* Mutant: a round jumps back behind the test.
LowerWhileUntested(low, e, n) ==
  LET start == <<"loop_start", n>>
      end   == <<"loop_end", n>>
      test  == Emit(Inner(low[e.cond], Emit(Start(n + 1), <<Lit(Nil)>>)),
                    <<OnLabel("JumpIfFalse", end), OnLabel("Label", start), Plain("Pop")>>)
  IN  Emit(Inner(low[e.body], test), <<OnLabel("Jump", start), OnLabel("Label", end)>>)

\* Mutant: the value of the last round stays below that of the next.
LowerWhilePiling(low, e, n) ==
  LET start == <<"loop_start", n>>
      end   == <<"loop_end", n>>
      top   == Emit(Start(n + 1), <<Lit(Nil), OnLabel("Label", start)>>)
      test  == Emit(Inner(low[e.cond], top), <<OnLabel("JumpIfFalse", end)>>)
  IN  Emit(Inner(low[e.body], test), <<OnLabel("Jump", start), OnLabel("Label", end)>>)

\* The value of the last round, which the next round drops, is the loop's value.
LowerWhile(low, e, n) ==
  LET start == <<"loop_start", n>>
      end   == <<"loop_end", n>>
      top   == Emit(Start(n + 1), <<Lit(Nil), OnLabel("Label", start)>>)
      test  == Emit(Inner(low[e.cond], top), <<OnLabel("JumpIfFalse", end), Plain("Pop")>>)
  IN  Emit(Inner(low[e.body], test), <<OnLabel("Jump", start), OnLabel("Label", end)>>)

\* while (it.next()), and the scope of a round with its variable.
AskNext(s, it, start, end) ==
  Emit(s, <<OnLabel("Label", start), OnVar("LoadVar", it), CallOn("next", 0),
            OnLabel("JumpIfFalse", end)>>)
BindCurrent(s, it, var) ==
  Emit(s, <<Plain("BeginScope"), OnVar("LoadVar", it), CallOn("current", 0), OnVar("BindVar", var)>>)

LowerFor(low, e, n) ==
  LET start  == <<"for_start", n>>
      end    == <<"for_end", n>>
      it     == Glue("__for_iter_", n)
      source == Inner(low[e.iter], Emit(Start(n + 1), <<Plain("BeginScope")>>))
      open   == Emit(source, <<CallOn("iter", 0), OnVar("BindVar", it), Lit(Nil)>>)
      round  == BindCurrent(Emit(AskNext(open, it, start, end), <<Plain("Pop")>>), it, e.var)
  IN  Emit(Inner(low[e.body], round),
           <<Plain("EndScope"), OnLabel("Jump", start), OnLabel("Label", end), Plain("EndScope")>>)

\* [elem | x in source]: a vector that grows by one element a round.
LowerComp(low, e, n) ==
  LET start  == <<"comp_start", n>>
      end    == <<"comp_end", n>>
      acc    == Glue("__comp_acc_", n)
      it     == Glue("__comp_iter_", n)
      empty  == Emit(Start(n + 1), <<Plain("BeginScope"), MakeVec(0), OnVar("BindVar", acc)>>)
      open   == Emit(Inner(low[e.iter], empty), <<CallOn("iter", 0), OnVar("BindVar", it)>>)
      round  == BindCurrent(AskNext(open, it, start, end), it, e.var)
      grown  == Emit(Inner(low[e.elem], round),
                     <<OnVar("LoadVar", acc), Plain("VecPush"), Plain("EndScope")>>)
  IN  Emit(grown, <<OnLabel("Jump", start), OnLabel("Label", end), OnVar("LoadVar", acc),
                    Plain("EndScope")>>)
-----------------------------------------------------------------------------
(* Expressions. *)

BuiltinOp == [print |-> "Print", sqrt |-> "Sqrt", sin |-> "Sin", cos |-> "Cos", exp |-> "Exp",
              log |-> "Log", rand |-> "Rand"]

LowerCall(low, e, n) ==
  Emit(LowerAll(low, e.args, Start(n)),
       << IF e.name \in DOMAIN BuiltinOp THEN Plain(BuiltinOp[e.name])
          ELSE IF e.name = "range" THEN CallTo("__builtin_range", 2)
          ELSE CallTo(e.name, Len(e.args)) >>)

\* All but the last value are dropped.
LowerBlock(low, e, n) ==
  IF e.exprs = <<>> THEN Emit(Start(n), <<Lit(Nil)>>)
  ELSE InTurn([k \in DOMAIN e.exprs |->
                IF k < Len(e.exprs) THEN Followed(low[e.exprs[k]], <<Plain("Pop")>>) ELSE low[e.exprs[k]]],
              Start(n))

LowerLet(low, e, n) ==
  LET bound == Emit(Inner(low[e.init], Emit(Start(n), <<Plain("BeginScope")>>)), <<OnVar("BindVar", e.name)>>)
  IN  Emit(Inner(low[e.body], bound), <<Plain("EndScope")>>)

\* The one instruction of an expression without parts.
LeafOf(e) ==
  CASE e.kind = "Literal" -> Lit(e.val)
    [] e.kind = "SelfExpr" -> OnVar("LoadVar", "self")
    [] e.kind = "Ident" ->
         CASE e.name = "PI" -> Lit(PI) [] e.name = "E" -> Lit(E) [] OTHER -> OnVar("LoadVar", e.name)

\* The parts of which all values are operands, in the order of the stack.
Operands(e) ==
  CASE e.kind = "BinOp" -> <<e.lhs, e.rhs>>
    [] e.kind \in {"UnOp", "Is", "As"} -> <<e.arg>>
    [] e.kind = "Assign" -> <<e.val>>
    [] e.kind = "AssignField" -> <<e.val, e.obj>>
    [] e.kind = "GetField" -> <<e.obj>>
    [] e.kind = "Index" -> <<e.obj, e.index>>
    [] e.kind = "Vector" -> e.elems
    [] e.kind = "MethodCall" -> Append(e.args, e.obj)
    [] e.kind \in {"New", "Base"} -> e.args

\* The instructions behind them. at: what Ctx says of the method whose body this is.
Finish(e, at) ==
  CASE e.kind \in {"BinOp", "UnOp"} -> <<Plain(e.op)>>
    [] e.kind = "Is" -> <<OnType("IsType", BaseName(e.ref))>>
    [] e.kind = "As" -> <<OnType("AsType", BaseName(e.ref))>>
    [] e.kind = "Assign" -> <<Plain("Dup"), OnVar("StoreVar", e.name)>>
    [] e.kind = "AssignField" -> <<OnField("SetField", e.field)>>
    [] e.kind = "GetField" -> <<OnField("GetField", e.field)>>
    [] e.kind = "Index" -> <<Plain("Index")>>
    [] e.kind = "Vector" -> <<MakeVec(Len(e.elems))>>
    [] e.kind = "MethodCall" -> <<CallOn(e.method, Len(e.args))>>
    [] e.kind = "New" -> <<CallTo("__ctor_" \o e.type, Len(e.args))>>
    [] e.kind = "Base" -> <<OnVar("LoadVar", "self"), CallUp(at.parent, at.method, Len(e.args))>>

LowerInner(low, e, n, at) ==
  CASE e.kind \in {"Literal", "Ident", "SelfExpr"} -> Emit(Start(n), <<LeafOf(e)>>)
    [] e.kind = "BinOp" /\ e.op = "And" -> LowerAnd(low, e, n)
    [] e.kind = "BinOp" /\ e.op = "Or" -> LowerOr(low, e, n)
    [] e.kind = "Let" -> LowerLet(low, e, n)
    [] e.kind = "Block" -> LowerBlock(low, e, n)
    [] e.kind = "If" -> LowerIf(low, e, n)
    [] e.kind = "While" -> LowerWhile(low, e, n)
    [] e.kind = "Call" -> LowerCall(low, e, n)
    [] e.kind = "For" -> LowerFor(low, e, n)
    [] e.kind = "VectorComp" -> LowerComp(low, e, n)
    [] OTHER -> Emit(LowerAll(low, Operands(e), Start(n)), Finish(e, at))

\* All expressions, from the inside out.
Lowered(at) ==
  LET upto[d \in 0 .. Nesting] ==
        IF d = 0 THEN <<>>
        ELSE [e \in Exprs[d] |-> [n \in Nat |-> LowerInner(upto[d - 1], e, n, at)]]
  IN  upto[Nesting]

\* Ctx outside of methods: there is no parent and no method.
NoMethod == [method |-> "", parent |-> ""]
=============================================================================
