--------------------------- MODULE ProgramLowering ---------------------------
(***************************************************************************)
(* hulk-ir's lower_program: functions, constructors, methods and built-in  *)
(* types of a program, as the tables the virtual machine loads. A table is *)
(* filled by insertions: one that comes later replaces an entry of the     *)
(* same name.                                                              *)
(***************************************************************************)
EXTENDS Lowering

\* An entry of a table of functions: the name, and the function.
IrFunc(n, params, body) == [name |-> n, params |-> params, body |-> body]

Insert(table, f) == [n \in DOMAIN table \union {f.name} |-> IF n = f.name THEN f ELSE table[n]]

\* The code of an expression and the end of the function.
BodyOf(e, at) == Emit(Lowered(at)[e][0], <<Plain("Ret")>>).code

LowerFunc(decl) == IrFunc(decl.name, decl.params, BodyOf(decl.body, NoMethod))

FuncOfMethod(t, m) == "__method_" \o t \o "_" \o m

LowerMethod(type, decl) ==
  IrFunc(FuncOfMethod(type.name, decl.name), <<"self">> \o decl.params,
         BodyOf(decl.body, [method |-> decl.name, parent |-> type.parent.name]))
-----------------------------------------------------------------------------
(* Constructors. *)

\* The declaration of a type among those of a program; Object has none.
Declared(t, types) == \E k \in DOMAIN types : types[k].name = t
DeclOf(t, types)   == types[CHOOSE k \in DOMAIN types : types[k].name = t]

\* From the type up to its root ancestor, which is at most as far as there are types.
Ancestry(type, types) ==
  LET upto[k \in 0 .. Len(types)] ==
        IF k = 0 THEN <<type>>
        ELSE LET up == upto[k - 1][Len(upto[k - 1])].parent.name
             IN  IF Declared(up, types) THEN Append(upto[k - 1], DeclOf(up, types)) ELSE upto[k - 1]
  IN  upto[Len(types)]

\* Mutant: the parameters are the type's own, nothing is forwarded.
EffectiveParamsOwn(type, types) == type.params

\* A type without parameters whose parent has no argument list takes its parent's.
EffectiveParams(type, types) ==
  LET chain == Ancestry(type, types)
      own   == { k \in DOMAIN chain : chain[k].params # <<>> \/ chain[k].parent.explicit }
  IN  IF own = {} THEN <<>> ELSE chain[CHOOSE k \in own : \A j \in own : k <= j].params

\* The parameters of an ancestor are bound from the child's `inherits` clause:
\* to its arguments, as many as both have, or to variables of the same names.
BindParams(low, child, ancestor, s) ==
  LET params == ancestor.params
      args   == child.parent.args
  IN  IF child.parent.explicit
        THEN InTurn([k \in 1 .. (IF Len(params) < Len(args) THEN Len(params) ELSE Len(args)) |->
                      Followed(low[args[k]], <<OnVar("BindVar", params[k])>>)], s)
        ELSE InTurn([k \in 1 .. Len(params) |->
                      Only(<<OnVar("LoadVar", params[k]), OnVar("BindVar", params[k])>>)], s)

\* One link up the ancestry.
LowerLink(low, child, ancestor, s) ==
  LowerAttrs(low, ancestor.attrs, BindParams(low, child, ancestor, Emit(s, <<Plain("BeginScope")>>)))

\* The leaf's attributes, then those of its ancestors, each one scope further in.
LowerConstructor(type, types) ==
  LET low   == Lowered(NoMethod)
      chain == Ancestry(type, types)
      start == Emit(Start(0), <<OnType("NewObject", type.name), Plain("BeginScope"),
                                OnVar("BindVar", "__self")>>)
      links == InTurn([k \in 1 .. Len(chain) - 1 |-> [n \in Nat |->
                        LowerLink(low, chain[k], chain[k + 1], Start(n))]],
                      LowerAttrs(low, type.attrs, start))
      close == [k \in 1 .. Len(chain) |-> Plain("EndScope")]
  IN  IrFunc("__ctor_" \o type.name, EffectiveParams(type, types),
             Emit(Emit(Emit(links, <<OnVar("LoadVar", "__self")>>), close), <<Plain("Ret")>>).code)
-----------------------------------------------------------------------------
(* Built-in functions and types, written by hand. *)

Get(f)        == <<OnVar("LoadVar", "self"), OnField("GetField", f)>>
Set(obj, f)   == <<OnVar("LoadVar", obj), OnField("SetField", f), Plain("Pop")>>
Create(t, as) == <<OnType("NewObject", t), Plain("BeginScope"), OnVar("BindVar", as)>>
Give(obj)     == <<OnVar("LoadVar", obj), Plain("EndScope"), Plain("Ret")>>
Advance(f)    == Get(f) \o <<Lit(NumV(1)), Plain("Add")>> \o Set("self", f)

RangeBuiltins ==
  << IrFunc("__builtin_range", <<"__lo", "__hi">>,
       Create("Range", "__self")
         \o <<OnVar("LoadVar", "__lo"), Lit(NumV(1)), Plain("Sub")>> \o Set("__self", "current")
         \o <<OnVar("LoadVar", "__hi")>> \o Set("__self", "hi") \o Give("__self")),
     IrFunc("__method_Range_next", <<"self">>,
       Advance("current") \o Get("current") \o Get("hi") \o <<Plain("Lt"), Plain("Ret")>>),
     IrFunc("__method_Range_current", <<"self">>, Get("current") \o <<Plain("Ret")>>) >>

VectorBuiltins ==
  << IrFunc("__vec_size", <<"self">>, Get("__len") \o <<Plain("Ret")>>),
     IrFunc("__vec_iter", <<"self">>,
       Create("__VectorIter", "__it")
         \o <<OnVar("LoadVar", "self")>> \o Set("__it", "__vec")
         \o <<Lit(NumV(-1))>> \o Set("__it", "__cursor") \o Give("__it")),
     IrFunc("__veciter_next", <<"self">>,
       Advance("__cursor") \o Get("__cursor") \o Get("__vec")
         \o <<OnField("GetField", "__len"), Plain("Lt"), Plain("Ret")>>),
     IrFunc("__veciter_current", <<"self">>,
       Get("__vec") \o Get("__cursor") \o <<Plain("Index"), Plain("Ret")>>) >>

\* An entry of the table of types: method name |-> function name.
BuiltinTypes ==
  << [name |-> "Range", parent |-> "Object",
      methods |-> [next |-> "__method_Range_next", current |-> "__method_Range_current"]],
     [name |-> "__Vector", parent |-> "Object",
      methods |-> [size |-> "__vec_size", iter |-> "__vec_iter"]],
     [name |-> "__VectorIter", parent |-> "Object",
      methods |-> [next |-> "__veciter_next", current |-> "__veciter_current"]] >>
-----------------------------------------------------------------------------
(* Programs: functions, types and, here, any number of entry expressions. *)

LowerType(type) ==
  [name |-> type.name, parent |-> type.parent.name,
   methods |-> [m \in { type.methods[k].name : k \in DOMAIN type.methods } |->
                  FuncOfMethod(type.name, m)]]

\* The constructor and the methods of a type, in the order they are inserted.
FuncsOfType(type, types) ==
  <<LowerConstructor(type, types)>> \o [k \in DOMAIN type.methods |-> LowerMethod(type, type.methods[k])]

\* One function after another.
InsertAll(table, funcs) == Fold(Insert, table, funcs)

LowerFuncs(functions, types) ==
  LET global == InsertAll(<<>>, [k \in DOMAIN functions |-> LowerFunc(functions[k])])
      own    == Fold(LAMBDA table, type : InsertAll(table, FuncsOfType(type, types)), global, types)
  IN  InsertAll(own, RangeBuiltins \o VectorBuiltins)

LowerTypes(types) ==
  InsertAll(<<>>, [k \in DOMAIN types |-> LowerType(types[k])] \o BuiltinTypes)

LowerEntry(e) == BodyOf(e, NoMethod)
-----------------------------------------------------------------------------
(* What lower_program relies on: declarations whose bodies, initialisers and   *)
(* arguments are expressions. Names may be anything, and may occur twice.      *)

IsList(es) == Len(es) \in Nat /\ DOMAIN es = 1 .. Len(es) /\ (es = <<>>) = (Len(es) = 0)

AreAttrs(attrs) == IsList(attrs) /\ \A k \in 1 .. Len(attrs) : attrs[k].init \in Exprs[Nesting]

IsTypeDecl(t) ==
  /\ IsList(t.params) /\ AreAttrs(t.attrs)
  /\ IsList(t.parent.args) /\ \A k \in 1 .. Len(t.parent.args) : t.parent.args[k] \in Exprs[Nesting]
  /\ IsList(t.methods) /\ \A k \in 1 .. Len(t.methods) : t.methods[k].body \in Exprs[Nesting]

AreTypes(types) == IsList(types) /\ \A k \in 1 .. Len(types) : IsTypeDecl(types[k])

AreFunctions(functions) ==
  IsList(functions) /\ \A k \in 1 .. Len(functions) : functions[k].body \in Exprs[Nesting]

\* code is what lower_program makes of these declarations, entries what it makes of exprs.
IsLowered(code, entries, functions, types, exprs) ==
  /\ AreFunctions(functions) /\ AreTypes(types)
  /\ DOMAIN code = DOMAIN LowerFuncs(functions, types)
  /\ \A b \in DOMAIN code : code[b] = LowerFuncs(functions, types)[b].body
  /\ \A b \in DOMAIN entries : exprs[b] \in Exprs[Nesting] /\ entries[b] = LowerEntry(exprs[b])
=============================================================================
