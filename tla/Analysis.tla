------------------------------- MODULE Analysis -------------------------------
(***************************************************************************)
(* analyze: collect, sign, the three inferences and the three checks of a  *)
(* program, one declaration at a time. collect is Hierarchy; the turns of  *)
(* the other passes are those of Inference.                                *)
(***************************************************************************)
EXTENDS Inference
LOCAL INSTANCE TLC

CONSTANT Sources   \* the programs that may be analysed

VARIABLES
  source,     \* the program
  phase, k,   \* the pass that runs, and the declaration it is at
  left,       \* how many rounds the pass has left, with the one that runs
  changed,    \* whether this round has changed a signature
  sites,      \* ctor_arg_obs of this round
  checker,    \* the Checker after collect: ctx, errors, crashed
  pass, at, parent, interfaces, functions, errors, unchecked, start, cur, seen   \* those of Hierarchy

\* What collect looks at.
Skeleton(p) ==
  [types |-> [j \in DOMAIN p.types |-> [name |-> p.types[j].name, parent |-> p.types[j].parent.name]],
   interfaces |-> [j \in DOMAIN p.interfaces |-> p.interfaces[j].name],
   functions |-> [j \in DOMAIN p.functions |-> p.functions[j].name]]

Skeletons ==
  [types : Seq([name : STRING, parent : STRING]), interfaces : Seq(STRING), functions : Seq(STRING)]

Collect == INSTANCE Hierarchy WITH
  program <- Skeleton(source), Programs <- Skeletons, Identifier <- STRING

collectVars == <<pass, at, parent, interfaces, functions, errors, unchecked, start, cur, seen>>
vars == <<source, phase, k, left, changed, sites, checker, collectVars>>
Verdicts == {"accepted", "rejected", "aborted"}
-----------------------------------------------------------------------------
(* collect, and what it leaves. *)

Takes(params, returns) == [params |-> params, returns |-> returns]

BuiltinSigs ==
  [print |-> Takes(<<ObjectT>>, ObjectT), rand |-> Takes(<<>>, NumberT),
   range |-> Takes(<<NumberT, NumberT>>, ObjectT), log |-> Takes(<<NumberT, NumberT>>, NumberT)]
  @@ [f \in {"sqrt", "sin", "cos", "exp"} |-> Takes(<<NumberT>>, NumberT)]

\* Of two declarations of one name the first is registered.
Registered(decls, names, Entry(_)) ==
  Fold(LAMBDA m, d : IF d.name \in names THEN m @@ (d.name :> Entry(d)) ELSE m, <<>>, decls)

CollectedCtx ==
  LET type(d) == [parent |-> parent[d.name], generic |-> d.generic, ctor |-> <<>>,
                  explicit |-> d.parent.explicit, implements |-> <<>>, attrs |-> <<>>, methods |-> <<>>]
  IN  [types |-> Registered(source.types, DOMAIN parent, type),
       interfaces |-> Registered(source.interfaces, interfaces,
                                 LAMBDA i : [generic |-> i.generic, extends |-> <<>>, methods |-> <<>>]),
       funcs |-> BuiltinSigs @@ Registered(source.functions, functions,
                                 LAMBDA f : Takes([j \in DOMAIN f.params |-> ObjectT], ObjectT))]

CollectStep ==
  /\ phase = "collect"
  /\ UNCHANGED <<source, phase, k, left, changed, sites, checker>>
  /\ Collect!Next

CollectDone ==
  /\ phase = "collect" /\ pass = "done"
  /\ phase' = "functions"
  /\ checker' = [Fresh(CollectedCtx) EXCEPT !.errors = { e[1] : e \in errors }]
  /\ UNCHANGED <<source, k, left, changed, sites, collectVars>>
-----------------------------------------------------------------------------
(* One turn of a pass. *)

AtDecl(p, decls) == phase = p /\ ~ checker.crashed /\ k \in DOMAIN decls

Leaves(c) ==
  /\ checker' = c
  /\ changed' = (changed \/ c.ctx # checker.ctx)
  /\ k' = k + 1
  /\ UNCHANGED <<source, phase, left, sites, collectVars>>

SignFunctionTurn  == AtDecl("functions", source.functions) /\ Leaves(SignFunction(source.functions[k], checker))
SignTypeTurn      == AtDecl("types", source.types) /\ Leaves(SignType(source.types[k], checker))
SignInterfaceTurn == AtDecl("interfaces", source.interfaces) /\ Leaves(SignInterface(source.interfaces[k], checker))

ObserveTurn ==
  LET observed(run) == sites' = run.seen[1] /\ checker' = Discarding(checker, run)
  IN  /\ phase = "observe" /\ ~ checker.crashed
      /\ observed(ObserveNewSites(source, checker))
      /\ phase' = "narrow"
      /\ UNCHANGED <<source, k, left, changed, collectVars>>

NarrowTurn    == AtDecl("narrow", source.types) /\ Leaves(NarrowCtor(source.types[k], sites, checker))
ParamsTurn    == AtDecl("params", Units(source)) /\ Leaves(InferParams(Units(source)[k], checker))
ReturnTurn    == AtDecl("returns", Units(source)) /\ Leaves(InferReturn(Units(source)[k], checker))
InterfaceTurn == AtDecl("implements", source.types) /\ Leaves(CheckInterfaces(source.types[k], checker))
OverrideTurn  == AtDecl("overrides", source.types) /\ Leaves(CheckOverrides(source.types[k], checker))

FunctionBodyTurn ==
  AtDecl("bodies", source.functions) /\ Leaves(CheckBody(FunctionUnits(source)[k], checker))

MethodBodies(d, c) == Fold(LAMBDA b, unit : CheckBody(unit, b), c, MethodUnits(d))

TypeBodyTurn ==
  AtDecl("members", source.types) /\ Leaves(MethodBodies(source.types[k], CheckType(source.types[k], checker)))
-----------------------------------------------------------------------------
(* From pass to pass. *)

Follows ==
  [functions |-> "types", types |-> "interfaces", interfaces |-> "observe", narrow |-> "params",
   params |-> "returns", returns |-> "implements", implements |-> "overrides", overrides |-> "bodies",
   bodies |-> "members", members |-> "entry"]

DeclsOf(p) ==
  CASE p \in {"functions", "bodies"} -> source.functions
    [] p = "interfaces" -> source.interfaces
    [] p \in {"params", "returns"} -> Units(source)
    [] OTHER -> source.types

RoundsOf(p) ==
  CASE p = "observe" -> CtorRounds(source)
    [] p = "params"  -> ParamRounds(source)
    [] p = "returns" -> ReturnRounds(source)
    [] OTHER -> 1

PassOver == phase \in DOMAIN Follows /\ ~ checker.crashed /\ k = Len(DeclsOf(phase)) + 1

\* A round that changed something is followed by another, up to the bound.
Again == phase \in {"narrow", "params", "returns"} /\ changed /\ left > 1

NextRound ==
  /\ PassOver /\ Again
  /\ phase' = IF phase = "narrow" THEN "observe" ELSE phase
  /\ k' = 1 /\ left' = left - 1 /\ changed' = FALSE
  /\ UNCHANGED <<source, sites, checker, collectVars>>

NextPass ==
  LET next == IF phase = "interfaces" /\ CtorRounds(source) = 0 THEN "params" ELSE Follows[phase]
  IN  /\ PassOver /\ ~ Again
      /\ phase' = next
      /\ k' = 1 /\ left' = RoundsOf(next) /\ changed' = FALSE
      /\ UNCHANGED <<source, sites, checker, collectVars>>

\* The entry expression, and the verdict.
EntryTurn ==
  /\ phase = "entry" /\ ~ checker.crashed
  /\ checker' = CheckEntry(source, checker)
  /\ phase' = IF checker'.crashed THEN "entry" ELSE IF checker'.errors = {} THEN "accepted" ELSE "rejected"
  /\ UNCHANGED <<source, k, left, changed, sites, collectVars>>

\* A panic, or a stack without end: no verdict.
Crash ==
  /\ phase \notin {"collect", "aborted"} /\ checker.crashed
  /\ phase' = "aborted"
  /\ UNCHANGED <<source, k, left, changed, sites, checker, collectVars>>

Init ==
  /\ source \in Sources
  /\ phase = "collect" /\ k = 1 /\ left = 1 /\ changed = FALSE /\ sites = <<>>
  /\ checker = Fresh([types |-> <<>>, interfaces |-> <<>>, funcs |-> BuiltinSigs])
  /\ Collect!Init

Next ==
  \/ CollectStep \/ CollectDone
  \/ SignFunctionTurn \/ SignTypeTurn \/ SignInterfaceTurn
  \/ ObserveTurn \/ NarrowTurn \/ ParamsTurn \/ ReturnTurn
  \/ InterfaceTurn \/ OverrideTurn \/ FunctionBodyTurn \/ TypeBodyTurn \/ EntryTurn
  \/ NextRound \/ NextPass \/ Crash

Spec == Init /\ [][Next]_vars
=============================================================================
