-------------------------------- MODULE Driver --------------------------------
(***************************************************************************)
(* hulkc: the commands a user gives one after the other in one directory,  *)
(* the source file, and ./output, the script that a compilation leaves     *)
(* there: it embeds the source and hands it to `hulk exec`. Reads, writes  *)
(* and changes of mode may fail, and a command may be killed at any step.  *)
(* Lexer, parser, analysis and machine are what a text says of them.       *)
(***************************************************************************)
EXTENDS Integers, Sequences, FiniteSets

\* A text is a sequence of pieces, each as wide as a character: a token, white space,
\* what is no token (odd), or a token that no program goes on with (misplaced).
Piece == {"token", "space", "newline", "odd", "misplaced"}

\* closes: the parser is content with the end. wrong: the pieces of the text that semantic
\* errors point to. aborts: the analysis does not return. fate: what becomes of it when it
\* runs.
TextType ==
  { t \in [pieces : Seq(Piece), closes : BOOLEAN, wrong : SUBSET Nat, aborts : BOOLEAN,
           fate : {"ends", "fails", "loops"}] : t.wrong \subseteq DOMAIN t.pieces }

CONSTANTS
  Text,    \* what the source file may hold
  NoText   \* no file, or none that can be read

ASSUME TextAssumption   == Text \subseteq TextType
ASSUME NoTextAssumption == NoText \notin TextType

VARIABLES
  file,                 \* the source file
  script, part, mode,   \* ./output: the source it embeds, how much of it is written, its permissions
  cmd, at,              \* the command that runs, or ran last, and the call it is at
  text, code, told      \* its source, its exit code, and the positions on stderr

output  == <<script, part, mode>>
command == <<cmd, at, text, code, told>>
vars    == <<file, output, command>>

ExitOk        == 0
EXIT_LEXICAL  == 1
EXIT_SYNTACTIC == 2
EXIT_SEMANTIC == 3
EXIT_USAGE    == 64
Panicked      == 101
Aborted       == 134   \* by SIGABRT, which a stack overflow raises
NotFound      == 127   \* the shell finds no program of the name
Killed        == 137
NoCode        == 255   \* has not ended
-----------------------------------------------------------------------------
(* The front end. *)

Fine == {"token", "space", "newline"}
Bad(t) == { k \in 1 .. Len(t.pieces) : t.pieces[k] \notin Fine }

\* The lexer is asked for one token at a time and the parser stops at the first that
\* is wrong, whatever comes after it.
FirstBad(t) == CHOOSE k \in Bad(t) : \A j \in Bad(t) : k <= j

\* What the parser says of a text: a tree, or a kind of error.
Parsed(t) ==
  IF Bad(t) = {} THEN IF t.closes THEN "tree" ELSE "syntactic"
  ELSE IF t.pieces[FirstBad(t)] = "odd" THEN "lexical" ELSE "syntactic"

\* The end of the last token: where a text is said to end too early.
LastToken(t) ==
  LET tokens == { k \in 1 .. Len(t.pieces) : t.pieces[k] = "token" }
  IN  IF tokens = {} THEN 0 ELSE CHOOSE k \in tokens : \A j \in tokens : j <= k

ErrorOffset(t) == IF Bad(t) = {} THEN LastToken(t) ELSE FirstBad(t) - 1

Accepted(t) == Parsed(t) = "tree" /\ ~ t.aborts /\ t.wrong = {}

\* Mutant: the first column of a line is 0, except on the first line.
LineColZero(t, offset) ==
  LET pos[k \in 0 .. Len(t.pieces)] ==
        IF k = 0 THEN <<1, 1>>
        ELSE IF t.pieces[k] = "newline" THEN <<pos[k - 1][1] + 1, 0>> ELSE <<pos[k - 1][1], pos[k - 1][2] + 1>>
  IN  pos[IF offset <= Len(t.pieces) THEN offset ELSE Len(t.pieces)]

\* line_col: from a number of characters, of which no more count than there are, to a line
\* and a column, from 1.
LineCol(t, offset) ==
  LET pos[k \in 0 .. Len(t.pieces)] ==
        IF k = 0 THEN <<1, 1>>
        ELSE IF t.pieces[k] = "newline" THEN <<pos[k - 1][1] + 1, 1>> ELSE <<pos[k - 1][1], pos[k - 1][2] + 1>>
  IN  pos[IF offset <= Len(t.pieces) THEN offset ELSE Len(t.pieces)]

Nowhere == <<0, 0>>
-----------------------------------------------------------------------------
(* The script. *)

\* Mutant: no newline between the source and the delimiter, which is read as source.
EmbeddedRaw(t) == [t EXCEPT !.pieces = Append(@, "odd")]

\* The source as `hulk exec` reads it from the here-document, with one more newline.
Embedded(t) == [t EXCEPT !.pieces = Append(@, "newline")]

\* What may be read of a script of which the end is missing: pieces of t, of which the
\* last may have become another one.
CutsOf(t) ==
  { u \in Text : /\ Len(u.pieces) <= Len(t.pieces)
                 /\ \A k \in 1 .. Len(u.pieces) : k < Len(u.pieces) => u.pieces[k] = t.pieces[k] }
-----------------------------------------------------------------------------
(* Commands. *)

Ready == at \in {"idle", "done"}

Exit(c, positions) ==
  at' = "done" /\ code' = c /\ told' = positions /\ UNCHANGED <<cmd, text, file>>

GoOn(next) == at' = next /\ UNCHANGED <<cmd, text, code, told, file>>

Start(c, next, t) ==
  /\ Ready
  /\ cmd' = c /\ at' = next /\ text' = t /\ code' = NoCode /\ told' = {}
  /\ UNCHANGED <<file, output>>

\* The user changes the source file between two commands.
Edit ==
  /\ Ready
  /\ file' \in Text \union {NoText}
  /\ cmd' = "none" /\ at' = "idle" /\ text' = NoText /\ code' = NoCode /\ told' = {}
  /\ UNCHANGED output

\* main: `hulk <file>` and `hulk run <file>`, `hulk exec <file>`, `hulk parse <file>`.
Main  == \E c \in {"compile", "exec", "parse"} : Start(c, "read", NoText)

Usage ==
  /\ Ready
  /\ cmd' = "usage" /\ at' = "done" /\ text' = NoText /\ code' = EXIT_USAGE /\ told' = {}
  /\ UNCHANGED <<file, output>>

\* ./output, which the shell reads. It does nothing if it is cut off before the command,
\* does not find the command if it is cut off within, or hands on what there is.
RunWhole == mode = "executable" /\ part = "all" /\ Start("output", "parse", Embedded(script))

RunCut ==
  /\ mode = "executable" /\ part = "some"
  /\ \E t \in CutsOf(Embedded(script)) : Start("output", "parse", t)

RunNothing ==
  /\ Ready /\ mode = "executable" /\ part # "all"
  /\ code' \in IF part = "none" THEN {ExitOk} ELSE {ExitOk, NotFound, EXIT_SEMANTIC}
  /\ cmd' = "output" /\ at' = "done" /\ text' = NoText
  /\ told' = IF code' = EXIT_SEMANTIC THEN {Nowhere} ELSE {}
  /\ UNCHANGED <<file, output>>

\* read_source.
Read ==
  /\ at = "read"
  /\ \/ file = NoText /\ Exit(EXIT_SEMANTIC, {Nowhere})
     \/ /\ file # NoText
        /\ at' = "parse" /\ text' = file /\ UNCHANGED <<cmd, code, told, file>>
  /\ UNCHANGED output

\* hulk_parser::parse and report_parse_error.
Parse ==
  /\ at = "parse"
  /\ \/ Parsed(text) = "lexical"   /\ Exit(EXIT_LEXICAL, {LineCol(text, ErrorOffset(text))})
     \/ Parsed(text) = "syntactic" /\ Exit(EXIT_SYNTACTIC, {LineCol(text, ErrorOffset(text))})
     \/ Parsed(text) = "tree" /\ cmd = "parse" /\ Exit(ExitOk, {})
     \/ Parsed(text) = "tree" /\ cmd # "parse" /\ GoOn("analyze")
  /\ UNCHANGED output

\* Mutant: a program that has been compiled is not analysed again.
AnalyzeOnce ==
  /\ at = "analyze"
  /\ \/ cmd = "output" /\ GoOn("run")
     \/ cmd # "output" /\ text.aborts /\ \E c \in {Panicked, Aborted} : Exit(c, {})
     \/ /\ cmd # "output" /\ ~ text.aborts /\ text.wrong # {}
        /\ Exit(EXIT_SEMANTIC, { LineCol(text, k - 1) : k \in text.wrong })
     \/ cmd # "output" /\ ~ text.aborts /\ text.wrong = {} /\ GoOn(IF cmd = "compile" THEN "locate" ELSE "run")
  /\ UNCHANGED output

\* Mutant: errors are reported, and the command goes on.
AnalyzeWarns ==
  /\ at = "analyze"
  /\ \/ text.aborts /\ \E c \in {Panicked, Aborted} : Exit(c, {})
     \/ ~ text.aborts /\ GoOn(IF cmd = "compile" THEN "locate" ELSE "run")
  /\ UNCHANGED output

\* hulk_semantic::analyze: all its errors are reported.
Analyze ==
  /\ at = "analyze"
  /\ \/ text.aborts /\ \E c \in {Panicked, Aborted} : Exit(c, {})
     \/ /\ ~ text.aborts /\ text.wrong # {}
        /\ Exit(EXIT_SEMANTIC, { LineCol(text, k - 1) : k \in text.wrong })
     \/ ~ text.aborts /\ text.wrong = {} /\ GoOn(IF cmd = "compile" THEN "locate" ELSE "run")
  /\ UNCHANGED output

\* cmd_exec: lowering, and the machine. A program need not end.
Run ==
  /\ at = "run"
  /\ \/ text.fate = "ends"  /\ Exit(ExitOk, {})
     \/ text.fate = "fails" /\ Exit(EXIT_SEMANTIC, {Nowhere})
  /\ UNCHANGED output
-----------------------------------------------------------------------------
(* write_output. *)

\* current_exe.
Locate ==
  /\ at = "locate"
  /\ GoOn("open") \/ Exit(EXIT_SEMANTIC, {Nowhere})
  /\ UNCHANGED output

\* fs::write makes the file, or empties the one that is there, which keeps its mode;
Open ==
  /\ at = "open"
  /\ \/ /\ part' = "none" /\ script' = text
        /\ mode' = IF mode = "absent" THEN "plain" ELSE mode
        /\ GoOn("write")
     \/ Exit(EXIT_SEMANTIC, {Nowhere}) /\ UNCHANGED output

\* Mutant: an error is only noticed by who closes the file, which nobody does.
WriteUnchecked ==
  /\ at = "write"
  /\ \/ part' = "all" /\ GoOn("chmod")
     \/ part = "none" /\ part' = "some" /\ GoOn("chmod")
  /\ UNCHANGED <<script, mode>>

\* and fills it, in one or several writes.
Write ==
  /\ at = "write"
  /\ \/ part' = "all" /\ GoOn("chmod")
     \/ part = "none" /\ part' = "some" /\ GoOn("write")
     \/ UNCHANGED part /\ Exit(EXIT_SEMANTIC, {Nowhere})
  /\ UNCHANGED <<script, mode>>

\* set_permissions.
Chmod ==
  /\ at = "chmod"
  /\ \/ mode' = "executable" /\ Exit(ExitOk, {})
     \/ UNCHANGED mode /\ Exit(EXIT_SEMANTIC, {Nowhere})
  /\ UNCHANGED <<script, part>>

\* At any step, from outside.
Kill ==
  /\ ~ Ready
  /\ Exit(Killed, {})
  /\ UNCHANGED output
-----------------------------------------------------------------------------
Init ==
  /\ file \in Text \union {NoText}
  /\ script = NoText /\ part = "none" /\ mode = "absent"
  /\ cmd = "none" /\ at = "idle" /\ text = NoText /\ code = NoCode /\ told = {}

Next ==
  \/ Edit \/ Main \/ Usage \/ RunWhole \/ RunCut \/ RunNothing
  \/ Read \/ Parse \/ Analyze \/ Run
  \/ Locate \/ Open \/ Write \/ Chmod \/ Kill

Spec == Init /\ [][Next]_vars
-----------------------------------------------------------------------------
(* Properties. *)

TypeOK ==
  /\ file \in Text \union {NoText}
  /\ script \in Text \union {NoText} /\ (mode = "absent" <=> script = NoText)
  /\ part \in {"none", "some", "all"} /\ mode \in {"absent", "plain", "executable"}
  /\ cmd \in {"none", "usage", "compile", "exec", "parse", "output"}
  /\ at \in {"idle", "read", "parse", "analyze", "run", "locate", "open", "write", "chmod", "done"}
  /\ text \in TextType \union {NoText}
  /\ code \in {ExitOk, EXIT_LEXICAL, EXIT_SYNTACTIC, EXIT_SEMANTIC, EXIT_USAGE,
               Panicked, Aborted, NotFound, Killed, NoCode}

\* The contract's "on success": a compilation that exits with 0 leaves an executable
\* ./output that embeds all of the source it has read and accepted, whatever was there
\* before it and whatever became of the commands before it.
Delivered ==
  cmd = "compile" /\ at = "done" /\ code = ExitOk =>
    mode = "executable" /\ part = "all" /\ script = text /\ Accepted(text)

\* Whatever fails or is killed, and whenever: a ./output that is complete embeds a source
\* that was accepted.
OutputValidated == part = "all" => Accepted(script)

\* The machine runs nothing that was not accepted, not even the part of a source that is
\* in a script of which the end is missing.
OnlyAcceptedRuns == at = "run" => Accepted(text)

\* A complete ./output reports no lexical, syntactic or semantic error: it does what its
\* source does when it runs. It is of the source that was compiled, not of the file.
OutputRunsSource ==
  cmd = "output" /\ part = "all" /\ at = "done" /\ code # Killed =>
    /\ code = IF script.fate = "fails" THEN EXIT_SEMANTIC ELSE ExitOk
    /\ told \subseteq {Nowhere}

\* A position, counted otherwise: the newlines before it, and what is behind the last.
Position(t, offset) ==
  LET newlines == { k \in 1 .. offset : t.pieces[k] = "newline" }
  IN  <<1 + Cardinality(newlines),
        IF newlines = {} THEN offset + 1
        ELSE offset + 1 - CHOOSE k \in newlines : \A j \in newlines : j <= k>>

\* The k-th piece is the first of its kind.
FirstOf(t, kind, k) == t.pieces[k] = kind /\ \A j \in 1 .. k - 1 : t.pieces[j] # kind

\* The line and the column of a diagnostic (interface.md) are those of what its kind says is
\* wrong: the first odd piece, the first misplaced token, or, with none, a place that no
\* token follows; of semantic errors all are told, each where it is.
ReportsFaults ==
  at = "done" /\ text # NoText =>
    /\ code = EXIT_LEXICAL =>
         \E k \in DOMAIN text.pieces : FirstOf(text, "odd", k) /\ told = {Position(text, k - 1)}
    /\ code = EXIT_SYNTACTIC =>
         \/ \E k \in DOMAIN text.pieces : FirstOf(text, "misplaced", k) /\ told = {Position(text, k - 1)}
         \/ /\ Bad(text) = {}
            /\ \E k \in 0 .. Len(text.pieces) :
                 /\ told = {Position(text, k)}
                 /\ \A j \in k + 1 .. Len(text.pieces) : text.pieces[j] # "token"
    /\ code = EXIT_SEMANTIC /\ told # {Nowhere} => told = { Position(text, k - 1) : k \in text.wrong }

\* What docs/interface.md, the comment of main.rs and docs/REPORT.md say of a text with errors
\* of several kinds: the exit code is that of the most fundamental one, lexical before
\* syntactic. A parser that stops at the first wrong token has not seen the odd pieces
\* behind it.
LexicalFirst ==
  at = "done" /\ text # NoText /\ code = EXIT_SYNTACTIC =>
    \A k \in DOMAIN text.pieces : text.pieces[k] # "odd"
=============================================================================
