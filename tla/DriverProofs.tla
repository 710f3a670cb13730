---------------------------- MODULE DriverProofs ----------------------------
(***************************************************************************)
(* For every set of texts, and whatever fails or is killed: what a         *)
(* compilation delivers, that a complete ./output is of an accepted        *)
(* source, that nothing else runs, and that it runs as its source does.    *)
(* Each stage of a command knows what the stages before it have seen       *)
(* (Stages); the output is changed by the last stages of a compilation,    *)
(* which know that the text is accepted (Writing).                         *)
(***************************************************************************)
EXTENDS Driver, NatLemmas, FiniteSetTheorems

\* What a command knows of its text at the call it is at.
Stages ==
  /\ at \in {"parse", "analyze", "run", "locate", "open", "write", "chmod"} => text \in TextType
  /\ at \in {"analyze", "run", "locate", "open", "write", "chmod"} => Parsed(text) = "tree"
  /\ at \in {"run", "locate", "open", "write", "chmod"} => Accepted(text)
  /\ cmd = "compile" => text \in Text \union {NoText}

\* What a compilation, which does not run its program, knows of the output it is about
\* to write, or writes.
Writing ==
  /\ at \in {"locate", "open", "write", "chmod"} => cmd = "compile"
  /\ at = "run" => cmd # "compile"
  /\ at \in {"write", "chmod"} => script = text
  /\ at = "chmod" => part = "all"
  /\ part = "all" => script \in Text

\* A complete output on its way through the stages: its text is the source, embedded.
Running ==
  cmd = "output" =>
    /\ at \in {"parse", "analyze", "run", "done"}
    /\ part = "all" /\ at # "done" => text = Embedded(script)

IInv ==
  TypeOK /\ Stages /\ Writing /\ Running /\ Delivered /\ OutputValidated /\ OutputRunsSource
-----------------------------------------------------------------------------
(* Texts. *)

\* A text has the parts that TextType gives it.
LEMMA TextParts ==
  ASSUME NEW t \in TextType
  PROVE  /\ t.pieces \in Seq(Piece) /\ t.closes \in BOOLEAN /\ t.aborts \in BOOLEAN
         /\ t = [pieces |-> t.pieces, closes |-> t.closes, wrong |-> t.wrong, aborts |-> t.aborts, fate |-> t.fate]
         /\ t.fate \in {"ends", "fails", "loops"} /\ t.wrong \subseteq 1 .. Len(t.pieces)
         /\ t # NoText
BY NoTextAssumption DEF TextType

\* The embedded text is the text with a newline behind it.
LEMMA EmbeddedType ==
  ASSUME NEW t \in TextType
  PROVE  /\ Embedded(t) \in TextType
         /\ Embedded(t).pieces = Append(t.pieces, "newline")
         /\ Embedded(t).closes = t.closes /\ Embedded(t).wrong = t.wrong
         /\ Embedded(t).aborts = t.aborts /\ Embedded(t).fate = t.fate
<1> DEFINE p == Append(t.pieces, "newline")
<1>1. t.pieces \in Seq(Piece) /\ t.wrong \subseteq DOMAIN t.pieces
  BY DEF TextType
<1>2. p \in Seq(Piece)
  BY <1>1 DEF Piece
<1>3. t.wrong \subseteq DOMAIN p
  BY <1>1
<1> HIDE DEF p
<1>4. Embedded(t) = [t EXCEPT !.pieces = p]
  BY DEF Embedded, p
<1>5. /\ Embedded(t).pieces = p /\ Embedded(t).wrong = t.wrong /\ Embedded(t).closes = t.closes
      /\ Embedded(t).aborts = t.aborts /\ Embedded(t).fate = t.fate
  BY <1>4 DEF TextType
<1>6. Embedded(t) \in TextType
  BY <1>2, <1>3, <1>4, <1>5 DEF TextType
<1> QED
  BY <1>5, <1>6 DEF p

\* Of an accepted text the parser finds nothing wrong.
LEMMA AcceptedIsClean ==
  ASSUME NEW t \in TextType, Parsed(t) = "tree"
  PROVE  Bad(t) = {} /\ t.closes
BY TextParts DEF Parsed

\* An accepted source is accepted as the script embeds it.
LEMMA EmbeddedAccepted ==
  ASSUME NEW t \in TextType, Accepted(t)
  PROVE  Accepted(Embedded(t))
<1> DEFINE e == Embedded(t)
<1>1. Bad(t) = {} /\ t.closes
  BY AcceptedIsClean DEF Accepted
<1>2. t.pieces \in Seq(Piece)
  BY TextParts
<1>3. e.pieces = Append(t.pieces, "newline")
  BY EmbeddedType
<1>4. ASSUME NEW k \in 1 .. Len(e.pieces)
      PROVE  e.pieces[k] \in Fine
  <2>1. CASE k = Len(t.pieces) + 1
    BY <1>2, <1>3, <2>1 DEF Fine
  <2>2. CASE k \in 1 .. Len(t.pieces)
    <3>1. e.pieces[k] = t.pieces[k]
      BY <1>2, <1>3, <2>2
    <3>2. t.pieces[k] \in Fine
      BY <1>1, <2>2 DEF Bad
    <3> QED
      BY <3>1, <3>2
  <2> QED
    BY <1>2, <1>3, <1>4, <2>1, <2>2
<1>5. Bad(e) = {}
  BY <1>4 DEF Bad
<1>6. e.closes /\ e.aborts = t.aborts /\ e.wrong = t.wrong
  BY <1>1, EmbeddedType
<1> HIDE DEF e
<1>7. Parsed(e) = "tree"
  BY <1>5, <1>6 DEF Parsed
<1> QED
  BY <1>6, <1>7 DEF Accepted, e
-----------------------------------------------------------------------------
(* line_col counts lines and columns as Position does. *)

Newlines(t, n) == { k \in 1 .. n : t.pieces[k] = "newline" }

Greatest(S) == CHOOSE k \in S : \A j \in S : j <= k
Least(S)    == CHOOSE k \in S : \A j \in S : k <= j

\* One turn of line_col's loop after each offset, from what f has before it.
Walk(t, f) ==
  [k \in 0 .. Len(t.pieces) |->
    IF k = 0 THEN <<1, 1>>
    ELSE IF t.pieces[k] = "newline" THEN <<f[k - 1][1] + 1, 1>> ELSE <<f[k - 1][1], f[k - 1][2] + 1>>]

\* What CHOOSE picks as the last or the first of some positions is one of them, and last or
\* first.
LEMMA GreatestIsIn ==
  ASSUME NEW n \in Nat, NEW S, S \subseteq 1 .. n, S # {}
  PROVE  Greatest(S) \in S /\ \A j \in S : j <= Greatest(S)
<1>1. \E k \in S : \A j \in S : j <= k
  BY NatMax
<1> QED
  BY <1>1, Zenon DEF Greatest

LEMMA LeastIsIn ==
  ASSUME NEW n \in Nat, NEW S, S \subseteq 1 .. n, S # {}
  PROVE  Least(S) \in S /\ \A j \in S : Least(S) <= j
<1>1. S \subseteq Nat
  OBVIOUS
<1>2. \E k \in S : \A j \in S : k <= j
  BY <1>1, NatMin
<1> QED
  BY <1>2, Zenon DEF Least

LEMMA TextLength ==
  ASSUME NEW t \in TextType
  PROVE  t.pieces \in Seq(Piece) /\ Len(t.pieces) \in Nat
<1>1. t.pieces \in Seq(Piece)
  BY TextParts
<1> QED
  BY <1>1

\* A position in terms of the newlines before it.
LEMMA PositionParts ==
  ASSUME NEW t, NEW n
  PROVE  Position(t, n) = <<1 + Cardinality(Newlines(t, n)),
                            IF Newlines(t, n) = {} THEN n + 1 ELSE n + 1 - Greatest(Newlines(t, n))>>
BY Zenon DEF Position, Newlines, Greatest

\* One piece more: a newline begins a line, all else widens the last one.
LEMMA PositionStep ==
  ASSUME NEW t \in TextType, NEW n \in 1 .. Len(t.pieces)
  PROVE  Position(t, n) = IF t.pieces[n] = "newline" THEN <<Position(t, n - 1)[1] + 1, 1>>
                          ELSE <<Position(t, n - 1)[1], Position(t, n - 1)[2] + 1>>
<1> DEFINE N == Newlines(t, n)
           M == Newlines(t, n - 1)
<1>0. Len(t.pieces) \in Nat /\ n \in Nat \ {0} /\ n - 1 \in Nat /\ n - 1 + 1 = n
  BY TextLength
<1>1. M \subseteq 1 .. n - 1 /\ IsFiniteSet(M) /\ Cardinality(M) \in Nat /\ n \notin M
  <2>1. M \subseteq 1 .. n - 1 /\ IsFiniteSet(1 .. n - 1)
    BY <1>0, FS_Interval DEF Newlines
  <2>2. IsFiniteSet(M)
    BY <2>1, FS_Subset
  <2>3. n \notin M
    BY <1>0, <2>1
  <2> QED
    BY <2>1, <2>2, <2>3, FS_CardinalityType
<1>2. N = IF t.pieces[n] = "newline" THEN M \union {n} ELSE M
  BY <1>0 DEF Newlines
<1> HIDE DEF M
<1>3. M # {} => Greatest(M) \in Int
  <2> SUFFICES ASSUME M # {} PROVE Greatest(M) \in Int
    OBVIOUS
  <2>1. Greatest(M) \in M
    BY <1>0, <1>1, GreatestIsIn
  <2>2. Greatest(M) \in 1 .. n - 1
    BY <1>1, <2>1
  <2> QED
    BY <2>2
<1>4. /\ Position(t, n) = <<1 + Cardinality(N), IF N = {} THEN n + 1 ELSE n + 1 - Greatest(N)>>
      /\ Position(t, n - 1) = <<1 + Cardinality(M), IF M = {} THEN n ELSE n - Greatest(M)>>
  <2>1. Position(t, n - 1) = <<1 + Cardinality(M), IF M = {} THEN (n - 1) + 1 ELSE (n - 1) + 1 - Greatest(M)>>
    BY PositionParts DEF M
  <2>2. M # {} => (n - 1) + 1 - Greatest(M) = n - Greatest(M)
    BY <1>0, <1>3
  <2>3. Position(t, n - 1) = <<1 + Cardinality(M), IF M = {} THEN n ELSE n - Greatest(M)>>
    BY <1>0, <2>1, <2>2
  <2>4. Position(t, n) = <<1 + Cardinality(N), IF N = {} THEN n + 1 ELSE n + 1 - Greatest(N)>>
    BY PositionParts DEF N
  <2> QED
    BY <2>3, <2>4
<1> HIDE DEF N
<1>5. ASSUME t.pieces[n] = "newline"
      PROVE  Position(t, n) = <<Position(t, n - 1)[1] + 1, 1>>
  <2>1. Cardinality(N) = Cardinality(M) + 1
    <3>1. N = M \union {n}
      BY <1>2, <1>5
    <3> QED
      BY <1>1, <3>1, FS_AddElement
  <2>2. N # {} /\ n \in N /\ N \subseteq 1 .. n
    BY <1>0, <1>1, <1>2, <1>5
  <2>3. Greatest(N) \in 1 .. n /\ n <= Greatest(N)
    BY <1>0, <2>2, GreatestIsIn
  <2>4. n + 1 - Greatest(N) = 1
    BY <1>0, <2>3
  <2>5. Position(t, n) = <<1 + Cardinality(N), 1>>
    BY <1>4, <2>2, <2>4
  <2>6. Position(t, n - 1)[1] + 1 = 1 + Cardinality(N)
    BY <1>1, <1>4, <2>1
  <2> QED
    BY <2>5, <2>6
<1>6. ASSUME t.pieces[n] # "newline"
      PROVE  Position(t, n) = <<Position(t, n - 1)[1], Position(t, n - 1)[2] + 1>>
  <2>1. N = M
    BY <1>2, <1>6
  <2>2. CASE M = {}
    BY <1>4, <2>1, <2>2
  <2>3. CASE M # {}
    <3>1. n + 1 - Greatest(M) = n - Greatest(M) + 1
      BY <1>0, <1>3, <2>3
    <3> QED
      BY <1>4, <2>1, <2>3, <3>1
  <2> QED
    BY <2>2, <2>3
<1> QED
  BY <1>5, <1>6

\* The positions are what the loop computes.
LEMMA PositionsWalk ==
  ASSUME NEW t \in TextType
  PROVE  LET g == [k \in 0 .. Len(t.pieces) |-> Position(t, k)] IN g = Walk(t, g)
<1> DEFINE n == Len(t.pieces)
           g == [k \in 0 .. n |-> Position(t, k)]
<1>1. n \in Nat
  BY TextLength
<1>2. Position(t, 0) = <<1, 1>>
  <2>1. Newlines(t, 0) = {}
    BY DEF Newlines
  <2> QED
    BY <2>1, FS_EmptySet DEF Position, Newlines
<1>3. ASSUME NEW k \in 0 .. n
      PROVE  g[k] = IF k = 0 THEN <<1, 1>>
                    ELSE IF t.pieces[k] = "newline" THEN <<g[k - 1][1] + 1, 1>>
                    ELSE <<g[k - 1][1], g[k - 1][2] + 1>>
  <2>1. CASE k = 0
    BY <1>1, <1>2, <2>1
  <2>2. CASE k # 0
    <3>1. k \in 1 .. n /\ k - 1 \in 0 .. n
      BY <1>1, <2>2
    <3>2. g[k] = Position(t, k) /\ g[k - 1] = Position(t, k - 1)
      BY <3>1
    <3> QED
      BY <2>2, <3>1, <3>2, PositionStep
  <2> QED
    BY <2>1, <2>2
<1> QED
  BY <1>3 DEF Walk

\* The loop computes nothing else: a first offset at which it did would contradict its
\* turn there.
LEMMA LineColIsPosition ==
  ASSUME NEW t \in TextType, NEW offset \in 0 .. Len(t.pieces)
  PROVE  LineCol(t, offset) = Position(t, offset)
<1> DEFINE n   == Len(t.pieces)
           g   == [k \in 0 .. n |-> Position(t, k)]
           pos == CHOOSE f : f = Walk(t, f)
           D   == { k \in 0 .. n : pos[k] # g[k] }
<1>1. n \in Nat
  BY TextLength
<1>2. g = Walk(t, g)
  BY PositionsWalk
<1>3. pos = Walk(t, pos)
  <2> HIDE DEF g
  <2> QED
    BY <1>2, Zenon
<1>4. ASSUME NEW o PROVE LineCol(t, o) = pos[IF o <= Len(t.pieces) THEN o ELSE Len(t.pieces)]
  BY Zenon DEF LineCol, Walk
<1>5. LineCol(t, offset) = pos[offset]
  BY <1>1, <1>4
<1> HIDE DEF pos, g
<1>6. ASSUME NEW f, f = Walk(t, f), NEW k \in 0 .. n
      PROVE  f[k] = IF k = 0 THEN <<1, 1>>
                    ELSE IF t.pieces[k] = "newline" THEN <<f[k - 1][1] + 1, 1>>
                    ELSE <<f[k - 1][1], f[k - 1][2] + 1>>
  BY <1>6 DEF Walk
<1>7. D = {}
  <2> SUFFICES ASSUME D # {} PROVE FALSE
    OBVIOUS
  <2>1. D \subseteq Nat
    OBVIOUS
  <2>2. PICK k \in D : \A j \in D : k <= j
    BY <2>1, NatMin
  <2>3. k \in 0 .. n /\ pos[k] # g[k]
    OBVIOUS
  <2>4. k # 0
    BY <1>2, <1>3, <1>6, <2>3
  <2>5. k - 1 \in 0 .. n /\ ~ (k <= k - 1)
    BY <1>1, <2>3, <2>4
  <2>6. pos[k - 1] = g[k - 1]
    BY <2>2, <2>5
  <2>7. pos[k] = IF t.pieces[k] = "newline" THEN <<pos[k - 1][1] + 1, 1>> ELSE <<pos[k - 1][1], pos[k - 1][2] + 1>>
    BY <1>3, <1>6, <2>3, <2>4
  <2>8. g[k] = IF t.pieces[k] = "newline" THEN <<g[k - 1][1] + 1, 1>> ELSE <<g[k - 1][1], g[k - 1][2] + 1>>
    BY <1>2, <1>6, <2>3, <2>4
  <2> QED
    BY <2>3, <2>6, <2>7, <2>8
<1>8. pos[offset] = g[offset]
  BY <1>7
<1> QED
  BY <1>5, <1>8 DEF g
-----------------------------------------------------------------------------
(* What is wrong with a text is found where it is. *)

\* Of a text that is not parsed: before the offset of the error nothing is wrong; what
\* follows it decides the kind, or, with nothing wrong at all, is no token.
LEMMA FaultIsFirst ==
  ASSUME NEW t \in TextType, Parsed(t) # "tree"
  PROVE  /\ Parsed(t) \in {"lexical", "syntactic"}
         /\ ErrorOffset(t) \in 0 .. Len(t.pieces)
         /\ \A j \in 1 .. ErrorOffset(t) : t.pieces[j] \in Fine
         /\ Bad(t) # {} => /\ ErrorOffset(t) + 1 \in 1 .. Len(t.pieces)
                           /\ t.pieces[ErrorOffset(t) + 1] =
                                IF Parsed(t) = "lexical" THEN "odd" ELSE "misplaced"
         /\ Bad(t) = {} => /\ Parsed(t) = "syntactic"
                           /\ \A j \in ErrorOffset(t) + 1 .. Len(t.pieces) : t.pieces[j] # "token"
<1> DEFINE n == Len(t.pieces)
           o == ErrorOffset(t)
<1>1. n \in Nat
  BY TextLength
<1>2. Bad(t) \subseteq 1 .. n
  BY DEF Bad
<1>3. Parsed(t) \in {"lexical", "syntactic"}
  BY DEF Parsed
<1>4. CASE Bad(t) # {}
  <2>1. FirstBad(t) = Least(Bad(t))
    BY DEF FirstBad, Least
  <2>2. FirstBad(t) \in Bad(t) /\ \A j \in Bad(t) : FirstBad(t) <= j
    BY <1>1, <1>2, <1>4, <2>1, LeastIsIn
  <2>3. FirstBad(t) \in 1 .. n
    BY <1>2, <2>2
  <2>4. o = FirstBad(t) - 1
    BY <1>4 DEF ErrorOffset
  <2>5. o \in 0 .. n /\ o + 1 = FirstBad(t)
    BY <1>1, <2>3, <2>4
  <2>6. ASSUME NEW j \in 1 .. o PROVE t.pieces[j] \in Fine
    <3>1. j \in 1 .. n /\ ~ (FirstBad(t) <= j)
      BY <1>1, <2>3, <2>4
    <3> QED
      BY <2>2, <3>1 DEF Bad
  <2>7. t.pieces[o + 1] \in Piece \ Fine
    BY <1>1, <2>2, <2>3, <2>5, TextLength DEF Bad
  <2>8. t.pieces[o + 1] = IF Parsed(t) = "lexical" THEN "odd" ELSE "misplaced"
    BY <1>4, <2>5, <2>7 DEF Parsed, Piece, Fine
  <2> QED
    BY <1>3, <1>4, <2>3, <2>5, <2>6, <2>8
<1>5. CASE Bad(t) = {}
  <2> DEFINE tokens == { k \in 1 .. n : t.pieces[k] = "token" }
  <2>1. o = IF tokens = {} THEN 0 ELSE Greatest(tokens)
    BY <1>5 DEF ErrorOffset, LastToken, Greatest
  <2>2. tokens \subseteq 1 .. n
    OBVIOUS
  <2>3. tokens # {} => Greatest(tokens) \in tokens /\ \A j \in tokens : j <= Greatest(tokens)
    <3> HIDE DEF tokens
    <3> QED
      BY <1>1, <2>2, GreatestIsIn
  <2>4. o \in 0 .. n /\ \A j \in tokens : j <= o
    <3> HIDE DEF tokens, o
    <3> QED
      BY <1>1, <2>1, <2>2, <2>3
  <2>5. ASSUME NEW j \in 1 .. o PROVE t.pieces[j] \in Fine
    <3>1. j \in 1 .. n
      BY <1>1, <2>4
    <3> QED
      BY <1>5, <3>1 DEF Bad
  <2>6. ASSUME NEW j \in o + 1 .. n PROVE t.pieces[j] # "token"
    <3>1. j \in 1 .. n /\ ~ (j <= o)
      BY <1>1, <2>4
    <3> QED
      BY <2>4, <3>1
  <2>7. Parsed(t) = "syntactic"
    BY <1>3, <1>5 DEF Parsed
  <2> QED
    BY <1>3, <1>5, <2>4, <2>5, <2>6, <2>7
<1> QED
  BY <1>4, <1>5

\* The semantic errors of a text are reported where they are.
LEMMA WrongPositions ==
  ASSUME NEW t \in TextType
  PROVE  { LineCol(t, k - 1) : k \in t.wrong } = { Position(t, k - 1) : k \in t.wrong }
<1>1. ASSUME NEW k \in t.wrong PROVE LineCol(t, k - 1) = Position(t, k - 1)
  <2>1. k \in 1 .. Len(t.pieces)
    BY TextParts
  <2>2. k - 1 \in 0 .. Len(t.pieces)
    BY <2>1, TextLength
  <2> QED
    BY <2>2, LineColIsPosition
<1> QED
  BY <1>1

-----------------------------------------------------------------------------
(* The invariant. *)

LEMMA InitInv == Init => IInv
BY DEF Init, IInv, TypeOK, Stages, Writing, Running, Delivered, OutputValidated, OutputRunsSource, NoCode, ExitOk

\* Every step keeps it: some end a command and leave the output, some take it to the
\* next call, three write the output.
LEMMA StepInv ==
  ASSUME IInv, Next
  PROVE  IInv'
<1> USE DEF IInv, TypeOK, Stages, Writing, Running, Delivered, OutputValidated, OutputRunsSource,
            output, ExitOk, EXIT_LEXICAL, EXIT_SYNTACTIC, EXIT_SEMANTIC, EXIT_USAGE,
            Panicked, Aborted, NotFound, Killed, NoCode
<1>0. Text \subseteq TextType /\ NoText \notin TextType
  BY TextAssumption, NoTextAssumption
<1>1. CASE Edit
  BY <1>0, <1>1 DEF Edit, Ready
<1>2. CASE Main
  BY <1>0, <1>2 DEF Main, Start, Ready
<1>3. CASE Usage
  BY <1>0, <1>3 DEF Usage, Ready
<1>4. CASE RunWhole
  <2>1. script \in TextType /\ Embedded(script) \in TextType
    BY <1>0, <1>4, EmbeddedType DEF RunWhole
  <2> QED
    BY <1>0, <1>4, <2>1 DEF RunWhole, Start, Ready
<1>5. CASE RunCut
  BY <1>0, <1>5 DEF RunCut, CutsOf, Start, Ready
<1>6. CASE RunNothing
  BY <1>0, <1>6 DEF RunNothing, Ready
<1>7. CASE Read
  BY <1>0, <1>7 DEF Read, Exit
<1>8. CASE Parse
  <2>1. cmd = "output" /\ part = "all" => Parsed(text) = "tree"
    BY <1>0, <1>8, EmbeddedAccepted DEF Parse, Accepted
  <2> QED
    BY <1>0, <1>8, <2>1 DEF Parse, Exit, GoOn
<1>9. CASE Analyze
  <2>1. cmd = "output" /\ part = "all" => Accepted(text)
    BY <1>0, <1>9, EmbeddedAccepted DEF Analyze
  <2> QED
    BY <1>0, <1>9, <2>1 DEF Analyze, Accepted, Exit, GoOn
<1>10. CASE Run
  <2>1. cmd = "output" /\ part = "all" => text.fate = script.fate
    BY <1>0, <1>10, EmbeddedType DEF Run
  <2> QED
    BY <1>0, <1>10, <2>1 DEF Run, Exit
<1>11. CASE Locate
  BY <1>0, <1>11 DEF Locate, Exit, GoOn
<1>12. CASE Open
  BY <1>0, <1>12 DEF Open, Exit, GoOn
<1>13. CASE Write
  BY <1>0, <1>13 DEF Write, Exit, GoOn
<1>14. CASE Chmod
  BY <1>0, <1>14 DEF Chmod, Exit
<1>15. CASE Kill
  BY <1>0, <1>15 DEF Kill, Exit, Ready
<1> QED
  BY <1>1, <1>2, <1>3, <1>4, <1>5, <1>6, <1>7, <1>8, <1>9, <1>10, <1>11, <1>12, <1>13, <1>14, <1>15 DEF Next

LEMMA StutterInv ==
  ASSUME IInv, UNCHANGED vars
  PROVE  IInv'
BY DEF IInv, TypeOK, Stages, Writing, Running, Delivered, OutputValidated, OutputRunsSource, vars, output, command

LEMMA Invariance == Spec => []IInv
<1>1. IInv /\ [Next]_vars => IInv'
  BY StepInv, StutterInv
<1> QED
  BY InitInv, <1>1, PTL DEF Spec
-----------------------------------------------------------------------------
(* Reports. *)

LEMMA FaultsInit == Init => ReportsFaults
BY DEF Init, ReportsFaults

\* A command ends with a lexical or syntactic error at the parser only, and with a
\* semantic one there is either no position, or it is the analysis that ends it.
LEMMA FaultsStep ==
  ASSUME IInv, ReportsFaults, [Next]_vars
  PROVE  ReportsFaults'
<1> DEFINE Codes == {EXIT_LEXICAL, EXIT_SYNTACTIC}
           Quiet == at' = "done" /\ text' # NoText =>
                      code' \notin Codes /\ (code' = EXIT_SEMANTIC => told' = {Nowhere})
<1>1. Quiet => ReportsFaults'
  BY DEF ReportsFaults
<1>2. CASE Edit \/ Main \/ Usage \/ RunWhole \/ RunCut \/ RunNothing
  <2>1. at' # "done" \/ text' = NoText
    BY <1>2 DEF Edit, Main, Usage, RunWhole, RunCut, RunNothing, Start
  <2> QED
    BY <1>1, <2>1
<1>3. CASE Read \/ Run \/ Locate \/ Open \/ Write \/ Chmod \/ Kill
  <2>1. at' # "done" \/ (code' = EXIT_SEMANTIC /\ told' = {Nowhere}) \/ code' \in {ExitOk, Killed}
    BY <1>3 DEF Read, Run, Locate, Open, Write, Chmod, Kill, Exit, GoOn
  <2> QED
    BY <1>1, <2>1 DEF EXIT_LEXICAL, EXIT_SYNTACTIC, EXIT_SEMANTIC, ExitOk, Killed
<1>4. CASE Parse
  <2>1. text \in TextType /\ text' = text
    BY <1>4 DEF Parse, Exit, GoOn, IInv, Stages
  <2>2. CASE Parsed(text) = "tree"
    <3>1. at' # "done" \/ code' = ExitOk
      BY <1>4, <2>2 DEF Parse, Exit, GoOn
    <3> QED
      BY <1>1, <3>1 DEF EXIT_LEXICAL, EXIT_SYNTACTIC, EXIT_SEMANTIC, ExitOk
  <2>3. CASE Parsed(text) # "tree"
    <3> DEFINE o == ErrorOffset(text)
               n == Len(text.pieces)
    <3>1. told' = {LineCol(text, o)} /\ code' \in Codes
      BY <1>4, <2>3 DEF Parse, Exit
    <3>2. code' = EXIT_LEXICAL <=> Parsed(text) = "lexical"
      BY <1>4, <2>3 DEF Parse, Exit, EXIT_LEXICAL, EXIT_SYNTACTIC
    <3>3. code' # EXIT_SEMANTIC
      BY <3>1 DEF EXIT_LEXICAL, EXIT_SYNTACTIC, EXIT_SEMANTIC
    <3>4. o \in 0 .. n /\ told' = {Position(text, o)} /\ n \in Nat /\ DOMAIN text.pieces = 1 .. n
      BY <2>1, <2>3, <3>1, FaultIsFirst, LineColIsPosition, TextLength
    <3>5. CASE Bad(text) # {}
      <4> DEFINE kind == IF Parsed(text) = "lexical" THEN "odd" ELSE "misplaced"
                 k    == o + 1
      <4>1. k \in 1 .. n /\ text.pieces[k] = kind /\ \A j \in 1 .. o : text.pieces[j] \in Fine
        BY <2>1, <2>3, <3>5, FaultIsFirst
      <4>2. k - 1 = o /\ kind \notin Fine
        BY <3>4 DEF Fine
      <4>3. k \in DOMAIN text.pieces /\ FirstOf(text, kind, k) /\ told' = {Position(text, k - 1)}
        BY <3>4, <4>1, <4>2 DEF FirstOf
      <4> HIDE DEF k
      <4>4. CASE Parsed(text) = "lexical"
        BY <2>1, <3>2, <3>3, <4>3, <4>4 DEF ReportsFaults, EXIT_LEXICAL, EXIT_SYNTACTIC
      <4>5. CASE Parsed(text) # "lexical"
        BY <2>1, <3>2, <3>3, <4>3, <4>5 DEF ReportsFaults
      <4> QED
        BY <4>4, <4>5
    <3>6. CASE Bad(text) = {}
      <4>1. code' # EXIT_LEXICAL /\ \A j \in o + 1 .. n : text.pieces[j] # "token"
        BY <2>1, <2>3, <3>2, <3>6, FaultIsFirst
      <4> HIDE DEF o
      <4> QED
        BY <2>1, <3>3, <3>4, <3>6, <4>1 DEF ReportsFaults
    <3> QED
      BY <3>5, <3>6
  <2> QED
    BY <2>2, <2>3
<1>5. CASE Analyze
  <2>1. text \in TextType /\ text' = text
    BY <1>5 DEF Analyze, Exit, GoOn, IInv, Stages
  <2>2. \/ at' # "done" \/ code' \in {Panicked, Aborted}
        \/ code' = EXIT_SEMANTIC /\ told' = { LineCol(text, k - 1) : k \in text.wrong }
    BY <1>5 DEF Analyze, Exit, GoOn
  <2>3. code' = EXIT_SEMANTIC => code' \notin Codes
    BY DEF EXIT_LEXICAL, EXIT_SYNTACTIC, EXIT_SEMANTIC
  <2>4. CASE at' # "done" \/ code' \in {Panicked, Aborted}
    BY <1>1, <2>4 DEF EXIT_LEXICAL, EXIT_SYNTACTIC, EXIT_SEMANTIC, Panicked, Aborted
  <2>5. CASE code' = EXIT_SEMANTIC /\ told' = { LineCol(text, k - 1) : k \in text.wrong }
    <3>1. told' = { Position(text, k - 1) : k \in text.wrong }
      BY <2>1, <2>5, WrongPositions
    <3> QED
      BY <2>1, <2>3, <2>5, <3>1 DEF ReportsFaults
  <2> QED
    BY <2>2, <2>4, <2>5
<1>6. CASE UNCHANGED vars
  BY <1>6 DEF ReportsFaults, vars, output, command
<1> QED
  BY <1>2, <1>3, <1>4, <1>5, <1>6 DEF Next

-----------------------------------------------------------------------------
(* Theorems. *)

\* Types: files, output and command are what they may be, whatever the texts.
THEOREM TypeCorrect == Spec => []TypeOK
<1>1. IInv => TypeOK
  BY DEF IInv
<1> QED
  BY Invariance, <1>1, PTL

\* Exit code 0 of a compilation means an executable, complete ./output of its source.
THEOREM CompilationDelivers == Spec => []Delivered
<1>1. IInv => Delivered
  BY DEF IInv
<1> QED
  BY Invariance, <1>1, PTL

\* A complete ./output embeds an accepted source, whatever failed or was killed.
THEOREM CompleteIsValidated == Spec => []OutputValidated
<1>1. IInv => OutputValidated
  BY DEF IInv
<1> QED
  BY Invariance, <1>1, PTL

\* What the machine runs has been accepted in this very command.
THEOREM RunsAccepted == Spec => []OnlyAcceptedRuns
<1>1. IInv => OnlyAcceptedRuns
  BY DEF IInv, Stages, OnlyAcceptedRuns
<1> QED
  BY Invariance, <1>1, PTL

\* A complete ./output exits as the program it was made of does, with no report but that
\* of a runtime error.
THEOREM RunsItsSource == Spec => []OutputRunsSource
<1>1. IInv => OutputRunsSource
  BY DEF IInv
<1> QED
  BY Invariance, <1>1, PTL

\* The line and the column of a diagnostic are those of what its kind says is wrong with the
\* source; those of semantic errors are all there.
THEOREM FaultsAreReported == Spec => []ReportsFaults
<1>1. IInv /\ ReportsFaults /\ [Next]_vars => ReportsFaults'
  BY FaultsStep
<1> QED
  BY Invariance, FaultsInit, <1>1, PTL DEF Spec
=============================================================================
