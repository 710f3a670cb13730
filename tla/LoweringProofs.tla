--------------------------- MODULE LoweringProofs ---------------------------
(***************************************************************************)
(* All code that hulk-ir makes is disciplined: what lower_program emits    *)
(* for any functions, types and expressions, however deep they nest, keeps *)
(* the contract with the machine that StackDiscipline writes down. So what *)
(* StackDisciplineProofs proves of disciplined code holds of every program *)
(* that is lowered.                                                        *)
(*                                                                         *)
(* The proof goes along the emission of code. Flows says what a lowering   *)
(* that is under way has come to: shapes for the instructions so far, the  *)
(* labels it has put, and the labels it still may put or jump to. There is *)
(* one lemma for each way to emit, one for each construct of the language  *)
(* from these, and the rest is induction on how deep expressions nest, how *)
(* long ancestries are and how many declarations there are, each of them   *)
(* by a least counterexample.                                              *)
(***************************************************************************)
EXTENDS StackDisciplineProofs, ProgramLowering

-----------------------------------------------------------------------------
(* Code. *)

IsSequence(c) == \E S : c \in Seq(S)

\* The shortest pieces of code.
LEMMA OneFacts ==
  /\ IsSequence(<<>>) /\ Len(<<>>) = 0
  /\ \A i : IsSequence(<<i>>) /\ Len(<<i>>) = 1 /\ <<i>>[1] = i
  <1>1. <<>> \in Seq({}) /\ Len(<<>>) = 0
    OBVIOUS
  <1>2. \A i : <<i>> \in Seq({i}) /\ Len(<<i>>) = 1 /\ <<i>>[1] = i
    OBVIOUS
  <1> QED
    BY <1>1, <1>2 DEF IsSequence

\* Code behind code: its length, and what is at each place.
LEMMA JoinFacts ==
  ASSUME NEW c, NEW d, IsSequence(c), IsSequence(d)
  PROVE  /\ IsSequence(c \o d)
         /\ Len(c) \in Nat /\ Len(d) \in Nat /\ Len(c \o d) = Len(c) + Len(d)
         /\ \A k \in 1 .. Len(c) : (c \o d)[k] = c[k]
         /\ \A k \in 1 .. Len(d) : (c \o d)[Len(c) + k] = d[k]
  <1>1. PICK S : c \in Seq(S)
    BY DEF IsSequence
  <1>2. PICK T : d \in Seq(T)
    BY DEF IsSequence
  <1>3. c \in Seq(S \union T) /\ d \in Seq(S \union T)
    BY <1>1, <1>2
  <1>4. c \o d \in Seq(S \union T)
    BY <1>3
  <1> QED
    BY <1>3, <1>4 DEF IsSequence

\* One instruction behind code.
LEMMA OneMoreFacts ==
  ASSUME NEW c, NEW i, IsSequence(c)
  PROVE  /\ IsSequence(c \o <<i>>)
         /\ Len(c) \in Nat /\ Len(c \o <<i>>) = Len(c) + 1
         /\ \A k \in 1 .. Len(c) : (c \o <<i>>)[k] = c[k]
         /\ (c \o <<i>>)[Len(c) + 1] = i
  <1> DEFINE d == <<i>>
  <1>1. IsSequence(d) /\ Len(d) = 1 /\ d[1] = i
    BY OneFacts
  <1> HIDE DEF d
  <1>2. IsSequence(c \o d) /\ Len(c) \in Nat /\ Len(c \o d) = Len(c) + Len(d)
    BY <1>1, JoinFacts
  <1>3. \A k \in 1 .. Len(c) : (c \o d)[k] = c[k]
    BY <1>1, JoinFacts
  <1>4. \A k \in 1 .. Len(d) : (c \o d)[Len(c) + k] = d[k]
    BY <1>1, JoinFacts
  <1>5. (c \o d)[Len(c) + 1] = d[1]
    BY <1>1, <1>4
  <1>6. Len(c \o d) = Len(c) + 1
    BY <1>1, <1>2
  <1> QED
    BY <1>1, <1>2, <1>3, <1>5, <1>6 DEF d

\* It is the same in what order pieces are put together.
LEMMA JoinAssociates ==
  ASSUME NEW b, NEW c, NEW d, IsSequence(b), IsSequence(c), IsSequence(d)
  PROVE  (b \o c) \o d = b \o (c \o d)
  <1>1. PICK R : b \in Seq(R)
    BY DEF IsSequence
  <1>2. PICK S : c \in Seq(S)
    BY DEF IsSequence
  <1>3. PICK T : d \in Seq(T)
    BY DEF IsSequence
  <1>4. b \in Seq(R \union S \union T) /\ c \in Seq(R \union S \union T) /\ d \in Seq(R \union S \union T)
    BY <1>1, <1>2, <1>3
  <1> QED
    BY <1>4

\* No instruction adds nothing.
LEMMA EmptyJoin ==
  ASSUME NEW c, IsSequence(c)
  PROVE  c \o <<>> = c /\ <<>> \o c = c
  <1>1. PICK S : c \in Seq(S)
    BY DEF IsSequence
  <1> QED
    BY <1>1

\* Code is the same if it has the same instructions at the same places.
LEMMA SameCode ==
  ASSUME NEW c, NEW d, IsSequence(c), IsSequence(d), Len(c) = Len(d),
         \A k \in 1 .. Len(c) : c[k] = d[k]
  PROVE  c = d
  <1>1. PICK S : c \in Seq(S)
    BY DEF IsSequence
  <1>2. PICK T : d \in Seq(T)
    BY DEF IsSequence
  <1>3. c = [k \in 1 .. Len(c) |-> c[k]]
    BY <1>1
  <1>4. d = [k \in 1 .. Len(d) |-> d[k]]
    BY <1>2
  <1> QED
    BY <1>3, <1>4

\* Several instructions are emitted one after another.
LEMMA PairFacts ==
  ASSUME NEW i, NEW j
  PROVE  <<i, j>> = <<i>> \o <<j>> /\ IsSequence(<<i, j>>)
  <1> DEFINE c == <<i>> \o <<j>>
             d == <<i, j>>
  <1>1. IsSequence(c) /\ Len(c) = 2 /\ c[1] = i /\ c[2] = j
    BY OneFacts, JoinFacts
  <1>2. d \in Seq({i, j}) /\ Len(d) = 2 /\ d[1] = i /\ d[2] = j
    OBVIOUS
  <1>3. \A k \in 1 .. 2 : k = 1 \/ k = 2
    OBVIOUS
  <1>4. IsSequence(d)
    BY <1>2 DEF IsSequence
  <1> HIDE DEF c, d
  <1>5. d = c
    BY <1>1, <1>2, <1>3, <1>4, SameCode
  <1> QED
    BY <1>4, <1>5 DEF c, d

\* Three instructions, the last of them apart.
LEMMA TripleFacts ==
  ASSUME NEW i, NEW j, NEW k
  PROVE  <<i, j, k>> = <<i, j>> \o <<k>> /\ IsSequence(<<i, j, k>>)
  <1> DEFINE b == <<i, j>>
             c == b \o <<k>>
             d == <<i, j, k>>
  <1>1. IsSequence(b) /\ Len(b) = 2 /\ b[1] = i /\ b[2] = j
    BY PairFacts
  <1> HIDE DEF b
  <1>2. IsSequence(c) /\ Len(c) = 3 /\ c[1] = i /\ c[2] = j /\ c[3] = k
    <2>1. IsSequence(c) /\ Len(c) = Len(b) + 1
      BY <1>1, OneMoreFacts
    <2>2. (\A m \in 1 .. Len(b) : c[m] = b[m])
      BY <1>1, OneMoreFacts
    <2>3. c[Len(b) + 1] = k
      BY <1>1, OneMoreFacts
    <2> QED
      BY <1>1, <2>1, <2>2, <2>3
  <1>3. d \in Seq({i, j, k}) /\ Len(d) = 3 /\ d[1] = i /\ d[2] = j /\ d[3] = k
    OBVIOUS
  <1>4. \A m \in 1 .. 3 : m = 1 \/ m = 2 \/ m = 3
    OBVIOUS
  <1>5. IsSequence(d)
    BY <1>3 DEF IsSequence
  <1> HIDE DEF c, d
  <1>6. d = c
    BY <1>2, <1>3, <1>4, <1>5, SameCode
  <1> QED
    BY <1>5, <1>6 DEF b, c, d

\* Four instructions, the last of them apart.
LEMMA QuadFacts ==
  ASSUME NEW i, NEW j, NEW k, NEW l
  PROVE  <<i, j, k, l>> = <<i, j, k>> \o <<l>> /\ IsSequence(<<i, j, k, l>>)
  <1> DEFINE b == <<i, j, k>>
             c == b \o <<l>>
             d == <<i, j, k, l>>
  <1>1. IsSequence(b) /\ Len(b) = 3 /\ b[1] = i /\ b[2] = j /\ b[3] = k
    BY TripleFacts
  <1> HIDE DEF b
  <1>2. IsSequence(c) /\ Len(c) = 4 /\ c[1] = i /\ c[2] = j /\ c[3] = k /\ c[4] = l
    <2>1. IsSequence(c) /\ Len(c) = Len(b) + 1
      BY <1>1, OneMoreFacts
    <2>2. (\A m \in 1 .. Len(b) : c[m] = b[m])
      BY <1>1, OneMoreFacts
    <2>3. c[Len(b) + 1] = l
      BY <1>1, OneMoreFacts
    <2> QED
      BY <1>1, <2>1, <2>2, <2>3
  <1>3. d \in Seq({i, j, k, l}) /\ Len(d) = 4 /\ d[1] = i /\ d[2] = j /\ d[3] = k /\ d[4] = l
    OBVIOUS
  <1>4. \A m \in 1 .. 4 : m = 1 \/ m = 2 \/ m = 3 \/ m = 4
    OBVIOUS
  <1>5. IsSequence(d)
    BY <1>3 DEF IsSequence
  <1> HIDE DEF c, d
  <1>6. d = c
    BY <1>2, <1>3, <1>4, <1>5, SameCode
  <1> QED
    BY <1>5, <1>6 DEF b, c, d

-----------------------------------------------------------------------------
(* Pieces of code, and the shapes at their instructions. *)

Sh(h, d) == [height |-> h, depth |-> d]

\* Instruction i takes shape a to shape b. L: the labels, each with the shape that
\* all ways to it agree on.
Fits(i, a, b, L, floor) ==
  /\ i.op # "Ret"
  /\ Takes(i) <= a.height
  /\ i.op = "EndScope" => a.depth > floor
  /\ i.op = "BindVar" => a.depth > 0
  /\ i.op # "Jump" => b = After(i, a)
  /\ i.op \in {"Jump", "JumpIfFalse"} => <<i.label, After(i, a)>> \in L
  /\ i.op = "Label" => <<i.label, a>> \in L

\* There are shapes for all of c, from s in front of it to t behind it.
Shapes(c, s, t, L, floor, sh) ==
  /\ sh \in [1 .. Len(c) + 1 -> Shape]
  /\ sh[1] = s /\ sh[Len(c) + 1] = t
  /\ \A k \in 1 .. Len(c) : Fits(c[k], sh[k], sh[k + 1], L, floor)

Piece(c, s, t, L, floor) == IsSequence(c) /\ \E sh : Shapes(c, s, t, L, floor, sh)

\* What fits with some labels fits with more.
LEMMA FitsMore ==
  ASSUME NEW i, NEW a, NEW b, NEW L, NEW G, NEW floor, Fits(i, a, b, L, floor), L \subseteq G
  PROVE  Fits(i, a, b, G, floor)
  BY DEF Fits

\* So does a piece.
LEMMA PieceMore ==
  ASSUME NEW c, NEW s, NEW t, NEW L, NEW G, NEW floor, Piece(c, s, t, L, floor), L \subseteq G
  PROVE  Piece(c, s, t, G, floor)
  <1>1. IsSequence(c)
    BY DEF Piece
  <1>2. PICK sh : Shapes(c, s, t, L, floor, sh)
    BY DEF Piece
  <1>3. Shapes(c, s, t, G, floor, sh)
    BY <1>2, FitsMore DEF Shapes
  <1> QED
    BY <1>1, <1>3 DEF Piece

\* No instruction is a piece that changes nothing.
LEMMA PieceNone ==
  ASSUME NEW s \in Shape, NEW L, NEW floor
  PROVE  Piece(<<>>, s, s, L, floor)
  <1> DEFINE c == <<>>
             sh == [k \in 1 .. 1 |-> s]
  <1>1. IsSequence(c) /\ Len(c) = 0
    BY OneFacts
  <1> HIDE DEF c
  <1>2. Shapes(c, s, s, L, floor, sh)
    BY <1>1 DEF Shapes
  <1>3. Piece(c, s, s, L, floor)
    BY <1>1, <1>2 DEF Piece
  <1> QED
    BY <1>3 DEF c

\* An instruction that fits is a piece.
LEMMA PieceOne ==
  ASSUME NEW i, NEW s \in Shape, NEW t \in Shape, NEW L, NEW floor, Fits(i, s, t, L, floor)
  PROVE  Piece(<<i>>, s, t, L, floor)
  <1> DEFINE c == <<i>>
             sh == [k \in 1 .. 2 |-> IF k = 1 THEN s ELSE t]
  <1>1. IsSequence(c) /\ Len(c) = 1 /\ c[1] = i
    BY OneFacts
  <1> HIDE DEF c
  <1>2. sh \in [1 .. 2 -> Shape] /\ sh[1] = s /\ sh[2] = t
    OBVIOUS
  <1> HIDE DEF sh
  <1>3. Len(c) + 1 = 2 /\ \A k \in 1 .. 1 : k = 1 /\ k + 1 = 2
    BY <1>1
  <1>4. Shapes(c, s, t, L, floor, sh)
    BY <1>1, <1>2, <1>3 DEF Shapes
  <1>5. Piece(c, s, t, L, floor)
    BY <1>1, <1>4 DEF Piece
  <1> QED
    BY <1>5 DEF c

\* A piece and one that starts where it ends are a piece.
LEMMA PieceJoin ==
  ASSUME NEW c, NEW d, NEW s, NEW t, NEW u, NEW L, NEW floor,
         Piece(c, s, t, L, floor), Piece(d, t, u, L, floor)
  PROVE  Piece(c \o d, s, u, L, floor)
  <1> DEFINE m == Len(c)
             n == Len(d)
             e == c \o d
  <1>1. IsSequence(c) /\ IsSequence(d)
    BY DEF Piece
  <1>2. PICK a : Shapes(c, s, t, L, floor, a)
    BY DEF Piece
  <1>3. PICK b : Shapes(d, t, u, L, floor, b)
    BY DEF Piece
  <1>4. IsSequence(e) /\ m \in Nat /\ n \in Nat /\ Len(e) = m + n
    BY <1>1, JoinFacts
  <1>5. \A k \in 1 .. m : e[k] = c[k]
    BY <1>1, JoinFacts
  <1>6. \A k \in 1 .. n : e[m + k] = d[k]
    BY <1>1, JoinFacts
  <1> DEFINE sh == [k \in 1 .. m + n + 1 |-> IF k <= m THEN a[k] ELSE b[k - m]]
  <1>7. /\ a \in [1 .. m + 1 -> Shape] /\ a[1] = s /\ a[m + 1] = t
        /\ \A k \in 1 .. m : Fits(c[k], a[k], a[k + 1], L, floor)
    BY <1>2 DEF Shapes
  <1>8. /\ b \in [1 .. n + 1 -> Shape] /\ b[1] = t /\ b[n + 1] = u
        /\ \A k \in 1 .. n : Fits(d[k], b[k], b[k + 1], L, floor)
    BY <1>3 DEF Shapes
  <1> HIDE DEF m, n, e
  <1>9. sh \in [1 .. m + n + 1 -> Shape]
    <2>1. ASSUME NEW k \in 1 .. m + n + 1 PROVE (IF k <= m THEN a[k] ELSE b[k - m]) \in Shape
      <3>1. CASE k <= m
        <4>1. k \in 1 .. m + 1
          BY <1>4, <3>1
        <4> QED
          BY <1>7, <3>1, <4>1
      <3>2. CASE ~ (k <= m)
        <4>1. k - m \in 1 .. n + 1
          BY <1>4, <3>2
        <4> QED
          BY <1>8, <3>2, <4>1
      <3> QED
        BY <3>1, <3>2
    <2> QED
      BY <2>1
  <1>10. \A k \in 1 .. m + n + 1 : sh[k] = IF k <= m THEN a[k] ELSE b[k - m]
    OBVIOUS
  <1> HIDE DEF sh
  <1>11. \A k \in 1 .. m + 1 : sh[k] = a[k]
    <2> SUFFICES ASSUME NEW k \in 1 .. m + 1 PROVE sh[k] = a[k]
      OBVIOUS
    <2>1. k \in 1 .. m + n + 1
      BY <1>4
    <2>2. CASE k <= m
      BY <1>10, <2>1, <2>2
    <2>3. CASE ~ (k <= m)
      <3>1. k = m + 1 /\ k - m = 1
        BY <1>4, <2>3
      <3> QED
        BY <1>7, <1>8, <1>10, <2>1, <2>3, <3>1
    <2> QED
      BY <2>2, <2>3
  <1>12. \A k \in 1 .. n + 1 : sh[m + k] = b[k]
    <2> SUFFICES ASSUME NEW k \in 1 .. n + 1 PROVE sh[m + k] = b[k]
      OBVIOUS
    <2>1. m + k \in 1 .. m + n + 1 /\ ~ (m + k <= m) /\ (m + k) - m = k
      BY <1>4
    <2> QED
      BY <1>10, <2>1
  <1>13. \A k \in 1 .. m + n : Fits(e[k], sh[k], sh[k + 1], L, floor)
    <2> SUFFICES ASSUME NEW k \in 1 .. m + n PROVE Fits(e[k], sh[k], sh[k + 1], L, floor)
      OBVIOUS
    <2>1. CASE k <= m
      <3>1. k \in 1 .. m /\ k \in 1 .. m + 1 /\ k + 1 \in 1 .. m + 1
        BY <1>4, <2>1
      <3> QED
        BY <1>5, <1>7, <1>11, <3>1
    <2>2. CASE ~ (k <= m)
      <3> DEFINE j == k - m
      <3>1. j \in 1 .. n /\ j \in 1 .. n + 1 /\ j + 1 \in 1 .. n + 1
            /\ m + j = k /\ m + (j + 1) = k + 1
        BY <1>4, <2>2
      <3> HIDE DEF j
      <3>2. e[k] = d[j] /\ sh[k] = b[j] /\ sh[k + 1] = b[j + 1]
        BY <1>6, <1>12, <3>1
      <3> QED
        BY <1>8, <3>1, <3>2
    <2> QED
      BY <2>1, <2>2
  <1>14. sh[1] = s /\ sh[m + n + 1] = u
    <2>1. 1 \in 1 .. m + 1 /\ n + 1 \in 1 .. n + 1 /\ m + (n + 1) = m + n + 1
      BY <1>4
    <2> QED
      BY <1>7, <1>8, <1>11, <1>12, <2>1
  <1>15. Shapes(e, s, u, L, floor, sh)
    BY <1>4, <1>9, <1>13, <1>14 DEF Shapes
  <1>16. Piece(e, s, u, L, floor)
    BY <1>4, <1>15 DEF Piece
  <1> QED
    BY <1>16 DEF e

-----------------------------------------------------------------------------
(* Lowerings that are under way. *)

IsLowering(r) ==
  r = [code |-> r.code, counter |-> r.counter] /\ IsSequence(r.code) /\ r.counter \in Nat

Defines(c, l) == \E k \in 1 .. Len(c) : c[k] = OnLabel("Label", l)

\* A label and its shape: a label has one, and the number in it was taken at the
\* time the counter was between m and n.
Agree(M)        == \A p, q \in M : p[1] = q[1] => p = q
Inside(p, m, n) == p[1][2] \in m .. n - 1

\* What a lowering r comes to that began with the counter at w.since and the shape
\* w.start. It now is at shape t. It uses labels of its own, which all are in its code,
\* and may use the labels w.open, of which it has put those of D.
Flows(w, r, t, D) ==
  /\ IsLowering(r) /\ w.since \in Nat /\ w.since <= r.counter /\ t \in Shape
  /\ \A l \in D : Defines(r.code, l)
  /\ \E M : /\ Agree(M)
            /\ \A p \in M : Inside(p, w.since, r.counter) /\ Defines(r.code, p[1])
            /\ Piece(r.code, w.start, t, w.open \union M, w.floor)

\* Code puts the labels that its pieces put.
LEMMA DefinesJoin ==
  ASSUME NEW c, NEW d, IsSequence(c), IsSequence(d), NEW l, Defines(c, l) \/ Defines(d, l)
  PROVE  Defines(c \o d, l)
  <1> DEFINE m == Len(c)
             n == Len(d)
             e == c \o d
  <1>1. IsSequence(e) /\ m \in Nat /\ n \in Nat /\ Len(e) = m + n
    BY JoinFacts
  <1>2. \A k \in 1 .. m : e[k] = c[k]
    BY JoinFacts
  <1>3. \A k \in 1 .. n : e[m + k] = d[k]
    BY JoinFacts
  <1>4. (\E k \in 1 .. m : c[k] = OnLabel("Label", l)) \/ (\E k \in 1 .. n : d[k] = OnLabel("Label", l))
    BY DEF Defines
  <1> HIDE DEF m, n, e
  <1>5. \E k \in 1 .. m + n : e[k] = OnLabel("Label", l)
    <2>1. CASE \E k \in 1 .. m : c[k] = OnLabel("Label", l)
      <3>1. PICK k \in 1 .. m : c[k] = OnLabel("Label", l)
        BY <2>1
      <3>2. k \in 1 .. m + n /\ e[k] = OnLabel("Label", l)
        BY <1>1, <1>2, <3>1
      <3> QED
        BY <3>2
    <2>2. CASE \E k \in 1 .. n : d[k] = OnLabel("Label", l)
      <3>1. PICK k \in 1 .. n : d[k] = OnLabel("Label", l)
        BY <2>2
      <3>2. m + k \in 1 .. m + n /\ e[m + k] = OnLabel("Label", l)
        BY <1>1, <1>3, <3>1
      <3> QED
        BY <3>2
    <2> QED
      BY <1>4, <2>1, <2>2
  <1>6. Defines(e, l)
    BY <1>1, <1>5 DEF Defines
  <1> QED
    BY <1>6 DEF e

\* Start: nothing emitted yet.
LEMMA StartFacts ==
  ASSUME NEW n \in Nat
  PROVE  IsLowering(Start(n)) /\ Start(n).code = <<>> /\ Start(n).counter = n
  <1> DEFINE c == <<>>
             r == [code |-> c, counter |-> n]
  <1>1. IsSequence(c)
    BY OneFacts
  <1> HIDE DEF c
  <1>2. IsLowering(r) /\ r.code = c /\ r.counter = n
    BY <1>1 DEF IsLowering
  <1>3. r = Start(n)
    BY DEF Start, c
  <1> HIDE DEF r
  <1> QED
    BY <1>2, <1>3 DEF c

\* A lowering that starts is at the shape it starts with.
LEMMA FlowsStart ==
  ASSUME NEW w, NEW n \in Nat, w.since \in Nat, w.since <= n, w.start \in Shape
  PROVE  Flows(w, Start(n), w.start, {})
  <1> DEFINE r == Start(n)
             M == {}
  <1>1. IsLowering(r) /\ r.code = <<>> /\ r.counter = n
    BY StartFacts
  <1> HIDE DEF r
  <1>2. Piece(r.code, w.start, w.start, w.open \union M, w.floor)
    BY <1>1, PieceNone
  <1>3. Agree(M) /\ \A p \in M : Inside(p, w.since, r.counter) /\ Defines(r.code, p[1])
    BY DEF Agree
  <1> HIDE DEF M
  <1>4. Flows(w, r, w.start, {})
    BY <1>1, <1>2, <1>3 DEF Flows
  <1> QED
    BY <1>4 DEF r

\* A lowering goes on with another.
LEMMA FlowsThen ==
  ASSUME NEW w, NEW r, NEW t, NEW D, Flows(w, r, t, D),
         NEW v, v.since = r.counter, v.start = t, v.open \subseteq w.open, v.floor = w.floor,
         NEW q, NEW u, NEW F, Flows(v, q, u, F)
  PROVE  Flows(w, [code |-> r.code \o q.code, counter |-> q.counter], u, D \union F)
  <1>1. /\ IsLowering(r) /\ w.since \in Nat /\ w.since <= r.counter /\ t \in Shape
        /\ \A l \in D : Defines(r.code, l)
    BY DEF Flows
  <1>2. /\ IsLowering(q) /\ r.counter <= q.counter /\ u \in Shape
        /\ \A l \in F : Defines(q.code, l)
    BY DEF Flows
  <1>3. PICK M : /\ Agree(M)
                 /\ \A p \in M : Inside(p, w.since, r.counter) /\ Defines(r.code, p[1])
                 /\ Piece(r.code, w.start, t, w.open \union M, w.floor)
    BY DEF Flows
  <1>4. PICK N : /\ Agree(N)
                 /\ \A p \in N : Inside(p, r.counter, q.counter) /\ Defines(q.code, p[1])
                 /\ Piece(q.code, t, u, v.open \union N, w.floor)
    BY DEF Flows
  <1> DEFINE c == r.code
             d == q.code
             e == [code |-> c \o d, counter |-> q.counter]
             G == w.open \union (M \union N)
  <1>5. IsSequence(c) /\ IsSequence(d) /\ r.counter \in Nat /\ q.counter \in Nat
    BY <1>1, <1>2 DEF IsLowering
  <1>6. IsSequence(c \o d)
    BY <1>5, JoinFacts
  <1>7. IsLowering(e)
    BY <1>5, <1>6 DEF IsLowering
  <1>8. \A l : Defines(c, l) \/ Defines(d, l) => Defines(c \o d, l)
    BY <1>5, DefinesJoin
  <1>9. w.open \union M \subseteq G /\ v.open \union N \subseteq G
    OBVIOUS
  <1>10. Piece(c, w.start, t, G, w.floor) /\ Piece(d, t, u, G, w.floor)
    BY <1>3, <1>4, <1>9, PieceMore
  <1>11. Piece(c \o d, w.start, u, G, w.floor)
    BY <1>10, PieceJoin
  <1>12. Agree(M \union N)
    <2> SUFFICES ASSUME NEW p \in M \union N, NEW p2 \in M \union N, p[1] = p2[1]
                 PROVE  p = p2
      BY DEF Agree
    <2>1. CASE p \in M /\ p2 \in M
      BY <1>3, <2>1 DEF Agree
    <2>2. CASE p \in N /\ p2 \in N
      BY <1>4, <2>2 DEF Agree
    <2>3. ASSUME NEW x \in M, NEW y \in N, x[1] = y[1] PROVE FALSE
      <3>1. x[1][2] \in w.since .. r.counter - 1 /\ y[1][2] \in r.counter .. q.counter - 1
        BY <1>3, <1>4 DEF Inside
      <3> QED
        BY <1>1, <1>5, <2>3, <3>1
    <2> QED
      BY <2>1, <2>2, <2>3
  <1>13. ASSUME NEW p \in M \union N
         PROVE  Inside(p, w.since, q.counter) /\ Defines(c \o d, p[1])
    <2>1. Defines(c \o d, p[1])
      BY <1>3, <1>4, <1>8
    <2>2. p[1][2] \in w.since .. r.counter - 1 \/ p[1][2] \in r.counter .. q.counter - 1
      BY <1>3, <1>4 DEF Inside
    <2>3. p[1][2] \in w.since .. q.counter - 1
      BY <1>1, <1>2, <1>5, <2>2
    <2> QED
      BY <2>1, <2>3 DEF Inside
  <1>14. e.code = c \o d /\ e.counter = q.counter
    OBVIOUS
  <1>15. \A l \in D \union F : Defines(c \o d, l)
    BY <1>1, <1>2, <1>8
  <1> HIDE DEF c, d, e, G
  <1>16. Flows(w, e, u, D \union F)
    <2> DEFINE K == M \union N
    <2>1. Agree(K) /\ \A p \in K : Inside(p, w.since, q.counter) /\ Defines(c \o d, p[1])
      BY <1>12, <1>13
    <2>2. Piece(c \o d, w.start, u, w.open \union K, w.floor)
      BY <1>11 DEF G
    <2> HIDE DEF K
    <2>3. /\ Agree(K)
          /\ \A p \in K : Inside(p, w.since, e.counter) /\ Defines(e.code, p[1])
          /\ Piece(e.code, w.start, u, w.open \union K, w.floor)
      BY <1>14, <2>1, <2>2
    <2>4. w.since <= q.counter
      BY <1>1, <1>2, <1>5
    <2>5. /\ IsLowering(e) /\ w.since \in Nat /\ w.since <= e.counter /\ u \in Shape
          /\ \A l \in D \union F : Defines(e.code, l)
      BY <1>1, <1>2, <1>7, <1>14, <1>15, <2>4
    <2> HIDE DEF IsLowering, Agree, Inside, Defines, Piece
    <2> QED
      BY <2>3, <2>5 DEF Flows
  <1> QED
    BY <1>16 DEF c, d, e

\* Emit with one instruction that fits.
LEMMA FlowsOne ==
  ASSUME NEW w, NEW r, NEW t, NEW D, Flows(w, r, t, D),
         NEW i, NEW u \in Shape, Fits(i, t, u, w.open, w.floor)
  PROVE  /\ Flows(w, Emit(r, <<i>>), u, D)
         /\ \A l : i = OnLabel("Label", l) => Flows(w, Emit(r, <<i>>), u, D \union {l})
  <1> DEFINE c == <<i>>
             q == [code |-> c, counter |-> r.counter]
             v == [since |-> r.counter, start |-> t, open |-> w.open, floor |-> w.floor]
             M == {}
  <1>1. IsSequence(c) /\ Len(c) = 1 /\ c[1] = i
    BY OneFacts
  <1>2. Piece(c, t, u, w.open \union M, w.floor)
    <2>1. t \in Shape
      BY DEF Flows
    <2>2. Piece(c, t, u, w.open, w.floor)
      BY <2>1, PieceOne
    <2>3. w.open \union M = w.open
      OBVIOUS
    <2> QED
      BY <2>2, <2>3
  <1> HIDE DEF c
  <1>3. r.counter \in Nat
    BY DEF Flows, IsLowering
  <1>4. IsLowering(q) /\ q.code = c /\ q.counter = r.counter
    BY <1>1, <1>3 DEF IsLowering
  <1>5. Agree(M) /\ \A p \in M : Inside(p, v.since, q.counter) /\ Defines(q.code, p[1])
    BY DEF Agree
  <1>6. v.since = r.counter /\ v.start = t /\ v.open = w.open /\ v.floor = w.floor
    OBVIOUS
  <1> HIDE DEF q, v, M
  <1>7. ASSUME NEW F, \A l \in F : Defines(c, l) PROVE Flows(w, Emit(r, c), u, D \union F)
    <2>1. v.since \in Nat /\ v.since <= q.counter /\ \A l \in F : Defines(q.code, l)
      BY <1>3, <1>4, <1>6, <1>7
    <2>2. Piece(q.code, v.start, u, v.open \union M, v.floor)
      BY <1>2, <1>4, <1>6
    <2>3. Flows(v, q, u, F)
      BY <1>4, <1>5, <2>1, <2>2 DEF Flows
    <2>4. Flows(w, [code |-> r.code \o q.code, counter |-> q.counter], u, D \union F)
      BY <1>6, <2>3, FlowsThen
    <2> QED
      BY <1>4, <2>4 DEF Emit
  <1>8. Flows(w, Emit(r, c), u, D \union {})
    BY <1>7
  <1>9. D \union {} = D
    OBVIOUS
  <1>10. ASSUME NEW l, i = OnLabel("Label", l) PROVE Flows(w, Emit(r, c), u, D \union {l})
    <2>1. Defines(c, l)
      BY <1>1, <1>10 DEF Defines
    <2> QED
      BY <1>7, <2>1
  <1> QED
    BY <1>8, <1>9, <1>10 DEF c

\* Instructions that are emitted together.
LEMMA EmitMore ==
  ASSUME NEW r, IsLowering(r), NEW c, IsSequence(c), NEW d, IsSequence(d)
  PROVE  Emit(r, c \o d) = Emit(Emit(r, c), d)
  <1>1. IsSequence(r.code)
    BY DEF IsLowering
  <1>2. (r.code \o c) \o d = r.code \o (c \o d)
    <2> DEFINE a == r.code
    <2>1. IsSequence(a)
      BY <1>1
    <2> HIDE DEF a
    <2>2. (a \o c) \o d = a \o (c \o d)
      BY <2>1, JoinAssociates
    <2> QED
      BY <2>2 DEF a
  <1> DEFINE q == Emit(r, c)
  <1>3. q.code = r.code \o c /\ q.counter = r.counter
    BY DEF Emit
  <1> HIDE DEF q
  <1>4. Emit(q, d) = [code |-> (r.code \o c) \o d, counter |-> r.counter]
    BY <1>3 DEF Emit
  <1>5. Emit(r, c \o d) = [code |-> r.code \o (c \o d), counter |-> r.counter]
    BY DEF Emit
  <1> QED
    BY <1>2, <1>4, <1>5 DEF q

\* Instructions are emitted one after the other: two,
LEMMA EmitTwo ==
  ASSUME NEW r, IsLowering(r), NEW i, NEW j
  PROVE  Emit(r, <<i, j>>) = Emit(Emit(r, <<i>>), <<j>>)
  <1> DEFINE a == <<i>>
             b == <<j>>
             c == <<i, j>>
  <1>1. IsSequence(a) /\ IsSequence(b)
    BY OneFacts
  <1>2. c = a \o b
    BY PairFacts
  <1> HIDE DEF a, b, c
  <1>3. Emit(r, a \o b) = Emit(Emit(r, a), b)
    BY <1>1, EmitMore
  <1> QED
    BY <1>2, <1>3 DEF a, b, c

\* three,
LEMMA EmitThree ==
  ASSUME NEW r, IsLowering(r), NEW i, NEW j, NEW k
  PROVE  Emit(r, <<i, j, k>>) = Emit(Emit(Emit(r, <<i>>), <<j>>), <<k>>)
  <1> DEFINE a == <<i, j>>
             b == <<k>>
             c == <<i, j, k>>
  <1>1. IsSequence(a) /\ IsSequence(b)
    BY OneFacts, PairFacts
  <1>2. c = a \o b
    BY TripleFacts
  <1>3. Emit(r, a) = Emit(Emit(r, <<i>>), <<j>>)
    BY EmitTwo
  <1> HIDE DEF a, b, c
  <1>4. Emit(r, a \o b) = Emit(Emit(r, a), b)
    BY <1>1, EmitMore
  <1> QED
    BY <1>2, <1>3, <1>4 DEF a, b, c

\* and four.
LEMMA EmitFour ==
  ASSUME NEW r, IsLowering(r), NEW i, NEW j, NEW k, NEW l
  PROVE  Emit(r, <<i, j, k, l>>) = Emit(Emit(Emit(Emit(r, <<i>>), <<j>>), <<k>>), <<l>>)
  <1> DEFINE a == <<i, j, k>>
             b == <<l>>
             c == <<i, j, k, l>>
  <1>1. IsSequence(a) /\ IsSequence(b)
    BY OneFacts, TripleFacts
  <1>2. c = a \o b
    BY QuadFacts
  <1>3. Emit(r, a) = Emit(Emit(Emit(r, <<i>>), <<j>>), <<k>>)
    BY EmitThree
  <1> HIDE DEF a, b, c
  <1>4. Emit(r, a \o b) = Emit(Emit(r, a), b)
    BY <1>1, EmitMore
  <1> QED
    BY <1>2, <1>3, <1>4 DEF a, b, c

-----------------------------------------------------------------------------
(* One instruction of each kind. *)

\* The shapes.
LEMMA ShFacts ==
  /\ \A h, d \in Nat : Sh(h, d) \in Shape
  /\ \A h, d : Sh(h, d).height = h /\ Sh(h, d).depth = d
  BY DEF Sh, Shape

\* A lowering that is about to start is where it starts.
LEMMA FlowsStartAt ==
  ASSUME NEW w, NEW n \in Nat, NEW h \in Nat, NEW d \in Nat, w.since = n, w.start = Sh(h, d)
  PROVE  Flows(w, Start(n), Sh(h, d), {})
  <1>1. w.since \in Nat /\ w.since <= n /\ w.start \in Shape
    BY ShFacts
  <1> QED
    BY <1>1, FlowsStart

\* An instruction that does not jump changes the shape as the table of effects says.
LEMMA PlainFlow ==
  ASSUME NEW w, NEW r, NEW h \in Nat, NEW d \in Nat, NEW D, Flows(w, r, Sh(h, d), D),
         NEW i, i.op \notin {"Ret", "Jump", "JumpIfFalse", "Label"},
         Takes(i) <= h,
         i.op = "EndScope" => d > w.floor,
         i.op = "BindVar" => d > 0,
         NEW k \in Nat, NEW e \in Nat, k = h - Takes(i) + Gives(i), e = d + Opens(i)
  PROVE  Flows(w, Emit(r, <<i>>), Sh(k, e), D)
  <1>1. After(i, Sh(h, d)) = Sh(k, e)
    BY ShFacts DEF After, Sh
  <1>2. Fits(i, Sh(h, d), Sh(k, e), w.open, w.floor)
    BY <1>1, ShFacts DEF Fits
  <1> QED
    BY <1>2, ShFacts, FlowsOne

\* The next value is pushed, or the values of k parts make way for one.
LEMMA PushFlow ==
  ASSUME NEW w, NEW r, NEW h \in Nat, NEW d \in Nat, NEW D, Flows(w, r, Sh(h, d), D),
         NEW i, i.op \in {"Literal", "Rand", "LoadVar", "NewObject"}
  PROVE  Flows(w, Emit(r, <<i>>), Sh(h + 1, d), D)
  <1> DEFINE k == h + 1
  <1>1. Takes(i) = 0 /\ Gives(i) = 1 /\ Opens(i) = 0
    BY EffectFacts
  <1>2. k \in Nat /\ Takes(i) <= h /\ k = h - Takes(i) + Gives(i) /\ d = d + Opens(i)
    BY <1>1
  <1> HIDE DEF k
  <1>3. Flows(w, Emit(r, <<i>>), Sh(k, d), D)
    BY <1>2, PlainFlow
  <1> QED
    BY <1>3 DEF k

Combines(i, k) ==
  \/ i.op = "Rand" /\ k = 0
  \/ i.op = "MakeVector" /\ i.size = k
  \/ i.op = "Call" /\ i.argc = k
  \/ i.op \in {"CallMethod", "CallBase"} /\ i.argc + 1 = k
  \/ i.op \in {"GetField", "IsType", "AsType"} /\ k = 1
  \/ i.op \in {"SetField", "Index"} /\ k = 2
  \/ i.op \in PureOps /\ Len(Kinds(i.op)) = k

\* One that combines k values leaves one of them.
LEMMA TakeFlow ==
  ASSUME NEW w, NEW r, NEW h \in Nat, NEW d \in Nat, NEW k \in Nat, NEW D,
         Flows(w, r, Sh(h + k, d), D), NEW i, Combines(i, k)
  PROVE  Flows(w, Emit(r, <<i>>), Sh(h + 1, d), D)
  <1>1. Takes(i) = k /\ Gives(i) = 1 /\ Opens(i) = 0
    BY EffectFacts, PureEffect DEF Combines
  <1>2. i.op \notin {"Ret", "Jump", "JumpIfFalse", "Label", "EndScope", "BindVar"}
    BY DEF Combines, PureOps, NumOps, NumFuncs, NumTests, BoolOps, AnyTests, Joins
  <1> DEFINE a == h + k
             b == h + 1
  <1>3. a \in Nat /\ b \in Nat /\ Takes(i) <= a /\ b = a - Takes(i) + Gives(i) /\ d = d + Opens(i)
    BY <1>1
  <1>4. Flows(w, r, Sh(a, d), D)
    OBVIOUS
  <1> HIDE DEF a, b
  <1>5. Flows(w, Emit(r, <<i>>), Sh(b, d), D)
    BY <1>2, <1>3, <1>4, PlainFlow
  <1> QED
    BY <1>5 DEF b

\* One that takes a value and gives none.
LEMMA DropFlow ==
  ASSUME NEW w, NEW r, NEW h \in Nat, NEW d \in Nat, NEW D, Flows(w, r, Sh(h + 1, d), D), NEW i,
         i.op \in {"Pop", "StoreVar"} \/ (i.op = "BindVar" /\ d > 0)
  PROVE  Flows(w, Emit(r, <<i>>), Sh(h, d), D)
  <1>1. Takes(i) = 1 /\ Gives(i) = 0 /\ Opens(i) = 0
    BY EffectFacts
  <1>2. h + 1 \in Nat /\ 1 <= h + 1 /\ h = (h + 1) - 1 + 0 /\ d = d + 0
    OBVIOUS
  <1> QED
    BY <1>1, <1>2, PlainFlow

\* Dup leaves a value more.
LEMMA DupFlow ==
  ASSUME NEW w, NEW r, NEW h \in Nat, NEW d \in Nat, NEW D, Flows(w, r, Sh(h + 1, d), D),
         NEW i, i.op = "Dup"
  PROVE  Flows(w, Emit(r, <<i>>), Sh(h + 2, d), D)
  <1>1. Takes(i) = 1 /\ Gives(i) = 2 /\ Opens(i) = 0
    BY EffectFacts
  <1> DEFINE a == h + 1
             b == h + 2
  <1>2. a \in Nat /\ b \in Nat /\ Takes(i) <= a /\ b = a - Takes(i) + Gives(i) /\ d = d + Opens(i)
    BY <1>1
  <1>3. Flows(w, r, Sh(a, d), D)
    OBVIOUS
  <1> HIDE DEF a, b
  <1>4. Flows(w, Emit(r, <<i>>), Sh(b, d), D)
    BY <1>2, <1>3, PlainFlow
  <1> QED
    BY <1>4 DEF b

\* VecPush takes the vector and the element.
LEMMA GrowFlow ==
  ASSUME NEW w, NEW r, NEW h \in Nat, NEW d \in Nat, NEW D, Flows(w, r, Sh(h + 2, d), D),
         NEW i, i.op = "VecPush"
  PROVE  Flows(w, Emit(r, <<i>>), Sh(h, d), D)
  <1>1. Takes(i) = 2 /\ Gives(i) = 0 /\ Opens(i) = 0
    BY EffectFacts
  <1>2. h + 2 \in Nat /\ 2 <= h + 2 /\ h = (h + 2) - 2 + 0 /\ d = d + 0
    OBVIOUS
  <1> QED
    BY <1>1, <1>2, PlainFlow

\* BeginScope opens a scope.
LEMMA OpenFlow ==
  ASSUME NEW w, NEW r, NEW h \in Nat, NEW d \in Nat, NEW D, Flows(w, r, Sh(h, d), D),
         NEW i, i.op = "BeginScope"
  PROVE  Flows(w, Emit(r, <<i>>), Sh(h, d + 1), D)
  <1>1. Takes(i) = 0 /\ Gives(i) = 0 /\ Opens(i) = 1
    BY EffectFacts
  <1>2. d + 1 \in Nat /\ 0 <= h /\ h = h - 0 + 0
    OBVIOUS
  <1> QED
    BY <1>1, <1>2, PlainFlow

\* EndScope closes one that is the code's own.
LEMMA CloseFlow ==
  ASSUME NEW w, NEW r, NEW h \in Nat, NEW d \in Nat, NEW D, Flows(w, r, Sh(h, d + 1), D),
         w.floor \in Nat, w.floor <= d, NEW i, i.op = "EndScope"
  PROVE  Flows(w, Emit(r, <<i>>), Sh(h, d), D)
  <1>1. Takes(i) = 0 /\ Gives(i) = 0 /\ Opens(i) = -1
    BY EffectFacts
  <1>2. d + 1 \in Nat /\ 0 <= h /\ h = h - 0 + 0 /\ d = (d + 1) + (-1) /\ d + 1 > w.floor
    OBVIOUS
  <1> QED
    BY <1>1, <1>2, PlainFlow

\* A label that is open, with its shape.
LEMMA PutFlow ==
  ASSUME NEW w, NEW r, NEW t, NEW D, Flows(w, r, t, D),
         NEW l, t.height \in Nat, <<l, t>> \in w.open
  PROVE  Flows(w, Emit(r, <<OnLabel("Label", l)>>), t, D \union {l})
  <1> DEFINE i == OnLabel("Label", l)
  <1>1. i.op = "Label" /\ i.label = l
    BY DEF OnLabel
  <1>2. i = OnLabel("Label", l)
    OBVIOUS
  <1>3. t \in Shape
    BY DEF Flows
  <1> HIDE DEF i
  <1>4. Takes(i) = 0 /\ Gives(i) = 0 /\ Opens(i) = 0
    BY <1>1, EffectFacts
  <1>5. After(i, t) = t
    BY <1>3, <1>4 DEF After, Shape
  <1>6. Fits(i, t, t, w.open, w.floor)
    BY <1>1, <1>4, <1>5 DEF Fits
  <1> QED
    BY <1>2, <1>3, <1>6, FlowsOne DEF i

\* A jump to an open label; what is behind it may have any shape.
LEMMA JumpFlow ==
  ASSUME NEW w, NEW r, NEW t, NEW D, Flows(w, r, t, D),
         NEW l, <<l, t>> \in w.open, NEW u \in Shape
  PROVE  Flows(w, Emit(r, <<OnLabel("Jump", l)>>), u, D)
  <1> DEFINE i == OnLabel("Jump", l)
  <1>1. i.op = "Jump" /\ i.label = l
    BY DEF OnLabel
  <1>2. t \in Shape
    BY DEF Flows
  <1> HIDE DEF i
  <1>3. Takes(i) = 0 /\ Gives(i) = 0 /\ Opens(i) = 0
    BY <1>1, EffectFacts
  <1>4. After(i, t) = t /\ 0 <= t.height
    BY <1>2, <1>3 DEF After, Shape
  <1>5. Fits(i, t, u, w.open, w.floor)
    BY <1>1, <1>3, <1>4 DEF Fits
  <1> QED
    BY <1>5, FlowsOne DEF i

\* A conditional jump to an open label, which agrees on what is left without the test.
LEMMA TestFlow ==
  ASSUME NEW w, NEW r, NEW h \in Nat, NEW d \in Nat, NEW D, Flows(w, r, Sh(h + 1, d), D),
         NEW l, <<l, Sh(h, d)>> \in w.open
  PROVE  Flows(w, Emit(r, <<OnLabel("JumpIfFalse", l)>>), Sh(h, d), D)
  <1> DEFINE i == OnLabel("JumpIfFalse", l)
  <1>1. i.op = "JumpIfFalse" /\ i.label = l
    BY DEF OnLabel
  <1> HIDE DEF i
  <1>2. Takes(i) = 1 /\ Gives(i) = 0 /\ Opens(i) = 0
    BY <1>1, EffectFacts
  <1>3. After(i, Sh(h + 1, d)) = Sh(h, d)
    <2>1. (h + 1) - 1 + 0 = h /\ d + 0 = d
      OBVIOUS
    <2> QED
      BY <1>2, <2>1, ShFacts DEF After, Sh
  <1>4. Fits(i, Sh(h + 1, d), Sh(h, d), w.open, w.floor)
    <2>1. Takes(i) <= Sh(h + 1, d).height
      BY <1>2, ShFacts
    <2> QED
      BY <1>1, <1>3, <2>1 DEF Fits
  <1>5. Sh(h, d) \in Shape
    BY ShFacts
  <1> QED
    BY <1>4, <1>5, FlowsOne DEF i

-----------------------------------------------------------------------------
(* Parts. *)

\* A part of these flows, wherever the counter stands.
IsPart(f, t, u, open, floor, F) ==
  \A n \in Nat : Flows([since |-> n, start |-> t, open |-> open, floor |-> floor], f[n], u, F)

\* An expression leaves one value more than there were, no scope, and no label open.
Leaves(r, n) ==
  \A h, d, floor \in Nat : floor <= d =>
    Flows([since |-> n, start |-> Sh(h, d), open |-> {}, floor |-> floor], r, Sh(h + 1, d), {})

IsExpr(f) == \A n \in Nat : Leaves(f[n], n)

\* A lowering may be used where more labels are open.
LEMMA FlowsWiden ==
  ASSUME NEW w, NEW v, v.since = w.since, v.start = w.start, v.floor = w.floor,
         v.open \subseteq w.open, NEW r, NEW t, NEW D, Flows(v, r, t, D)
  PROVE  Flows(w, r, t, D)
  <1>1. /\ IsLowering(r) /\ w.since \in Nat /\ w.since <= r.counter /\ t \in Shape
        /\ \A l \in D : Defines(r.code, l)
    BY DEF Flows
  <1>2. PICK M : /\ Agree(M)
                 /\ \A p \in M : Inside(p, w.since, r.counter) /\ Defines(r.code, p[1])
                 /\ Piece(r.code, w.start, t, v.open \union M, w.floor)
    BY DEF Flows
  <1>3. v.open \union M \subseteq w.open \union M
    OBVIOUS
  <1>4. Piece(r.code, w.start, t, w.open \union M, w.floor)
    BY <1>2, <1>3, PieceMore
  <1> QED
    BY <1>1, <1>2, <1>4 DEF Flows

\* Inner: a part in the place where it is lowered.
LEMMA PartFlow ==
  ASSUME NEW w, NEW r, NEW t, NEW D, Flows(w, r, t, D),
         NEW f, NEW u, NEW F, IsPart(f, t, u, w.open, w.floor, F)
  PROVE  Flows(w, Inner(f, r), u, D \union F)
  <1> DEFINE n == r.counter
             v == [since |-> n, start |-> t, open |-> w.open, floor |-> w.floor]
             q == f[n]
  <1>1. n \in Nat
    BY DEF Flows, IsLowering
  <1>2. Flows(v, q, u, F)
    BY <1>1 DEF IsPart
  <1>3. v.since = r.counter /\ v.start = t /\ v.open \subseteq w.open /\ v.floor = w.floor
    OBVIOUS
  <1>4. Inner(f, r) = [code |-> r.code \o q.code, counter |-> q.counter]
    BY Zenon DEF Inner
  <1> HIDE DEF n, v, q
  <1>5. Flows(w, [code |-> r.code \o q.code, counter |-> q.counter], u, D \union F)
    BY <1>2, <1>3, FlowsThen
  <1> QED
    BY <1>4, <1>5, Zenon

\* An expression is a part that adds one value, wherever it stands.
LEMMA ExprIsPart ==
  ASSUME NEW f, IsExpr(f), NEW h \in Nat, NEW d \in Nat, NEW floor \in Nat, floor <= d, NEW open
  PROVE  IsPart(f, Sh(h, d), Sh(h + 1, d), open, floor, {})
  <1> SUFFICES ASSUME NEW n \in Nat
               PROVE  Flows([since |-> n, start |-> Sh(h, d), open |-> open, floor |-> floor],
                            f[n], Sh(h + 1, d), {})
    BY DEF IsPart
  <1> DEFINE w == [since |-> n, start |-> Sh(h, d), open |-> open, floor |-> floor]
             v == [since |-> n, start |-> Sh(h, d), open |-> {}, floor |-> floor]
             u == Sh(h + 1, d)
             F == {}
  <1>1. Flows(v, f[n], u, F)
    <2>1. Leaves(f[n], n)
      BY DEF IsExpr
    <2> QED
      BY <2>1, Zenon DEF Leaves
  <1>2. v.since = w.since /\ v.start = w.start /\ v.floor = w.floor /\ v.open \subseteq w.open
    OBVIOUS
  <1> HIDE DEF w, v, u, F
  <1>3. Flows(w, f[n], u, F)
    BY <1>1, <1>2, FlowsWiden
  <1> QED
    BY <1>3 DEF w, u, F

\* An expression in its place.
LEMMA ExprFlow ==
  ASSUME NEW w, NEW r, NEW h \in Nat, NEW d \in Nat, NEW D, Flows(w, r, Sh(h, d), D),
         w.floor \in Nat, w.floor <= d, NEW f, IsExpr(f)
  PROVE  Flows(w, Inner(f, r), Sh(h + 1, d), D)
  <1> DEFINE u == Sh(h + 1, d)
             F == {}
  <1>1. IsPart(f, Sh(h, d), u, w.open, w.floor, F)
    BY ExprIsPart
  <1> HIDE DEF u, F
  <1>2. Flows(w, Inner(f, r), u, D \union F)
    BY <1>1, PartFlow
  <1>3. D \union F = D
    BY DEF F
  <1> QED
    BY <1>2, <1>3 DEF u

-----------------------------------------------------------------------------
(* Parts in turn. *)

Turn(parts, s, n, f) == f = [k \in 0 .. n |-> IF k = 0 THEN s ELSE Inner(parts[k], f[k - 1])]

\* The states between parts, which InTurn takes from a recursive function, exist.
LEMMA TurnExists ==
  ASSUME NEW parts, NEW s, NEW n \in Nat
  PROVE  \E f : Turn(parts, s, n, f)
  <1> DEFINE B == { m \in Nat : ~ \E f : Turn(parts, s, m, f) }
  <1>1. ASSUME B # {} PROVE FALSE
    <2>1. PICK m \in B : \A j \in B : m <= j
      BY <1>1, NatMin
    <2>2. m \in Nat /\ ~ \E f : Turn(parts, s, m, f)
      OBVIOUS
    <2>3. CASE m = 0
      <3> DEFINE f == [k \in 0 .. 0 |-> s]
      <3>1. Turn(parts, s, 0, f)
        BY DEF Turn
      <3> QED
        BY <2>2, <2>3, <3>1
    <2>4. CASE m # 0
      <3>1. m - 1 \in Nat /\ ~ (m <= m - 1)
        BY <2>2, <2>4
      <3>2. PICK f : Turn(parts, s, m - 1, f)
        BY <2>1, <3>1
      <3> DEFINE last == Inner(parts[m], f[m - 1])
                 g    == [k \in 0 .. m |-> IF k = m THEN last ELSE f[k]]
      <3>3. ASSUME NEW k \in 0 .. m
            PROVE  g[k] = IF k = 0 THEN s ELSE Inner(parts[k], g[k - 1])
        <4>1. CASE k = m
          <5>1. g[k - 1] = f[m - 1] /\ g[k] = last
            BY <2>2, <2>4, <4>1
          <5> QED
            BY <2>4, <4>1, <5>1
        <4>2. CASE k # m
          <5>1. k \in 0 .. m - 1 /\ g[k] = f[k]
            BY <2>2, <4>2
          <5>2. k # 0 => k - 1 \in 0 .. m - 1 /\ g[k - 1] = f[k - 1]
            BY <2>2, <4>2
          <5>3. f[k] = IF k = 0 THEN s ELSE Inner(parts[k], f[k - 1])
            BY <3>2, <5>1 DEF Turn
          <5> QED
            BY <5>1, <5>2, <5>3
        <4> QED
          BY <4>1, <4>2
      <3>4. Turn(parts, s, m, g)
        BY <3>3 DEF Turn
      <3> QED
        BY <2>2, <3>4
    <2> QED
      BY <2>3, <2>4
  <1> QED
    BY <1>1

\* What there is after each part.
LEMMA InTurnFacts ==
  ASSUME NEW parts, NEW s, Len(parts) \in Nat
  PROVE  \E f : /\ f[0] = s
                /\ \A k \in 1 .. Len(parts) : f[k] = Inner(parts[k], f[k - 1])
                /\ InTurn(parts, s) = f[Len(parts)]
  <1> DEFINE n == Len(parts)
             f == CHOOSE f : Turn(parts, s, n, f)
  <1>1. InTurn(parts, s) = f[n]
    BY Zenon DEF InTurn, Turn
  <1> HIDE DEF n
  <1>2. n \in Nat
    BY DEF n
  <1>3. Turn(parts, s, n, f)
    BY <1>2, TurnExists, Zenon
  <1> HIDE DEF f
  <1>4. f = [k \in 0 .. n |-> IF k = 0 THEN s ELSE Inner(parts[k], f[k - 1])]
    BY <1>3 DEF Turn
  <1>5. f[0] = s /\ \A k \in 1 .. n : f[k] = Inner(parts[k], f[k - 1])
    BY <1>2, <1>4
  <1> QED
    BY <1>1, <1>5 DEF n

\* Labels that are put need not be mentioned.
LEMMA FlowsFewer ==
  ASSUME NEW w, NEW r, NEW t, NEW D, Flows(w, r, t, D), NEW A, A \subseteq D
  PROVE  Flows(w, r, t, A)
  BY DEF Flows

\* T: the shape after each part. F: the open labels it puts.
LEMMA InTurnFlow ==
  ASSUME NEW w, NEW s, NEW D, NEW T, Flows(w, s, T[0], D),
         NEW parts, Len(parts) \in Nat, NEW F,
         \A k \in 1 .. Len(parts) : IsPart(parts[k], T[k - 1], T[k], w.open, w.floor, F[k]),
         NEW A, \A l \in A : l \in D \/ \E k \in 1 .. Len(parts) : l \in F[k]
  PROVE  Flows(w, InTurn(parts, s), T[Len(parts)], A)
  <1> DEFINE n == Len(parts)
             G(k) == D \union UNION { F[j] : j \in 1 .. k }
  <1>1. PICK f : /\ f[0] = s
                 /\ \A k \in 1 .. n : f[k] = Inner(parts[k], f[k - 1])
                 /\ InTurn(parts, s) = f[n]
    BY InTurnFacts
  <1> DEFINE B == { k \in 0 .. n : ~ Flows(w, f[k], T[k], G(k)) }
  <1>2. n \in Nat /\ \A k \in 1 .. n : IsPart(parts[k], T[k - 1], T[k], w.open, w.floor, F[k])
    OBVIOUS
  <1>3. Flows(w, f[0], T[0], G(0))
    <2>1. G(0) = D
      OBVIOUS
    <2> QED
      BY <1>1, <2>1
  <1> HIDE DEF n
  <1>4. \A k \in 1 .. n : G(k) = G(k - 1) \union F[k]
    <2> SUFFICES ASSUME NEW k \in 1 .. n PROVE G(k) = G(k - 1) \union F[k]
      OBVIOUS
    <2>1. 1 .. k = (1 .. k - 1) \union {k}
      BY <1>2
    <2> QED
      BY <2>1
  <1> HIDE DEF G
  <1>5. ASSUME B # {} PROVE FALSE
    <2>1. B \subseteq Nat
      BY <1>2
    <2>2. PICK k \in B : \A j \in B : k <= j
      BY <1>5, <2>1, NatMin
    <2>3. k \in 0 .. n /\ ~ Flows(w, f[k], T[k], G(k)) /\ k # 0
      BY <1>3
    <2>4. k \in 1 .. n /\ k - 1 \in 0 .. n /\ ~ (k <= k - 1)
      BY <1>2, <2>3
    <2>5. Flows(w, f[k - 1], T[k - 1], G(k - 1))
      BY <2>2, <2>4
    <2>6. IsPart(parts[k], T[k - 1], T[k], w.open, w.floor, F[k])
      BY <1>2, <2>4
    <2>7. Flows(w, Inner(parts[k], f[k - 1]), T[k], G(k - 1) \union F[k])
      BY <2>5, <2>6, PartFlow
    <2> QED
      BY <1>1, <1>4, <2>3, <2>4, <2>7
  <1>6. n \in 0 .. n
    BY <1>2
  <1>7. Flows(w, f[n], T[n], G(n))
    BY <1>5, <1>6
  <1>8. A \subseteq G(n)
    BY DEF G, n
  <1> QED
    BY <1>1, <1>7, <1>8, FlowsFewer DEF n

-----------------------------------------------------------------------------
(* Constructs with labels and scopes. *)

\* All labels with number n that were open are put: they are not open any more.
LEMMA FlowsClosed ==
  ASSUME NEW n \in Nat, NEW s, NEW O, Agree(O), NEW floor, NEW r, NEW t, NEW D,
         \A p \in O : p[1][2] = n /\ p[1] \in D,
         Flows([since |-> n + 1, start |-> s, open |-> O, floor |-> floor], r, t, D)
  PROVE  Flows([since |-> n, start |-> s, open |-> {}, floor |-> floor], r, t, {})
  <1> DEFINE v == [since |-> n + 1, start |-> s, open |-> O, floor |-> floor]
             w == [since |-> n, start |-> s, open |-> {}, floor |-> floor]
  <1>1. /\ v.since = n + 1 /\ v.start = s /\ v.open = O /\ v.floor = floor
        /\ w.since = n /\ w.start = s /\ w.open = {} /\ w.floor = floor
    OBVIOUS
  <1>2. Flows(v, r, t, D)
    OBVIOUS
  <1> HIDE DEF v, w
  <1>3. /\ IsLowering(r) /\ n + 1 <= r.counter /\ t \in Shape
        /\ \A l \in D : Defines(r.code, l)
    BY <1>1, <1>2 DEF Flows
  <1>4. PICK M : /\ Agree(M)
                 /\ \A p \in M : Inside(p, n + 1, r.counter) /\ Defines(r.code, p[1])
                 /\ Piece(r.code, s, t, O \union M, floor)
    BY <1>1, <1>2 DEF Flows
  <1> DEFINE K == O \union M
  <1>5. r.counter \in Nat
    BY <1>3 DEF IsLowering
  <1>6. \A p \in M : p[1][2] \in n + 1 .. r.counter - 1
    BY <1>4 DEF Inside
  <1>7. Agree(K)
    <2> SUFFICES ASSUME NEW p \in O \union M, NEW q \in O \union M, p[1] = q[1] PROVE p = q
      BY DEF Agree
    <2>1. CASE p \in O /\ q \in O
      BY <2>1 DEF Agree
    <2>2. CASE p \in M /\ q \in M
      BY <1>4, <2>2 DEF Agree
    <2>3. ASSUME NEW x \in O, NEW y \in M, x[1] = y[1] PROVE FALSE
      <3>1. x[1][2] = n /\ y[1][2] \in n + 1 .. r.counter - 1
        BY <1>6
      <3> QED
        BY <1>5, <2>3, <3>1
    <2> QED
      BY <2>1, <2>2, <2>3
  <1>8. ASSUME NEW p \in K PROVE Inside(p, n, r.counter) /\ Defines(r.code, p[1])
    <2>1. Defines(r.code, p[1])
      BY <1>3, <1>4
    <2>2. p[1][2] = n \/ p[1][2] \in n + 1 .. r.counter - 1
      BY <1>6
    <2>3. p[1][2] \in n .. r.counter - 1
      BY <1>3, <1>5, <2>2
    <2> QED
      BY <2>1, <2>3 DEF Inside
  <1>9. Piece(r.code, s, t, {} \union K, floor)
    <2>1. {} \union K = O \union M
      OBVIOUS
    <2> QED
      BY <1>4, <2>1
  <1> HIDE DEF K
  <1>10. w.since \in Nat /\ w.since <= r.counter
    BY <1>1, <1>3, <1>5
  <1>11. Flows(w, r, t, {})
    BY <1>1, <1>3, <1>7, <1>8, <1>9, <1>10 DEF Flows
  <1> QED
    BY <1>11 DEF w

\* A lowering is code and a counter.
LEMMA FlowsIsLowering ==
  ASSUME NEW w, NEW r, NEW t, NEW D, Flows(w, r, t, D)
  PROVE  IsLowering(r)
  BY DEF Flows

\* lower_and: one value is left if the right operand runs, and if it does not.
LEMMA AndLeaves ==
  ASSUME NEW low, NEW e, NEW n \in Nat, IsExpr(low[e.lhs]), IsExpr(low[e.rhs])
  PROVE  Leaves(LowerAnd(low, e, n), n)
  <1> SUFFICES ASSUME NEW h \in Nat, NEW d \in Nat, NEW floor \in Nat, floor <= d
               PROVE  Flows([since |-> n, start |-> Sh(h, d), open |-> {}, floor |-> floor],
                            LowerAnd(low, e, n), Sh(h + 1, d), {})
    BY DEF Leaves
  <1> DEFINE end == <<"and_end", n>>
             O   == {<<end, Sh(h + 1, d)>>}
             w   == [since |-> n + 1, start |-> Sh(h, d), open |-> O, floor |-> floor]
             r0  == Start(n + 1)
             r1  == Inner(low[e.lhs], r0)
             r2  == Emit(r1, <<Plain("Dup")>>)
             r3  == Emit(r2, <<OnLabel("JumpIfFalse", end)>>)
             r4  == Emit(r3, <<Plain("Pop")>>)
             r5  == Inner(low[e.rhs], r4)
             r6  == Emit(r5, <<OnLabel("Label", end)>>)
  <1>1. w.since = n + 1 /\ w.start = Sh(h, d) /\ w.open = O /\ w.floor = floor
    OBVIOUS
  <1>2. <<end, Sh(h + 1, d)>> \in O /\ end[2] = n
    OBVIOUS
  <1>3. Agree(O) /\ \A p \in O : p[1] = end
    BY DEF Agree
  <1>4. Plain("Dup").op = "Dup" /\ Plain("Pop").op = "Pop"
    BY DEF Plain
  <1> HIDE DEF end, O, w
  <1>5. Flows(w, r0, Sh(h, d), {})
    BY <1>1, FlowsStartAt
  <1>6. Flows(w, r1, Sh(h + 1, d), {})
    BY <1>1, <1>5, ExprFlow
  <1>7. Flows(w, r2, Sh(h + 2, d), {})
    BY <1>4, <1>6, DupFlow
  <1>8. Flows(w, r3, Sh(h + 1, d), {})
    BY <1>1, <1>2, <1>7, TestFlow
  <1>9. Flows(w, r4, Sh(h, d), {})
    BY <1>4, <1>8, DropFlow
  <1>10. Flows(w, r5, Sh(h + 1, d), {})
    BY <1>1, <1>9, ExprFlow
  <1>11. Flows(w, r6, Sh(h + 1, d), {} \union {end})
    BY <1>1, <1>2, <1>10, ShFacts, PutFlow
  <1>12. LowerAnd(low, e, n) = r6
    <2>1. Emit(r1, <<Plain("Dup"), OnLabel("JumpIfFalse", end), Plain("Pop")>>) = r4
      BY <1>6, FlowsIsLowering, EmitThree
    <2> QED
      BY <2>1 DEF LowerAnd, end
  <1> HIDE DEF r6
  <1>13. \A p \in O : p[1][2] = n /\ p[1] \in {} \union {end}
    BY <1>2, <1>3
  <1> QED
    BY <1>3, <1>11, <1>12, <1>13, FlowsClosed DEF w

\* lower_or: the same, with a jump more.
LEMMA OrLeaves ==
  ASSUME NEW low, NEW e, NEW n \in Nat, IsExpr(low[e.lhs]), IsExpr(low[e.rhs])
  PROVE  Leaves(LowerOr(low, e, n), n)
  <1> SUFFICES ASSUME NEW h \in Nat, NEW d \in Nat, NEW floor \in Nat, floor <= d
               PROVE  Flows([since |-> n, start |-> Sh(h, d), open |-> {}, floor |-> floor],
                            LowerOr(low, e, n), Sh(h + 1, d), {})
    BY DEF Leaves
  <1> DEFINE rhs == <<"or_rhs", n>>
             end == <<"or_end", n>>
             O   == {<<rhs, Sh(h + 1, d)>>, <<end, Sh(h + 1, d)>>}
             w   == [since |-> n + 1, start |-> Sh(h, d), open |-> O, floor |-> floor]
             r0  == Start(n + 1)
             r1  == Inner(low[e.lhs], r0)
             r2  == Emit(r1, <<Plain("Dup")>>)
             r3  == Emit(r2, <<OnLabel("JumpIfFalse", rhs)>>)
             r4  == Emit(r3, <<OnLabel("Jump", end)>>)
             r5  == Emit(r4, <<OnLabel("Label", rhs)>>)
             r6  == Emit(r5, <<Plain("Pop")>>)
             r7  == Inner(low[e.rhs], r6)
             r8  == Emit(r7, <<OnLabel("Label", end)>>)
  <1>1. w.since = n + 1 /\ w.start = Sh(h, d) /\ w.open = O /\ w.floor = floor
    OBVIOUS
  <1>2. /\ <<rhs, Sh(h + 1, d)>> \in O /\ <<end, Sh(h + 1, d)>> \in O
        /\ rhs[2] = n /\ end[2] = n
    OBVIOUS
  <1>3. Agree(O) /\ \A p \in O : p[1] = rhs \/ p[1] = end
    BY DEF Agree
  <1>4. Plain("Dup").op = "Dup" /\ Plain("Pop").op = "Pop"
    BY DEF Plain
  <1> HIDE DEF rhs, end, O, w
  <1>5. Flows(w, r0, Sh(h, d), {})
    BY <1>1, FlowsStartAt
  <1>6. Flows(w, r1, Sh(h + 1, d), {})
    BY <1>1, <1>5, ExprFlow
  <1>7. Flows(w, r2, Sh(h + 2, d), {})
    BY <1>4, <1>6, DupFlow
  <1>8. Flows(w, r3, Sh(h + 1, d), {})
    BY <1>1, <1>2, <1>7, TestFlow
  <1>9. Flows(w, r4, Sh(h + 1, d), {})
    BY <1>1, <1>2, <1>8, ShFacts, JumpFlow
  <1>10. Flows(w, r5, Sh(h + 1, d), {} \union {rhs})
    BY <1>1, <1>2, <1>9, ShFacts, PutFlow
  <1> DEFINE D == {} \union {rhs}
  <1> HIDE DEF D
  <1>11. Flows(w, r6, Sh(h, d), D)
    BY <1>4, <1>10, DropFlow DEF D
  <1>12. Flows(w, r7, Sh(h + 1, d), D)
    BY <1>1, <1>11, ExprFlow
  <1>13. Flows(w, r8, Sh(h + 1, d), D \union {end})
    BY <1>1, <1>2, <1>12, ShFacts, PutFlow
  <1>14. LowerOr(low, e, n) = r8
    <2>1. Emit(r1, <<Plain("Dup"), OnLabel("JumpIfFalse", rhs), OnLabel("Jump", end)>>) = r4
      BY <1>6, FlowsIsLowering, EmitThree
    <2>2. Emit(r4, <<OnLabel("Label", rhs), Plain("Pop")>>) = r6
      BY <1>9, FlowsIsLowering, EmitTwo
    <2> QED
      BY <2>1, <2>2 DEF LowerOr, rhs, end
  <1> HIDE DEF r8
  <1>15. \A p \in O : p[1][2] = n /\ p[1] \in D \union {end}
    BY <1>2, <1>3 DEF D
  <1> QED
    BY <1>3, <1>13, <1>14, <1>15, FlowsClosed DEF w

\* lower_while: every round starts with the value of the round before, and drops it.
LEMMA WhileLeaves ==
  ASSUME NEW low, NEW e, NEW n \in Nat, IsExpr(low[e.cond]), IsExpr(low[e.body])
  PROVE  Leaves(LowerWhile(low, e, n), n)
  <1> SUFFICES ASSUME NEW h \in Nat, NEW d \in Nat, NEW floor \in Nat, floor <= d
               PROVE  Flows([since |-> n, start |-> Sh(h, d), open |-> {}, floor |-> floor],
                            LowerWhile(low, e, n), Sh(h + 1, d), {})
    BY DEF Leaves
  <1> DEFINE start == <<"loop_start", n>>
             end   == <<"loop_end", n>>
             O     == {<<start, Sh(h + 1, d)>>, <<end, Sh(h + 1, d)>>}
             w     == [since |-> n + 1, start |-> Sh(h, d), open |-> O, floor |-> floor]
             r0    == Start(n + 1)
             r1    == Emit(r0, <<Lit(Nil)>>)
             r2    == Emit(r1, <<OnLabel("Label", start)>>)
             r3    == Inner(low[e.cond], r2)
             r4    == Emit(r3, <<OnLabel("JumpIfFalse", end)>>)
             r5    == Emit(r4, <<Plain("Pop")>>)
             r6    == Inner(low[e.body], r5)
             r7    == Emit(r6, <<OnLabel("Jump", start)>>)
             r8    == Emit(r7, <<OnLabel("Label", end)>>)
  <1>1. w.since = n + 1 /\ w.start = Sh(h, d) /\ w.open = O /\ w.floor = floor
    OBVIOUS
  <1>2. /\ <<start, Sh(h + 1, d)>> \in O /\ <<end, Sh(h + 1, d)>> \in O
        /\ start[2] = n /\ end[2] = n
    OBVIOUS
  <1>3. Agree(O) /\ \A p \in O : p[1] = start \/ p[1] = end
    BY DEF Agree
  <1>4. Lit(Nil).op = "Literal" /\ Plain("Pop").op = "Pop"
    BY DEF Plain, Lit
  <1> HIDE DEF start, end, O, w
  <1>5. Flows(w, r0, Sh(h, d), {})
    BY <1>1, FlowsStartAt
  <1>6. Flows(w, r1, Sh(h + 1, d), {})
    BY <1>4, <1>5, PushFlow
  <1>7. Flows(w, r2, Sh(h + 1, d), {} \union {start})
    BY <1>1, <1>2, <1>6, ShFacts, PutFlow
  <1> DEFINE D == {} \union {start}
  <1> HIDE DEF D
  <1>8. Flows(w, r3, Sh(h + 2, d), D)
    <2> DEFINE a == h + 1
    <2>1. a \in Nat /\ a + 1 = h + 2
      OBVIOUS
    <2>2. Flows(w, r2, Sh(a, d), D)
      BY <1>7 DEF D
    <2> HIDE DEF a
    <2>3. Flows(w, r3, Sh(a + 1, d), D)
      BY <1>1, <2>1, <2>2, ExprFlow
    <2> QED
      BY <2>1, <2>3
  <1>9. Flows(w, r4, Sh(h + 1, d), D)
    BY <1>1, <1>2, <1>8, TestFlow
  <1>10. Flows(w, r5, Sh(h, d), D)
    BY <1>4, <1>9, DropFlow
  <1>11. Flows(w, r6, Sh(h + 1, d), D)
    BY <1>1, <1>10, ExprFlow
  <1>12. Flows(w, r7, Sh(h + 1, d), D)
    BY <1>1, <1>2, <1>11, ShFacts, JumpFlow
  <1>13. Flows(w, r8, Sh(h + 1, d), D \union {end})
    BY <1>1, <1>2, <1>12, ShFacts, PutFlow
  <1>14. LowerWhile(low, e, n) = r8
    <2>1. Emit(r0, <<Lit(Nil), OnLabel("Label", start)>>) = r2
      BY <1>5, FlowsIsLowering, EmitTwo
    <2>2. Emit(r3, <<OnLabel("JumpIfFalse", end), Plain("Pop")>>) = r5
      BY <1>8, FlowsIsLowering, EmitTwo
    <2>3. Emit(r6, <<OnLabel("Jump", start), OnLabel("Label", end)>>) = r8
      BY <1>11, FlowsIsLowering, EmitTwo
    <2> QED
      BY <2>1, <2>2, <2>3 DEF LowerWhile, start, end
  <1> HIDE DEF r8
  <1>15. \A p \in O : p[1][2] = n /\ p[1] \in D \union {end}
    BY <1>2, <1>3 DEF D
  <1> QED
    BY <1>3, <1>13, <1>14, <1>15, FlowsClosed DEF w

\* A let: the scope of the variable is closed behind the body.
LEMMA LetLeaves ==
  ASSUME NEW low, NEW e, NEW n \in Nat, IsExpr(low[e.init]), IsExpr(low[e.body])
  PROVE  Leaves(LowerLet(low, e, n), n)
  <1> SUFFICES ASSUME NEW h \in Nat, NEW d \in Nat, NEW floor \in Nat, floor <= d
               PROVE  Flows([since |-> n, start |-> Sh(h, d), open |-> {}, floor |-> floor],
                            LowerLet(low, e, n), Sh(h + 1, d), {})
    BY DEF Leaves
  <1> DEFINE w  == [since |-> n, start |-> Sh(h, d), open |-> {}, floor |-> floor]
             r0 == Start(n)
             r1 == Emit(r0, <<Plain("BeginScope")>>)
             r2 == Inner(low[e.init], r1)
             r3 == Emit(r2, <<OnVar("BindVar", e.name)>>)
             r4 == Inner(low[e.body], r3)
             r5 == Emit(r4, <<Plain("EndScope")>>)
  <1>1. w.since = n /\ w.start = Sh(h, d) /\ w.floor = floor
    OBVIOUS
  <1>2. /\ Plain("BeginScope").op = "BeginScope" /\ Plain("EndScope").op = "EndScope"
        /\ OnVar("BindVar", e.name).op = "BindVar"
    BY DEF Plain, OnVar
  <1> HIDE DEF w
  <1>3. d + 1 \in Nat /\ d + 1 > 0 /\ floor <= d + 1
    OBVIOUS
  <1>4. Flows(w, r0, Sh(h, d), {})
    BY <1>1, FlowsStartAt
  <1>5. Flows(w, r1, Sh(h, d + 1), {})
    BY <1>2, <1>4, OpenFlow
  <1>6. Flows(w, r2, Sh(h + 1, d + 1), {})
    BY <1>1, <1>3, <1>5, ExprFlow
  <1>7. Flows(w, r3, Sh(h, d + 1), {})
    BY <1>2, <1>3, <1>6, DropFlow
  <1>8. Flows(w, r4, Sh(h + 1, d + 1), {})
    BY <1>1, <1>3, <1>7, ExprFlow
  <1>9. Flows(w, r5, Sh(h + 1, d), {})
    BY <1>1, <1>2, <1>8, CloseFlow
  <1>10. LowerLet(low, e, n) = r5
    BY DEF LowerLet
  <1> QED
    BY <1>9, <1>10 DEF w

\* The instructions of a loop over what an iterator gives.
LEMMA OpFacts ==
  /\ \A op : Plain(op).op = op
  /\ \A v : Lit(v).op = "Literal"
  /\ \A op, x : OnVar(op, x).op = op /\ OnField(op, x).op = op /\ OnType(op, x).op = op
  /\ \A k : MakeVec(k).op = "MakeVector" /\ MakeVec(k).size = k
  /\ \A f, k : CallTo(f, k).op = "Call" /\ CallTo(f, k).argc = k
  /\ \A m, k : CallOn(m, k).op = "CallMethod" /\ CallOn(m, k).argc = k
  /\ \A t, m, k : CallUp(t, m, k).op = "CallBase" /\ CallUp(t, m, k).argc = k
  BY DEF Plain, Lit, OnVar, OnField, OnType, MakeVec, CallTo, CallOn, CallUp

\* The head of a loop over an iterable, to which each round comes back.
LEMMA AskFlow ==
  ASSUME NEW w, NEW s, NEW h \in Nat, NEW d \in Nat, NEW D, Flows(w, s, Sh(h, d), D),
         NEW it, NEW start, NEW end, <<start, Sh(h, d)>> \in w.open, <<end, Sh(h, d)>> \in w.open
  PROVE  Flows(w, AskNext(s, it, start, end), Sh(h, d), D \union {start})
  <1> DEFINE F  == D \union {start}
             r1 == Emit(s, <<OnLabel("Label", start)>>)
             r2 == Emit(r1, <<OnVar("LoadVar", it)>>)
             r3 == Emit(r2, <<CallOn("next", 0)>>)
             r4 == Emit(r3, <<OnLabel("JumpIfFalse", end)>>)
  <1>1. Flows(w, r1, Sh(h, d), F)
    BY ShFacts, PutFlow
  <1> HIDE DEF F
  <1>2. Flows(w, r2, Sh(h + 1, d), F)
    BY <1>1, OpFacts, PushFlow
  <1>3. Flows(w, r3, Sh(h + 1, d), F)
    <2>1. CallOn("next", 0).op = "CallMethod" /\ CallOn("next", 0).argc + 1 = 1
      BY OpFacts
    <2> QED
      BY <1>2, <2>1, TakeFlow DEF Combines
  <1>4. Flows(w, r4, Sh(h, d), F)
    BY <1>3, TestFlow
  <1>5. AskNext(s, it, start, end) = r4
    BY FlowsIsLowering, EmitFour DEF AskNext
  <1> QED
    BY <1>4, <1>5 DEF F

\* The scope of a round with its variable.
LEMMA BindFlow ==
  ASSUME NEW w, NEW s, NEW h \in Nat, NEW d \in Nat, NEW D, Flows(w, s, Sh(h, d), D),
         NEW it, NEW var
  PROVE  Flows(w, BindCurrent(s, it, var), Sh(h, d + 1), D)
  <1> DEFINE r1 == Emit(s, <<Plain("BeginScope")>>)
             r2 == Emit(r1, <<OnVar("LoadVar", it)>>)
             r3 == Emit(r2, <<CallOn("current", 0)>>)
             r4 == Emit(r3, <<OnVar("BindVar", var)>>)
  <1>1. d + 1 \in Nat /\ d + 1 > 0
    OBVIOUS
  <1>2. Flows(w, r1, Sh(h, d + 1), D)
    BY OpFacts, OpenFlow
  <1>3. Flows(w, r2, Sh(h + 1, d + 1), D)
    BY <1>1, <1>2, OpFacts, PushFlow
  <1>4. Flows(w, r3, Sh(h + 1, d + 1), D)
    <2>1. CallOn("current", 0).op = "CallMethod" /\ CallOn("current", 0).argc + 1 = 1
      BY OpFacts
    <2> QED
      BY <1>1, <1>3, <2>1, TakeFlow DEF Combines
  <1>5. Flows(w, r4, Sh(h, d + 1), D)
    BY <1>1, <1>4, OpFacts, DropFlow
  <1>6. BindCurrent(s, it, var) = r4
    BY FlowsIsLowering, EmitFour DEF BindCurrent
  <1> QED
    BY <1>5, <1>6

\* A for: the scope of a round is closed before the next, that of the loop at the end.
LEMMA ForLeaves ==
  ASSUME NEW low, NEW e, NEW n \in Nat, IsExpr(low[e.iter]), IsExpr(low[e.body])
  PROVE  Leaves(LowerFor(low, e, n), n)
  <1> SUFFICES ASSUME NEW h \in Nat, NEW d \in Nat, NEW floor \in Nat, floor <= d
               PROVE  Flows([since |-> n, start |-> Sh(h, d), open |-> {}, floor |-> floor],
                            LowerFor(low, e, n), Sh(h + 1, d), {})
    BY DEF Leaves
  <1> DEFINE start == <<"for_start", n>>
             end   == <<"for_end", n>>
             it    == Glue("__for_iter_", n)
             d1    == d + 1
             d2    == d1 + 1
             h1    == h + 1
             O     == {<<start, Sh(h1, d1)>>, <<end, Sh(h1, d1)>>}
             w     == [since |-> n + 1, start |-> Sh(h, d), open |-> O, floor |-> floor]
             r0    == Start(n + 1)
             r1    == Emit(r0, <<Plain("BeginScope")>>)
             r2    == Inner(low[e.iter], r1)
             r3    == Emit(r2, <<CallOn("iter", 0)>>)
             r4    == Emit(r3, <<OnVar("BindVar", it)>>)
             r5    == Emit(r4, <<Lit(Nil)>>)
             r6    == AskNext(r5, it, start, end)
             r7    == Emit(r6, <<Plain("Pop")>>)
             r8    == BindCurrent(r7, it, e.var)
             r9    == Inner(low[e.body], r8)
             r10   == Emit(r9, <<Plain("EndScope")>>)
             r11   == Emit(r10, <<OnLabel("Jump", start)>>)
             r12   == Emit(r11, <<OnLabel("Label", end)>>)
             r13   == Emit(r12, <<Plain("EndScope")>>)
  <1>1. w.since = n + 1 /\ w.start = Sh(h, d) /\ w.open = O /\ w.floor = floor
    OBVIOUS
  <1>2. /\ <<start, Sh(h1, d1)>> \in O /\ <<end, Sh(h1, d1)>> \in O
        /\ start[2] = n /\ end[2] = n
    OBVIOUS
  <1>3. Agree(O) /\ \A p \in O : p[1] = start \/ p[1] = end
    BY DEF Agree
  <1>4. h1 = h + 1 /\ d1 = d + 1 /\ d2 = d1 + 1 /\ h1 \in Nat /\ d1 \in Nat /\ d2 \in Nat
        /\ d1 > 0 /\ floor <= d1 /\ floor <= d2 /\ Sh(h1, d) = Sh(h + 1, d)
    OBVIOUS
  <1> HIDE DEF start, end, it, d1, d2, h1, O, w
  <1>5. Flows(w, r0, Sh(h, d), {})
    BY <1>1, FlowsStartAt
  <1>6. Flows(w, r1, Sh(h, d1), {})
    BY <1>4, <1>5, OpFacts, OpenFlow
  <1>7. Flows(w, r2, Sh(h1, d1), {})
    BY <1>1, <1>4, <1>6, ExprFlow
  <1>8. Flows(w, r3, Sh(h1, d1), {})
    <2>1. CallOn("iter", 0).op = "CallMethod" /\ CallOn("iter", 0).argc + 1 = 1
      BY OpFacts
    <2> QED
      BY <1>4, <1>7, <2>1, TakeFlow DEF Combines
  <1>9. Flows(w, r4, Sh(h, d1), {})
    BY <1>4, <1>8, OpFacts, DropFlow
  <1>10. Flows(w, r5, Sh(h1, d1), {})
    BY <1>4, <1>9, OpFacts, PushFlow
  <1> DEFINE D == {} \union {start}
  <1>11. Flows(w, r6, Sh(h1, d1), D)
    BY <1>1, <1>2, <1>4, <1>10, AskFlow
  <1> HIDE DEF D
  <1>12. Flows(w, r7, Sh(h, d1), D)
    BY <1>4, <1>11, OpFacts, DropFlow
  <1>13. Flows(w, r8, Sh(h, d2), D)
    BY <1>4, <1>12, BindFlow
  <1>14. Flows(w, r9, Sh(h1, d2), D)
    BY <1>1, <1>4, <1>13, ExprFlow
  <1>15. Flows(w, r10, Sh(h1, d1), D)
    BY <1>1, <1>4, <1>14, OpFacts, CloseFlow
  <1>16. Flows(w, r11, Sh(h1, d1), D)
    BY <1>1, <1>2, <1>4, <1>15, ShFacts, JumpFlow
  <1>17. Flows(w, r12, Sh(h1, d1), D \union {end})
    BY <1>1, <1>2, <1>4, <1>16, ShFacts, PutFlow
  <1> DEFINE F == D \union {end}
  <1> HIDE DEF F
  <1>18. Flows(w, r13, Sh(h1, d), F)
    BY <1>1, <1>4, <1>17, OpFacts, CloseFlow DEF F
  <1>19. LowerFor(low, e, n) = r13
    <2>1. Emit(r2, <<CallOn("iter", 0), OnVar("BindVar", it), Lit(Nil)>>) = r5
      BY <1>7, FlowsIsLowering, EmitThree
    <2>2. Emit(r9, <<Plain("EndScope"), OnLabel("Jump", start), OnLabel("Label", end), Plain("EndScope")>>) = r13
      BY <1>14, FlowsIsLowering, EmitFour
    <2> QED
      BY <2>1, <2>2 DEF LowerFor, start, end, it
  <1> HIDE DEF r13
  <1>20. \A p \in O : p[1][2] = n /\ p[1] \in F
    BY <1>2, <1>3 DEF D, F
  <1>21. Flows([since |-> n, start |-> Sh(h, d), open |-> {}, floor |-> floor], r13, Sh(h1, d), {})
    BY <1>3, <1>18, <1>20, FlowsClosed DEF w
  <1> QED
    BY <1>4, <1>19, <1>21

\* A comprehension: the vector stays in a variable, and nothing on the stack.
LEMMA CompLeaves ==
  ASSUME NEW low, NEW e, NEW n \in Nat, IsExpr(low[e.iter]), IsExpr(low[e.elem])
  PROVE  Leaves(LowerComp(low, e, n), n)
  <1> SUFFICES ASSUME NEW h \in Nat, NEW d \in Nat, NEW floor \in Nat, floor <= d
               PROVE  Flows([since |-> n, start |-> Sh(h, d), open |-> {}, floor |-> floor],
                            LowerComp(low, e, n), Sh(h + 1, d), {})
    BY DEF Leaves
  <1> DEFINE start == <<"comp_start", n>>
             end   == <<"comp_end", n>>
             acc   == Glue("__comp_acc_", n)
             it    == Glue("__comp_iter_", n)
             d1    == d + 1
             d2    == d1 + 1
             h1    == h + 1
             h2    == h + 2
             O     == {<<start, Sh(h, d1)>>, <<end, Sh(h, d1)>>}
             w     == [since |-> n + 1, start |-> Sh(h, d), open |-> O, floor |-> floor]
             r0    == Start(n + 1)
             r1    == Emit(r0, <<Plain("BeginScope")>>)
             r2    == Emit(r1, <<MakeVec(0)>>)
             r3    == Emit(r2, <<OnVar("BindVar", acc)>>)
             r4    == Inner(low[e.iter], r3)
             r5    == Emit(r4, <<CallOn("iter", 0)>>)
             r6    == Emit(r5, <<OnVar("BindVar", it)>>)
             r7    == AskNext(r6, it, start, end)
             r8    == BindCurrent(r7, it, e.var)
             r9    == Inner(low[e.elem], r8)
             r10   == Emit(r9, <<OnVar("LoadVar", acc)>>)
             r11   == Emit(r10, <<Plain("VecPush")>>)
             r12   == Emit(r11, <<Plain("EndScope")>>)
             r13   == Emit(r12, <<OnLabel("Jump", start)>>)
             r14   == Emit(r13, <<OnLabel("Label", end)>>)
             r15   == Emit(r14, <<OnVar("LoadVar", acc)>>)
             r16   == Emit(r15, <<Plain("EndScope")>>)
  <1>1. w.since = n + 1 /\ w.start = Sh(h, d) /\ w.open = O /\ w.floor = floor
    OBVIOUS
  <1>2. /\ <<start, Sh(h, d1)>> \in O /\ <<end, Sh(h, d1)>> \in O
        /\ start[2] = n /\ end[2] = n
    OBVIOUS
  <1>3. Agree(O) /\ \A p \in O : p[1] = start \/ p[1] = end
    BY DEF Agree
  <1>4. h1 = h + 1 /\ d1 = d + 1 /\ d2 = d1 + 1 /\ h1 \in Nat /\ d1 \in Nat /\ d2 \in Nat
        /\ d1 > 0 /\ floor <= d1 /\ floor <= d2 /\ Sh(h1, d) = Sh(h + 1, d)
        /\ h2 = h1 + 1 /\ h2 = h + 2 /\ h + 0 = h
    OBVIOUS
  <1> HIDE DEF start, end, acc, it, d1, d2, h1, h2, O, w
  <1>5. Flows(w, r0, Sh(h, d), {})
    BY <1>1, FlowsStartAt
  <1>6. Flows(w, r1, Sh(h, d1), {})
    BY <1>4, <1>5, OpFacts, OpenFlow
  <1>7. Flows(w, r2, Sh(h1, d1), {})
    <2>1. Flows(w, r1, Sh(h + 0, d1), {})
      BY <1>4, <1>6
    <2> QED
      BY <1>4, <2>1, OpFacts, TakeFlow DEF Combines
  <1>8. Flows(w, r3, Sh(h, d1), {})
    BY <1>4, <1>7, OpFacts, DropFlow
  <1>9. Flows(w, r4, Sh(h1, d1), {})
    BY <1>1, <1>4, <1>8, ExprFlow
  <1>10. Flows(w, r5, Sh(h1, d1), {})
    <2>1. CallOn("iter", 0).op = "CallMethod" /\ CallOn("iter", 0).argc + 1 = 1
      BY OpFacts
    <2> QED
      BY <1>4, <1>9, <2>1, TakeFlow DEF Combines
  <1>11. Flows(w, r6, Sh(h, d1), {})
    BY <1>4, <1>10, OpFacts, DropFlow
  <1> DEFINE D == {} \union {start}
  <1>12. Flows(w, r7, Sh(h, d1), D)
    BY <1>1, <1>2, <1>4, <1>11, AskFlow
  <1> HIDE DEF D
  <1>13. Flows(w, r8, Sh(h, d2), D)
    BY <1>4, <1>12, BindFlow
  <1>14. Flows(w, r9, Sh(h1, d2), D)
    BY <1>1, <1>4, <1>13, ExprFlow
  <1>15. Flows(w, r10, Sh(h2, d2), D)
    BY <1>4, <1>14, OpFacts, PushFlow
  <1>16. Flows(w, r11, Sh(h, d2), D)
    BY <1>4, <1>15, OpFacts, GrowFlow
  <1>17. Flows(w, r12, Sh(h, d1), D)
    BY <1>1, <1>4, <1>16, OpFacts, CloseFlow
  <1>18. Flows(w, r13, Sh(h, d1), D)
    BY <1>1, <1>2, <1>4, <1>17, ShFacts, JumpFlow
  <1>19. Flows(w, r14, Sh(h, d1), D \union {end})
    BY <1>1, <1>2, <1>4, <1>18, ShFacts, PutFlow
  <1> DEFINE F == D \union {end}
  <1> HIDE DEF F
  <1>20. Flows(w, r15, Sh(h1, d1), F)
    BY <1>4, <1>19, OpFacts, PushFlow DEF F
  <1>21. Flows(w, r16, Sh(h1, d), F)
    BY <1>1, <1>4, <1>20, OpFacts, CloseFlow
  <1>22. LowerComp(low, e, n) = r16
    <2>1. Emit(r0, <<Plain("BeginScope"), MakeVec(0), OnVar("BindVar", acc)>>) = r3
      BY <1>5, FlowsIsLowering, EmitThree
    <2>2. Emit(r4, <<CallOn("iter", 0), OnVar("BindVar", it)>>) = r6
      BY <1>9, FlowsIsLowering, EmitTwo
    <2>3. Emit(r9, <<OnVar("LoadVar", acc), Plain("VecPush"), Plain("EndScope")>>) = r12
      BY <1>14, FlowsIsLowering, EmitThree
    <2>4. Emit(r12, <<OnLabel("Jump", start), OnLabel("Label", end), OnVar("LoadVar", acc), Plain("EndScope")>>) = r16
      BY <1>17, FlowsIsLowering, EmitFour
    <2> QED
      BY <2>1, <2>2, <2>3, <2>4 DEF LowerComp, start, end, acc, it
  <1> HIDE DEF r16
  <1>23. \A p \in O : p[1][2] = n /\ p[1] \in F
    BY <1>2, <1>3 DEF D, F
  <1>24. Flows([since |-> n, start |-> Sh(h, d), open |-> {}, floor |-> floor], r16, Sh(h1, d), {})
    BY <1>3, <1>21, <1>23, FlowsClosed DEF w
  <1> QED
    BY <1>4, <1>22, <1>24

-----------------------------------------------------------------------------
(* Constructs with any number of parts. *)

\* A table of n parts is a sequence of length n.
LEMMA TableLen ==
  ASSUME NEW n \in Nat, NEW f, f = [k \in 1 .. n |-> f[k]]
  PROVE  Len(f) = n /\ IsSequence(f)
  <1> DEFINE S == { f[k] : k \in 1 .. n }
  <1>1. f \in [1 .. n -> S]
    OBVIOUS
  <1>2. f \in Seq(S) /\ Len(f) = n
    <2> HIDE DEF S
    <2> QED
      BY <1>1
  <1> QED
    BY <1>2 DEF IsSequence

\* LowerAll: as many values as expressions.
LEMMA AllFlow ==
  ASSUME NEW w, NEW s, NEW h \in Nat, NEW d \in Nat, NEW D, Flows(w, s, Sh(h, d), D),
         w.floor \in Nat, w.floor <= d,
         NEW low, NEW es, IsList(es), \A k \in 1 .. Len(es) : IsExpr(low[es[k]])
  PROVE  Flows(w, LowerAll(low, es, s), Sh(h + Len(es), d), D)
  <1> DEFINE n     == Len(es)
             parts == [k \in DOMAIN es |-> low[es[k]]]
             T     == [k \in 0 .. n |-> Sh(h + k, d)]
             F     == [k \in 1 .. n |-> {}]
  <1>1. n \in Nat /\ parts = [k \in 1 .. n |-> low[es[k]]]
    BY DEF IsList
  <1>2. LowerAll(low, es, s) = InTurn(parts, s)
    BY DEF LowerAll
  <1> HIDE DEF n, parts
  <1>3. Len(parts) = n /\ \A k \in 1 .. n : parts[k] = low[es[k]]
    BY <1>1, TableLen
  <1>4. \A k \in 1 .. n : IsPart(parts[k], T[k - 1], T[k], w.open, w.floor, F[k])
    <2> SUFFICES ASSUME NEW k \in 1 .. n
                 PROVE  IsPart(parts[k], T[k - 1], T[k], w.open, w.floor, F[k])
      OBVIOUS
    <2> DEFINE a == h + (k - 1)
    <2>1. a \in Nat /\ a + 1 = h + k /\ k \in 0 .. n /\ k - 1 \in 0 .. n
      BY <1>1
    <2>2. T[k - 1] = Sh(a, d) /\ T[k] = Sh(a + 1, d) /\ F[k] = {}
      BY <2>1
    <2>3. IsExpr(parts[k])
      BY <1>3 DEF n
    <2> HIDE DEF a, T, F
    <2> QED
      BY <2>1, <2>2, <2>3, ExprIsPart
  <1>5. T[0] = Sh(h, d) /\ T[n] = Sh(h + n, d)
    <2>1. 0 \in 0 .. n /\ n \in 0 .. n /\ h + 0 = h
      BY <1>1
    <2> QED
      BY <2>1
  <1> HIDE DEF T, F
  <1>6. Flows(w, InTurn(parts, s), T[Len(parts)], D)
    <2>1. Flows(w, s, T[0], D) /\ Len(parts) \in Nat
      BY <1>1, <1>3, <1>5
    <2>2. \A k \in 1 .. Len(parts) : IsPart(parts[k], T[k - 1], T[k], w.open, w.floor, F[k])
      BY <1>3, <1>4
    <2> QED
      BY <2>1, <2>2, InTurnFlow, Zenon
  <1> QED
    BY <1>2, <1>3, <1>5, <1>6 DEF n

\* A condition with its branch: the value is at the end, and none at the next condition.
LEMMA CaseFlow ==
  ASSUME NEW w, NEW s, NEW h \in Nat, NEW d \in Nat, NEW D, Flows(w, s, Sh(h, d), D),
         w.floor \in Nat, w.floor <= d, NEW low, NEW c, NEW e, IsExpr(low[c]), IsExpr(low[e]),
         NEW next, NEW end, <<next, Sh(h, d)>> \in w.open, <<end, Sh(h + 1, d)>> \in w.open
  PROVE  Flows(w, LowerCase(low, c, e, next, end, s), Sh(h, d), D)
  <1> DEFINE r1 == Inner(low[c], s)
             r2 == Emit(r1, <<OnLabel("JumpIfFalse", next)>>)
             r3 == Inner(low[e], r2)
             r4 == Emit(r3, <<OnLabel("Jump", end)>>)
  <1>1. Flows(w, r1, Sh(h + 1, d), D)
    BY ExprFlow
  <1>2. Flows(w, r2, Sh(h, d), D)
    BY <1>1, TestFlow
  <1>3. Flows(w, r3, Sh(h + 1, d), D)
    BY <1>2, ExprFlow
  <1>4. Flows(w, r4, Sh(h, d), D)
    BY <1>3, ShFacts, JumpFlow
  <1> QED
    BY <1>4 DEF LowerCase

\* lower_if: every branch comes to the end with one value, and to each condition with none.
LEMMA IfLeaves ==
  ASSUME NEW low, NEW e, NEW n \in Nat, IsList(e.elifs),
         IsExpr(low[e.cond]), IsExpr(low[e.then]), IsExpr(low[e.else]),
         \A k \in 1 .. Len(e.elifs) : IsExpr(low[e.elifs[k][1]]) /\ IsExpr(low[e.elifs[k][2]])
  PROVE  Leaves(LowerIf(low, e, n), n)
  <1> SUFFICES ASSUME NEW h \in Nat, NEW d \in Nat, NEW floor \in Nat, floor <= d
               PROVE  Flows([since |-> n, start |-> Sh(h, d), open |-> {}, floor |-> floor],
                            LowerIf(low, e, n), Sh(h + 1, d), {})
    BY DEF Leaves
  <1> DEFINE c       == Len(e.elifs)
             end     == <<"end_if", n>>
             other   == <<"else", n>>
             elif(k) == <<"elif", n, k - 1>>
             next(k) == IF k < c THEN elif(k + 1) ELSE other
             O       == {<<end, Sh(h + 1, d)>>, <<other, Sh(h, d)>>}
                          \union { <<elif(k), Sh(h, d)>> : k \in 1 .. c }
             w       == [since |-> n + 1, start |-> Sh(h, d), open |-> O, floor |-> floor]
             r0      == Start(n + 1)
             r1      == LowerCase(low, e.cond, e.then, next(0), end, r0)
             part(k) == [m \in Nat |-> LowerCase(low, e.elifs[k][1], e.elifs[k][2], next(k), end,
                                                 Emit(Start(m), <<OnLabel("Label", elif(k))>>))]
             parts   == [k \in DOMAIN e.elifs |-> part(k)]
             r2      == InTurn(parts, r1)
             r3      == Emit(r2, <<OnLabel("Label", other)>>)
             r4      == Inner(low[e.else], r3)
             r5      == Emit(r4, <<OnLabel("Label", end)>>)
             T       == [k \in 0 .. c |-> Sh(h, d)]
             F       == [k \in 1 .. c |-> {elif(k)}]
  <1>1. w.since = n + 1 /\ w.start = Sh(h, d) /\ w.open = O /\ w.floor = floor
    OBVIOUS
  <1>2. c \in Nat /\ DOMAIN e.elifs = 1 .. c
    BY DEF IsList
  <1>3. /\ <<end, Sh(h + 1, d)>> \in O /\ <<other, Sh(h, d)>> \in O
        /\ \A k \in 1 .. c : <<elif(k), Sh(h, d)>> \in O
    OBVIOUS
  <1>4. end[2] = n /\ other[2] = n /\ \A k : elif(k)[2] = n
    OBVIOUS
  <1>5. Agree(O)
    <2>1. /\ end # other /\ \A k : end # elif(k) /\ other # elif(k)
      <3>1. end[1] = "end_if" /\ other[1] = "else" /\ \A k : elif(k)[1] = "elif"
        OBVIOUS
      <3> HIDE DEF end, other, elif
      <3> QED
        BY <3>1
    <2> HIDE DEF end, other, elif
    <2>2. ASSUME NEW p \in O
          PROVE  \/ p = <<end, Sh(h + 1, d)>>
                 \/ p[2] = Sh(h, d) /\ p = <<p[1], Sh(h, d)>> /\ p[1] # end
      BY <2>1
    <2> SUFFICES ASSUME NEW p \in O, NEW q \in O, p[1] = q[1] PROVE p = q
      BY DEF Agree
    <2> QED
      BY <2>2
  <1>6. \A p \in O : p[1] = end \/ p[1] = other \/ \E k \in 1 .. c : p[1] = elif(k)
    OBVIOUS
  <1>7. \A k \in 0 .. c : <<next(k), Sh(h, d)>> \in O
    <2> SUFFICES ASSUME NEW k \in 0 .. c PROVE <<next(k), Sh(h, d)>> \in O
      OBVIOUS
    <2>1. CASE k < c
      <3>1. k + 1 \in 1 .. c
        BY <1>2, <2>1
      <3> HIDE DEF O, elif
      <3> QED
        BY <1>3, <2>1, <3>1
    <2>2. CASE ~ (k < c)
      BY <1>3, <2>2
    <2> QED
      BY <2>1, <2>2
  <1>8. parts = [k \in 1 .. c |-> part(k)]
    BY <1>2
  <1>9. \A k \in 1 .. c : IsExpr(low[e.elifs[k][1]]) /\ IsExpr(low[e.elifs[k][2]])
    OBVIOUS
  <1>10. LowerIf(low, e, n) = r5
    BY DEF LowerIf
  <1>11. /\ \A k \in 0 .. c : T[k] = Sh(h, d)
         /\ \A k \in 1 .. c : F[k] = {elif(k)}
    OBVIOUS
  <1>12. r1 = LowerCase(low, e.cond, e.then, next(0), end, r0)
    OBVIOUS
  <1>13. \A k : part(k) = [m \in Nat |->
                   LowerCase(low, e.elifs[k][1], e.elifs[k][2], next(k), end,
                             Emit(Start(m), <<OnLabel("Label", elif(k))>>))]
    OBVIOUS
  <1> HIDE DEF c, end, other, elif, next, O, w, T, F, part, parts
  <1>14. Flows(w, r0, Sh(h, d), {})
    <2>1. n + 1 \in Nat /\ w.since \in Nat /\ w.since <= n + 1 /\ w.start \in Shape
      BY <1>1, ShFacts
    <2>2. Flows(w, r0, w.start, {})
      BY <2>1, FlowsStart
    <2> QED
      BY <1>1, <2>2
  <1>15. Flows(w, r1, Sh(h, d), {})
    <2>1. <<next(0), Sh(h, d)>> \in w.open /\ <<end, Sh(h + 1, d)>> \in w.open
      BY <1>1, <1>2, <1>3, <1>7
    <2> QED
      BY <1>1, <1>14, <2>1, CaseFlow
  <1>16. \A k \in 1 .. c : IsPart(parts[k], T[k - 1], T[k], w.open, w.floor, F[k])
    <2> SUFFICES ASSUME NEW k \in 1 .. c, NEW m \in Nat
                 PROVE  Flows([since |-> m, start |-> Sh(h, d), open |-> O, floor |-> floor],
                              parts[k][m], Sh(h, d), {elif(k)})
      <3>1. \A k \in 1 .. c : T[k - 1] = Sh(h, d) /\ T[k] = Sh(h, d) /\ F[k] = {elif(k)}
        BY <1>2, <1>11
      <3> QED
        BY <1>1, <3>1 DEF IsPart
    <2> DEFINE v  == [since |-> m, start |-> Sh(h, d), open |-> O, floor |-> floor]
               q0 == Start(m)
               q1 == Emit(q0, <<OnLabel("Label", elif(k))>>)
               q2 == LowerCase(low, e.elifs[k][1], e.elifs[k][2], next(k), end, q1)
    <2>1. v.since = m /\ v.start = Sh(h, d) /\ v.open = O /\ v.floor = floor
      OBVIOUS
    <2> HIDE DEF v
    <2>2. Flows(v, q0, Sh(h, d), {})
      BY <2>1, ShFacts, FlowsStart
    <2>3. Flows(v, q1, Sh(h, d), {} \union {elif(k)})
      BY <1>3, <2>1, <2>2, ShFacts, PutFlow
    <2>4. {} \union {elif(k)} = {elif(k)}
      OBVIOUS
    <2>5. <<next(k), Sh(h, d)>> \in v.open /\ <<end, Sh(h + 1, d)>> \in v.open
      BY <1>2, <1>3, <1>7, <2>1
    <2>6. IsExpr(low[e.elifs[k][1]]) /\ IsExpr(low[e.elifs[k][2]])
      BY <1>9
    <2>7. Flows(v, q2, Sh(h, d), {elif(k)})
      <3> HIDE DEF q1
      <3>1. Flows(v, q1, Sh(h, d), {elif(k)})
        BY <2>3, <2>4
      <3> QED
        BY <2>1, <2>5, <2>6, <3>1, CaseFlow
    <2>8. parts[k][m] = q2
      BY <1>8, <1>13
    <2> QED
      BY <2>7, <2>8 DEF v
  <1> DEFINE D == UNION { F[k] : k \in 1 .. c }
  <1>17. Flows(w, r2, Sh(h, d), D)
    <2>1. Len(parts) = c
      <3>1. parts = [k \in 1 .. c |-> parts[k]]
        BY <1>8
      <3> QED
        BY <1>2, <3>1, TableLen
    <2>2. T[0] = Sh(h, d) /\ T[c] = Sh(h, d)
      BY <1>2, <1>11
    <2> HIDE DEF r1
    <2>3. Flows(w, r1, T[0], {}) /\ Len(parts) \in Nat
      BY <1>2, <1>15, <2>1, <2>2
    <2>4. \A k \in 1 .. Len(parts) : IsPart(parts[k], T[k - 1], T[k], w.open, w.floor, F[k])
      BY <1>16, <2>1
    <2>5. Flows(w, InTurn(parts, r1), T[Len(parts)], D)
      <3>1. \A l \in D : l \in {} \/ \E k \in 1 .. Len(parts) : l \in F[k]
        BY <2>1
      <3> HIDE DEF D
      <3> QED
        BY <2>3, <2>4, <3>1, InTurnFlow, Zenon
    <2> QED
      BY <2>1, <2>2, <2>5
  <1>18. \A k \in 1 .. c : elif(k) \in D
    BY <1>11
  <1> HIDE DEF D, r2
  <1>19. Flows(w, r3, Sh(h, d), D \union {other})
    BY <1>1, <1>3, <1>17, ShFacts, PutFlow
  <1>20. Flows(w, r4, Sh(h + 1, d), D \union {other})
    BY <1>1, <1>19, ExprFlow
  <1>21. Flows(w, r5, Sh(h + 1, d), (D \union {other}) \union {end})
    BY <1>1, <1>3, <1>20, ShFacts, PutFlow
  <1>22. \A p \in O : p[1][2] = n /\ p[1] \in (D \union {other}) \union {end}
    BY <1>4, <1>6, <1>18
  <1> HIDE DEF r5
  <1> QED
    BY <1>5, <1>10, <1>21, <1>22, FlowsClosed DEF w

\* An expression that is dropped.
LEMMA DroppedIsPart ==
  ASSUME NEW f, IsExpr(f), NEW h \in Nat, NEW d \in Nat, NEW floor \in Nat, floor <= d, NEW open
  PROVE  IsPart(Followed(f, <<Plain("Pop")>>), Sh(h, d), Sh(h, d), open, floor, {})
  <1> SUFFICES ASSUME NEW n \in Nat
               PROVE  Flows([since |-> n, start |-> Sh(h, d), open |-> open, floor |-> floor],
                            Emit(f[n], <<Plain("Pop")>>), Sh(h, d), {})
    BY DEF IsPart, Followed
  <1> DEFINE w == [since |-> n, start |-> Sh(h, d), open |-> open, floor |-> floor]
  <1>1. Flows(w, f[n], Sh(h + 1, d), {})
    BY ExprIsPart DEF IsPart
  <1> HIDE DEF w
  <1>2. Flows(w, Emit(f[n], <<Plain("Pop")>>), Sh(h, d), {})
    BY <1>1, OpFacts, DropFlow
  <1> QED
    BY <1>2 DEF w

\* A block: the value of the last expression, or Nil if there is none.
LEMMA BlockLeaves ==
  ASSUME NEW low, NEW e, NEW n \in Nat, IsList(e.exprs),
         \A k \in 1 .. Len(e.exprs) : IsExpr(low[e.exprs[k]])
  PROVE  Leaves(LowerBlock(low, e, n), n)
  <1> SUFFICES ASSUME NEW h \in Nat, NEW d \in Nat, NEW floor \in Nat, floor <= d
               PROVE  Flows([since |-> n, start |-> Sh(h, d), open |-> {}, floor |-> floor],
                            LowerBlock(low, e, n), Sh(h + 1, d), {})
    BY DEF Leaves
  <1> DEFINE c     == Len(e.exprs)
             w     == [since |-> n, start |-> Sh(h, d), open |-> {}, floor |-> floor]
             r0    == Start(n)
             part(k) == IF k < c THEN Followed(low[e.exprs[k]], <<Plain("Pop")>>) ELSE low[e.exprs[k]]
             parts == [k \in DOMAIN e.exprs |-> part(k)]
             T     == [k \in 0 .. c |-> IF k < c THEN Sh(h, d) ELSE Sh(h + 1, d)]
             F     == [k \in 1 .. c |-> {}]
  <1>1. w.since = n /\ w.start = Sh(h, d) /\ w.floor = floor
    OBVIOUS
  <1>2. c \in Nat /\ DOMAIN e.exprs = 1 .. c /\ (e.exprs = <<>>) = (c = 0)
    BY DEF IsList
  <1>3. Flows(w, r0, Sh(h, d), {})
    <2> HIDE DEF w
    <2> QED
      BY <1>1, FlowsStartAt
  <1>4. CASE e.exprs = <<>>
    <2> HIDE DEF w
    <2>1. Flows(w, Emit(r0, <<Lit(Nil)>>), Sh(h + 1, d), {})
      BY <1>3, OpFacts, PushFlow
    <2>2. LowerBlock(low, e, n) = Emit(r0, <<Lit(Nil)>>)
      BY <1>4 DEF LowerBlock
    <2> QED
      BY <2>1, <2>2 DEF w
  <1>5. CASE e.exprs # <<>>
    <2>1. c > 0
      BY <1>2, <1>5
    <2>2. LowerBlock(low, e, n) = InTurn(parts, r0)
      BY <1>5 DEF LowerBlock
    <2>3. parts = [k \in 1 .. c |-> part(k)]
      BY <1>2
    <2>4. \A k \in 1 .. c : IsExpr(low[e.exprs[k]])
      OBVIOUS
    <2>5. T[0] = Sh(h, d) /\ T[c] = Sh(h + 1, d)
      BY <1>2, <2>1
    <2>6. \A k \in 1 .. c : /\ T[k - 1] = Sh(h, d)
                            /\ T[k] = IF k < c THEN Sh(h, d) ELSE Sh(h + 1, d)
                            /\ F[k] = {}
      BY <1>2
    <2>7. \A k : part(k) = IF k < c THEN Followed(low[e.exprs[k]], <<Plain("Pop")>>) ELSE low[e.exprs[k]]
      OBVIOUS
    <2> HIDE DEF c, w, r0, part, parts, T, F
    <2>8. Len(parts) = c /\ \A k \in 1 .. c : parts[k] = part(k)
      BY <1>2, <2>3, TableLen
    <2>9. \A k \in 1 .. c : IsPart(parts[k], T[k - 1], T[k], w.open, w.floor, F[k])
      <3> SUFFICES ASSUME NEW k \in 1 .. c
                   PROVE  IsPart(parts[k], T[k - 1], T[k], w.open, w.floor, F[k])
        OBVIOUS
      <3>1. CASE k < c
        <4> DEFINE f == low[e.exprs[k]]
        <4>1. IsExpr(f) /\ parts[k] = Followed(f, <<Plain("Pop")>>)
          BY <2>4, <2>7, <2>8, <3>1
        <4>2. T[k - 1] = Sh(h, d) /\ T[k] = Sh(h, d) /\ F[k] = {}
          BY <2>6, <3>1
        <4> HIDE DEF f
        <4>3. IsPart(Followed(f, <<Plain("Pop")>>), Sh(h, d), Sh(h, d), w.open, floor, {})
          BY <4>1, DroppedIsPart
        <4> QED
          BY <1>1, <4>1, <4>2, <4>3
      <3>2. CASE ~ (k < c)
        <4> DEFINE f == low[e.exprs[k]]
        <4>1. IsExpr(f) /\ parts[k] = f
          BY <2>4, <2>7, <2>8, <3>2
        <4>2. T[k - 1] = Sh(h, d) /\ T[k] = Sh(h + 1, d) /\ F[k] = {}
          BY <2>6, <3>2
        <4> HIDE DEF f
        <4>3. IsPart(f, Sh(h, d), Sh(h + 1, d), w.open, floor, {})
          BY <4>1, ExprIsPart
        <4> QED
          BY <1>1, <4>1, <4>2, <4>3
      <3> QED
        BY <3>1, <3>2
    <2>10. Flows(w, InTurn(parts, r0), T[Len(parts)], {})
      <3>1. Flows(w, r0, T[0], {}) /\ Len(parts) \in Nat
        BY <1>2, <1>3, <2>5, <2>8
      <3>2. \A k \in 1 .. Len(parts) : IsPart(parts[k], T[k - 1], T[k], w.open, w.floor, F[k])
        BY <2>8, <2>9
      <3>3. \A l \in {} : l \in {} \/ \E k \in 1 .. Len(parts) : l \in F[k]
        OBVIOUS
      <3> QED
        BY <3>1, <3>2, <3>3, InTurnFlow, Zenon
    <2> QED
      BY <2>2, <2>5, <2>8, <2>10 DEF w
  <1> QED
    BY <1>4, <1>5

\* The values of all of the parts es, and an instruction that combines them.
LEMMA CombinedLeaves ==
  ASSUME NEW low, NEW es, IsList(es), \A k \in 1 .. Len(es) : IsExpr(low[es[k]]),
         NEW n \in Nat, NEW i, Combines(i, Len(es))
  PROVE  Leaves(Emit(LowerAll(low, es, Start(n)), <<i>>), n)
  <1> SUFFICES ASSUME NEW h \in Nat, NEW d \in Nat, NEW floor \in Nat, floor <= d
               PROVE  Flows([since |-> n, start |-> Sh(h, d), open |-> {}, floor |-> floor],
                            Emit(LowerAll(low, es, Start(n)), <<i>>), Sh(h + 1, d), {})
    BY DEF Leaves
  <1> DEFINE w  == [since |-> n, start |-> Sh(h, d), open |-> {}, floor |-> floor]
             r0 == Start(n)
             r1 == LowerAll(low, es, r0)
  <1>1. w.since = n /\ w.start = Sh(h, d) /\ w.floor = floor
    OBVIOUS
  <1> HIDE DEF w
  <1>2. Flows(w, r0, Sh(h, d), {})
    BY <1>1, FlowsStartAt
  <1> HIDE DEF r0
  <1>3. Flows(w, r1, Sh(h + Len(es), d), {})
    BY <1>1, <1>2, AllFlow
  <1> HIDE DEF r1
  <1>4. Len(es) \in Nat
    BY DEF IsList
  <1>5. Flows(w, Emit(r1, <<i>>), Sh(h + 1, d), {})
    BY <1>3, <1>4, TakeFlow
  <1> QED
    BY <1>5 DEF w, r0, r1

\* The kinds of values that operations take.
LEMMA ArityFacts ==
  /\ \A op \in BinaryOps \union {"Log"} : op \in PureOps /\ Len(Kinds(op)) = 2
  /\ \A op \in UnaryOps \union {"Print", "Sqrt", "Sin", "Cos", "Exp"} :
       op \in PureOps /\ Len(Kinds(op)) = 1
  <1> USE DEF Kinds, PureOps, NumOps, NumFuncs, NumTests, BoolOps, AnyTests, Joins
  <1>1. \A op \in BinaryOps \union {"Log"} : op \in PureOps /\ \E j, k : Kinds(op) = <<j, k>>
    BY DEF BinaryOps
  <1>2. \A op \in UnaryOps \union {"Print", "Sqrt", "Sin", "Cos", "Exp"} :
          op \in PureOps /\ \E k : Kinds(op) = <<k>>
    BY DEF UnaryOps
  <1>3. \A j, k : Len(<<j, k>>) = 2 /\ Len(<<k>>) = 1
    OBVIOUS
  <1> HIDE DEF Kinds, PureOps
  <1> QED
    BY <1>1, <1>2, <1>3

-----------------------------------------------------------------------------
(* All expressions. *)

\* The expressions of a sequence.
LEMMA ListFacts ==
  ASSUME NEW X, NEW es \in Seq(X)
  PROVE  IsList(es) /\ IsSequence(es) /\ \A k \in 1 .. Len(es) : es[k] \in X
  <1>1. Len(es) \in Nat /\ DOMAIN es = 1 .. Len(es) /\ \A k \in 1 .. Len(es) : es[k] \in X
    OBVIOUS
  <1>2. (es = <<>>) = (Len(es) = 0)
    BY EmptyFacts
  <1> QED
    BY <1>1, <1>2 DEF IsList, IsSequence

\* What an expression is made of.
LEMMA CallFacts ==
  ASSUME NEW X, NEW e \in CallForms(X)
  PROVE  /\ e.kind = "Call" /\ e.args \in Seq(X)
         /\ e.name \in Unary => Len(e.args) = 1
         /\ e.name \in Binary => Len(e.args) = 2
         /\ e.name = "rand" => Len(e.args) = 0
  <1>1. ASSUME NEW n \in Nat, e.args \in [1 .. n -> X] PROVE e.args \in Seq(X) /\ Len(e.args) = n
    BY <1>1
  <1>2. CASE e \in [kind : {"Call"}, name : Unary, args : [1 .. 1 -> X]]
    BY <1>1, <1>2 DEF Unary, Binary
  <1>3. CASE e \in [kind : {"Call"}, name : Binary, args : [1 .. 2 -> X]]
    BY <1>1, <1>3 DEF Unary, Binary
  <1>4. CASE e \in [kind : {"Call"}, name : {"rand"}, args : {<<>>}]
    <2>1. e.args = <<>> /\ e.name = "rand" /\ e.kind = "Call"
      BY <1>4
    <2>2. <<>> \in Seq(X) /\ Len(<<>>) = 0
      OBVIOUS
    <2> QED
      BY <2>1, <2>2 DEF Unary, Binary
  <1>5. CASE e \in [kind : {"Call"}, name : STRING \ Builtins, args : Seq(X)]
    BY <1>5 DEF Builtins
  <1> QED
    BY <1>2, <1>3, <1>4, <1>5 DEF CallForms

Leafs == {"Literal", "Ident", "SelfExpr"}

\* And the other expressions: what they are made of, by their kinds.
LEMMA FormFacts ==
  ASSUME NEW X, NEW Val, NEW Types, NEW e \in Forms(X, Val, Types)
  PROVE  /\ e.kind \in Leafs \union {"BinOp", "UnOp", "Call", "MethodCall", "Base", "GetField", "Let",
                                     "Assign", "AssignField", "If", "While", "For", "Block", "New",
                                     "Is", "As", "Vector", "VectorComp", "Index"}
         /\ e.kind = "Call" => e \in CallForms(X)
         /\ e.kind = "BinOp" => e.op \in BinaryOps /\ e.lhs \in X /\ e.rhs \in X
         /\ e.kind = "UnOp" => e.op \in UnaryOps
         /\ e.kind \in {"UnOp", "Is", "As"} => e.arg \in X
         /\ e.kind \in {"MethodCall", "Base", "New"} => e.args \in Seq(X)
         /\ e.kind \in {"MethodCall", "GetField", "AssignField", "Index"} => e.obj \in X
         /\ e.kind = "Index" => e.index \in X
         /\ e.kind \in {"Assign", "AssignField"} => e.val \in X
         /\ e.kind = "Let" => e.init \in X /\ e.body \in X
         /\ e.kind = "If" =>
              e.cond \in X /\ e.then \in X /\ e.else \in X /\ e.elifs \in Seq(X \X X)
         /\ e.kind = "While" => e.cond \in X /\ e.body \in X
         /\ e.kind = "For" => e.iter \in X /\ e.body \in X
         /\ e.kind = "VectorComp" => e.iter \in X /\ e.elem \in X
         /\ e.kind = "Block" => e.exprs \in Seq(X)
         /\ e.kind = "Vector" => e.elems \in Seq(X)
  <1>1. e \in CallForms(X) => e.kind = "Call"
    BY CallFacts
  <1>2. CASE e \in CallForms(X)
    BY <1>1, <1>2 DEF Leafs
  <1>3. CASE \/ e \in [kind : {"Literal"}, val : Val]
             \/ e \in [kind : {"Ident"}, name : STRING]
             \/ e \in [kind : {"SelfExpr"}]
             \/ e \in [kind : {"BinOp"}, op : BinaryOps, lhs : X, rhs : X]
             \/ e \in [kind : {"UnOp"}, op : UnaryOps, arg : X]
             \/ e \in [kind : {"MethodCall"}, obj : X, method : STRING, args : Seq(X)]
             \/ e \in [kind : {"Base"}, args : Seq(X)]
             \/ e \in [kind : {"GetField"}, obj : X, field : STRING]
    BY <1>3 DEF Leafs
  <1>4. CASE \/ e \in [kind : {"Let"}, name : STRING, ref : Types, init : X, body : X]
             \/ e \in [kind : {"Assign"}, name : STRING, val : X]
             \/ e \in [kind : {"AssignField"}, obj : X, field : STRING, val : X]
             \/ e \in [kind : {"If"}, cond : X, then : X, elifs : Seq(X \X X), else : X]
             \/ e \in [kind : {"While"}, cond : X, body : X]
             \/ e \in [kind : {"For"}, var : STRING, iter : X, body : X]
             \/ e \in [kind : {"Block"}, exprs : Seq(X)]
    BY <1>4 DEF Leafs
  <1>5. CASE \/ e \in [kind : {"New"}, type : STRING, refs : Seq(Types), args : Seq(X)]
             \/ e \in [kind : {"Is", "As"}, arg : X, ref : Types]
             \/ e \in [kind : {"Vector"}, elems : Seq(X)]
             \/ e \in [kind : {"VectorComp"}, elem : X, var : STRING, iter : X]
             \/ e \in [kind : {"Index"}, obj : X, index : X]
    BY <1>5 DEF Leafs
  <1>6. \/ e \in CallForms(X)
        \/ e \in [kind : {"Literal"}, val : Val]
        \/ e \in [kind : {"Ident"}, name : STRING]
        \/ e \in [kind : {"SelfExpr"}]
        \/ e \in [kind : {"BinOp"}, op : BinaryOps, lhs : X, rhs : X]
        \/ e \in [kind : {"UnOp"}, op : UnaryOps, arg : X]
        \/ e \in [kind : {"MethodCall"}, obj : X, method : STRING, args : Seq(X)]
        \/ e \in [kind : {"Base"}, args : Seq(X)]
        \/ e \in [kind : {"GetField"}, obj : X, field : STRING]
        \/ e \in [kind : {"Let"}, name : STRING, ref : Types, init : X, body : X]
        \/ e \in [kind : {"Assign"}, name : STRING, val : X]
        \/ e \in [kind : {"AssignField"}, obj : X, field : STRING, val : X]
        \/ e \in [kind : {"If"}, cond : X, then : X, elifs : Seq(X \X X), else : X]
        \/ e \in [kind : {"While"}, cond : X, body : X]
        \/ e \in [kind : {"For"}, var : STRING, iter : X, body : X]
        \/ e \in [kind : {"Block"}, exprs : Seq(X)]
        \/ e \in [kind : {"New"}, type : STRING, refs : Seq(Types), args : Seq(X)]
        \/ e \in [kind : {"Is", "As"}, arg : X, ref : Types]
        \/ e \in [kind : {"Vector"}, elems : Seq(X)]
        \/ e \in [kind : {"VectorComp"}, elem : X, var : STRING, iter : X]
        \/ e \in [kind : {"Index"}, obj : X, index : X]
    BY Zenon DEF Forms
  <1> QED
    BY <1>2, <1>3, <1>4, <1>5, <1>6

\* One instruction behind all operands.
LEMMA OneBehind ==
  ASSUME NEW X, NEW low, \A x \in X : IsExpr(low[x]), NEW es \in Seq(X),
         NEW n \in Nat, NEW i, Combines(i, Len(es))
  PROVE  Leaves(Emit(LowerAll(low, es, Start(n)), <<i>>), n)
  <1>1. IsList(es) /\ \A k \in 1 .. Len(es) : IsExpr(low[es[k]])
    BY ListFacts
  <1> QED
    BY <1>1, CombinedLeaves

\* An assignment: a copy goes to the variable, the value stays.
LEMMA AssignLeaves ==
  ASSUME NEW X, NEW low, \A x \in X : IsExpr(low[x]), NEW es \in Seq(X), Len(es) = 1,
         NEW n \in Nat, NEW x
  PROVE  Leaves(Emit(LowerAll(low, es, Start(n)), <<Plain("Dup"), OnVar("StoreVar", x)>>), n)
  <1> SUFFICES ASSUME NEW h \in Nat, NEW d \in Nat, NEW floor \in Nat, floor <= d
               PROVE  Flows([since |-> n, start |-> Sh(h, d), open |-> {}, floor |-> floor],
                            Emit(LowerAll(low, es, Start(n)), <<Plain("Dup"), OnVar("StoreVar", x)>>),
                            Sh(h + 1, d), {})
    BY DEF Leaves
  <1> DEFINE w  == [since |-> n, start |-> Sh(h, d), open |-> {}, floor |-> floor]
             r0 == Start(n)
             r1 == LowerAll(low, es, r0)
             r2 == Emit(r1, <<Plain("Dup")>>)
             h1 == h + 1
  <1>1. w.since = n /\ w.start = Sh(h, d) /\ w.floor = floor /\ h1 \in Nat /\ h + 2 = h1 + 1
    OBVIOUS
  <1>2. IsList(es) /\ \A k \in 1 .. Len(es) : IsExpr(low[es[k]])
    BY ListFacts
  <1> HIDE DEF w
  <1>3. Flows(w, r0, Sh(h, d), {})
    BY <1>1, FlowsStartAt
  <1> HIDE DEF r0
  <1>4. Flows(w, r1, Sh(h + Len(es), d), {})
    <2>1. w.floor \in Nat /\ w.floor <= d
      BY <1>1
    <2> QED
      BY <1>2, <1>3, <2>1, AllFlow, Zenon
  <1> HIDE DEF r1
  <1>5. Flows(w, r2, Sh(h + 2, d), {})
    <2>1. Flows(w, r1, Sh(h + 1, d), {})
      BY <1>4
    <2> QED
      BY <2>1, OpFacts, DupFlow
  <1>6. Flows(w, Emit(r2, <<OnVar("StoreVar", x)>>), Sh(h1, d), {})
    <2> HIDE DEF r2, h1
    <2>1. Flows(w, r2, Sh(h1 + 1, d), {})
      BY <1>1, <1>5
    <2> QED
      BY <1>1, <2>1, OpFacts, DropFlow
  <1>7. Emit(r1, <<Plain("Dup"), OnVar("StoreVar", x)>>) = Emit(r2, <<OnVar("StoreVar", x)>>)
    BY <1>4, FlowsIsLowering, EmitTwo
  <1> QED
    BY <1>6, <1>7 DEF w, r0, r1

\* A call of the parent's method: the receiver comes behind the arguments.
LEMMA BaseLeaves ==
  ASSUME NEW X, NEW low, \A x \in X : IsExpr(low[x]), NEW es \in Seq(X),
         NEW n \in Nat, NEW t, NEW m
  PROVE  Leaves(Emit(LowerAll(low, es, Start(n)), <<OnVar("LoadVar", "self"), CallUp(t, m, Len(es))>>), n)
  <1> SUFFICES ASSUME NEW h \in Nat, NEW d \in Nat, NEW floor \in Nat, floor <= d
               PROVE  Flows([since |-> n, start |-> Sh(h, d), open |-> {}, floor |-> floor],
                            Emit(LowerAll(low, es, Start(n)),
                                 <<OnVar("LoadVar", "self"), CallUp(t, m, Len(es))>>), Sh(h + 1, d), {})
    BY DEF Leaves
  <1> DEFINE w  == [since |-> n, start |-> Sh(h, d), open |-> {}, floor |-> floor]
             r0 == Start(n)
             r1 == LowerAll(low, es, r0)
             i  == OnVar("LoadVar", "self")
             j  == CallUp(t, m, Len(es))
             r2 == Emit(r1, <<i>>)
             k  == Len(es)
             a  == h + k
             b  == k + 1
  <1>1. w.since = n /\ w.start = Sh(h, d) /\ w.floor = floor
    OBVIOUS
  <1>2. IsList(es) /\ \A q \in 1 .. Len(es) : IsExpr(low[es[q]])
    BY ListFacts
  <1>3. k \in Nat /\ a \in Nat /\ b \in Nat /\ a + 1 = h + b
    BY <1>2 DEF IsList
  <1>4. i.op = "LoadVar" /\ Combines(j, b)
    BY OpFacts DEF Combines
  <1> HIDE DEF w
  <1>5. Flows(w, r0, Sh(h, d), {})
    BY <1>1, FlowsStartAt
  <1> HIDE DEF r0
  <1>6. Flows(w, r1, Sh(a, d), {})
    <2>1. w.floor \in Nat /\ w.floor <= d
      BY <1>1
    <2> QED
      BY <1>2, <1>5, <2>1, AllFlow, Zenon
  <1> HIDE DEF r1, a, b, i, j, k
  <1>7. Flows(w, r2, Sh(a + 1, d), {})
    BY <1>3, <1>4, <1>6, PushFlow
  <1>8. Flows(w, r2, Sh(h + b, d), {})
    BY <1>3, <1>7
  <1> HIDE DEF r2
  <1>9. Flows(w, Emit(r2, <<j>>), Sh(h + 1, d), {})
    BY <1>3, <1>4, <1>8, TakeFlow
  <1>10. Emit(r1, <<i, j>>) = Emit(r2, <<j>>)
    BY <1>6, FlowsIsLowering, EmitTwo DEF r2
  <1> QED
    BY <1>9, <1>10 DEF w, r0, r1, i, j

\* All expressions whose parts are operands, with the instructions behind them.
LEMMA RestLeaves ==
  ASSUME NEW X, NEW Val, NEW Types, NEW e \in Forms(X, Val, Types),
         NEW low, \A x \in X : IsExpr(low[x]), NEW n \in Nat, NEW at,
         e.kind \in {"BinOp", "UnOp", "MethodCall", "Base", "GetField", "Assign", "AssignField",
                     "New", "Is", "As", "Vector", "Index"}
  PROVE  Leaves(Emit(LowerAll(low, Operands(e), Start(n)), Finish(e, at)), n)
  <1>1. \A x, y \in X : /\ <<x>> \in Seq(X) /\ Len(<<x>>) = 1
                        /\ <<x, y>> \in Seq(X) /\ Len(<<x, y>>) = 2
    OBVIOUS
  <1>2. ASSUME NEW es \in Seq(X), NEW i, Combines(i, Len(es)), Operands(e) = es, Finish(e, at) = <<i>>
        PROVE  Leaves(Emit(LowerAll(low, Operands(e), Start(n)), Finish(e, at)), n)
    BY <1>2, OneBehind
  <1>3. CASE e.kind = "BinOp"
    <2>1. e.op \in BinaryOps /\ e.lhs \in X /\ e.rhs \in X
      BY <1>3, FormFacts
    <2>2. Operands(e) = <<e.lhs, e.rhs>> /\ Finish(e, at) = <<Plain(e.op)>>
      BY <1>3 DEF Operands, Finish
    <2>3. Combines(Plain(e.op), 2)
      BY <2>1, ArityFacts, OpFacts DEF Combines
    <2> QED
      BY <1>1, <1>2, <2>1, <2>2, <2>3
  <1>4. CASE e.kind = "UnOp"
    <2>1. e.op \in UnaryOps /\ e.arg \in X
      BY <1>4, FormFacts
    <2>2. Operands(e) = <<e.arg>> /\ Finish(e, at) = <<Plain(e.op)>>
      BY <1>4 DEF Operands, Finish
    <2>3. Combines(Plain(e.op), 1)
      BY <2>1, ArityFacts, OpFacts DEF Combines
    <2> QED
      BY <1>1, <1>2, <2>1, <2>2, <2>3
  <1>5. CASE e.kind = "MethodCall"
    <2> DEFINE es == Append(e.args, e.obj)
    <2>1. e.args \in Seq(X) /\ e.obj \in X
      BY <1>5, FormFacts
    <2>2. es \in Seq(X) /\ Len(es) = Len(e.args) + 1
      BY <2>1
    <2>3. Operands(e) = es /\ Finish(e, at) = <<CallOn(e.method, Len(e.args))>>
      BY <1>5 DEF Operands, Finish
    <2>4. Combines(CallOn(e.method, Len(e.args)), Len(es))
      BY <2>2, OpFacts DEF Combines
    <2> HIDE DEF es
    <2> QED
      BY <1>2, <2>2, <2>3, <2>4
  <1>6. CASE e.kind = "Base"
    <2>1. e.args \in Seq(X)
      BY <1>6, FormFacts
    <2>2. /\ Operands(e) = e.args
          /\ Finish(e, at) = <<OnVar("LoadVar", "self"), CallUp(at.parent, at.method, Len(e.args))>>
      BY <1>6 DEF Operands, Finish
    <2> QED
      BY <2>1, <2>2, BaseLeaves
  <1>7. CASE e.kind = "GetField"
    <2>1. e.obj \in X
      BY <1>7, FormFacts
    <2>2. Operands(e) = <<e.obj>> /\ Finish(e, at) = <<OnField("GetField", e.field)>>
      BY <1>7 DEF Operands, Finish
    <2>3. Combines(OnField("GetField", e.field), 1)
      BY OpFacts DEF Combines
    <2> QED
      BY <1>1, <1>2, <2>1, <2>2, <2>3
  <1>8. CASE e.kind = "Assign"
    <2>1. e.val \in X
      BY <1>8, FormFacts
    <2>2. Operands(e) = <<e.val>> /\ Finish(e, at) = <<Plain("Dup"), OnVar("StoreVar", e.name)>>
      BY <1>8 DEF Operands, Finish
    <2> QED
      BY <1>1, <2>1, <2>2, AssignLeaves
  <1>9. CASE e.kind = "AssignField"
    <2>1. e.val \in X /\ e.obj \in X
      BY <1>9, FormFacts
    <2>2. Operands(e) = <<e.val, e.obj>> /\ Finish(e, at) = <<OnField("SetField", e.field)>>
      BY <1>9 DEF Operands, Finish
    <2>3. Combines(OnField("SetField", e.field), 2)
      BY OpFacts DEF Combines
    <2> QED
      BY <1>1, <1>2, <2>1, <2>2, <2>3
  <1>10. CASE e.kind = "New"
    <2>1. e.args \in Seq(X)
      BY <1>10, FormFacts
    <2>2. Operands(e) = e.args /\ Finish(e, at) = <<CallTo("__ctor_" \o e.type, Len(e.args))>>
      BY <1>10 DEF Operands, Finish
    <2>3. \A f : Combines(CallTo(f, Len(e.args)), Len(e.args))
      BY OpFacts DEF Combines
    <2> QED
      BY <1>2, <2>1, <2>2, <2>3
  <1>11. CASE e.kind = "Is"
    <2>1. e.arg \in X
      BY <1>11, FormFacts
    <2>2. Operands(e) = <<e.arg>> /\ Finish(e, at) = <<OnType("IsType", BaseName(e.ref))>>
      BY <1>11 DEF Operands, Finish
    <2>3. Combines(OnType("IsType", BaseName(e.ref)), 1)
      BY OpFacts DEF Combines
    <2> QED
      BY <1>1, <1>2, <2>1, <2>2, <2>3
  <1>12. CASE e.kind = "As"
    <2>1. e.arg \in X
      BY <1>12, FormFacts
    <2>2. Operands(e) = <<e.arg>> /\ Finish(e, at) = <<OnType("AsType", BaseName(e.ref))>>
      BY <1>12 DEF Operands, Finish
    <2>3. Combines(OnType("AsType", BaseName(e.ref)), 1)
      BY OpFacts DEF Combines
    <2> QED
      BY <1>1, <1>2, <2>1, <2>2, <2>3
  <1>13. CASE e.kind = "Vector"
    <2>1. e.elems \in Seq(X)
      BY <1>13, FormFacts
    <2>2. Operands(e) = e.elems /\ Finish(e, at) = <<MakeVec(Len(e.elems))>>
      BY <1>13 DEF Operands, Finish
    <2>3. Combines(MakeVec(Len(e.elems)), Len(e.elems))
      BY OpFacts DEF Combines
    <2> QED
      BY <1>2, <2>1, <2>2, <2>3
  <1>14. CASE e.kind = "Index"
    <2>1. e.obj \in X /\ e.index \in X
      BY <1>14, FormFacts
    <2>2. Operands(e) = <<e.obj, e.index>> /\ Finish(e, at) = <<Plain("Index")>>
      BY <1>14 DEF Operands, Finish
    <2>3. Combines(Plain("Index"), 2)
      BY OpFacts DEF Combines
    <2> QED
      BY <1>1, <1>2, <2>1, <2>2, <2>3
  <1> QED
    BY <1>3, <1>4, <1>5, <1>6, <1>7, <1>8, <1>9, <1>10, <1>11, <1>12, <1>13, <1>14

\* One instruction is all of the code.
LEMMA LeafLeaves ==
  ASSUME NEW n \in Nat, NEW i, i.op \in {"Literal", "LoadVar"}
  PROVE  Leaves(Emit(Start(n), <<i>>), n)
  <1> SUFFICES ASSUME NEW h \in Nat, NEW d \in Nat, NEW floor \in Nat, floor <= d
               PROVE  Flows([since |-> n, start |-> Sh(h, d), open |-> {}, floor |-> floor],
                            Emit(Start(n), <<i>>), Sh(h + 1, d), {})
    BY DEF Leaves
  <1> DEFINE w  == [since |-> n, start |-> Sh(h, d), open |-> {}, floor |-> floor]
             r0 == Start(n)
  <1>1. w.since = n /\ w.start = Sh(h, d)
    OBVIOUS
  <1> HIDE DEF w
  <1>2. Flows(w, r0, Sh(h, d), {})
    BY <1>1, FlowsStartAt
  <1> HIDE DEF r0
  <1>3. Flows(w, Emit(r0, <<i>>), Sh(h + 1, d), {})
    BY <1>2, PushFlow
  <1> QED
    BY <1>3 DEF w, r0

\* Literals, variables, self and the two constants with a name push their value.
LEMMA LeafFacts ==
  ASSUME NEW e, e.kind \in Leafs
  PROVE  LeafOf(e).op \in {"Literal", "LoadVar"}
  <1>1. CASE e.kind = "Literal"
    BY <1>1, OpFacts DEF LeafOf
  <1>2. CASE e.kind = "SelfExpr"
    BY <1>2, OpFacts DEF LeafOf
  <1>3. CASE e.kind = "Ident"
    <2>1. LeafOf(e) = CASE e.name = "PI" -> Lit(PI) [] e.name = "E" -> Lit(E)
                        [] OTHER -> OnVar("LoadVar", e.name)
      BY <1>3 DEF LeafOf
    <2> QED
      BY <2>1, OpFacts
  <1> QED
    BY <1>1, <1>2, <1>3 DEF Leafs

\* A call of a function, or the instruction of a built-in one.
LEMMA CallLeaves ==
  ASSUME NEW X, NEW e \in CallForms(X), NEW low, \A x \in X : IsExpr(low[x]), NEW n \in Nat
  PROVE  Leaves(LowerCall(low, e, n), n)
  <1> DEFINE i == IF e.name \in DOMAIN BuiltinOp THEN Plain(BuiltinOp[e.name])
                  ELSE IF e.name = "range" THEN CallTo("__builtin_range", 2)
                  ELSE CallTo(e.name, Len(e.args))
  <1>1. e.args \in Seq(X)
    BY CallFacts
  <1>2. DOMAIN BuiltinOp = {"print", "sqrt", "sin", "cos", "exp", "log", "rand"}
    BY DEF BuiltinOp
  <1>3. CASE e.name \in Unary
    <2>1. BuiltinOp[e.name] \in {"Print", "Sqrt", "Sin", "Cos", "Exp"} /\ i = Plain(BuiltinOp[e.name])
      BY <1>2, <1>3 DEF BuiltinOp, Unary
    <2>2. Len(e.args) = 1
      BY <1>3, CallFacts
    <2> QED
      BY <2>1, <2>2, ArityFacts, OpFacts, <1>1, OneBehind DEF Combines, LowerCall
  <1>4. CASE e.name = "log"
    <2>1. BuiltinOp[e.name] = "Log" /\ i = Plain(BuiltinOp[e.name])
      BY <1>2, <1>4 DEF BuiltinOp
    <2>2. Len(e.args) = 2
      BY <1>4, CallFacts DEF Binary
    <2> QED
      BY <2>1, <2>2, ArityFacts, OpFacts, <1>1, OneBehind DEF Combines, LowerCall
  <1>5. CASE e.name = "rand"
    <2>1. BuiltinOp[e.name] = "Rand" /\ i = Plain(BuiltinOp[e.name])
      BY <1>2, <1>5 DEF BuiltinOp
    <2>2. Len(e.args) = 0
      BY <1>5, CallFacts
    <2> QED
      BY <2>1, <2>2, OpFacts, <1>1, OneBehind DEF Combines, LowerCall
  <1>6. CASE e.name = "range"
    <2>1. i = CallTo("__builtin_range", 2)
      BY <1>2, <1>6
    <2>2. Len(e.args) = 2
      BY <1>6, CallFacts DEF Binary
    <2>3. Combines(CallTo("__builtin_range", 2), Len(e.args))
      BY <2>2, OpFacts DEF Combines
    <2>4. LowerCall(low, e, n) = Emit(LowerAll(low, e.args, Start(n)), <<CallTo("__builtin_range", 2)>>)
      BY <2>1 DEF LowerCall
    <2> QED
      BY <1>1, <2>3, <2>4, OneBehind
  <1>7. CASE e.name \notin Builtins
    <2>1. i = CallTo(e.name, Len(e.args))
      BY <1>2, <1>7 DEF Builtins, Unary, Binary
    <2> QED
      BY <2>1, OpFacts, <1>1, OneBehind DEF Combines, LowerCall
  <1> QED
    BY <1>3, <1>4, <1>5, <1>6, <1>7 DEF Builtins, Binary

\* Whatever an expression is made of: if its parts leave one value each and close
\* their scopes, so does it.
LEMMA InnerLeaves ==
  ASSUME NEW X, NEW Val, NEW Types, NEW e \in Forms(X, Val, Types),
         NEW low, \A x \in X : IsExpr(low[x]), NEW n \in Nat, NEW at
  PROVE  Leaves(LowerInner(low, e, n, at), n)
  <1> DEFINE Others == {"UnOp", "MethodCall", "Base", "GetField", "Assign", "AssignField",
                        "New", "Is", "As", "Vector", "Index"}
  <1>1. CASE e.kind \in Leafs
    <2>1. LowerInner(low, e, n, at) = Emit(Start(n), <<LeafOf(e)>>)
      BY <1>1 DEF LowerInner, Leafs
    <2> QED
      BY <1>1, <2>1, LeafFacts, LeafLeaves
  <1>2. CASE e.kind = "BinOp" /\ e.op = "And"
    <2>1. LowerInner(low, e, n, at) = LowerAnd(low, e, n)
      BY <1>2 DEF LowerInner
    <2>2. e.lhs \in X /\ e.rhs \in X
      BY <1>2, FormFacts
    <2> QED
      BY <2>1, <2>2, AndLeaves
  <1>3. CASE e.kind = "BinOp" /\ e.op = "Or"
    <2>1. LowerInner(low, e, n, at) = LowerOr(low, e, n)
      BY <1>3 DEF LowerInner
    <2>2. e.lhs \in X /\ e.rhs \in X
      BY <1>3, FormFacts
    <2> QED
      BY <2>1, <2>2, OrLeaves
  <1>4. CASE e.kind = "Let"
    <2>1. LowerInner(low, e, n, at) = LowerLet(low, e, n)
      BY <1>4 DEF LowerInner
    <2>2. e.init \in X /\ e.body \in X
      BY <1>4, FormFacts
    <2> QED
      BY <2>1, <2>2, LetLeaves
  <1>5. CASE e.kind = "Block"
    <2>1. LowerInner(low, e, n, at) = LowerBlock(low, e, n)
      BY <1>5 DEF LowerInner
    <2>2. e.exprs \in Seq(X)
      BY <1>5, FormFacts
    <2>3. IsList(e.exprs) /\ \A k \in 1 .. Len(e.exprs) : IsExpr(low[e.exprs[k]])
      BY <2>2, ListFacts
    <2> QED
      BY <2>1, <2>3, BlockLeaves
  <1>6. CASE e.kind = "If"
    <2>1. LowerInner(low, e, n, at) = LowerIf(low, e, n)
      BY <1>6 DEF LowerInner
    <2>2. e.cond \in X /\ e.then \in X /\ e.else \in X /\ e.elifs \in Seq(X \X X)
      BY <1>6, FormFacts
    <2>3. IsList(e.elifs) /\ \A k \in 1 .. Len(e.elifs) : e.elifs[k] \in X \X X
      BY <2>2, ListFacts
    <2>4. \A k \in 1 .. Len(e.elifs) : e.elifs[k][1] \in X /\ e.elifs[k][2] \in X
      BY <2>3
    <2>5. \A k \in 1 .. Len(e.elifs) : IsExpr(low[e.elifs[k][1]]) /\ IsExpr(low[e.elifs[k][2]])
      BY <2>4
    <2> QED
      BY <2>1, <2>2, <2>3, <2>5, IfLeaves
  <1>7. CASE e.kind = "While"
    <2>1. LowerInner(low, e, n, at) = LowerWhile(low, e, n)
      BY <1>7 DEF LowerInner
    <2>2. e.cond \in X /\ e.body \in X
      BY <1>7, FormFacts
    <2> QED
      BY <2>1, <2>2, WhileLeaves
  <1>8. CASE e.kind = "Call"
    <2>1. LowerInner(low, e, n, at) = LowerCall(low, e, n)
      BY <1>8 DEF LowerInner
    <2>2. e \in CallForms(X)
      BY <1>8, FormFacts
    <2> QED
      BY <2>1, <2>2, CallLeaves
  <1>9. CASE e.kind = "For"
    <2>1. LowerInner(low, e, n, at) = LowerFor(low, e, n)
      BY <1>9 DEF LowerInner
    <2>2. e.iter \in X /\ e.body \in X
      BY <1>9, FormFacts
    <2> QED
      BY <2>1, <2>2, ForLeaves
  <1>10. CASE e.kind = "VectorComp"
    <2>1. LowerInner(low, e, n, at) = LowerComp(low, e, n)
      BY <1>10 DEF LowerInner
    <2>2. e.iter \in X /\ e.elem \in X
      BY <1>10, FormFacts
    <2> QED
      BY <2>1, <2>2, CompLeaves
  <1>11. CASE (e.kind = "BinOp" /\ e.op \notin {"And", "Or"}) \/ e.kind \in Others
    <2>1. LowerInner(low, e, n, at) = Emit(LowerAll(low, Operands(e), Start(n)), Finish(e, at))
      <3>1. CASE e.kind = "BinOp" /\ e.op \notin {"And", "Or"}
        BY <3>1 DEF LowerInner
      <3>2. CASE e.kind \in Others
        BY <3>2 DEF LowerInner
      <3> QED
        BY <1>11, <3>1, <3>2
    <2>2. Leaves(Emit(LowerAll(low, Operands(e), Start(n)), Finish(e, at)), n)
      <3>1. e.kind \in {"BinOp", "UnOp", "MethodCall", "Base", "GetField", "Assign", "AssignField",
                        "New", "Is", "As", "Vector", "Index"}
        BY <1>11
      <3> QED
        BY <3>1, RestLeaves
    <2> QED
      BY <2>1, <2>2
  <1>12. e.kind \in Leafs \union {"BinOp", "UnOp", "Call", "MethodCall", "Base", "GetField", "Let",
                                  "Assign", "AssignField", "If", "While", "For", "Block", "New",
                                  "Is", "As", "Vector", "VectorComp", "Index"}
    BY Zenon, FormFacts
  <1> QED
    BY <1>1, <1>2, <1>3, <1>4, <1>5, <1>6, <1>7, <1>8, <1>9, <1>10, <1>11, <1>12

-----------------------------------------------------------------------------
(* Expressions of any depth. *)

\* What the definitions of Exprs and of Lowered say of the tables they choose.
Grown(n, f) == f = [d \in 0 .. n |-> IF d = 0 THEN {} ELSE Forms(f[d - 1], Value, TypeRef)]

Coded(low, d, at) == [e \in Exprs[d] |-> [n \in Nat |-> LowerInner(low, e, n, at)]]

Nested(at, n, f) == f = [d \in 0 .. n |-> IF d = 0 THEN <<>> ELSE Coded(f[d - 1], d, at)]

\* The table that Exprs is exists,
LEMMA GrownExists ==
  ASSUME NEW n \in Nat
  PROVE  \E f : Grown(n, f)
  <1> DEFINE B == { m \in Nat : ~ \E f : Grown(m, f) }
  <1>1. ASSUME B # {} PROVE FALSE
    <2>1. PICK m \in B : \A j \in B : m <= j
      BY <1>1, NatMin
    <2>2. m \in Nat /\ ~ \E f : Grown(m, f)
      OBVIOUS
    <2>3. CASE m = 0
      <3> DEFINE f == [d \in 0 .. 0 |-> {}]
      <3>1. Grown(0, f)
        BY DEF Grown
      <3> QED
        BY <2>2, <2>3, <3>1
    <2>4. CASE m # 0
      <3>1. m - 1 \in Nat /\ ~ (m <= m - 1)
        BY <2>2, <2>4
      <3>2. PICK f : Grown(m - 1, f)
        BY <2>1, <3>1
      <3> DEFINE last == Forms(f[m - 1], Value, TypeRef)
                 g    == [d \in 0 .. m |-> IF d = m THEN last ELSE f[d]]
      <3>3. ASSUME NEW d \in 0 .. m
            PROVE  g[d] = IF d = 0 THEN {} ELSE Forms(g[d - 1], Value, TypeRef)
        <4>1. CASE d = m
          <5>1. g[d - 1] = f[m - 1] /\ g[d] = last
            BY <2>2, <2>4, <4>1
          <5> QED
            BY <2>4, <4>1, <5>1
        <4>2. CASE d # m
          <5>1. d \in 0 .. m - 1 /\ g[d] = f[d]
            BY <2>2, <4>2
          <5>2. d # 0 => d - 1 \in 0 .. m - 1 /\ g[d - 1] = f[d - 1]
            BY <2>2, <4>2
          <5>3. f[d] = IF d = 0 THEN {} ELSE Forms(f[d - 1], Value, TypeRef)
            BY <3>2, <5>1 DEF Grown
          <5> QED
            BY <5>1, <5>2, <5>3
        <4> QED
          BY <4>1, <4>2
      <3>4. Grown(m, g)
        BY <3>3 DEF Grown
      <3> QED
        BY <2>2, <3>4
    <2> QED
      BY <2>3, <2>4
  <1> QED
    BY <1>1

\* The expressions of no depth are none, those of the next are made of these.
LEMMA ExprsFacts ==
  /\ Exprs[0] = {}
  /\ \A d \in 1 .. Nesting : Exprs[d] = Forms(Exprs[d - 1], Value, TypeRef)
  <1>1. Exprs = CHOOSE f : Grown(Nesting, f)
    BY Zenon DEF Exprs, Grown
  <1>2. Grown(Nesting, Exprs)
    BY <1>1, GrownExists, NestingAssumption, Zenon
  <1>3. Exprs = [d \in 0 .. Nesting |-> IF d = 0 THEN {} ELSE Forms(Exprs[d - 1], Value, TypeRef)]
    BY <1>2 DEF Grown
  <1>4. \A d \in 0 .. Nesting :
          Exprs[d] = IF d = 0 THEN {} ELSE Forms(Exprs[d - 1], Value, TypeRef)
    BY <1>3, Zenon
  <1>5. 0 \in 0 .. Nesting /\ \A d \in 1 .. Nesting : d \in 0 .. Nesting /\ d # 0
    BY NestingAssumption
  <1>6. Exprs[0] = {}
    BY <1>4, <1>5, Zenon
  <1>7. ASSUME NEW d \in 1 .. Nesting
        PROVE  Exprs[d] = Forms(Exprs[d - 1], Value, TypeRef)
    BY <1>4, <1>5, Zenon
  <1> QED
    BY <1>6, <1>7

\* The table of code by depth that Lowered is taken from exists.
LEMMA NestedExists ==
  ASSUME NEW at, NEW n \in Nat
  PROVE  \E f : Nested(at, n, f)
  <1> DEFINE B == { m \in Nat : ~ \E f : Nested(at, m, f) }
  <1>1. ASSUME B # {} PROVE FALSE
    <2>1. PICK m \in B : \A j \in B : m <= j
      BY <1>1, NatMin
    <2>2. m \in Nat /\ ~ \E f : Nested(at, m, f)
      OBVIOUS
    <2>3. CASE m = 0
      <3> DEFINE f == [d \in 0 .. 0 |-> <<>>]
      <3>1. Nested(at, 0, f)
        BY DEF Nested
      <3> QED
        BY <2>2, <2>3, <3>1
    <2>4. CASE m # 0
      <3>1. m - 1 \in Nat /\ ~ (m <= m - 1)
        BY <2>2, <2>4
      <3>2. PICK f : Nested(at, m - 1, f)
        BY <2>1, <3>1
      <3> DEFINE last == Coded(f[m - 1], m, at)
                 g    == [d \in 0 .. m |-> IF d = m THEN last ELSE f[d]]
      <3>3. ASSUME NEW d \in 0 .. m
            PROVE  g[d] = IF d = 0 THEN <<>> ELSE Coded(g[d - 1], d, at)
        <4>1. CASE d = m
          <5>1. g[d - 1] = f[m - 1] /\ g[d] = last
            BY <2>2, <2>4, <4>1
          <5> QED
            BY <2>4, <4>1, <5>1
        <4>2. CASE d # m
          <5>1. d \in 0 .. m - 1 /\ g[d] = f[d]
            BY <2>2, <4>2
          <5>2. d # 0 => d - 1 \in 0 .. m - 1 /\ g[d - 1] = f[d - 1]
            BY <2>2, <4>2
          <5>3. f[d] = IF d = 0 THEN <<>> ELSE Coded(f[d - 1], d, at)
            BY <3>2, <5>1 DEF Nested
          <5> QED
            BY <5>1, <5>2, <5>3
        <4> QED
          BY <4>1, <4>2
      <3>4. Nested(at, m, g)
        BY <3>3 DEF Nested
      <3> QED
        BY <2>2, <3>4
    <2> QED
      BY <2>3, <2>4
  <1> QED
    BY <1>1

\* The code of an expression is made of that of its parts, one level less deep.
LEMMA LoweredFacts ==
  ASSUME NEW at
  PROVE  \E f : /\ Lowered(at) = f[Nesting]
                /\ \A d \in 1 .. Nesting : f[d] = Coded(f[d - 1], d, at)
  <1> DEFINE f == CHOOSE f : Nested(at, Nesting, f)
  <1>1. Lowered(at) = f[Nesting]
    BY Zenon DEF Lowered, Nested, Coded
  <1>2. Nested(at, Nesting, f)
    BY NestedExists, NestingAssumption, Zenon
  <1> HIDE DEF f
  <1>3. f = [d \in 0 .. Nesting |-> IF d = 0 THEN <<>> ELSE Coded(f[d - 1], d, at)]
    BY <1>2 DEF Nested
  <1>4. \A d \in 1 .. Nesting : f[d] = Coded(f[d - 1], d, at)
    BY <1>3, NestingAssumption
  <1> QED
    BY <1>1, <1>4

\* lower_expr: whatever an expression is, however deep, its code leaves one value
\* and closes its scopes, from whatever stack and scopes, and whichever way the
\* code goes.
THEOREM ExpressionsLeaveOneValue ==
  ASSUME NEW at, NEW e \in Exprs[Nesting]
  PROVE  IsExpr(Lowered(at)[e])
  <1>1. PICK f : /\ Lowered(at) = f[Nesting]
                 /\ \A d \in 1 .. Nesting : f[d] = Coded(f[d - 1], d, at)
    BY LoweredFacts
  <1> DEFINE B == { d \in 0 .. Nesting : ~ \A x \in Exprs[d] : IsExpr(f[d][x]) }
  <1>2. ASSUME B # {} PROVE FALSE
    <2>1. B \subseteq Nat
      BY NestingAssumption
    <2>2. PICK d \in B : \A j \in B : d <= j
      BY <1>2, <2>1, NatMin
    <2>3. d \in 0 .. Nesting /\ ~ \A x \in Exprs[d] : IsExpr(f[d][x])
      OBVIOUS
    <2>4. d # 0
      BY <2>3, ExprsFacts
    <2>5. d \in 1 .. Nesting /\ d - 1 \in 0 .. Nesting /\ ~ (d <= d - 1)
      BY <2>3, <2>4, NestingAssumption
    <2>6. \A x \in Exprs[d - 1] : IsExpr(f[d - 1][x])
      BY <2>2, <2>5
    <2>7. Exprs[d] = Forms(Exprs[d - 1], Value, TypeRef)
      BY <2>5, ExprsFacts
    <2>8. PICK x \in Exprs[d] : ~ IsExpr(f[d][x])
      BY <2>3
    <2>9. f[d][x] = [n \in Nat |-> LowerInner(f[d - 1], x, n, at)]
      BY <1>1, <2>5 DEF Coded
    <2> DEFINE low == f[d - 1]
               X   == Exprs[d - 1]
    <2>10. x \in Forms(X, Value, TypeRef) /\ \A y \in X : IsExpr(low[y])
      BY <2>6, <2>7
    <2> HIDE DEF low, X
    <2>11. \A n \in Nat : Leaves(LowerInner(low, x, n, at), n)
      BY <2>10, InnerLeaves
    <2>12. \A n \in Nat : f[d][x][n] = LowerInner(low, x, n, at)
      BY <2>9 DEF low
    <2>13. IsExpr(f[d][x])
      BY <2>11, <2>12 DEF IsExpr
    <2> QED
      BY <2>8, <2>13
  <1>3. Nesting \in 0 .. Nesting
    BY NestingAssumption
  <1> QED
    BY <1>1, <1>2, <1>3

-----------------------------------------------------------------------------
(* From the pieces to the contract of whole functions. *)

\* A label that code puts somewhere it puts somewhere last, which is where jumps go.
LEMMA LastLabel ==
  ASSUME NEW c, IsSequence(c), NEW l, Defines(c, l)
  PROVE  \E j \in 1 .. Len(c) : IsTarget(c, j, l)
  <1> DEFINE n == Len(c)
             J == { m \in 1 .. n : c[m].op = "Label" /\ c[m].label = l }
  <1>1. n \in Nat /\ DOMAIN c = 1 .. n
    BY DEF IsSequence
  <1>2. PICK k \in 1 .. n : c[k] = OnLabel("Label", l)
    BY DEF Defines
  <1> HIDE DEF n
  <1>3. J # {} /\ J \subseteq 1 .. n
    BY <1>2 DEF OnLabel
  <1>4. PICK j \in J : \A m \in J : m <= j
    BY <1>1, <1>3, NatMax
  <1>5. j \in 1 .. n /\ IsTarget(c, j, l)
    BY <1>1, <1>4 DEF IsTarget
  <1> QED
    BY <1>5 DEF n

\* Code that starts with nothing but its own scopes, leaves one value, closes all
\* scopes it opened and puts all its labels keeps the contract, with a Ret behind it.
LEMMA EndedIsDisciplined ==
  ASSUME NEW floor \in Nat, NEW w, w.start = Sh(0, floor), w.open = {}, w.floor = floor,
         NEW r, NEW D, Flows(w, r, Sh(1, floor), D)
  PROVE  \E shape : Disciplined(Emit(r, <<Plain("Ret")>>).code, floor, shape)
  <1> DEFINE c   == r.code
             n   == Len(c)
             ret == Plain("Ret")
             e   == c \o <<ret>>
             end == [height |-> 1, depth |-> floor]
  <1>1. IsSequence(c)
    BY DEF Flows, IsLowering
  <1>2. PICK M : /\ Agree(M)
                 /\ \A p \in M : Defines(c, p[1])
                 /\ Piece(c, w.start, Sh(1, floor), w.open \union M, w.floor)
    BY DEF Flows
  <1>3. Piece(c, Sh(0, floor), end, M, floor)
    <2>1. w.open \union M = M
      OBVIOUS
    <2> QED
      BY <1>2, <2>1 DEF Sh
  <1>4. PICK sh : Shapes(c, Sh(0, floor), end, M, floor, sh)
    BY <1>3 DEF Piece
  <1>5. IsSequence(e) /\ n \in Nat /\ Len(e) = n + 1 /\ (\A k \in 1 .. n : e[k] = c[k]) /\ e[n + 1] = ret
    BY <1>1, OneMoreFacts
  <1>6. DOMAIN e = 1 .. n + 1
    BY <1>5 DEF IsSequence
  <1>7. ret.op = "Ret" /\ Takes(ret) = 0
    BY OpFacts DEF Takes
  <1>8. /\ sh \in [1 .. n + 1 -> Shape] /\ sh[1] = Sh(0, floor) /\ sh[n + 1] = end
        /\ \A k \in 1 .. n : Fits(c[k], sh[k], sh[k + 1], M, floor)
    BY <1>4 DEF Shapes
  <1>9. end \in Shape
    BY DEF Shape
  <1> DEFINE shape == [k \in 1 .. n + 2 |-> IF k = n + 2 THEN end ELSE sh[k]]
  <1>10. Emit(r, <<ret>>).code = e
    BY DEF Emit
  <1> HIDE DEF n, c, e, ret, end
  <1>11. shape \in [1 .. Len(e) + 1 -> Shape]
    <2>1. Len(e) + 1 = n + 2
      BY <1>5
    <2>2. ASSUME NEW k \in 1 .. n + 2 PROVE (IF k = n + 2 THEN end ELSE sh[k]) \in Shape
      <3>1. k # n + 2 => k \in 1 .. n + 1
        BY <1>5
      <3> QED
        BY <1>8, <1>9, <3>1
    <2> QED
      BY <2>1, <2>2
  <1>12. shape[n + 2] = end /\ \A k \in 1 .. n + 1 : shape[k] = sh[k]
    BY <1>5
  <1> HIDE DEF shape
  <1>13. \A k \in 1 .. n : /\ k \in 1 .. n + 1 /\ k + 1 \in 1 .. n + 1
                           /\ Fits(e[k], shape[k], shape[k + 1], M, floor)
    <2> SUFFICES ASSUME NEW k \in 1 .. n
                 PROVE  /\ k \in 1 .. n + 1 /\ k + 1 \in 1 .. n + 1
                        /\ Fits(e[k], shape[k], shape[k + 1], M, floor)
      OBVIOUS
    <2>1. k \in 1 .. n + 1 /\ k + 1 \in 1 .. n + 1
      BY <1>5
    <2> QED
      BY <1>5, <1>8, <1>12, <2>1
  <1>14. \A k \in 1 .. n + 1 : k = n + 1 \/ k \in 1 .. n
    BY <1>5
  <1>15. ASSUME NEW k \in 1 .. n, e[k].op \in {"Jump", "JumpIfFalse"}
         PROVE  \E j \in DOMAIN e : IsTarget(e, j, e[k].label) /\ shape[j] = After(e[k], shape[k])
    <2> DEFINE l == e[k].label
    <2>1. <<l, After(e[k], shape[k])>> \in M
      BY <1>13, <1>15 DEF Fits
    <2>2. Defines(c, l)
      BY <1>2, <2>1
    <2>3. Defines(e, l)
      <3>1. PICK m \in 1 .. Len(c) : c[m] = OnLabel("Label", l)
        BY <2>2 DEF Defines
      <3>2. m \in 1 .. n /\ m \in 1 .. Len(e)
        BY <1>5, <3>1 DEF n
      <3> QED
        BY <1>5, <3>1, <3>2 DEF Defines
    <2>4. PICK j \in 1 .. Len(e) : IsTarget(e, j, l)
      BY <1>5, <2>3, LastLabel
    <2>5. e[j].op = "Label" /\ e[j].label = l
      BY <2>4 DEF IsTarget
    <2>6. j # n + 1
      BY <1>5, <1>7, <2>5
    <2>7. j \in 1 .. n
      BY <1>5, <1>14, <2>6
    <2>8. <<l, shape[j]>> \in M
      BY <1>13, <2>5, <2>7 DEF Fits
    <2>9. shape[j] = After(e[k], shape[k])
      <3> DEFINE p == <<l, shape[j]>>
                 q == <<l, After(e[k], shape[k])>>
      <3>1. p[1] = q[1] /\ p[2] = shape[j] /\ q[2] = After(e[k], shape[k])
        OBVIOUS
      <3> HIDE DEF p, q
      <3>2. p = q
        BY <1>2, <2>1, <2>8, <3>1 DEF Agree, p, q
      <3> QED
        BY <3>1, <3>2
    <2>10. j \in DOMAIN e
      BY <1>5, <1>6, <2>4
    <2> QED
      BY <2>4, <2>9, <2>10
  <1>16. ASSUME NEW k \in DOMAIN e
         PROVE  /\ Takes(e[k]) <= shape[k].height
                /\ e[k].op = "EndScope" => shape[k].depth > floor
                /\ e[k].op = "BindVar" => shape[k].depth > 0
                /\ e[k].op = "Ret" => shape[k] = end
                /\ e[k].op \notin {"Jump", "Ret"} => shape[k + 1] = After(e[k], shape[k])
                /\ e[k].op \in {"Jump", "JumpIfFalse"} =>
                     \E j \in DOMAIN e :
                       IsTarget(e, j, e[k].label) /\ shape[j] = After(e[k], shape[k])
    <2>1. CASE k = n + 1
      <3>1. e[k].op = "Ret" /\ Takes(e[k]) = 0
        BY <1>5, <1>7, <2>1
      <3>2. shape[k] = end /\ shape[k].height = 1
        BY <1>5, <1>8, <1>12, <2>1 DEF end
      <3> QED
        BY <3>1, <3>2
    <2>2. CASE k \in 1 .. n
      <3>1. Fits(e[k], shape[k], shape[k + 1], M, floor)
        BY <1>13, <2>2
      <3> QED
        BY <1>15, <2>2, <3>1 DEF Fits
    <2> QED
      BY <1>6, <1>14, <2>1, <2>2
  <1>17. shape[1] = [height |-> 0, depth |-> floor] /\ shape[Len(e) + 1] = end
    <2>1. 1 \in 1 .. n + 1 /\ Len(e) + 1 = n + 2
      BY <1>5
    <2> QED
      BY <1>8, <1>12, <2>1 DEF Sh
  <1>18. Disciplined(e, floor, shape)
    BY <1>11, <1>16, <1>17 DEF Disciplined, end
  <1> QED
    BY <1>10, <1>18 DEF ret

\* lower_func, lower_method and the entry of lower_program: the code of every
\* expression, with a Ret behind it, keeps the contract, as a function's, which
\* starts in the scope of its parameters, and as a program's, which starts in none.
THEOREM BodiesAreDisciplined ==
  ASSUME NEW e \in Exprs[Nesting], NEW at, NEW floor \in Nat
  PROVE  \E shape : Disciplined(BodyOf(e, at), floor, shape)
  <1> DEFINE r == Lowered(at)[e][0]
             w == [since |-> 0, start |-> Sh(0, floor), open |-> {}, floor |-> floor]
  <1>1. Leaves(r, 0)
    BY ExpressionsLeaveOneValue DEF IsExpr
  <1>2. Flows(w, r, Sh(0 + 1, floor), {})
    BY <1>1 DEF Leaves
  <1>3. Flows(w, r, Sh(1, floor), {})
    BY <1>2
  <1>4. w.start = Sh(0, floor) /\ w.open = {} /\ w.floor = floor
    OBVIOUS
  <1>5. BodyOf(e, at) = Emit(r, <<Plain("Ret")>>).code
    BY DEF BodyOf
  <1> HIDE DEF w, r
  <1> QED
    BY <1>3, <1>4, <1>5, EndedIsDisciplined

-----------------------------------------------------------------------------
(* Constructors. *)

\* Parts that leave the shape as it is.
LEMMA SameFlow ==
  ASSUME NEW w, NEW s, NEW t, NEW D, Flows(w, s, t, D),
         NEW parts, NEW n \in Nat, Len(parts) = n,
         \A k \in 1 .. n : IsPart(parts[k], t, t, w.open, w.floor, {})
  PROVE  Flows(w, InTurn(parts, s), t, D)
  <1> DEFINE T == [k \in 0 .. n |-> t]
             F == [k \in 1 .. n |-> {}]
  <1>1. T[0] = t /\ T[n] = t
    OBVIOUS
  <1>2. \A k \in 1 .. n : IsPart(parts[k], T[k - 1], T[k], w.open, w.floor, F[k])
    <2> SUFFICES ASSUME NEW k \in 1 .. n
                 PROVE  IsPart(parts[k], T[k - 1], T[k], w.open, w.floor, F[k])
      OBVIOUS
    <2>1. T[k - 1] = t /\ T[k] = t /\ F[k] = {}
      OBVIOUS
    <2> HIDE DEF T, F
    <2> QED
      BY <2>1
  <1> HIDE DEF T, F
  <1>3. Flows(w, InTurn(parts, s), T[Len(parts)], D)
    <2>1. Flows(w, s, T[0], D) /\ Len(parts) \in Nat
      BY <1>1
    <2>2. \A k \in 1 .. Len(parts) : IsPart(parts[k], T[k - 1], T[k], w.open, w.floor, F[k])
      BY <1>2
    <2> QED
      BY <2>1, <2>2, InTurnFlow, Zenon
  <1> QED
    BY <1>1, <1>3

\* An attribute: its value goes from the stack to the field.
LEMMA AttrIsPart ==
  ASSUME NEW f, IsExpr(f), NEW h \in Nat, NEW d \in Nat, NEW floor \in Nat, floor <= d, NEW open, NEW x
  PROVE  IsPart(Followed(f, <<OnVar("LoadVar", "__self"), OnField("SetField", x), Plain("Pop")>>),
                Sh(h, d), Sh(h, d), open, floor, {})
  <1> DEFINE i == OnVar("LoadVar", "__self")
             j == OnField("SetField", x)
             k == Plain("Pop")
  <1> SUFFICES ASSUME NEW n \in Nat
               PROVE  Flows([since |-> n, start |-> Sh(h, d), open |-> open, floor |-> floor],
                            Emit(f[n], <<i, j, k>>), Sh(h, d), {})
    BY DEF IsPart, Followed
  <1> DEFINE w  == [since |-> n, start |-> Sh(h, d), open |-> open, floor |-> floor]
             r0 == f[n]
             r1 == Emit(r0, <<i>>)
             r2 == Emit(r1, <<j>>)
             h1 == h + 1
  <1>1. h1 \in Nat /\ h1 + 1 = h + 2 /\ h1 = h + 1
    OBVIOUS
  <1>2. i.op = "LoadVar" /\ Combines(j, 2) /\ k.op = "Pop"
    BY OpFacts DEF Combines
  <1>3. Flows(w, r0, Sh(h1, d), {})
    BY ExprIsPart DEF IsPart
  <1> HIDE DEF w, i, j, k, r0, h1
  <1>4. Flows(w, r1, Sh(h1 + 1, d), {})
    BY <1>1, <1>2, <1>3, PushFlow
  <1>5. Flows(w, r1, Sh(h + 2, d), {})
    BY <1>1, <1>4
  <1> HIDE DEF r1
  <1>6. Flows(w, r2, Sh(h + 1, d), {})
    BY <1>2, <1>5, TakeFlow
  <1> HIDE DEF r2
  <1>7. Flows(w, Emit(r2, <<k>>), Sh(h, d), {})
    BY <1>2, <1>6, DropFlow
  <1>8. Emit(r0, <<i, j, k>>) = Emit(r2, <<k>>)
    BY <1>3, FlowsIsLowering, EmitThree DEF r1, r2
  <1> QED
    BY <1>7, <1>8 DEF w, r0

\* The attributes of a type leave the shape as it is.
LEMMA AttrsFlow ==
  ASSUME NEW w, NEW s, NEW h \in Nat, NEW d \in Nat, NEW D, Flows(w, s, Sh(h, d), D),
         w.floor \in Nat, w.floor <= d, NEW at, NEW attrs, AreAttrs(attrs)
  PROVE  Flows(w, LowerAttrs(Lowered(at), attrs, s), Sh(h, d), D)
  <1> DEFINE n     == Len(attrs)
             low   == Lowered(at)
             parts == [k \in DOMAIN attrs |->
                        Followed(low[attrs[k].init],
                          <<OnVar("LoadVar", "__self"), OnField("SetField", attrs[k].name), Plain("Pop")>>)]
  <1>1. \A k \in 1 .. n : IsExpr(low[attrs[k].init])
    BY ExpressionsLeaveOneValue DEF AreAttrs
  <1> HIDE DEF low
  <1>2. n \in Nat /\ DOMAIN attrs = 1 .. n
    BY DEF AreAttrs, IsList
  <1>3. LowerAttrs(low, attrs, s) = InTurn(parts, s)
    BY DEF LowerAttrs
  <1>4. \A k \in 1 .. n :
          parts[k] = Followed(low[attrs[k].init],
                       <<OnVar("LoadVar", "__self"), OnField("SetField", attrs[k].name), Plain("Pop")>>)
    BY <1>2
  <1>5. parts = [k \in 1 .. n |-> parts[k]]
    BY <1>2
  <1> HIDE DEF parts, n
  <1>6. Len(parts) = n
    BY <1>2, <1>5, TableLen
  <1>7. \A k \in 1 .. n : IsPart(parts[k], Sh(h, d), Sh(h, d), w.open, w.floor, {})
    <2> SUFFICES ASSUME NEW k \in 1 .. n
                 PROVE  IsPart(parts[k], Sh(h, d), Sh(h, d), w.open, w.floor, {})
      OBVIOUS
    <2> DEFINE f == low[attrs[k].init]
               x == attrs[k].name
    <2>1. IsExpr(f)
      BY <1>1
    <2>2. parts[k] = Followed(f, <<OnVar("LoadVar", "__self"), OnField("SetField", x), Plain("Pop")>>)
      BY <1>4
    <2> HIDE DEF f, x
    <2> QED
      BY <2>1, <2>2, AttrIsPart
  <1>8. Flows(w, InTurn(parts, s), Sh(h, d), D)
    BY <1>2, <1>6, <1>7, SameFlow
  <1> QED
    BY <1>3, <1>8 DEF low

\* A parameter of an ancestor gets an argument, or the variable of its name.
LEMMA ParamIsPart ==
  ASSUME NEW h \in Nat, NEW d \in Nat, d > 0, NEW floor \in Nat, floor <= d, NEW open, NEW x
  PROVE  /\ \A f : IsExpr(f) =>
              IsPart(Followed(f, <<OnVar("BindVar", x)>>), Sh(h, d), Sh(h, d), open, floor, {})
         /\ IsPart(Only(<<OnVar("LoadVar", x), OnVar("BindVar", x)>>), Sh(h, d), Sh(h, d), open, floor, {})
  <1> DEFINE i == OnVar("LoadVar", x)
             j == OnVar("BindVar", x)
  <1>1. i.op = "LoadVar" /\ j.op = "BindVar"
    BY OpFacts
  <1>2. ASSUME NEW f, IsExpr(f), NEW n \in Nat
        PROVE  Flows([since |-> n, start |-> Sh(h, d), open |-> open, floor |-> floor],
                     Emit(f[n], <<j>>), Sh(h, d), {})
    <2> DEFINE w == [since |-> n, start |-> Sh(h, d), open |-> open, floor |-> floor]
    <2>1. Flows(w, f[n], Sh(h + 1, d), {})
      BY <1>2, ExprIsPart DEF IsPart
    <2> HIDE DEF w, i, j
    <2>2. Flows(w, Emit(f[n], <<j>>), Sh(h, d), {})
      BY <1>1, <2>1, DropFlow
    <2> QED
      BY <2>2 DEF w
  <1>3. ASSUME NEW n \in Nat
        PROVE  Flows([since |-> n, start |-> Sh(h, d), open |-> open, floor |-> floor],
                     Emit(Start(n), <<i, j>>), Sh(h, d), {})
    <2> DEFINE w  == [since |-> n, start |-> Sh(h, d), open |-> open, floor |-> floor]
               r0 == Start(n)
               r1 == Emit(r0, <<i>>)
    <2>1. w.since = n /\ w.start = Sh(h, d)
      OBVIOUS
    <2> HIDE DEF w, i, j
    <2>2. Flows(w, r0, Sh(h, d), {})
      BY <2>1, ShFacts, FlowsStart
    <2> HIDE DEF r0
    <2>3. Flows(w, r1, Sh(h + 1, d), {})
      BY <1>1, <2>2, PushFlow
    <2> HIDE DEF r1
    <2>4. Flows(w, Emit(r1, <<j>>), Sh(h, d), {})
      BY <1>1, <2>3, DropFlow
    <2>5. Emit(r0, <<i, j>>) = Emit(r1, <<j>>)
      BY <2>2, FlowsIsLowering, EmitTwo DEF r1
    <2> QED
      BY <2>4, <2>5 DEF w, r0
  <1>4. \A f : IsExpr(f) =>
          IsPart(Followed(f, <<j>>), Sh(h, d), Sh(h, d), open, floor, {})
    BY <1>2 DEF IsPart, Followed
  <1>5. IsPart(Only(<<i, j>>), Sh(h, d), Sh(h, d), open, floor, {})
    BY <1>3 DEF IsPart, Only
  <1> QED
    BY <1>4, <1>5

\* The parameters of an ancestor are bound in its scope and leave the stack as it is.
LEMMA ParamsFlow ==
  ASSUME NEW w, NEW s, NEW h \in Nat, NEW d \in Nat, d > 0, NEW D, Flows(w, s, Sh(h, d), D),
         w.floor \in Nat, w.floor <= d, NEW at, NEW child, IsTypeDecl(child), NEW up, IsTypeDecl(up)
  PROVE  Flows(w, BindParams(Lowered(at), child, up, s), Sh(h, d), D)
  <1> DEFINE low    == Lowered(at)
             params == up.params
             args   == child.parent.args
             n      == IF Len(params) < Len(args) THEN Len(params) ELSE Len(args)
             given  == [k \in 1 .. n |-> Followed(low[args[k]], <<OnVar("BindVar", params[k])>>)]
             same   == [k \in 1 .. Len(params) |->
                         Only(<<OnVar("LoadVar", params[k]), OnVar("BindVar", params[k])>>)]
  <1>1. BindParams(low, child, up, s) = IF child.parent.explicit THEN InTurn(given, s) ELSE InTurn(same, s)
    BY DEF BindParams
  <1>2. Len(params) \in Nat /\ Len(args) \in Nat
    BY DEF IsTypeDecl, IsList
  <1>3. \A k \in 1 .. Len(args) : IsExpr(low[args[k]])
    BY ExpressionsLeaveOneValue DEF IsTypeDecl
  <1> HIDE DEF low, params, args
  <1>4. n \in Nat /\ \A k \in 1 .. n : k \in 1 .. Len(args)
    BY <1>2
  <1> HIDE DEF n
  <1>5. Flows(w, InTurn(given, s), Sh(h, d), D)
    <2>1. \A k \in 1 .. n : IsPart(given[k], Sh(h, d), Sh(h, d), w.open, w.floor, {})
      <3> SUFFICES ASSUME NEW k \in 1 .. n
                   PROVE  IsPart(given[k], Sh(h, d), Sh(h, d), w.open, w.floor, {})
        OBVIOUS
      <3> DEFINE f == low[args[k]]
                 x == params[k]
      <3>1. IsExpr(f) /\ given[k] = Followed(f, <<OnVar("BindVar", x)>>)
        BY <1>3, <1>4
      <3> HIDE DEF f, x, given
      <3> QED
        BY <3>1, ParamIsPart
    <2>2. given = [k \in 1 .. n |-> given[k]]
      OBVIOUS
    <2> HIDE DEF given
    <2>3. Len(given) = n
      BY <1>4, <2>2, TableLen
    <2> QED
      BY <1>4, <2>1, <2>3, SameFlow
  <1>6. Flows(w, InTurn(same, s), Sh(h, d), D)
    <2> DEFINE m == Len(params)
    <2>1. \A k \in 1 .. m : IsPart(same[k], Sh(h, d), Sh(h, d), w.open, w.floor, {})
      <3> SUFFICES ASSUME NEW k \in 1 .. m
                   PROVE  IsPart(same[k], Sh(h, d), Sh(h, d), w.open, w.floor, {})
        OBVIOUS
      <3> DEFINE x == params[k]
      <3>1. same[k] = Only(<<OnVar("LoadVar", x), OnVar("BindVar", x)>>)
        OBVIOUS
      <3> HIDE DEF x, same
      <3> QED
        BY <3>1, ParamIsPart
    <2>2. same = [k \in 1 .. m |-> same[k]]
      OBVIOUS
    <2>3. m \in Nat
      BY <1>2
    <2> HIDE DEF same, m
    <2>4. Len(same) = m
      BY <2>2, <2>3, TableLen
    <2> QED
      BY <2>1, <2>3, <2>4, SameFlow
  <1> HIDE DEF given, same
  <1> QED
    BY <1>1, <1>5, <1>6 DEF low

\* One link up the ancestry leaves its scope open.
LEMMA LinkFlow ==
  ASSUME NEW w, NEW s, NEW h \in Nat, NEW d \in Nat, NEW D, Flows(w, s, Sh(h, d), D),
         w.floor \in Nat, w.floor <= d, NEW at, NEW child, IsTypeDecl(child), NEW up, IsTypeDecl(up)
  PROVE  Flows(w, LowerLink(Lowered(at), child, up, s), Sh(h, d + 1), D)
  <1> DEFINE low == Lowered(at)
             d1  == d + 1
             r1  == Emit(s, <<Plain("BeginScope")>>)
             r2  == BindParams(low, child, up, r1)
  <1>1. d1 \in Nat /\ d1 > 0 /\ w.floor <= d1
    OBVIOUS
  <1>3. Flows(w, r1, Sh(h, d1), D)
    BY OpFacts, OpenFlow
  <1> HIDE DEF d1, r1
  <1>4. Flows(w, r2, Sh(h, d1), D)
    BY <1>1, <1>3, ParamsFlow
  <1> HIDE DEF r2
  <1>5. AreAttrs(up.attrs)
    BY DEF IsTypeDecl
  <1>6. Flows(w, LowerAttrs(low, up.attrs, r2), Sh(h, d1), D)
    BY <1>1, <1>4, <1>5, AttrsFlow
  <1>7. LowerLink(low, child, up, s) = LowerAttrs(low, up.attrs, r2)
    BY DEF LowerLink, r1, r2
  <1> QED
    BY <1>6, <1>7 DEF d1

\* As many scopes are closed as were opened.
LEMMA ClosePiece ==
  ASSUME NEW n \in Nat, NEW h \in Nat, NEW d \in Nat, NEW L, NEW floor \in Nat, floor <= d
  PROVE  Piece([k \in 1 .. n |-> Plain("EndScope")], Sh(h, d + n), Sh(h, d), L, floor)
  <1> DEFINE c  == [k \in 1 .. n |-> Plain("EndScope")]
             sh == [k \in 1 .. n + 1 |-> Sh(h, d + n + 1 - k)]
             i  == Plain("EndScope")
  <1>1. c = [k \in 1 .. n |-> c[k]] /\ \A k \in 1 .. n : c[k] = i
    OBVIOUS
  <1> HIDE DEF c
  <1>2. Len(c) = n /\ IsSequence(c)
    BY <1>1, TableLen
  <1>3. \A k \in 1 .. n + 1 : d + n + 1 - k \in Nat /\ d <= d + n + 1 - k
    OBVIOUS
  <1>4. sh \in [1 .. n + 1 -> Shape]
    BY <1>3, ShFacts
  <1>5. sh[1] = Sh(h, d + n) /\ sh[n + 1] = Sh(h, d)
    <2>1. 1 \in 1 .. n + 1 /\ n + 1 \in 1 .. n + 1 /\ d + n + 1 - 1 = d + n /\ d + n + 1 - (n + 1) = d
      OBVIOUS
    <2> QED
      BY <2>1
  <1>6. i.op = "EndScope" /\ Takes(i) = 0 /\ Gives(i) = 0 /\ Opens(i) = -1
    BY OpFacts DEF Takes, Gives, Opens
  <1> HIDE DEF i
  <1>7. ASSUME NEW k \in 1 .. n PROVE Fits(c[k], sh[k], sh[k + 1], L, floor)
    <2> DEFINE a == d + n - k
    <2>1. k \in 1 .. n + 1 /\ k + 1 \in 1 .. n + 1 /\ a \in Nat /\ d <= a
          /\ d + n + 1 - k = a + 1 /\ d + n + 1 - (k + 1) = a
      OBVIOUS
    <2>2. sh[k] = Sh(h, a + 1) /\ sh[k + 1] = Sh(h, a)
      BY <2>1
    <2> HIDE DEF sh, a
    <2>3. After(i, Sh(h, a + 1)) = Sh(h, a)
      BY <1>6, <2>1 DEF After, Sh
    <2>4. Fits(i, Sh(h, a + 1), Sh(h, a), L, floor)
      BY <1>6, <2>1, <2>3, ShFacts DEF Fits
    <2> QED
      BY <1>1, <2>2, <2>4
  <1> HIDE DEF sh
  <1>8. Shapes(c, Sh(h, d + n), Sh(h, d), L, floor, sh)
    BY <1>2, <1>4, <1>5, <1>7 DEF Shapes
  <1>9. Piece(c, Sh(h, d + n), Sh(h, d), L, floor)
    BY <1>2, <1>8 DEF Piece
  <1> QED
    BY <1>9 DEF c

\* A lowering with a piece behind it that has no labels.
LEMMA PieceFlow ==
  ASSUME NEW w, NEW r, NEW t, NEW D, Flows(w, r, t, D), w.open = {},
         NEW c, NEW u \in Shape, Piece(c, t, u, {}, w.floor)
  PROVE  Flows(w, Emit(r, c), u, D)
  <1> DEFINE v == [since |-> r.counter, start |-> t, open |-> {}, floor |-> w.floor]
             q == [code |-> c, counter |-> r.counter]
             F == {}
  <1>1. r.counter \in Nat
    BY DEF Flows, IsLowering
  <1>2. IsLowering(q)
    BY <1>1 DEF IsLowering, Piece
  <1>3. Agree({})
    BY DEF Agree
  <1>4. {} \union {} = {}
    OBVIOUS
  <1>5. Flows(v, q, u, F)
    BY <1>1, <1>2, <1>3, <1>4 DEF Flows
  <1>6. v.since = r.counter /\ v.start = t /\ v.open \subseteq w.open /\ v.floor = w.floor
    OBVIOUS
  <1>7. Emit(r, c) = [code |-> r.code \o q.code, counter |-> q.counter]
    BY DEF Emit
  <1> HIDE DEF v, q, F
  <1>8. Flows(w, Emit(r, c), u, D \union F)
    <2>1. Flows(w, [code |-> r.code \o q.code, counter |-> q.counter], u, D \union F)
      BY <1>5, <1>6, FlowsThen
    <2> QED
      BY <1>7, <2>1, Zenon
  <1>9. D \union F = D
    BY DEF F
  <1> QED
    BY <1>8, <1>9

\* The ancestry of a type, as Ancestry climbs it.
Up(chain, types) ==
  LET up == chain[Len(chain)].parent.name
  IN  IF Declared(up, types) THEN Append(chain, DeclOf(up, types)) ELSE chain

Climb(type, types, n, f) == f = [k \in 0 .. n |-> IF k = 0 THEN <<type>> ELSE Up(f[k - 1], types)]

\* The chains that Ancestry is taken from exist.
LEMMA ClimbExists ==
  ASSUME NEW type, NEW types, NEW n \in Nat
  PROVE  \E f : Climb(type, types, n, f)
  <1> DEFINE B == { m \in Nat : ~ \E f : Climb(type, types, m, f) }
  <1>1. ASSUME B # {} PROVE FALSE
    <2>1. PICK m \in B : \A j \in B : m <= j
      BY <1>1, NatMin
    <2>2. m \in Nat /\ ~ \E f : Climb(type, types, m, f)
      OBVIOUS
    <2>3. CASE m = 0
      <3> DEFINE f == [k \in 0 .. 0 |-> <<type>>]
      <3>1. Climb(type, types, 0, f)
        BY DEF Climb
      <3> QED
        BY <2>2, <2>3, <3>1
    <2>4. CASE m # 0
      <3>1. m - 1 \in Nat /\ ~ (m <= m - 1)
        BY <2>2, <2>4
      <3>2. PICK f : Climb(type, types, m - 1, f)
        BY <2>1, <3>1
      <3> DEFINE last == Up(f[m - 1], types)
                 g    == [k \in 0 .. m |-> IF k = m THEN last ELSE f[k]]
      <3>3. ASSUME NEW k \in 0 .. m
            PROVE  g[k] = IF k = 0 THEN <<type>> ELSE Up(g[k - 1], types)
        <4>1. CASE k = m
          <5>1. g[k - 1] = f[m - 1] /\ g[k] = last
            BY <2>2, <2>4, <4>1
          <5> QED
            BY <2>4, <4>1, <5>1
        <4>2. CASE k # m
          <5>1. k \in 0 .. m - 1 /\ g[k] = f[k]
            BY <2>2, <4>2
          <5>2. k # 0 => k - 1 \in 0 .. m - 1 /\ g[k - 1] = f[k - 1]
            BY <2>2, <4>2
          <5>3. f[k] = IF k = 0 THEN <<type>> ELSE Up(f[k - 1], types)
            BY <3>2, <5>1 DEF Climb
          <5> QED
            BY <5>1, <5>2, <5>3
        <4> QED
          BY <4>1, <4>2
      <3>4. Climb(type, types, m, g)
        BY <3>3 DEF Climb
      <3> QED
        BY <2>2, <3>4
    <2> QED
      BY <2>3, <2>4
  <1> QED
    BY <1>1

\* A type and the types above it.
IsChain(c) ==
  IsSequence(c) /\ Len(c) \in Nat /\ 1 <= Len(c) /\ \A k \in 1 .. Len(c) : IsTypeDecl(c[k])

\* One step up stays among the declared types.
LEMMA UpIsChain ==
  ASSUME NEW types, AreTypes(types), NEW c, IsChain(c)
  PROVE  IsChain(Up(c, types))
  <1> DEFINE up == c[Len(c)].parent.name
             t  == DeclOf(up, types)
  <1>1. CASE ~ Declared(up, types)
    BY <1>1 DEF Up
  <1>2. CASE Declared(up, types)
    <2>1. Up(c, types) = Append(c, t)
      BY <1>2 DEF Up
    <2>2. IsTypeDecl(t)
      <3> DEFINE k == CHOOSE k \in DOMAIN types : types[k].name = up
      <3>1. k \in DOMAIN types /\ t = types[k]
        BY <1>2 DEF Declared, DeclOf
      <3> QED
        BY <3>1 DEF AreTypes, IsList
    <2> HIDE DEF up, t
    <2>3. PICK S : c \in Seq(S)
      BY DEF IsChain, IsSequence
    <2>4. c \in Seq(S \union {t})
      BY <2>3
    <2>5. /\ Append(c, t) \in Seq(S \union {t}) /\ Len(Append(c, t)) = Len(c) + 1
          /\ \A k \in 1 .. Len(c) : Append(c, t)[k] = c[k]
          /\ Append(c, t)[Len(c) + 1] = t
      BY <2>4
    <2>6. ASSUME NEW k \in 1 .. Len(c) + 1 PROVE IsTypeDecl(Append(c, t)[k])
      <3>1. k = Len(c) + 1 \/ k \in 1 .. Len(c)
        BY DEF IsChain
      <3> QED
        BY <2>2, <2>5, <3>1 DEF IsChain
    <2>7. Len(c) + 1 \in Nat /\ 1 <= Len(c) + 1
      BY DEF IsChain
    <2> QED
      BY <2>1, <2>5, <2>6, <2>7 DEF IsChain, IsSequence
  <1> QED
    BY <1>1, <1>2

\* Everything in the ancestry of a type is a declared type.
LEMMA AncestryIsChain ==
  ASSUME NEW types, AreTypes(types), NEW type, IsTypeDecl(type)
  PROVE  IsChain(Ancestry(type, types))
  <1> DEFINE n == Len(types)
             f == CHOOSE f : Climb(type, types, n, f)
  <1>1. Ancestry(type, types) = f[n]
    BY Zenon DEF Ancestry, Climb, Up
  <1>2. n \in Nat
    BY DEF AreTypes, IsList
  <1> HIDE DEF n
  <1>3. Climb(type, types, n, f)
    BY <1>2, ClimbExists, Zenon
  <1> HIDE DEF f
  <1>4. \A k \in 0 .. n : f[k] = IF k = 0 THEN <<type>> ELSE Up(f[k - 1], types)
    BY <1>3, Zenon DEF Climb
  <1>5. IsChain(<<type>>)
    <2>1. \A k \in 1 .. 1 : k = 1
      OBVIOUS
    <2> QED
      BY <2>1, OneFacts DEF IsChain
  <1> DEFINE B == { k \in 0 .. n : ~ IsChain(f[k]) }
  <1>6. ASSUME B # {} PROVE FALSE
    <2>1. B \subseteq Nat
      BY <1>2
    <2>2. PICK k \in B : \A j \in B : k <= j
      BY <1>6, <2>1, NatMin
    <2>3. k \in 0 .. n /\ ~ IsChain(f[k])
      OBVIOUS
    <2>4. f[k] = IF k = 0 THEN <<type>> ELSE Up(f[k - 1], types)
      BY <1>4, <2>3, Zenon
    <2>5. k # 0
      BY <1>5, <2>3, <2>4
    <2>6. k - 1 \in 0 .. n /\ ~ (k <= k - 1)
      BY <1>2, <2>3, <2>5
    <2>7. IsChain(f[k - 1])
      BY <2>2, <2>6
    <2>8. IsChain(Up(f[k - 1], types))
      BY <2>7, UpIsChain
    <2> QED
      BY <2>3, <2>4, <2>5, <2>8
  <1>7. n \in 0 .. n
    BY <1>2
  <1> QED
    BY <1>1, <1>6, <1>7

\* The links of a chain, each one scope further in.
LEMMA LinksFlow ==
  ASSUME NEW w, NEW s, NEW D, Flows(w, s, Sh(0, 2), D), w.floor = 1,
         NEW at, NEW c, IsChain(c)
  PROVE  Flows(w, InTurn([k \in 1 .. Len(c) - 1 |-> [n \in Nat |->
                            LowerLink(Lowered(at), c[k], c[k + 1], Start(n))]], s),
               Sh(0, Len(c) + 1), D)
  <1> DEFINE low   == Lowered(at)
             m     == Len(c) - 1
             parts == [k \in 1 .. m |-> [n \in Nat |-> LowerLink(low, c[k], c[k + 1], Start(n))]]
             T     == [k \in 0 .. m |-> Sh(0, k + 2)]
             F     == [k \in 1 .. m |-> {}]
  <1>1. m \in Nat /\ m + 2 = Len(c) + 1 /\ \A k \in 1 .. m : k \in 1 .. Len(c) /\ k + 1 \in 1 .. Len(c)
    BY DEF IsChain
  <1>2. \A k \in 1 .. m : IsTypeDecl(c[k]) /\ IsTypeDecl(c[k + 1])
    BY <1>1 DEF IsChain
  <1> HIDE DEF m
  <1>3. T[0] = Sh(0, 2) /\ T[m] = Sh(0, m + 2)
    <2>1. 0 \in 0 .. m /\ m \in 0 .. m /\ 0 + 2 = 2
      BY <1>1
    <2> QED
      BY <2>1
  <1>4. \A k \in 1 .. m : IsPart(parts[k], T[k - 1], T[k], w.open, w.floor, F[k])
    <2> SUFFICES ASSUME NEW k \in 1 .. m
                 PROVE  IsPart(parts[k], T[k - 1], T[k], w.open, w.floor, F[k])
      OBVIOUS
    <2> DEFINE d == k + 1
    <2>1. d \in Nat /\ 1 <= d /\ k - 1 \in 0 .. m /\ k \in 0 .. m /\ (k - 1) + 2 = d /\ k + 2 = d + 1
      BY <1>1
    <2>2. T[k - 1] = Sh(0, d) /\ T[k] = Sh(0, d + 1) /\ F[k] = {}
      BY <2>1
    <2>3. IsTypeDecl(c[k]) /\ IsTypeDecl(c[k + 1])
      BY <1>2
    <2>4. ASSUME NEW n \in Nat
          PROVE  Flows([since |-> n, start |-> Sh(0, d), open |-> w.open, floor |-> 1],
                       LowerLink(low, c[k], c[k + 1], Start(n)), Sh(0, d + 1), {})
      <3> DEFINE v     == [since |-> n, start |-> Sh(0, d), open |-> w.open, floor |-> 1]
                 child == c[k]
                 up    == c[k + 1]
      <3>1. v.since = n /\ v.start = Sh(0, d) /\ v.floor = 1
        OBVIOUS
      <3> HIDE DEF v, d
      <3>2. Flows(v, Start(n), Sh(0, d), {})
        BY <2>1, <3>1, ShFacts, FlowsStart
      <3>3. v.floor \in Nat /\ v.floor <= d
        BY <2>1, <3>1
      <3>4. IsTypeDecl(child) /\ IsTypeDecl(up)
        BY <2>3
      <3> HIDE DEF child, up
      <3>5. Flows(v, LowerLink(Lowered(at), child, up, Start(n)), Sh(0, d + 1), {})
        BY <2>1, <3>2, <3>3, <3>4, LinkFlow
      <3> QED
        BY <3>5 DEF v, child, up
    <2>5. parts[k] = [n \in Nat |-> LowerLink(low, c[k], c[k + 1], Start(n))]
      OBVIOUS
    <2> HIDE DEF d, T, F, parts, low
    <2>6. IsPart(parts[k], Sh(0, d), Sh(0, d + 1), w.open, 1, {})
      BY <2>4, <2>5 DEF IsPart
    <2> QED
      BY <2>2, <2>6
  <1>5. parts = [k \in 1 .. m |-> parts[k]]
    OBVIOUS
  <1>6. InTurn([k \in 1 .. Len(c) - 1 |-> [n \in Nat |->
                  LowerLink(Lowered(at), c[k], c[k + 1], Start(n))]], s) = InTurn(parts, s)
    BY DEF m
  <1> HIDE DEF T, F, parts, low
  <1>7. Len(parts) = m
    BY <1>1, <1>5, TableLen
  <1>8. Flows(w, InTurn(parts, s), T[Len(parts)], D)
    <2>1. Flows(w, s, T[0], D) /\ Len(parts) \in Nat
      BY <1>1, <1>3, <1>7
    <2>2. \A k \in 1 .. Len(parts) : IsPart(parts[k], T[k - 1], T[k], w.open, w.floor, F[k])
      BY <1>4, <1>7
    <2> QED
      BY <2>1, <2>2, InTurnFlow, Zenon
  <1> QED
    BY <1>1, <1>3, <1>6, <1>7, <1>8

\* A function of the table keeps the contract.
IsKept(f) == \E shape : Disciplined(f.body, 1, shape)

\* lower_constructor: the object that is created stays in a variable, the scopes of
\* the whole ancestry are open at the end, all are closed, and the object is left.
THEOREM ConstructorsAreDisciplined ==
  ASSUME NEW types, AreTypes(types), NEW type, IsTypeDecl(type)
  PROVE  IsKept(LowerConstructor(type, types))
  <1> DEFINE low   == Lowered(NoMethod)
             c     == Ancestry(type, types)
             i1    == OnType("NewObject", type.name)
             i2    == Plain("BeginScope")
             i3    == OnVar("BindVar", "__self")
             i4    == OnVar("LoadVar", "__self")
             w     == [since |-> 0, start |-> Sh(0, 1), open |-> {}, floor |-> 1]
             r0    == Start(0)
             r1    == Emit(r0, <<i1>>)
             r2    == Emit(r1, <<i2>>)
             r3    == Emit(r0, <<i1, i2, i3>>)
             r4    == LowerAttrs(low, type.attrs, r3)
             r5    == InTurn([k \in 1 .. Len(c) - 1 |-> [n \in Nat |->
                               LowerLink(low, c[k], c[k + 1], Start(n))]], r4)
             r6    == Emit(r5, <<i4>>)
             close == [k \in 1 .. Len(c) |-> Plain("EndScope")]
             r7    == Emit(r6, close)
             m     == Len(c)
  <1>1. LowerConstructor(type, types).body = Emit(r7, <<Plain("Ret")>>).code
    BY DEF LowerConstructor, IrFunc
  <1>2. w.since = 0 /\ w.start = Sh(0, 1) /\ w.open = {} /\ w.floor = 1
    OBVIOUS
  <1>3. i1.op = "NewObject" /\ i2.op = "BeginScope" /\ i3.op = "BindVar" /\ i4.op = "LoadVar"
    BY OpFacts
  <1>4. IsChain(c)
    BY AncestryIsChain
  <1>5. m \in Nat
    BY <1>4 DEF IsChain
  <1> HIDE DEF w, i1, i2, i3, i4
  <1>6. Flows(w, r0, Sh(0, 1), {})
    BY <1>2, ShFacts, FlowsStart
  <1>7. Flows(w, r1, Sh(1, 1), {})
    <2>1. Flows(w, r1, Sh(0 + 1, 1), {})
      BY <1>3, <1>6, PushFlow
    <2> QED
      BY <2>1
  <1>8. Flows(w, r2, Sh(1, 2), {})
    <2> HIDE DEF r1
    <2>1. Flows(w, r2, Sh(1, 1 + 1), {})
      BY <1>3, <1>7, OpenFlow
    <2> QED
      BY <2>1
  <1>9. Flows(w, r3, Sh(0, 2), {})
    <2>1. r3 = Emit(r2, <<i3>>)
      <3> HIDE DEF r0
      <3> QED
        BY <1>6, FlowsIsLowering, EmitThree
    <2> HIDE DEF r2, r3
    <2>2. Flows(w, r2, Sh(0 + 1, 2), {})
      BY <1>8
    <2>3. Flows(w, Emit(r2, <<i3>>), Sh(0, 2), {})
      BY <1>3, <2>2, DropFlow
    <2> QED
      BY <2>1, <2>3
  <1> HIDE DEF r3
  <1>10. Flows(w, r4, Sh(0, 2), {})
    <2>1. AreAttrs(type.attrs) /\ w.floor \in Nat /\ w.floor <= 2
      BY <1>2 DEF IsTypeDecl
    <2> QED
      BY <1>9, <2>1, AttrsFlow
  <1> HIDE DEF r4, c
  <1>11. Flows(w, r5, Sh(0, m + 1), {})
    BY <1>2, <1>4, <1>10, LinksFlow
  <1> HIDE DEF r5
  <1>12. Flows(w, r6, Sh(1, 1 + m), {})
    <2> DEFINE d == m + 1
    <2>1. d \in Nat /\ d = 1 + m
      BY <1>5
    <2>2. Flows(w, r5, Sh(0, d), {})
      BY <1>11
    <2> HIDE DEF d, m
    <2>3. Flows(w, r6, Sh(0 + 1, d), {})
      BY <1>3, <2>1, <2>2, PushFlow
    <2> QED
      BY <2>1, <2>3
  <1> HIDE DEF r6
  <1>13. Flows(w, r7, Sh(1, 1), {})
    <2> DEFINE ends == [k \in 1 .. m |-> Plain("EndScope")]
    <2>1. r7 = Emit(r6, ends)
      OBVIOUS
    <2> HIDE DEF m, r7
    <2>2. Piece(ends, Sh(1, 1 + m), Sh(1, 1), {}, w.floor)
      BY <1>2, <1>5, ClosePiece
    <2> HIDE DEF ends
    <2>3. Flows(w, Emit(r6, ends), Sh(1, 1), {})
      BY <1>2, <1>12, <2>2, ShFacts, PieceFlow
    <2> QED
      BY <2>1, <2>3
  <1> HIDE DEF r7
  <1>14. \E shape : Disciplined(Emit(r7, <<Plain("Ret")>>).code, 1, shape)
    BY <1>2, <1>13, EndedIsDisciplined
  <1> QED
    BY <1>1, <1>14 DEF IsKept

-----------------------------------------------------------------------------
(* The built-in functions, written by hand. *)

\* A piece with a Ret behind it.
LEMMA PieceIsKept ==
  ASSUME NEW c, NEW n, NEW params, Piece(c, Sh(0, 1), Sh(1, 1), {}, 1)
  PROVE  IsKept(IrFunc(n, params, c \o <<Plain("Ret")>>))
  <1> DEFINE w  == [since |-> 0, start |-> Sh(0, 1), open |-> {}, floor |-> 1]
             r0 == Start(0)
             r1 == Emit(r0, c)
             e  == Emit(r1, <<Plain("Ret")>>)
  <1>1. w.since = 0 /\ w.start = Sh(0, 1) /\ w.open = {} /\ w.floor = 1
    OBVIOUS
  <1>2. IsSequence(c)
    BY DEF Piece
  <1>3. e.code = c \o <<Plain("Ret")>>
    <2>1. r1.code = <<>> \o c
      BY DEF Emit, Start
    <2>2. r1.code = c
      BY <1>2, <2>1, EmptyJoin
    <2> QED
      BY <2>2 DEF Emit
  <1> HIDE DEF w
  <1>4. Flows(w, r0, Sh(0, 1), {})
    BY <1>1, FlowsStartAt
  <1> HIDE DEF r0
  <1>5. Flows(w, r1, Sh(1, 1), {})
    BY <1>1, <1>4, ShFacts, PieceFlow
  <1> HIDE DEF r1
  <1>6. \E shape : Disciplined(e.code, 1, shape)
    BY <1>1, <1>5, EndedIsDisciplined
  <1>7. IrFunc(n, params, c \o <<Plain("Ret")>>).body = c \o <<Plain("Ret")>>
    BY DEF IrFunc
  <1> QED
    BY <1>3, <1>6, <1>7 DEF IsKept

\* The pieces that they are made of.
IsPush(i) == i.op \in {"Literal", "LoadVar", "NewObject"}

\* Instructions as pieces of their own.
LEMMA OnePiece ==
  ASSUME NEW h \in Nat, NEW d \in Nat, NEW L, NEW floor
  PROVE  /\ \A i : IsPush(i) => Piece(<<i>>, Sh(h, d), Sh(h + 1, d), L, floor)
         /\ \A i : Combines(i, 2) => Piece(<<i>>, Sh(h + 2, d), Sh(h + 1, d), L, floor)
         /\ \A i : Combines(i, 1) => Piece(<<i>>, Sh(h + 1, d), Sh(h + 1, d), L, floor)
         /\ Piece(<<Plain("Pop")>>, Sh(h + 1, d), Sh(h, d), L, floor)
  <1>1. Sh(h, d) \in Shape /\ Sh(h + 1, d) \in Shape /\ Sh(h + 2, d) \in Shape
    BY ShFacts
  <1>2. ASSUME NEW i, IsPush(i)
        PROVE  Piece(<<i>>, Sh(h, d), Sh(h + 1, d), L, floor)
    <2>1. Takes(i) = 0 /\ Gives(i) = 1 /\ Opens(i) = 0
      BY <1>2, EffectFacts DEF IsPush
    <2>2. Fits(i, Sh(h, d), Sh(h + 1, d), L, floor)
      BY <1>2, <2>1 DEF Fits, After, Sh, IsPush
    <2> QED
      BY <1>1, <2>2, PieceOne
  <1>3. ASSUME NEW i, NEW k \in {1, 2}, Combines(i, k)
        PROVE  Piece(<<i>>, Sh(h + k, d), Sh(h + 1, d), L, floor)
    <2>1. /\ Takes(i) = k /\ Gives(i) = 1 /\ Opens(i) = 0
          /\ i.op \notin {"Ret", "Jump", "JumpIfFalse", "Label", "EndScope", "BindVar"}
      <3>1. CASE i.op \in PureOps
        BY <1>3, <3>1, PureEffect, EffectFacts
           DEF Combines, PureOps, NumOps, NumFuncs, NumTests, BoolOps, AnyTests, Joins
      <3>2. CASE i.op \notin PureOps
        BY <1>3, <3>2, EffectFacts DEF Combines
      <3> QED
        BY <3>1, <3>2
    <2>2. Fits(i, Sh(h + k, d), Sh(h + 1, d), L, floor)
      BY <2>1 DEF Fits, After, Sh
    <2> QED
      BY <1>1, <2>2, PieceOne
  <1>4. Piece(<<Plain("Pop")>>, Sh(h + 1, d), Sh(h, d), L, floor)
    <2> DEFINE i == Plain("Pop")
    <2>1. i.op = "Pop"
      BY OpFacts
    <2> HIDE DEF i
    <2>2. Takes(i) = 1 /\ Gives(i) = 0 /\ Opens(i) = 0
      BY <2>1, EffectFacts
    <2>3. Fits(i, Sh(h + 1, d), Sh(h, d), L, floor)
      BY <2>1, <2>2 DEF Fits, After, Sh
    <2> QED
      BY <1>1, <2>3, PieceOne DEF i
  <1> QED
    BY <1>2, <1>3, <1>4

\* A function of two pieces and the Ret behind them.
LEMMA JoinedIsKept ==
  ASSUME NEW c, NEW g, NEW t, Piece(c, Sh(0, 1), t, {}, 1), Piece(g, t, Sh(1, 1), {}, 1),
         NEW n, NEW params
  PROVE  IsKept(IrFunc(n, params, c \o (g \o <<Plain("Ret")>>)))
  <1>1. Piece(c \o g, Sh(0, 1), Sh(1, 1), {}, 1)
    BY PieceJoin
  <1>2. IsSequence(c) /\ IsSequence(g) /\ IsSequence(<<Plain("Ret")>>)
    BY OneFacts DEF Piece
  <1>3. c \o (g \o <<Plain("Ret")>>) = (c \o g) \o <<Plain("Ret")>>
    BY <1>2, JoinAssociates
  <1> QED
    BY <1>1, <1>3, PieceIsKept

\* Pieces with two scopes are those of functions that create an object.
LEMMA GetPiece ==
  ASSUME NEW h \in Nat, NEW d \in Nat, NEW f
  PROVE  Piece(Get(f), Sh(h, d), Sh(h + 1, d), {}, 1)
  <1> DEFINE i  == OnVar("LoadVar", "self")
             j  == OnField("GetField", f)
  <1>1. i.op = "LoadVar" /\ Combines(j, 1) /\ Get(f) = <<i, j>>
    BY OpFacts DEF Combines, Get
  <1>2. <<i, j>> = <<i>> \o <<j>>
    BY PairFacts
  <1> HIDE DEF i, j
  <1>3. Piece(<<i>>, Sh(h, d), Sh(h + 1, d), {}, 1)
    <2>1. \A q : IsPush(q) => Piece(<<q>>, Sh(h, d), Sh(h + 1, d), {}, 1)
      BY OnePiece, Zenon
    <2> QED
      BY <1>1, <2>1 DEF IsPush
  <1>4. Piece(<<j>>, Sh(h + 1, d), Sh(h + 1, d), {}, 1)
    <2>1. \A q : Combines(q, 1) => Piece(<<q>>, Sh(h + 1, d), Sh(h + 1, d), {}, 1)
      BY OnePiece, Zenon
    <2> QED
      BY <1>1, <2>1
  <1>5. Piece(<<i>> \o <<j>>, Sh(h, d), Sh(h + 1, d), {}, 1)
    BY <1>3, <1>4, PieceJoin
  <1> QED
    BY <1>1, <1>2, <1>5

\* A field is set, and the value that SetField leaves is dropped.
LEMMA SetPiece ==
  ASSUME NEW h \in Nat, NEW d \in Nat, NEW obj, NEW f
  PROVE  Piece(Set(obj, f), Sh(h + 1, d), Sh(h, d), {}, 1)
  <1> DEFINE i == OnVar("LoadVar", obj)
             j == OnField("SetField", f)
             k == Plain("Pop")
             h1 == h + 1
  <1>1. i.op = "LoadVar" /\ Combines(j, 2) /\ Set(obj, f) = <<i, j, k>>
    BY OpFacts DEF Combines, Set
  <1>2. <<i, j, k>> = (<<i>> \o <<j>>) \o <<k>>
    BY PairFacts, TripleFacts
  <1>3. h1 \in Nat /\ h1 + 1 = h + 2
    OBVIOUS
  <1>4. Piece(<<k>>, Sh(h1, d), Sh(h, d), {}, 1)
    BY OnePiece
  <1> HIDE DEF i, j, k
  <1>5. Piece(<<j>>, Sh(h + 2, d), Sh(h1, d), {}, 1)
    BY <1>1, OnePiece
  <1> HIDE DEF h1
  <1>6. Piece(<<i>>, Sh(h1, d), Sh(h1 + 1, d), {}, 1)
    <2>1. \A q : IsPush(q) => Piece(<<q>>, Sh(h1, d), Sh(h1 + 1, d), {}, 1)
      BY <1>3, OnePiece, Zenon
    <2> QED
      BY <1>1, <2>1 DEF IsPush
  <1>7. Piece(<<i>>, Sh(h1, d), Sh(h + 2, d), {}, 1)
    BY <1>3, <1>6
  <1>8. Piece(<<i>> \o <<j>>, Sh(h1, d), Sh(h1, d), {}, 1)
    BY <1>5, <1>7, PieceJoin
  <1>9. Piece((<<i>> \o <<j>>) \o <<k>>, Sh(h1, d), Sh(h, d), {}, 1)
    BY <1>4, <1>8, PieceJoin
  <1> QED
    BY <1>1, <1>2, <1>9 DEF h1

\* A field is counted up.
LEMMA AdvancePiece ==
  ASSUME NEW h \in Nat, NEW d \in Nat, NEW f
  PROVE  Piece(Advance(f), Sh(h, d), Sh(h, d), {}, 1)
  <1> DEFINE i  == Lit(NumV(1))
             j  == Plain("Add")
             h1 == h + 1
  <1>1. i.op = "Literal" /\ Combines(j, 2)
    BY OpFacts, ArityFacts DEF Combines, BinaryOps
  <1>2. <<i, j>> = <<i>> \o <<j>>
    BY PairFacts
  <1>3. h1 \in Nat /\ h1 + 1 = h + 2
    OBVIOUS
  <1>4. Piece(Get(f), Sh(h, d), Sh(h1, d), {}, 1) /\ Piece(Set("self", f), Sh(h1, d), Sh(h, d), {}, 1)
    BY GetPiece, SetPiece
  <1>5. Advance(f) = Get(f) \o <<i, j>> \o Set("self", f)
    BY DEF Advance
  <1> HIDE DEF i, j
  <1>6. Piece(<<j>>, Sh(h + 2, d), Sh(h1, d), {}, 1)
    BY <1>1, OnePiece
  <1> HIDE DEF h1
  <1>7. Piece(<<i>>, Sh(h1, d), Sh(h1 + 1, d), {}, 1)
    <2>1. \A q : IsPush(q) => Piece(<<q>>, Sh(h1, d), Sh(h1 + 1, d), {}, 1)
      BY <1>3, OnePiece, Zenon
    <2> QED
      BY <1>1, <2>1 DEF IsPush
  <1>8. Piece(<<i>>, Sh(h1, d), Sh(h + 2, d), {}, 1)
    BY <1>3, <1>7
  <1>9. Piece(<<i, j>>, Sh(h1, d), Sh(h1, d), {}, 1)
    BY <1>2, <1>6, <1>8, PieceJoin
  <1>10. Piece(Get(f) \o <<i, j>>, Sh(h, d), Sh(h1, d), {}, 1)
    BY <1>4, <1>9, PieceJoin
  <1>11. Piece(Get(f) \o <<i, j>> \o Set("self", f), Sh(h, d), Sh(h, d), {}, 1)
    BY <1>4, <1>10, PieceJoin
  <1> QED
    BY <1>5, <1>11

\* An object is created and kept in a variable of a scope of its own.
LEMMA CreatePiece ==
  ASSUME NEW t, NEW x
  PROVE  Piece(Create(t, x), Sh(0, 1), Sh(0, 2), {}, 1)
  <1> DEFINE i == OnType("NewObject", t)
             j == Plain("BeginScope")
             k == OnVar("BindVar", x)
  <1>1. i.op = "NewObject" /\ j.op = "BeginScope" /\ k.op = "BindVar" /\ Create(t, x) = <<i, j, k>>
    BY OpFacts DEF Create
  <1>2. <<i, j, k>> = (<<i>> \o <<j>>) \o <<k>>
    BY PairFacts, TripleFacts
  <1> HIDE DEF i, j, k
  <1>3. Sh(0, 1) \in Shape /\ Sh(1, 1) \in Shape /\ Sh(1, 2) \in Shape /\ Sh(0, 2) \in Shape
    BY ShFacts
  <1>4. Piece(<<i>>, Sh(0, 1), Sh(1, 1), {}, 1)
    <2>1. Takes(i) = 0 /\ Gives(i) = 1 /\ Opens(i) = 0
      BY <1>1, EffectFacts
    <2>2. Fits(i, Sh(0, 1), Sh(1, 1), {}, 1)
      BY <1>1, <2>1 DEF Fits, After, Sh
    <2> QED
      BY <1>3, <2>2, PieceOne
  <1>5. Piece(<<j>>, Sh(1, 1), Sh(1, 2), {}, 1)
    <2>1. Takes(j) = 0 /\ Gives(j) = 0 /\ Opens(j) = 1
      BY <1>1, EffectFacts
    <2>2. Fits(j, Sh(1, 1), Sh(1, 2), {}, 1)
      BY <1>1, <2>1 DEF Fits, After, Sh
    <2> QED
      BY <1>3, <2>2, PieceOne
  <1>6. Piece(<<k>>, Sh(1, 2), Sh(0, 2), {}, 1)
    <2>1. Takes(k) = 1 /\ Gives(k) = 0 /\ Opens(k) = 0
      BY <1>1, EffectFacts
    <2>2. Fits(k, Sh(1, 2), Sh(0, 2), {}, 1)
      BY <1>1, <2>1 DEF Fits, After, Sh
    <2> QED
      BY <1>3, <2>2, PieceOne
  <1>7. Piece(<<i>> \o <<j>>, Sh(0, 1), Sh(1, 2), {}, 1)
    BY <1>4, <1>5, PieceJoin
  <1>8. Piece((<<i>> \o <<j>>) \o <<k>>, Sh(0, 1), Sh(0, 2), {}, 1)
    BY <1>6, <1>7, PieceJoin
  <1> QED
    BY <1>1, <1>2, <1>8

\* All but the Ret of Give.
LEMMA GivePiece ==
  ASSUME NEW obj
  PROVE  /\ Give(obj) = <<OnVar("LoadVar", obj), Plain("EndScope")>> \o <<Plain("Ret")>>
         /\ Piece(<<OnVar("LoadVar", obj), Plain("EndScope")>>, Sh(0, 2), Sh(1, 1), {}, 1)
  <1> DEFINE i == OnVar("LoadVar", obj)
             j == Plain("EndScope")
             k == Plain("Ret")
  <1>1. i.op = "LoadVar" /\ j.op = "EndScope" /\ Give(obj) = <<i, j, k>>
    BY OpFacts DEF Give
  <1>2. <<i, j, k>> = <<i, j>> \o <<k>> /\ <<i, j>> = <<i>> \o <<j>>
    BY PairFacts, TripleFacts
  <1> HIDE DEF i, j, k
  <1>3. Sh(0, 2) \in Shape /\ Sh(1, 2) \in Shape /\ Sh(1, 1) \in Shape
    BY ShFacts
  <1>4. Piece(<<i>>, Sh(0, 2), Sh(1, 2), {}, 1)
    <2>1. Takes(i) = 0 /\ Gives(i) = 1 /\ Opens(i) = 0
      BY <1>1, EffectFacts
    <2>2. Fits(i, Sh(0, 2), Sh(1, 2), {}, 1)
      BY <1>1, <2>1 DEF Fits, After, Sh
    <2> QED
      BY <1>3, <2>2, PieceOne
  <1>5. Piece(<<j>>, Sh(1, 2), Sh(1, 1), {}, 1)
    <2>1. Takes(j) = 0 /\ Gives(j) = 0 /\ Opens(j) = -1
      BY <1>1, EffectFacts
    <2>2. Fits(j, Sh(1, 2), Sh(1, 1), {}, 1)
      BY <1>1, <2>1 DEF Fits, After, Sh
    <2> QED
      BY <1>3, <2>2, PieceOne
  <1>6. Piece(<<i, j>>, Sh(0, 2), Sh(1, 1), {}, 1)
    BY <1>2, <1>4, <1>5, PieceJoin
  <1> QED
    BY <1>1, <1>2, <1>6 DEF i, j, k

\* The pieces between them, in a function that has an object or none on the stack.
LEMMA StepPieces ==
  ASSUME NEW d \in Nat
  PROVE  /\ \A i : IsPush(i) => Piece(<<i>>, Sh(0, d), Sh(1, d), {}, 1)
         /\ \A i : IsPush(i) => Piece(<<i>>, Sh(1, d), Sh(2, d), {}, 1)
         /\ \A i : Combines(i, 2) => Piece(<<i>>, Sh(2, d), Sh(1, d), {}, 1)
         /\ \A i : Combines(i, 1) => Piece(<<i>>, Sh(2, d), Sh(2, d), {}, 1)
         /\ \A f : Piece(Get(f), Sh(0, d), Sh(1, d), {}, 1)
         /\ \A f : Piece(Get(f), Sh(1, d), Sh(2, d), {}, 1)
         /\ \A f : Piece(Advance(f), Sh(0, d), Sh(0, d), {}, 1)
         /\ \A obj, f : Piece(Set(obj, f), Sh(1, d), Sh(0, d), {}, 1)
  <1>1. 0 \in Nat /\ 1 \in Nat /\ 0 + 1 = 1 /\ 1 + 1 = 2 /\ 0 + 2 = 2
    OBVIOUS
  <1>2. ASSUME NEW i, IsPush(i)
        PROVE  Piece(<<i>>, Sh(0, d), Sh(0 + 1, d), {}, 1) /\ Piece(<<i>>, Sh(1, d), Sh(1 + 1, d), {}, 1)
    BY <1>1, <1>2, OnePiece, Zenon
  <1>3. ASSUME NEW i, Combines(i, 2) PROVE Piece(<<i>>, Sh(0 + 2, d), Sh(0 + 1, d), {}, 1)
    BY <1>1, <1>3, OnePiece, Zenon
  <1>4. ASSUME NEW i, Combines(i, 1) PROVE Piece(<<i>>, Sh(1 + 1, d), Sh(1 + 1, d), {}, 1)
    BY <1>1, <1>4, OnePiece, Zenon
  <1>5. ASSUME NEW f
        PROVE  /\ Piece(Get(f), Sh(0, d), Sh(0 + 1, d), {}, 1)
               /\ Piece(Get(f), Sh(1, d), Sh(1 + 1, d), {}, 1)
               /\ Piece(Advance(f), Sh(0, d), Sh(0, d), {}, 1)
               /\ \A obj : Piece(Set(obj, f), Sh(0 + 1, d), Sh(0, d), {}, 1)
    BY <1>1, GetPiece, SetPiece, AdvancePiece, Zenon
  <1> QED
    BY <1>1, <1>2, <1>3, <1>4, <1>5

\* The kinds of the instructions between these.
LEMMA BuiltinOps ==
  /\ \A v, n : IsPush(Lit(v)) /\ IsPush(OnVar("LoadVar", n))
  /\ \A op \in {"Add", "Sub", "Lt"} : Combines(Plain(op), 2)
  /\ Combines(Plain("Index"), 2) /\ \A f : Combines(OnField("GetField", f), 1)
  <1>1. \A v, n : IsPush(Lit(v)) /\ IsPush(OnVar("LoadVar", n))
    BY OpFacts DEF IsPush
  <1>2. \A op \in {"Add", "Sub", "Lt"} : Combines(Plain(op), 2)
    BY OpFacts, ArityFacts DEF Combines, BinaryOps
  <1>3. Combines(Plain("Index"), 2) /\ \A f : Combines(OnField("GetField", f), 1)
    BY OpFacts DEF Combines
  <1> QED
    BY <1>1, <1>2, <1>3

\* __builtin_range: an object, two fields set, and it is left.
LEMMA RangeIsKept ==
  ASSUME NEW n, NEW params, NEW lo, NEW hi
  PROVE  IsKept(IrFunc(n, params,
           Create("Range", "__self")
             \o <<OnVar("LoadVar", lo), Lit(NumV(1)), Plain("Sub")>> \o Set("__self", "current")
             \o <<OnVar("LoadVar", hi)>> \o Set("__self", "hi") \o Give("__self")))
  <1> DEFINE i    == OnVar("LoadVar", lo)
             j    == Lit(NumV(1))
             k    == Plain("Sub")
             l    == OnVar("LoadVar", hi)
             make == Create("Range", "__self")
             cur  == Set("__self", "current")
             top  == Set("__self", "hi")
             give == <<OnVar("LoadVar", "__self"), Plain("EndScope")>>
  <1>1. IsPush(i) /\ IsPush(j) /\ Combines(k, 2) /\ IsPush(l)
    BY BuiltinOps
  <1>2. <<i, j, k>> = (<<i>> \o <<j>>) \o <<k>>
    BY PairFacts, TripleFacts
  <1>3. Piece(make, Sh(0, 1), Sh(0, 2), {}, 1)
    BY CreatePiece
  <1>4. Piece(cur, Sh(1, 2), Sh(0, 2), {}, 1) /\ Piece(top, Sh(1, 2), Sh(0, 2), {}, 1)
    BY StepPieces
  <1>5. Give("__self") = give \o <<Plain("Ret")>> /\ Piece(give, Sh(0, 2), Sh(1, 1), {}, 1)
    BY GivePiece
  <1> HIDE DEF i, j, k, l, make, cur, top, give
  <1>6. Piece(<<i>>, Sh(0, 2), Sh(1, 2), {}, 1) /\ Piece(<<l>>, Sh(0, 2), Sh(1, 2), {}, 1)
    BY <1>1, StepPieces
  <1>7. Piece(<<j>>, Sh(1, 2), Sh(2, 2), {}, 1) /\ Piece(<<k>>, Sh(2, 2), Sh(1, 2), {}, 1)
    BY <1>1, StepPieces
  <1>8. Piece(<<i, j, k>>, Sh(0, 2), Sh(1, 2), {}, 1)
    BY <1>2, <1>6, <1>7, PieceJoin
  <1>9. Piece(make \o <<i, j, k>> \o cur, Sh(0, 1), Sh(0, 2), {}, 1)
    BY <1>3, <1>4, <1>8, PieceJoin
  <1>10. Piece(make \o <<i, j, k>> \o cur \o <<l>> \o top, Sh(0, 1), Sh(0, 2), {}, 1)
    BY <1>4, <1>6, <1>9, PieceJoin
  <1>11. IsKept(IrFunc(n, params,
           make \o <<i, j, k>> \o cur \o <<l>> \o top \o (give \o <<Plain("Ret")>>)))
    BY <1>5, <1>10, JoinedIsKept
  <1> QED
    BY <1>5, <1>11 DEF i, j, k, l, make, cur, top

\* The functions of ranges keep the contract.
LEMMA RangeBuiltinsKept ==
  \A k \in 1 .. Len(RangeBuiltins) : IsKept(RangeBuiltins[k])
  <1> DEFINE f1 == IrFunc("__builtin_range", <<"__lo", "__hi">>,
                     Create("Range", "__self")
                       \o <<OnVar("LoadVar", "__lo"), Lit(NumV(1)), Plain("Sub")>>
                       \o Set("__self", "current")
                       \o <<OnVar("LoadVar", "__hi")>> \o Set("__self", "hi") \o Give("__self"))
             f2 == IrFunc("__method_Range_next", <<"self">>,
                     Advance("current") \o Get("current") \o Get("hi") \o <<Plain("Lt"), Plain("Ret")>>)
             f3 == IrFunc("__method_Range_current", <<"self">>, Get("current") \o <<Plain("Ret")>>)
  <1>1. IsKept(f1)
    BY RangeIsKept
  <1>2. IsKept(f2)
    <2> DEFINE lt == Plain("Lt")
               a  == Advance("current")
               b  == Get("current")
               c  == Get("hi")
    <2>1. <<lt, Plain("Ret")>> = <<lt>> \o <<Plain("Ret")>>
      BY PairFacts
    <2>2. /\ Piece(a, Sh(0, 1), Sh(0, 1), {}, 1) /\ Piece(b, Sh(0, 1), Sh(1, 1), {}, 1)
          /\ Piece(c, Sh(1, 1), Sh(2, 1), {}, 1) /\ Piece(<<lt>>, Sh(2, 1), Sh(1, 1), {}, 1)
      BY StepPieces, BuiltinOps
    <2> HIDE DEF a, b, c, lt
    <2>3. Piece(a \o b \o c, Sh(0, 1), Sh(2, 1), {}, 1)
      BY <2>2, PieceJoin
    <2>4. IsKept(IrFunc("__method_Range_next", <<"self">>,
                   a \o b \o c \o (<<lt>> \o <<Plain("Ret")>>)))
      BY <2>2, <2>3, JoinedIsKept
    <2> QED
      BY <2>1, <2>4 DEF a, b, c, lt
  <1>3. IsKept(f3)
    <2>1. Piece(Get("current"), Sh(0, 1), Sh(1, 1), {}, 1)
      BY StepPieces
    <2> QED
      BY <2>1, PieceIsKept
  <1>4. RangeBuiltins = <<f1, f2, f3>>
    BY DEF RangeBuiltins
  <1> HIDE DEF f1, f2, f3
  <1>5. Len(RangeBuiltins) = 3 /\ RangeBuiltins[1] = f1 /\ RangeBuiltins[2] = f2 /\ RangeBuiltins[3] = f3
    BY <1>4
  <1> QED
    BY <1>1, <1>2, <1>3, <1>5

\* The functions of vectors and their iterators keep the contract.
LEMMA VectorBuiltinsKept ==
  \A k \in 1 .. Len(VectorBuiltins) : IsKept(VectorBuiltins[k])
  <1> DEFINE f1 == IrFunc("__vec_size", <<"self">>, Get("__len") \o <<Plain("Ret")>>)
             f2 == IrFunc("__vec_iter", <<"self">>,
                     Create("__VectorIter", "__it")
                       \o <<OnVar("LoadVar", "self")>> \o Set("__it", "__vec")
                       \o <<Lit(NumV(-1))>> \o Set("__it", "__cursor") \o Give("__it"))
             f3 == IrFunc("__veciter_next", <<"self">>,
                     Advance("__cursor") \o Get("__cursor") \o Get("__vec")
                       \o <<OnField("GetField", "__len"), Plain("Lt"), Plain("Ret")>>)
             f4 == IrFunc("__veciter_current", <<"self">>,
                     Get("__vec") \o Get("__cursor") \o <<Plain("Index"), Plain("Ret")>>)
  <1>1. IsKept(f1)
    <2>1. Piece(Get("__len"), Sh(0, 1), Sh(1, 1), {}, 1)
      BY StepPieces
    <2> QED
      BY <2>1, PieceIsKept
  <1>2. IsKept(f2)
    <2> DEFINE i    == OnVar("LoadVar", "self")
               j    == Lit(NumV(-1))
               make == Create("__VectorIter", "__it")
               vec  == Set("__it", "__vec")
               cur  == Set("__it", "__cursor")
               give == <<OnVar("LoadVar", "__it"), Plain("EndScope")>>
    <2>1. IsPush(i) /\ IsPush(j)
      BY BuiltinOps
    <2>2. Piece(make, Sh(0, 1), Sh(0, 2), {}, 1)
      BY CreatePiece
    <2>3. Piece(vec, Sh(1, 2), Sh(0, 2), {}, 1) /\ Piece(cur, Sh(1, 2), Sh(0, 2), {}, 1)
      BY StepPieces
    <2>4. Give("__it") = give \o <<Plain("Ret")>> /\ Piece(give, Sh(0, 2), Sh(1, 1), {}, 1)
      BY GivePiece
    <2> HIDE DEF i, j, make, vec, cur, give
    <2>5. Piece(<<i>>, Sh(0, 2), Sh(1, 2), {}, 1) /\ Piece(<<j>>, Sh(0, 2), Sh(1, 2), {}, 1)
      BY <2>1, StepPieces
    <2>6. Piece(make \o <<i>> \o vec, Sh(0, 1), Sh(0, 2), {}, 1)
      BY <2>2, <2>3, <2>5, PieceJoin
    <2>7. Piece(make \o <<i>> \o vec \o <<j>> \o cur, Sh(0, 1), Sh(0, 2), {}, 1)
      BY <2>3, <2>5, <2>6, PieceJoin
    <2>8. IsKept(IrFunc("__vec_iter", <<"self">>,
                   make \o <<i>> \o vec \o <<j>> \o cur \o (give \o <<Plain("Ret")>>)))
      BY <2>4, <2>7, JoinedIsKept
    <2> QED
      BY <2>4, <2>8 DEF i, j, make, vec, cur
  <1>3. IsKept(f3)
    <2> DEFINE a  == Advance("__cursor")
               b  == Get("__cursor")
               c  == Get("__vec")
               i  == OnField("GetField", "__len")
               lt == Plain("Lt")
    <2>1. <<i, lt, Plain("Ret")>> = (<<i>> \o <<lt>>) \o <<Plain("Ret")>>
      BY PairFacts, TripleFacts
    <2>2. /\ Piece(a, Sh(0, 1), Sh(0, 1), {}, 1) /\ Piece(b, Sh(0, 1), Sh(1, 1), {}, 1)
          /\ Piece(c, Sh(1, 1), Sh(2, 1), {}, 1)
      BY StepPieces
    <2>3. Piece(<<i>>, Sh(2, 1), Sh(2, 1), {}, 1) /\ Piece(<<lt>>, Sh(2, 1), Sh(1, 1), {}, 1)
      BY StepPieces, BuiltinOps
    <2> HIDE DEF a, b, c, i, lt
    <2>4. Piece(a \o b \o c, Sh(0, 1), Sh(2, 1), {}, 1) /\ Piece(<<i>> \o <<lt>>, Sh(2, 1), Sh(1, 1), {}, 1)
      BY <2>2, <2>3, PieceJoin
    <2>5. IsKept(IrFunc("__veciter_next", <<"self">>,
                   a \o b \o c \o ((<<i>> \o <<lt>>) \o <<Plain("Ret")>>)))
      BY <2>4, JoinedIsKept
    <2> QED
      BY <2>1, <2>5 DEF a, b, c, i, lt
  <1>4. IsKept(f4)
    <2> DEFINE a == Get("__vec")
               b == Get("__cursor")
               i == Plain("Index")
    <2>1. <<i, Plain("Ret")>> = <<i>> \o <<Plain("Ret")>>
      BY PairFacts
    <2>2. Piece(a, Sh(0, 1), Sh(1, 1), {}, 1) /\ Piece(b, Sh(1, 1), Sh(2, 1), {}, 1)
      BY StepPieces
    <2>3. Piece(<<i>>, Sh(2, 1), Sh(1, 1), {}, 1)
      BY StepPieces, BuiltinOps
    <2> HIDE DEF a, b, i
    <2>4. Piece(a \o b, Sh(0, 1), Sh(2, 1), {}, 1)
      BY <2>2, PieceJoin
    <2>5. IsKept(IrFunc("__veciter_current", <<"self">>,
                   a \o b \o (<<i>> \o <<Plain("Ret")>>)))
      BY <2>3, <2>4, JoinedIsKept
    <2> QED
      BY <2>1, <2>5 DEF a, b, i
  <1>5. VectorBuiltins = <<f1, f2, f3, f4>>
    BY DEF VectorBuiltins
  <1> HIDE DEF f1, f2, f3, f4
  <1>6. /\ Len(VectorBuiltins) = 4 /\ VectorBuiltins[1] = f1 /\ VectorBuiltins[2] = f2
        /\ VectorBuiltins[3] = f3 /\ VectorBuiltins[4] = f4
    BY <1>5
  <1> QED
    BY <1>1, <1>2, <1>3, <1>4, <1>6

-----------------------------------------------------------------------------
(* The table of a program. *)

AllKept(table) == \A b \in DOMAIN table : IsKept(table[b])

\* An insertion of what keeps the contract, whether it replaces an entry or not.
LEMMA InsertKept ==
  ASSUME NEW table, AllKept(table), NEW f, IsKept(f)
  PROVE  AllKept(Insert(table, f))
  BY DEF AllKept, Insert

\* Insertions, as Fold makes them.
Inserted(table, funcs, n, f) ==
  f = [k \in 0 .. n |-> IF k = 0 THEN table ELSE Insert(f[k - 1], funcs[k])]

\* The tables between insertions, which Fold takes from a recursive function, exist.
LEMMA InsertedExists ==
  ASSUME NEW table, NEW funcs, NEW n \in Nat
  PROVE  \E f : Inserted(table, funcs, n, f)
  <1> DEFINE B == { m \in Nat : ~ \E f : Inserted(table, funcs, m, f) }
  <1>1. ASSUME B # {} PROVE FALSE
    <2>1. PICK m \in B : \A j \in B : m <= j
      BY <1>1, NatMin
    <2>2. m \in Nat /\ ~ \E f : Inserted(table, funcs, m, f)
      OBVIOUS
    <2>3. CASE m = 0
      <3> DEFINE f == [k \in 0 .. 0 |-> table]
      <3>1. Inserted(table, funcs, 0, f)
        BY DEF Inserted
      <3> QED
        BY <2>2, <2>3, <3>1
    <2>4. CASE m # 0
      <3>1. m - 1 \in Nat /\ ~ (m <= m - 1)
        BY <2>2, <2>4
      <3>2. PICK f : Inserted(table, funcs, m - 1, f)
        BY <2>1, <3>1
      <3> DEFINE last == Insert(f[m - 1], funcs[m])
                 g    == [k \in 0 .. m |-> IF k = m THEN last ELSE f[k]]
      <3>3. ASSUME NEW k \in 0 .. m
            PROVE  g[k] = IF k = 0 THEN table ELSE Insert(g[k - 1], funcs[k])
        <4>1. CASE k = m
          <5>1. g[k - 1] = f[m - 1] /\ g[k] = last
            BY <2>2, <2>4, <4>1
          <5> QED
            BY <2>4, <4>1, <5>1
        <4>2. CASE k # m
          <5>1. k \in 0 .. m - 1 /\ g[k] = f[k]
            BY <2>2, <4>2
          <5>2. k # 0 => k - 1 \in 0 .. m - 1 /\ g[k - 1] = f[k - 1]
            BY <2>2, <4>2
          <5>3. f[k] = IF k = 0 THEN table ELSE Insert(f[k - 1], funcs[k])
            BY <3>2, <5>1 DEF Inserted
          <5> QED
            BY <5>1, <5>2, <5>3
        <4> QED
          BY <4>1, <4>2
      <3>4. Inserted(table, funcs, m, g)
        BY <3>3 DEF Inserted
      <3> QED
        BY <2>2, <3>4
    <2> QED
      BY <2>3, <2>4
  <1> QED
    BY <1>1

\* Any number of insertions.
LEMMA InsertAllKept ==
  ASSUME NEW table, AllKept(table), NEW funcs, Len(funcs) \in Nat,
         \A k \in 1 .. Len(funcs) : IsKept(funcs[k])
  PROVE  AllKept(InsertAll(table, funcs))
  <1> DEFINE n == Len(funcs)
             f == CHOOSE f : Inserted(table, funcs, n, f)
  <1>1. InsertAll(table, funcs) = f[n]
    BY Zenon DEF InsertAll, Fold, Inserted
  <1>2. n \in Nat /\ \A k \in 1 .. n : IsKept(funcs[k])
    OBVIOUS
  <1> HIDE DEF n
  <1>3. Inserted(table, funcs, n, f)
    BY <1>2, InsertedExists, Zenon
  <1> HIDE DEF f
  <1>4. \A k \in 0 .. n : f[k] = IF k = 0 THEN table ELSE Insert(f[k - 1], funcs[k])
    BY <1>3, Zenon DEF Inserted
  <1> DEFINE B == { k \in 0 .. n : ~ AllKept(f[k]) }
  <1>5. ASSUME B # {} PROVE FALSE
    <2>1. B \subseteq Nat
      BY <1>2
    <2>2. PICK k \in B : \A j \in B : k <= j
      BY <1>5, <2>1, NatMin
    <2>3. k \in 0 .. n /\ ~ AllKept(f[k])
      OBVIOUS
    <2>4. f[k] = IF k = 0 THEN table ELSE Insert(f[k - 1], funcs[k])
      BY <1>4, <2>3, Zenon
    <2>5. k # 0
      BY <2>3, <2>4
    <2>6. k \in 1 .. n /\ k - 1 \in 0 .. n /\ ~ (k <= k - 1)
      BY <1>2, <2>3, <2>5
    <2>7. AllKept(f[k - 1])
      BY <2>2, <2>6
    <2>8. AllKept(Insert(f[k - 1], funcs[k]))
      BY <1>2, <2>6, <2>7, InsertKept
    <2> QED
      BY <2>3, <2>4, <2>5, <2>8
  <1>6. n \in 0 .. n
    BY <1>2
  <1> QED
    BY <1>1, <1>5, <1>6

\* The functions of one type after another.
Typed(table, types, n, f) ==
  f = [k \in 0 .. n |-> IF k = 0 THEN table ELSE InsertAll(f[k - 1], FuncsOfType(types[k], types))]

\* The tables between types exist.
LEMMA TypedExists ==
  ASSUME NEW table, NEW types, NEW n \in Nat
  PROVE  \E f : Typed(table, types, n, f)
  <1> DEFINE B == { m \in Nat : ~ \E f : Typed(table, types, m, f) }
  <1>1. ASSUME B # {} PROVE FALSE
    <2>1. PICK m \in B : \A j \in B : m <= j
      BY <1>1, NatMin
    <2>2. m \in Nat /\ ~ \E f : Typed(table, types, m, f)
      OBVIOUS
    <2>3. CASE m = 0
      <3> DEFINE f == [k \in 0 .. 0 |-> table]
      <3>1. Typed(table, types, 0, f)
        BY DEF Typed
      <3> QED
        BY <2>2, <2>3, <3>1
    <2>4. CASE m # 0
      <3>1. m - 1 \in Nat /\ ~ (m <= m - 1)
        BY <2>2, <2>4
      <3>2. PICK f : Typed(table, types, m - 1, f)
        BY <2>1, <3>1
      <3> DEFINE last == InsertAll(f[m - 1], FuncsOfType(types[m], types))
                 g    == [k \in 0 .. m |-> IF k = m THEN last ELSE f[k]]
      <3>3. ASSUME NEW k \in 0 .. m
            PROVE  g[k] = IF k = 0 THEN table ELSE InsertAll(g[k - 1], FuncsOfType(types[k], types))
        <4>1. CASE k = m
          <5>1. g[k - 1] = f[m - 1] /\ g[k] = last
            BY <2>2, <2>4, <4>1
          <5> QED
            BY <2>4, <4>1, <5>1
        <4>2. CASE k # m
          <5>1. k \in 0 .. m - 1 /\ g[k] = f[k]
            BY <2>2, <4>2
          <5>2. k # 0 => k - 1 \in 0 .. m - 1 /\ g[k - 1] = f[k - 1]
            BY <2>2, <4>2
          <5>3. f[k] = IF k = 0 THEN table ELSE InsertAll(f[k - 1], FuncsOfType(types[k], types))
            BY <3>2, <5>1 DEF Typed
          <5> QED
            BY <5>1, <5>2, <5>3
        <4> QED
          BY <4>1, <4>2
      <3>4. Typed(table, types, m, g)
        BY <3>3 DEF Typed
      <3> QED
        BY <2>2, <3>4
    <2> QED
      BY <2>3, <2>4
  <1> QED
    BY <1>1

\* The constructor of a type and its methods.
LEMMA TypeIsKept ==
  ASSUME NEW types, AreTypes(types), NEW type, IsTypeDecl(type)
  PROVE  LET funcs == FuncsOfType(type, types)
         IN  Len(funcs) \in Nat /\ \A k \in 1 .. Len(funcs) : IsKept(funcs[k])
  <1> DEFINE n       == Len(type.methods)
             methods == [k \in DOMAIN type.methods |-> LowerMethod(type, type.methods[k])]
             ctor    == LowerConstructor(type, types)
             funcs   == <<ctor>> \o methods
  <1>1. n \in Nat /\ DOMAIN type.methods = 1 .. n
    BY DEF IsTypeDecl, IsList
  <1>2. ASSUME NEW k \in 1 .. n PROVE IsKept(methods[k])
    <2> DEFINE decl == type.methods[k]
               at   == [method |-> decl.name, parent |-> type.parent.name]
    <2>1. decl.body \in Exprs[Nesting]
      BY DEF IsTypeDecl
    <2>2. methods[k].body = BodyOf(decl.body, at)
      BY <1>1 DEF LowerMethod, IrFunc
    <2> HIDE DEF decl, at, methods
    <2>3. \E shape : Disciplined(BodyOf(decl.body, at), 1, shape)
      BY <2>1, BodiesAreDisciplined
    <2> QED
      BY <2>2, <2>3 DEF IsKept
  <1>3. methods = [k \in 1 .. n |-> methods[k]]
    BY <1>1
  <1>4. IsKept(ctor)
    BY ConstructorsAreDisciplined
  <1> HIDE DEF n, methods, ctor
  <1>5. Len(methods) = n /\ IsSequence(methods)
    BY <1>1, <1>3, TableLen
  <1>6. /\ Len(funcs) = 1 + n /\ funcs[1] = ctor
        /\ \A k \in 1 .. n : funcs[1 + k] = methods[k]
    <2>1. IsSequence(<<ctor>>) /\ Len(<<ctor>>) = 1 /\ <<ctor>>[1] = ctor /\ 1 \in 1 .. 1
      BY OneFacts
    <2> QED
      BY <1>5, <2>1, JoinFacts
  <1> HIDE DEF funcs
  <1>7. ASSUME NEW k \in 1 .. Len(funcs) PROVE IsKept(funcs[k])
    <2>1. CASE k = 1
      BY <1>4, <1>6, <2>1
    <2>2. CASE k # 1
      <3>1. k - 1 \in 1 .. n /\ 1 + (k - 1) = k
        BY <1>1, <1>6, <2>2
      <3> QED
        BY <1>2, <1>6, <3>1
    <2> QED
      BY <2>1, <2>2
  <1>8. FuncsOfType(type, types) = funcs /\ Len(funcs) \in Nat
    BY <1>1, <1>6 DEF FuncsOfType, funcs, ctor, methods
  <1> QED
    BY <1>7, <1>8

\* The functions of all types, inserted type after type.
LEMMA TypesAreKept ==
  ASSUME NEW table, AllKept(table), NEW types, AreTypes(types)
  PROVE  AllKept(Fold(LAMBDA t, type : InsertAll(t, FuncsOfType(type, types)), table, types))
  <1> DEFINE n == Len(types)
             f == CHOOSE f : Typed(table, types, n, f)
  <1>1. Fold(LAMBDA t, type : InsertAll(t, FuncsOfType(type, types)), table, types) = f[n]
    BY Zenon DEF Fold, Typed
  <1>2. n \in Nat /\ \A k \in 1 .. n : IsTypeDecl(types[k])
    BY DEF AreTypes, IsList
  <1> HIDE DEF n
  <1>3. Typed(table, types, n, f)
    BY <1>2, TypedExists, Zenon
  <1> HIDE DEF f
  <1>4. \A k \in 0 .. n :
          f[k] = IF k = 0 THEN table ELSE InsertAll(f[k - 1], FuncsOfType(types[k], types))
    BY <1>3, Zenon DEF Typed
  <1> DEFINE B == { k \in 0 .. n : ~ AllKept(f[k]) }
  <1>5. ASSUME B # {} PROVE FALSE
    <2>1. B \subseteq Nat
      BY <1>2
    <2>2. PICK k \in B : \A j \in B : k <= j
      BY <1>5, <2>1, NatMin
    <2>3. k \in 0 .. n /\ ~ AllKept(f[k])
      OBVIOUS
    <2> DEFINE funcs == FuncsOfType(types[k], types)
    <2>4. f[k] = IF k = 0 THEN table ELSE InsertAll(f[k - 1], funcs)
      BY <1>4, <2>3, Zenon
    <2>5. k # 0
      BY <2>3, <2>4
    <2>6. k \in 1 .. n /\ k - 1 \in 0 .. n /\ ~ (k <= k - 1)
      BY <1>2, <2>3, <2>5
    <2>7. AllKept(f[k - 1])
      BY <2>2, <2>6
    <2>8. Len(funcs) \in Nat /\ \A q \in 1 .. Len(funcs) : IsKept(funcs[q])
      BY <1>2, <2>6, TypeIsKept
    <2> HIDE DEF funcs
    <2>9. AllKept(InsertAll(f[k - 1], funcs))
      BY <2>7, <2>8, InsertAllKept
    <2> QED
      BY <2>3, <2>4, <2>5, <2>9
  <1>6. n \in 0 .. n
    BY <1>2
  <1>7. AllKept(f[n])
    BY <1>5, <1>6
  <1> QED
    BY <1>1, <1>7, Zenon DEF Fold

\* lower_program: every entry of the table of functions keeps the contract, those
\* that replaced another one as well.
THEOREM FunctionsAreDisciplined ==
  ASSUME NEW functions, AreFunctions(functions), NEW types, AreTypes(types)
  PROVE  AllKept(LowerFuncs(functions, types))
  <1> DEFINE n      == Len(functions)
             funcs  == [k \in DOMAIN functions |-> LowerFunc(functions[k])]
             global == InsertAll(<<>>, funcs)
             own    == Fold(LAMBDA table, type : InsertAll(table, FuncsOfType(type, types)), global, types)
             given  == RangeBuiltins \o VectorBuiltins
  <1>1. n \in Nat /\ DOMAIN functions = 1 .. n
    BY DEF AreFunctions, IsList
  <1>2. ASSUME NEW k \in 1 .. n PROVE IsKept(funcs[k])
    <2> DEFINE e == functions[k].body
    <2>1. e \in Exprs[Nesting]
      BY DEF AreFunctions
    <2>2. funcs[k].body = BodyOf(e, NoMethod)
      BY <1>1 DEF LowerFunc, IrFunc
    <2> HIDE DEF e, funcs
    <2>3. \E shape : Disciplined(BodyOf(e, NoMethod), 1, shape)
      BY <2>1, BodiesAreDisciplined
    <2> QED
      BY <2>2, <2>3 DEF IsKept
  <1>3. funcs = [k \in 1 .. n |-> funcs[k]]
    BY <1>1
  <1> HIDE DEF n, funcs
  <1>4. Len(funcs) = n
    BY <1>1, <1>3, TableLen
  <1>5. AllKept(<<>>)
    BY DEF AllKept
  <1>6. AllKept(global)
    BY <1>1, <1>2, <1>4, <1>5, InsertAllKept
  <1> HIDE DEF global
  <1>7. AllKept(own)
    BY <1>6, TypesAreKept, Zenon DEF Fold
  <1>8. LowerFuncs(functions, types) = InsertAll(own, given)
    BY Zenon DEF LowerFuncs, Fold, global, funcs
  <1> HIDE DEF own
  <1>9. Len(given) \in Nat /\ \A k \in 1 .. Len(given) : IsKept(given[k])
    <2> DEFINE a == RangeBuiltins
               b == VectorBuiltins
    <2>1. IsSequence(a) /\ IsSequence(b)
      <3>1. \E f, g, h : a = <<f, g, h>>
        BY DEF RangeBuiltins
      <3>2. \E f, g, h, i : b = <<f, g, h, i>>
        BY DEF VectorBuiltins
      <3>3. IsSequence(a)
        <4> HIDE DEF a
        <4> QED
          BY <3>1, TripleFacts
      <3>4. IsSequence(b)
        <4> HIDE DEF b
        <4> QED
          BY <3>2, QuadFacts
      <3> QED
        BY <3>3, <3>4
    <2>2. (\A k \in 1 .. Len(a) : IsKept(a[k])) /\ \A k \in 1 .. Len(b) : IsKept(b[k])
      BY RangeBuiltinsKept, VectorBuiltinsKept
    <2> HIDE DEF a, b
    <2>3. /\ Len(a) \in Nat /\ Len(b) \in Nat /\ Len(a \o b) = Len(a) + Len(b)
          /\ \A k \in 1 .. Len(a) : (a \o b)[k] = a[k]
          /\ \A k \in 1 .. Len(b) : (a \o b)[Len(a) + k] = b[k]
      BY <2>1, JoinFacts
    <2>4. ASSUME NEW k \in 1 .. Len(a) + Len(b) PROVE IsKept((a \o b)[k])
      <3>1. CASE k <= Len(a)
        <4>1. k \in 1 .. Len(a)
          BY <2>3, <3>1
        <4> QED
          BY <2>2, <2>3, <4>1
      <3>2. CASE ~ (k <= Len(a))
        <4> DEFINE j == k - Len(a)
        <4>1. j \in 1 .. Len(b) /\ Len(a) + j = k
          BY <2>3, <3>2
        <4> HIDE DEF j
        <4> QED
          BY <2>2, <2>3, <4>1
      <3> QED
        BY <3>1, <3>2
    <2> QED
      BY <2>3, <2>4 DEF a, b
  <1> HIDE DEF given
  <1>10. AllKept(InsertAll(own, given))
    BY <1>7, <1>9, InsertAllKept
  <1> QED
    BY <1>8, <1>10

-----------------------------------------------------------------------------
(* The machine on the code of a program. *)

\* ShapeIn gives the code of the program a shape that keeps the contract, if it has one.
FindsShape(code, floor) ==
  (\E shape : Disciplined(code, floor, shape)) => Disciplined(code, floor, ShapeIn(code, floor))

FindsShapes ==
  /\ \A b \in DOMAIN Code : FindsShape(Code[b], 1)
  /\ \A b \in DOMAIN EntryCode : FindsShape(EntryCode[b], 0)

\* Whatever the functions, types and entry expressions of a program: all the code that
\* hulk-ir makes of them keeps the contract with the machine.
THEOREM LoweringIsDisciplined ==
  ASSUME NEW functions, NEW types, NEW exprs,
         IsLowered(Code, EntryCode, functions, types, exprs), FindsShapes
  PROVE  CodeIsDisciplined
  <1>1. AllKept(LowerFuncs(functions, types))
    BY FunctionsAreDisciplined DEF IsLowered
  <1>2. ASSUME NEW b \in DOMAIN Code PROVE Disciplined(Code[b], 1, ShapeIn(Code[b], 1))
    <2>1. \E shape : Disciplined(Code[b], 1, shape)
      BY <1>1 DEF IsLowered, AllKept, IsKept
    <2> QED
      BY <2>1, Zenon DEF FindsShapes, FindsShape
  <1>3. ASSUME NEW b \in DOMAIN EntryCode PROVE Disciplined(EntryCode[b], 0, ShapeIn(EntryCode[b], 0))
    <2>1. exprs[b] \in Exprs[Nesting] /\ EntryCode[b] = LowerEntry(exprs[b])
      BY DEF IsLowered
    <2>2. \E shape : Disciplined(LowerEntry(exprs[b]), 0, shape)
      BY <2>1, BodiesAreDisciplined DEF LowerEntry
    <2> QED
      BY <2>1, <2>2, Zenon DEF FindsShapes, FindsShape
  <1>4. AllDisciplined(Code, 1)
    BY <1>2, Zenon DEF AllDisciplined
  <1>5. AllDisciplined(EntryCode, 0)
    BY <1>3, Zenon DEF AllDisciplined
  <1> QED
    BY <1>4, <1>5 DEF CodeIsDisciplined

\* On the code of every program all ways to an instruction leave the same number of
\* values and scopes there, whichever branch, loop or call they came through.
THEOREM LoweredWaysAgree ==
  ASSUME NEW functions, NEW types, NEW exprs,
         IsLowered(Code, EntryCode, functions, types, exprs), FindsShapes
  PROVE  CodeSpec => []WaysAgree
  BY LoweringIsDisciplined, AllWaysAgree

\* And every function, method, constructor and program that ends leaves one value and
\* no scope, with no operand, scope or label ever missing.
THEOREM LoweredKeepsContract ==
  ASSUME NEW functions, NEW types, NEW exprs,
         IsLowered(Code, EntryCode, functions, types, exprs), FindsShapes
  PROVE  CodeSpec => []KeepsContract
  BY LoweringIsDisciplined, ContractIsKept
=============================================================================
