-------------------------- MODULE LocalGameProofs --------------------------
(***************************************************************************)
(* Proofs about the game record of the C engine: it agrees with its list   *)
(* of moves (RecordAgrees), an undo hands the turn to a person             *)
(* (UndoHandsTurnBack), and the terminal program implements BoardGame, for *)
(* any board, any rule of winning and any number of moves and undos. What  *)
(* makes RecordAgrees inductive is that every proper prefix of the history *)
(* is an open game: undo_last_moves sets the state to running unasked.     *)
(***************************************************************************)
EXTENDS LocalGame, FiniteSetTheorems, SequenceTheorems, WellFoundedInduction, TLAPS

Fields == {"board", "turn", "state", "history", "undos", "thoughts", "lastAi",
           "total", "stones", "hash", "config"}

Entry(g, c, p, t, n) ==
  [cell |-> c, player |-> p, time |-> t, evals |-> n,
   winner |-> Verdict([g.board EXCEPT ![c] = p], g.state) \in Colors]

(* The fields of a record after several of them were set.                  *)
LEMMA SetMoveFields ==
  ASSUME NEW g, DOMAIN g = Fields, NEW vb, NEW vh, NEW vt, NEW vs, NEW vx, NEW vv, NEW vu
  PROVE  LET n == [g EXCEPT !.board = vb, !.history = vh, !.total = vt, !.stones = vs,
                            !.hash = vx, !.state = vv, !.turn = vu]
         IN  /\ DOMAIN n = Fields
             /\ n.board = vb /\ n.history = vh /\ n.stones = vs /\ n.hash = vx
             /\ n.state = vv /\ n.turn = vu /\ n.total = vt /\ n.lastAi = g.lastAi
             /\ n.undos = g.undos /\ n.thoughts = g.thoughts /\ n.config = g.config
BY DEF Fields

(* What make_move leaves in each field, when the cell is free.             *)
Placed(n, g, c, p, t, e) ==
  LET board == [g.board EXCEPT ![c] = p]
      verdict == Verdict(board, g.state)
  IN  /\ DOMAIN n = Fields
      /\ n.board = board
      /\ n.history = Append(g.history, Entry(g, c, p, t, e))
      /\ n.stones = g.stones + 1
      /\ n.hash = Xor(g.hash, <<p, c>>)
      /\ n.state = verdict
      /\ n.turn = IF verdict = "running" THEN Other(g.turn) ELSE g.turn
      /\ n.undos = g.undos /\ n.thoughts = g.thoughts /\ n.config = g.config
      /\ n.total = [g.total EXCEPT ![p] = g.total[p] + t] /\ n.lastAi = g.lastAi

LEMMA MoveFields ==
  ASSUME NEW g, DOMAIN g = Fields, NEW c, Valid(g.board, c), NEW p, NEW t, NEW e
  PROVE  Placed(MakeMove(g, c, p, t, e), g, c, p, t, e)
<1> DEFINE board == [g.board EXCEPT ![c] = p]
           verdict == Verdict(board, g.state)
           entry == [cell |-> c, player |-> p, time |-> t, evals |-> e,
                     winner |-> verdict \in Colors]
           history == Append(g.history, entry)
           total == [g.total EXCEPT ![p] = g.total[p] + t]
           stones == g.stones + 1
           hash == Xor(g.hash, <<p, c>>)
           turn == IF verdict = "running" THEN Other(g.turn) ELSE g.turn
           n == [g EXCEPT !.board = board, !.history = history, !.total = total,
                          !.stones = stones, !.hash = hash, !.state = verdict, !.turn = turn]
<1>1. MakeMove(g, c, p, t, e) = n
  BY Zenon DEF MakeMove
<1>2. entry = Entry(g, c, p, t, e)
  BY DEF Entry
<1>3. /\ DOMAIN n = Fields
      /\ n.board = board /\ n.history = history /\ n.stones = stones /\ n.hash = hash
      /\ n.state = verdict /\ n.turn = turn
      /\ n.undos = g.undos /\ n.thoughts = g.thoughts /\ n.config = g.config
      /\ n.total = total /\ n.lastAi = g.lastAi
  <2> HIDE DEF board, verdict, history, total, stones, hash, turn
  <2> QED BY SetMoveFields
<1>4. Placed(n, g, c, p, t, e)
  <2> HIDE DEF n, entry
  <2> QED BY <1>2, <1>3, Zenon DEF Placed
<1> QED BY <1>1, <1>4, Zenon

(* The fields that taking off an entry sets.                               *)
LEMMA SetUndoFields ==
  ASSUME NEW g, DOMAIN g = Fields, NEW vh, NEW vb, NEW vo, NEW vt
  PROVE  LET n == [g EXCEPT !.history = vh, !.board = vb, !.thoughts = vo, !.total = vt]
         IN  /\ DOMAIN n = Fields
             /\ n.history = vh /\ n.board = vb /\ n.thoughts = vo /\ n.total = vt
             /\ n.config = g.config /\ n.undos = g.undos
BY DEF Fields

(* What one turn of the loop of undo_last_moves leaves in each field.      *)
LEMMA TakeLastFields ==
  ASSUME NEW g, DOMAIN g = Fields
  PROVE  LET n == TakeLast(g)
             last == g.history[Len(g.history)]
         IN  /\ DOMAIN n = Fields
             /\ n.history = Pop(g.history)
             /\ n.board = [g.board EXCEPT ![last.cell] = Empty]
             /\ n.thoughts = IF last.player \in g.config.human THEN g.thoughts
                                                              ELSE Pop(g.thoughts)
             /\ n.total = [g.total EXCEPT ![last.player] = g.total[last.player] - last.time]
             /\ n.config = g.config /\ n.undos = g.undos
<1> DEFINE last == g.history[Len(g.history)]
           history == Pop(g.history)
           board == [g.board EXCEPT ![last.cell] = Empty]
           thoughts == IF last.player \in g.config.human THEN g.thoughts ELSE Pop(g.thoughts)
           total == [g.total EXCEPT ![last.player] = g.total[last.player] - last.time]
           n == [g EXCEPT !.history = history, !.board = board, !.thoughts = thoughts,
                          !.total = total]
<1>1. TakeLast(g) = n
  BY Zenon DEF TakeLast
<1>2. /\ DOMAIN n = Fields
      /\ n.history = history /\ n.board = board /\ n.thoughts = thoughts
      /\ n.total = total /\ n.config = g.config /\ n.undos = g.undos
  <2> HIDE DEF history, board, thoughts, total
  <2> QED BY SetUndoFields
<1> QED BY <1>1, <1>2, Zenon

(* The fields that undo_last_moves sets after its loop.                    *)
LEMMA SetAfterUndo ==
  ASSUME NEW g, DOMAIN g = Fields, NEW vn, NEW vl, NEW vt, NEW vs, NEW vc, NEW vx
  PROVE  LET n == [g EXCEPT !.undos = vn, !.lastAi = vl, !.turn = vt, !.state = vs,
                            !.stones = vc, !.hash = vx]
         IN  /\ DOMAIN n = Fields
             /\ n.undos = vn /\ n.turn = vt /\ n.state = vs /\ n.stones = vc /\ n.hash = vx
             /\ n.lastAi = vl /\ n.total = g.total
             /\ n.history = g.history /\ n.board = g.board /\ n.thoughts = g.thoughts
             /\ n.config = g.config
BY DEF Fields

(* What undo_last_moves leaves, over the record with the moves taken off.  *)
Back(g) == IF UndoLength(g) = 1 THEN TakeLast(g) ELSE TakeLast(TakeLast(g))

(* What undo_last_moves leaves in each field.                              *)
LEMMA UndoFields ==
  ASSUME NEW g, DOMAIN Back(g) = Fields
  PROVE  LET n == Undo(g)
             back == Back(g)
             left == Len(back.history)
         IN  /\ DOMAIN n = Fields
             /\ n.turn = IF left > 0 THEN Other(back.history[left].player) ELSE "X"
             /\ n.state = "running"
             /\ n.stones = Cardinality(Taken(back.board))
             /\ n.hash = HashOf(back.board)
             /\ n.history = back.history /\ n.board = back.board
             /\ n.thoughts = back.thoughts
             /\ n.undos = back.undos + 1 /\ n.lastAi = None /\ n.total = back.total
             /\ n.config = back.config
<1> DEFINE back == Back(g)
           left == Len(back.history)
           undos == back.undos + 1
           turn == IF left > 0 THEN Other(back.history[left].player) ELSE "X"
           stones == Cardinality(Taken(back.board))
           hash == HashOf(back.board)
           n == [back EXCEPT !.undos = undos, !.lastAi = None, !.turn = turn,
                             !.state = "running", !.stones = stones, !.hash = hash]
<1>1. Undo(g) = n
  BY Zenon DEF Undo, Back
<1>2. /\ DOMAIN n = Fields
      /\ n.turn = turn /\ n.state = "running" /\ n.stones = stones /\ n.hash = hash
      /\ n.history = back.history /\ n.board = back.board /\ n.thoughts = back.thoughts
      /\ n.config = back.config
      /\ n.undos = undos /\ n.lastAi = None /\ n.total = back.total
  <2> HIDE DEF back, undos, turn, stones, hash
  <2> QED BY SetAfterUndo DEF back
<1> QED BY <1>1, <1>2, Zenon

(* The fields that a search sets.                                          *)
LEMMA SetThought ==
  ASSUME NEW g, DOMAIN g = Fields, NEW vx, NEW vo
  PROVE  LET n == [[g EXCEPT !.hash = vx] EXCEPT !.thoughts = vo]
         IN  /\ DOMAIN n = Fields
             /\ n.hash = vx /\ n.thoughts = vo /\ n.total = g.total /\ n.lastAi = g.lastAi
             /\ n.history = g.history /\ n.board = g.board /\ n.turn = g.turn
             /\ n.state = g.state /\ n.stones = g.stones /\ n.undos = g.undos
             /\ n.config = g.config
BY DEF Fields

(* The marker of the last engine move is a field of its own.               *)
LEMMA SetLastAi ==
  ASSUME NEW g, DOMAIN g = Fields, NEW v
  PROVE  LET n == [g EXCEPT !.lastAi = v]
         IN  /\ DOMAIN n = Fields
             /\ n.lastAi = v /\ n.total = g.total
             /\ n.hash = g.hash /\ n.thoughts = g.thoughts
             /\ n.history = g.history /\ n.board = g.board /\ n.turn = g.turn
             /\ n.state = g.state /\ n.stones = g.stones /\ n.undos = g.undos
             /\ n.config = g.config
BY DEF Fields

(* So is the state.                                                        *)
LEMMA SetState ==
  ASSUME NEW g, DOMAIN g = Fields, NEW v
  PROVE  LET n == [g EXCEPT !.state = v]
         IN  /\ DOMAIN n = Fields
             /\ n.state = v /\ n.total = g.total /\ n.lastAi = g.lastAi
             /\ n.hash = g.hash /\ n.thoughts = g.thoughts
             /\ n.history = g.history /\ n.board = g.board /\ n.turn = g.turn
             /\ n.stones = g.stones /\ n.undos = g.undos
             /\ n.config = g.config
BY DEF Fields

(* What find_best_ai_move leaves in each field: a thought at least, and    *)
(* the hash of the board.                                                  *)
LongerBy(thoughts, n) ==
  IF Len(thoughts) >= Window
  THEN Append(SubSeq(thoughts, Len(thoughts) - Window + 2, Len(thoughts)), n)
  ELSE Append(thoughts, n)

LEMMA ThinkFields ==
  ASSUME NEW g, DOMAIN g = Fields, g.thoughts \in Seq(Nat), NEW k \in Nat
  PROVE  LET n == Think(g, k)
         IN  /\ DOMAIN n = Fields
             /\ n.hash = HashOf(g.board)
             /\ n.thoughts \in Seq(Nat) /\ n.thoughts # <<>>
             /\ \E looked \in Nat : n.thoughts = LongerBy(g.thoughts, looked)
             /\ n.total = g.total /\ n.lastAi = g.lastAi
             /\ n.history = g.history /\ n.board = g.board /\ n.turn = g.turn
             /\ n.state = g.state /\ n.stones = g.stones /\ n.undos = g.undos
             /\ n.config = g.config
<1> DEFINE hash == HashOf(g.board)
           looked == IF Cardinality(Taken(g.board)) = 1 THEN 1 ELSE k
           old == [g EXCEPT !.hash = hash]
           thoughts == IF Len(g.thoughts) >= Window
                       THEN Append(SubSeq(g.thoughts, Len(g.thoughts) - Window + 2, Len(g.thoughts)),
                                   looked)
                       ELSE Append(g.thoughts, looked)
           n == [old EXCEPT !.thoughts = thoughts]
<1>1. old.thoughts = g.thoughts
  <2> HIDE DEF hash
  <2> QED BY DEF Fields
<1>2. Think(g, k) = n
  <2>1. Think(g, k) = AddThought(old, looked)
    BY Zenon DEF Think
  <2>2. AddThought(old, looked) =
          [old EXCEPT !.thoughts =
             IF Len(old.thoughts) >= Window
             THEN Append(SubSeq(old.thoughts, Len(old.thoughts) - Window + 2, Len(old.thoughts)),
                         looked)
             ELSE Append(old.thoughts, looked)]
    <3> HIDE DEF old, looked
    <3> QED BY Zenon DEF AddThought
  <2> HIDE DEF old, looked
  <2> QED BY <1>1, <2>1, <2>2, Zenon
<1>3. thoughts \in Seq(Nat) /\ thoughts # <<>>
  <2>1. looked \in Nat
    OBVIOUS
  <2>2. Window \in Nat \ {0}
    BY GameAssumption
  <2> HIDE DEF looked
  <2>3. CASE Len(g.thoughts) >= Window
    <3> DEFINE tail == SubSeq(g.thoughts, Len(g.thoughts) - Window + 2, Len(g.thoughts))
    <3>1. tail \in Seq(Nat)
      BY <2>2, <2>3
    <3> HIDE DEF tail
    <3>2. Append(tail, looked) \in Seq(Nat) /\ Append(tail, looked) # <<>>
      BY <2>1, <3>1, AppendProperties
    <3> QED BY <2>3, <3>2 DEF tail
  <2>4. CASE ~(Len(g.thoughts) >= Window)
    <3>1. /\ Append(g.thoughts, looked) \in Seq(Nat)
          /\ Append(g.thoughts, looked) # <<>>
      BY <2>1, AppendProperties
    <3> QED BY <2>4, <3>1
  <2> QED BY <2>3, <2>4
<1>4. /\ DOMAIN n = Fields
      /\ n.hash = hash /\ n.thoughts = thoughts
      /\ n.total = g.total /\ n.lastAi = g.lastAi
      /\ n.history = g.history /\ n.board = g.board /\ n.turn = g.turn
      /\ n.state = g.state /\ n.stones = g.stones /\ n.undos = g.undos
      /\ n.config = g.config
  <2> HIDE DEF hash, thoughts
  <2> QED BY SetThought
<1>5. looked \in Nat /\ thoughts = LongerBy(g.thoughts, looked)
  BY DEF LongerBy
<1> HIDE DEF n, thoughts, looked
<1> QED BY <1>2, <1>3, <1>4, <1>5

-----------------------------------------------------------------------------
Entries ==
  [cell : Squares, player : Colors, time : Nat, evals : Nat, winner : BOOLEAN]

(* A board and a list of moves that tell the same game.                    *)
Follows(b, h) ==
  /\ b \in [Squares -> Colors \cup {Empty}]
  /\ h \in Seq(Entries)
  /\ \A i \in DOMAIN h : h[i].player = ColorOfPly(i)
  /\ \A i, j \in DOMAIN h : h[i].cell = h[j].cell => i = j
  /\ \A i \in DOMAIN h : b[h[i].cell] = ColorOfPly(i)
  /\ \A c \in Taken(b) : \E i \in DOMAIN h : h[i].cell = c

(* The cells of one colour after the first n moves, and: those moves end   *)
(* the game neither with a line nor with a full board.                     *)
Laid(h, n, p) == {h[i].cell : i \in {j \in 1 .. n : ColorOfPly(j) = p}}
OpenAfter(h, n) ==
  /\ ~Five(Laid(h, n, "X")) /\ ~Five(Laid(h, n, "O"))
  /\ \E c \in Squares : \A i \in 1 .. n : h[i].cell # c

(* The colours alternate.                                                  *)
LEMMA PlyColors ==
  ASSUME NEW i \in Nat
  PROVE  /\ ColorOfPly(i) \in Colors /\ ColorOfPly(i) # Empty
         /\ Other(ColorOfPly(i)) = ColorOfPly(i + 1)
         /\ Other(ColorOfPly(i + 1)) = ColorOfPly(i)
BY DEF ColorOfPly, Colors, Empty, Other

(* An entry of the history names a cell with a stone of its colour.        *)
LEMMA FollowsAt ==
  ASSUME NEW b, NEW h, Follows(b, h), NEW i \in 1 .. Len(h)
  PROVE  /\ h[i] \in Entries /\ h[i].cell \in Squares
         /\ b[h[i].cell] = ColorOfPly(i) /\ b[h[i].cell] # Empty
<1>1. i \in Nat /\ i \in DOMAIN h /\ h[i] \in Entries
  BY DEF Follows
<1>2. h[i].cell \in Squares
  BY <1>1 DEF Entries
<1>3. b[h[i].cell] = ColorOfPly(i)
  BY <1>1 DEF Follows
<1>4. ColorOfPly(i) # Empty
  BY <1>1, PlyColors
<1> QED BY <1>1, <1>2, <1>3, <1>4

(* A stone on a free cell keeps board and history together.                *)
LEMMA FollowsAppend ==
  ASSUME NEW b, NEW h, Follows(b, h), NEW entry \in Entries,
         entry.player = ColorOfPly(Len(h) + 1), b[entry.cell] = Empty
  PROVE  Follows([b EXCEPT ![entry.cell] = entry.player], Append(h, entry))
<1> DEFINE n == Len(h)
           c == entry.cell
           p == entry.player
           nb == [b EXCEPT ![c] = p]
           nh == Append(h, entry)
<1>1. n \in Nat /\ DOMAIN h = 1 .. n /\ c \in Squares /\ p \in Colors /\ p # Empty
  BY PlyColors DEF Follows, Entries
<1>2. /\ nh \in Seq(Entries) /\ Len(nh) = n + 1 /\ DOMAIN nh = 1 .. n + 1
      /\ nh[n + 1] = entry /\ \A i \in 1 .. n : nh[i] = h[i]
  BY <1>1 DEF Follows
<1>3. /\ nb \in [Squares -> Colors \cup {Empty}]
      /\ nb[c] = p /\ \A d \in Squares \ {c} : nb[d] = b[d]
  BY <1>1 DEF Follows
<1>4. \A i \in 1 .. n : h[i].cell \in Squares \ {c}
  <2> SUFFICES ASSUME NEW i \in 1 .. n PROVE h[i].cell \in Squares /\ h[i].cell # c
    OBVIOUS
  <2> QED BY FollowsAt
<1> HIDE DEF nb, nh, c, p, n
<1>5. \A i \in 1 .. n + 1 : nh[i].player = ColorOfPly(i)
  BY <1>1, <1>2 DEF Follows, n
<1>6. \A i, j \in 1 .. n + 1 : nh[i].cell = nh[j].cell => i = j
  BY <1>1, <1>2, <1>4 DEF Follows, c
<1>7. \A i \in 1 .. n + 1 : nb[nh[i].cell] = ColorOfPly(i)
  BY <1>1, <1>2, <1>3, <1>4 DEF Follows, c, p, n
<1>8. \A d \in Taken(nb) : \E i \in 1 .. n + 1 : nh[i].cell = d
  <2> SUFFICES ASSUME NEW d \in Squares, nb[d] # Empty
               PROVE  \E i \in 1 .. n + 1 : nh[i].cell = d
    BY DEF Taken
  <2>1. CASE d = c
    BY <1>1, <1>2, <2>1 DEF c
  <2>2. CASE d # c
    <3>1. d \in Taken(b)
      BY <1>3, <2>2 DEF Taken
    <3>2. PICK i \in 1 .. n : h[i].cell = d
      BY <1>1, <3>1 DEF Follows
    <3> QED BY <1>1, <1>2, <3>2
  <2> QED BY <2>1, <2>2
<1>9. Follows(nb, nh)
  BY <1>2, <1>3, <1>5, <1>6, <1>7, <1>8 DEF Follows
<1> QED BY <1>9 DEF nb, nh, c, p

(* So does taking off the last entry with its stone.                       *)
LEMMA FollowsPop ==
  ASSUME NEW b, NEW h, Follows(b, h), Len(h) >= 1
  PROVE  /\ Follows([b EXCEPT ![h[Len(h)].cell] = Empty], Pop(h))
         /\ Len(Pop(h)) = Len(h) - 1
         /\ \A i \in 1 .. Len(h) - 1 : Pop(h)[i] = h[i]
<1> DEFINE n == Len(h)
           c == h[n].cell
           nb == [b EXCEPT ![c] = Empty]
           nh == SubSeq(h, 1, n - 1)
<1>1. n \in Nat /\ DOMAIN h = 1 .. n /\ n >= 1 /\ h[n] \in Entries
  BY DEF Follows
<1>2. c \in Squares
  BY <1>1 DEF Entries
<1>3. Pop(h) = nh
  BY <1>1 DEF Pop
<1>4. /\ nh \in Seq(Entries) /\ Len(nh) = n - 1 /\ DOMAIN nh = 1 .. n - 1
      /\ \A i \in 1 .. n - 1 : nh[i] = h[i]
  BY <1>1 DEF Follows
<1>5. /\ nb \in [Squares -> Colors \cup {Empty}]
      /\ nb[c] = Empty /\ \A d \in Squares \ {c} : nb[d] = b[d]
  BY <1>2 DEF Follows
<1>6. \A i \in 1 .. n - 1 : h[i].cell \in Squares \ {c}
  <2> SUFFICES ASSUME NEW i \in 1 .. n - 1 PROVE h[i].cell \in Squares /\ h[i].cell # c
    OBVIOUS
  <2>1. h[i] \in Entries
    BY <1>1 DEF Follows
  <2> QED BY <1>1, <2>1 DEF Entries, Follows
<1> HIDE DEF nb, nh, c, n
<1>7. \A i \in 1 .. n - 1 : nh[i].player = ColorOfPly(i)
  BY <1>1, <1>4 DEF Follows
<1>8. \A i, j \in 1 .. n - 1 : nh[i].cell = nh[j].cell => i = j
  BY <1>1, <1>4 DEF Follows
<1>9. \A i \in 1 .. n - 1 : nb[nh[i].cell] = ColorOfPly(i)
  BY <1>1, <1>4, <1>5, <1>6 DEF Follows
<1>10. \A d \in Taken(nb) : \E i \in 1 .. n - 1 : nh[i].cell = d
  <2> SUFFICES ASSUME NEW d \in Squares, nb[d] # Empty
               PROVE  \E i \in 1 .. n - 1 : nh[i].cell = d
    BY DEF Taken
  <2>1. d # c /\ d \in Taken(b)
    BY <1>5 DEF Taken
  <2>2. PICK i \in 1 .. n : h[i].cell = d
    BY <1>1, <2>1 DEF Follows
  <2>3. i # n
    BY <2>1, <2>2 DEF c
  <2> QED BY <1>1, <1>4, <2>2, <2>3
<1>11. Follows(nb, nh)
  BY <1>4, <1>5, <1>7, <1>8, <1>9, <1>10 DEF Follows
<1> QED BY <1>3, <1>4, <1>11 DEF nb, c, n

(* A history has as many entries as the board has stones.                  *)
LEMMA FollowsCount ==
  ASSUME NEW b, NEW h, Follows(b, h)
  PROVE  Cardinality(Taken(b)) = Len(h)
<1> DEFINE n == Len(h)
           f == [i \in 1 .. n |-> h[i].cell]
<1>1. n \in Nat /\ DOMAIN h = 1 .. n /\ \A i \in 1 .. n : h[i] \in Entries
  BY DEF Follows
<1>2. \A i \in 1 .. n : h[i].cell \in Taken(b)
  BY FollowsAt DEF Taken
<1>3. f \in Bijection(1 .. n, Taken(b))
  <2>1. f \in [1 .. n -> Taken(b)]
    BY <1>2
  <2>2. \A i, j \in 1 .. n : f[i] = f[j] => i = j
    BY <1>1 DEF Follows
  <2>3. \A c \in Taken(b) : \E i \in 1 .. n : f[i] = c
    BY <1>1 DEF Follows
  <2> HIDE DEF f
  <2> QED BY <2>1, <2>2, <2>3 DEF Bijection, Injection, Surjection, IsInjective
<1>4. ExistsBijection(1 .. n, Taken(b))
  BY <1>3 DEF ExistsBijection
<1> HIDE DEF n
<1> QED BY <1>1, <1>4, FS_CountingElements DEF n

(* The verdict on a board depends on the list of moves alone.              *)
LEMMA VerdictOnBoard ==
  ASSUME NEW b, NEW h, Follows(b, h)
  PROVE  /\ \A p \in Colors : StonesOf(b, p) = Laid(h, Len(h), p)
         /\ Free(b) = {} <=> \A c \in Squares : \E i \in 1 .. Len(h) : h[i].cell = c
         /\ Verdict(b, "running") = "running" <=> OpenAfter(h, Len(h))
<1> DEFINE n == Len(h)
<1>1. /\ n \in Nat /\ DOMAIN h = 1 .. n
      /\ \A i \in 1 .. n : h[i].cell \in Squares /\ b[h[i].cell] = ColorOfPly(i)
                           /\ b[h[i].cell] # Empty
  BY FollowsAt DEF Follows
<1>2. \A c \in Squares : b[c] # Empty => \E i \in 1 .. n : h[i].cell = c
  BY <1>1 DEF Follows, Taken
<1>3. ASSUME NEW p \in Colors PROVE StonesOf(b, p) = Laid(h, n, p)
  <2>1. p # Empty
    BY DEF Colors, Empty
  <2> QED BY <1>1, <1>2, <2>1 DEF StonesOf, Laid
<1>4. Free(b) = {} <=> \A c \in Squares : \E i \in 1 .. n : h[i].cell = c
  BY <1>1, <1>2 DEF Free
<1>5. "X" \in Colors /\ "O" \in Colors
  BY DEF Colors
<1>6. Verdict(b, "running") = "running" <=> OpenAfter(h, n)
  <2>1. Verdict(b, "running") = "running" <=>
          ~Five(StonesOf(b, "X")) /\ ~Five(StonesOf(b, "O")) /\ Free(b) # {}
    BY DEF Verdict
  <2> HIDE DEF n
  <2> QED BY <1>3, <1>4, <1>5, <2>1 DEF OpenAfter
<1> QED BY <1>3, <1>4, <1>6

(* A prefix is open whatever comes after it.                               *)
LEMMA OpenAfterPrefix ==
  ASSUME NEW h, NEW k, NEW n \in Nat, \A i \in 1 .. n : h[i] = k[i]
  PROVE  OpenAfter(h, n) <=> OpenAfter(k, n)
<1>1. ASSUME NEW p PROVE Laid(h, n, p) = Laid(k, n, p)
  BY DEF Laid
<1> QED BY <1>1 DEF OpenAfter

-----------------------------------------------------------------------------
States == {"running", "quit", "X", "O", "draw"}
Ended(g) == g.state \in {"X", "O", "draw"}

(* A record that agrees with its history, whose proper prefixes are open.  *)
Sound(g) ==
  /\ DOMAIN g = Fields
  /\ Follows(g.board, g.history)
  /\ g.thoughts \in Seq(Nat)
  /\ g.state \in States
  /\ g.turn = ColorOfPly(IF Ended(g) THEN Len(g.history) ELSE Len(g.history) + 1)
  /\ g.stones = Len(g.history) /\ g.hash = HashOf(g.board)
  /\ Ended(g) <=> Verdict(g.board, "running") # "running"
  /\ Ended(g) => g.state = Verdict(g.board, "running")
  /\ \A i \in DOMAIN g.history :
       g.history[i].winner <=> i = Len(g.history) /\ g.state \in Colors
  /\ \A n \in 0 .. Len(g.history) - 1 : OpenAfter(g.history, n)

(* What BoardGame makes of the moves is what check_game_state makes of the *)
(* board.                                                                  *)
MovesOf(h) == [i \in DOMAIN h |-> h[i].cell]
Seen(verdict) == IF verdict = "running" THEN "open" ELSE verdict

(* The two verdicts agree.                                                 *)
LEMMA OutcomeIsVerdict ==
  ASSUME NEW b, NEW h, Follows(b, h)
  PROVE  Abstract!Outcome(MovesOf(h)) = Seen(Verdict(b, "running"))
<1> DEFINE n == Len(h)
           ms == MovesOf(h)
<1>1. n \in Nat /\ DOMAIN h = 1 .. n /\ DOMAIN ms = 1 .. n
      /\ \A i \in 1 .. n : ms[i] = h[i].cell
  BY DEF Follows, MovesOf
<1>2. "X" \in Colors /\ "O" \in Colors
  BY DEF Colors
<1> HIDE DEF n, ms
<1>3. \A i \in 1 .. n : (ColorOfPly(i) = "X" <=> i % 2 = 1) /\ (ColorOfPly(i) = "O" <=> i % 2 # 1)
  BY DEF ColorOfPly
<1>4. Abstract!Stones(ms, TRUE) = StonesOf(b, "X")
  <2>1. Abstract!Stones(ms, TRUE) = Laid(h, n, "X")
    BY <1>1, <1>3 DEF Abstract!Stones, Laid
  <2> QED BY <1>2, <2>1, VerdictOnBoard DEF n
<1>5. Abstract!Stones(ms, FALSE) = StonesOf(b, "O")
  <2>1. Abstract!Stones(ms, FALSE) = Laid(h, n, "O")
    BY <1>1, <1>3 DEF Abstract!Stones, Laid
  <2> QED BY <1>2, <2>1, VerdictOnBoard DEF n
<1>6. (\A c \in Squares : \E i \in DOMAIN ms : ms[i] = c) <=> Free(b) = {}
  BY <1>1, VerdictOnBoard DEF n
<1>7. Abstract!Outcome(ms) = IF Five(StonesOf(b, "X")) THEN "X"
                             ELSE IF Five(StonesOf(b, "O")) THEN "O"
                             ELSE IF Free(b) = {} THEN "draw" ELSE "open"
  BY <1>4, <1>5, <1>6 DEF Abstract!Outcome
<1>8. Seen(Verdict(b, "running")) = IF Five(StonesOf(b, "X")) THEN "X"
                             ELSE IF Five(StonesOf(b, "O")) THEN "O"
                             ELSE IF Free(b) = {} THEN "draw" ELSE "open"
  BY DEF Seen, Verdict
<1> QED BY <1>7, <1>8 DEF ms

(* What of a record its soundness depends on.                              *)
Alike(m, g) ==
  /\ DOMAIN m = Fields
  /\ m.board = g.board /\ m.history = g.history /\ m.turn = g.turn
  /\ m.state = g.state /\ m.stones = g.stones
  /\ m.hash = HashOf(g.board)
  /\ m.thoughts \in Seq(Nat)

(* Soundness is about the fields Alike names.                              *)
LEMMA AlikeSound ==
  ASSUME NEW g, Sound(g), NEW m, Alike(m, g)
  PROVE  Sound(m)
BY DEF Alike, Sound, Ended

(* The verdict on a running game.                                          *)
LEMMA VerdictTyped ==
  ASSUME NEW b
  PROVE  Verdict(b, "running") \in {"running", "X", "O", "draw"}
BY DEF Verdict

(* One key XORed in is the hash of the board with the stone.               *)
LEMMA HashOfPlaced ==
  ASSUME NEW b \in [Squares -> Colors \cup {Empty}], NEW c \in Squares, b[c] = Empty,
         NEW p \in Colors
  PROVE  Xor(HashOf(b), <<p, c>>) = HashOf([b EXCEPT ![c] = p])
<1> DEFINE nb == [b EXCEPT ![c] = p]
<1>1. p # Empty
  BY DEF Colors, Empty
<1>2. nb[c] = p /\ \A d \in Squares \ {c} : nb[d] = b[d]
  OBVIOUS
<1> HIDE DEF nb
<1>3. Taken(nb) = Taken(b) \cup {c} /\ c \notin Taken(b)
  BY <1>1, <1>2 DEF Taken
<1>4. <<p, c>> \notin HashOf(b)
  BY <1>3 DEF HashOf
<1>5. HashOf(nb) = HashOf(b) \cup {<<p, c>>}
  <2>1. \A d \in Taken(b) : d # c /\ nb[d] = b[d]
    BY <1>2, <1>3 DEF Taken
  <2>2. HashOf(nb) = {<<nb[d], d>> : d \in Taken(b)} \cup {<<nb[c], c>>}
    BY <1>3 DEF HashOf
  <2>3. {<<nb[d], d>> : d \in Taken(b)} = {<<b[d], d>> : d \in Taken(b)}
    BY <2>1
  <2> QED BY <1>2, <2>2, <2>3 DEF HashOf
<1> QED BY <1>4, <1>5 DEF Xor, nb

(* What make_move makes of a running game, on a cell that is free.         *)
Moved(m, g, c) ==
  /\ Sound(m)
  /\ MovesOf(m.history) = Append(MovesOf(g.history), c)
  /\ \A i \in DOMAIN MovesOf(g.history) : MovesOf(g.history)[i] # c
  /\ m.state \in {"running", "X", "O", "draw"}
  /\ Abstract!Outcome(MovesOf(m.history)) = Seen(m.state)
  /\ m.undos = g.undos

(* make_move keeps a running record sound, and is a move of BoardGame.     *)
LEMMA MoveSound ==
  ASSUME NEW g, Sound(g), g.state = "running", NEW c, Valid(g.board, c),
         NEW t \in Nat, NEW e \in Nat
  PROVE  Moved(MakeMove(g, c, g.turn, t, e), g, c)
<1> DEFINE b == g.board
           h == g.history
           n == Len(h)
           p == g.turn
           nb == [b EXCEPT ![c] = p]
           verdict == Verdict(nb, "running")
           entry == Entry(g, c, p, t, e)
           nh == Append(h, entry)
           m == MakeMove(g, c, p, t, e)
<1>1. /\ DOMAIN m = Fields
      /\ m.board = nb /\ m.history = nh
      /\ m.stones = g.stones + 1
      /\ m.hash = Xor(g.hash, <<p, c>>)
      /\ m.state = verdict
      /\ m.turn = IF verdict = "running" THEN Other(p) ELSE p
      /\ m.thoughts = g.thoughts
      /\ m.undos = g.undos /\ m.config = g.config
  <2>1. DOMAIN g = Fields /\ Verdict(nb, g.state) = verdict
    BY DEF Sound
  <2> HIDE DEF verdict
  <2>2. /\ DOMAIN m = Fields
        /\ m.board = nb /\ m.history = nh
        /\ m.stones = g.stones + 1
        /\ m.hash = Xor(g.hash, <<p, c>>)
        /\ m.state = Verdict(nb, g.state)
        /\ m.turn = IF Verdict(nb, g.state) = "running" THEN Other(p) ELSE p
        /\ m.thoughts = g.thoughts
        /\ m.undos = g.undos /\ m.config = g.config
    <3>1. Placed(m, g, c, p, t, e)
      BY <2>1, MoveFields, Zenon
    <3> HIDE DEF m
    <3> QED BY <3>1, Zenon DEF Placed
  <2> HIDE DEF m, nb, nh, p
  <2> QED BY <2>1, <2>2
<1>2. Follows(b, h) /\ n \in Nat /\ DOMAIN h = 1 .. n /\ c \in Squares /\ b[c] = Empty
  BY DEF Sound, Follows, Valid, Free
<1>3. p = ColorOfPly(n + 1)
  BY DEF Sound, Ended
<1>4. p \in Colors
  BY <1>2, <1>3, PlyColors
<1>5. /\ entry \in Entries /\ entry.cell = c /\ entry.player = p
      /\ entry.winner <=> verdict \in Colors
  <2> DEFINE won == verdict \in Colors
             record(w) == [cell |-> c, player |-> p, time |-> t, evals |-> e, winner |-> w]
  <2>1. entry = record(won)
    BY Zenon DEF Entry
  <2>2. won \in BOOLEAN
    OBVIOUS
  <2> HIDE DEF won
  <2>3. record(won) \in Entries /\ record(won).winner = won
        /\ record(won).cell = c /\ record(won).player = p
    BY <1>2, <1>4, <2>2 DEF Entries
  <2> HIDE DEF entry, record
  <2> QED BY <2>1, <2>3 DEF won
<1>6. OpenAfter(h, n)
  BY <1>2, VerdictOnBoard DEF Sound, Ended
<1> HIDE DEF entry
<1>7. Follows(nb, nh)
  BY <1>2, <1>3, <1>5, FollowsAppend
<1>8. /\ Len(nh) = n + 1 /\ DOMAIN nh = 1 .. n + 1 /\ nh[n + 1] = entry
      /\ \A i \in 1 .. n : nh[i] = h[i]
  BY <1>2, <1>5 DEF Follows
<1>9. verdict \in {"running", "X", "O", "draw"}
  BY VerdictTyped
<1>10. m.stones = n + 1 /\ m.hash = HashOf(nb)
  <2>1. Xor(HashOf(b), <<p, c>>) = HashOf(nb)
    BY <1>2, <1>4, HashOfPlaced DEF Follows
  <2>2. g.stones = n /\ g.hash = HashOf(b)
    BY DEF Sound
  <2> QED BY <1>1, <2>1, <2>2
<1>11. \A i \in 1 .. n : ~h[i].winner
  BY <1>2 DEF Sound, Colors
<1> HIDE DEF nb, nh, verdict, m
<1>12. Ended(m) <=> verdict # "running"
  BY <1>1, <1>9 DEF Ended
<1>13. m.turn = ColorOfPly(IF Ended(m) THEN Len(m.history) ELSE Len(m.history) + 1)
  <2>1. Other(ColorOfPly(n + 1)) = ColorOfPly((n + 1) + 1)
    BY <1>2, PlyColors
  <2> HIDE DEF n, p
  <2>2. m.turn = IF Ended(m) THEN ColorOfPly(n + 1) ELSE ColorOfPly((n + 1) + 1)
    BY <1>1, <1>3, <1>12, <2>1
  <2> QED BY <1>1, <1>8, <2>2
<1>14. \A i \in DOMAIN m.history :
         m.history[i].winner <=> i = Len(m.history) /\ m.state \in Colors
  <2>1. \A i \in 1 .. n + 1 : nh[i].winner <=> i = n + 1 /\ verdict \in Colors
    BY <1>2, <1>5, <1>8, <1>11
  <2> QED BY <1>1, <1>8, <2>1
<1>15. \A k \in 0 .. Len(m.history) - 1 : OpenAfter(m.history, k)
  <2> SUFFICES ASSUME NEW k \in 0 .. n PROVE OpenAfter(nh, k)
    BY <1>1, <1>2, <1>8
  <2>1. OpenAfter(h, k)
    <3>1. CASE k = n
      BY <1>6, <3>1
    <3>2. CASE k # n
      BY <1>2, <3>2 DEF Sound
    <3> QED BY <3>1, <3>2
  <2>2. \A i \in 1 .. k : h[i] = nh[i]
    BY <1>2, <1>8
  <2> QED BY <1>2, <2>1, <2>2, OpenAfterPrefix
<1>16. /\ Ended(m) <=> Verdict(m.board, "running") # "running"
       /\ Ended(m) => m.state = Verdict(m.board, "running")
  BY <1>1, <1>12 DEF verdict
<1>17. m.thoughts \in Seq(Nat) /\ m.state \in States /\ Follows(m.board, m.history)
  BY <1>1, <1>7, <1>9 DEF Sound, States
<1>18. Sound(m)
  <2>1. m.stones = Len(m.history) /\ m.hash = HashOf(m.board) /\ DOMAIN m = Fields
    BY <1>1, <1>8, <1>10
  <2> QED BY <1>13, <1>14, <1>15, <1>16, <1>17, <2>1 DEF Sound
<1>19. \A i \in 1 .. n : h[i].cell \in Squares /\ h[i].cell # c
  BY <1>2, FollowsAt
<1>20. MovesOf(nh) = Append(MovesOf(h), c)
  <2>1. MovesOf(h) \in Seq(Squares) /\ Len(MovesOf(h)) = n
    BY <1>2, <1>19 DEF MovesOf
  <2>2. \A i \in 1 .. n + 1 : nh[i].cell = IF i = n + 1 THEN c ELSE h[i].cell
    BY <1>2, <1>5, <1>8
  <2> HIDE DEF n, h
  <2>3. \A i \in 1 .. n : MovesOf(h)[i] = h[i].cell
    BY <1>2 DEF MovesOf
  <2>4. DOMAIN MovesOf(nh) = 1 .. n + 1
        /\ \A i \in 1 .. n + 1 : MovesOf(nh)[i] = nh[i].cell
    BY <1>8 DEF MovesOf
  <2> DEFINE ms == MovesOf(h)
             longer == Append(ms, c)
             ns == MovesOf(nh)
  <2>5. /\ longer \in Seq(Squares) /\ Len(longer) = n + 1
        /\ longer[n + 1] = c /\ \A i \in 1 .. n : longer[i] = h[i].cell
    BY <1>2, <2>1, <2>3, AppendProperties
  <2>6. ns \in Seq(Squares) /\ Len(ns) = n + 1
    <3>1. ns = [i \in 1 .. n + 1 |-> nh[i].cell]
      BY <1>8 DEF MovesOf
    <3>2. \A i \in 1 .. n + 1 : nh[i].cell \in Squares
      BY <1>2, <1>19, <2>2
    <3> HIDE DEF ns
    <3> QED BY <1>2, <3>1, <3>2
  <2>7. \A i \in 1 .. n + 1 : ns[i] = longer[i]
    BY <1>2, <2>2, <2>4, <2>5
  <2> HIDE DEF ns, longer
  <2>8. ns = longer
    BY <1>2, <2>5, <2>6, <2>7, SeqEqual
  <2> QED BY <2>8 DEF ns, longer
<1>21. \A i \in DOMAIN MovesOf(h) : MovesOf(h)[i] # c
  BY <1>2, <1>19 DEF MovesOf
<1>22. Abstract!Outcome(MovesOf(nh)) = Seen(verdict)
  BY <1>7, OutcomeIsVerdict DEF verdict
<1>23. Moved(m, g, c)
  BY <1>1, <1>9, <1>18, <1>20, <1>21, <1>22 DEF Moved
<1> QED BY <1>23 DEF m

-----------------------------------------------------------------------------
(* undo_last_moves: one entry taken off, then one or two of them.          *)
Peeled(m, g, k) ==
  /\ DOMAIN m = Fields
  /\ Follows(m.board, m.history)
  /\ m.thoughts \in Seq(Nat)
  /\ Len(m.history) = Len(g.history) - k
  /\ \A i \in 1 .. Len(g.history) - k : m.history[i] = g.history[i]
  /\ m.config = g.config

(* One entry taken off.                                                    *)
LEMMA TakeLastPeels ==
  ASSUME NEW g, DOMAIN g = Fields, Follows(g.board, g.history),
         g.thoughts \in Seq(Nat), Len(g.history) >= 1
  PROVE  Peeled(TakeLast(g), g, 1)
<1> DEFINE m == TakeLast(g)
           cell == g.history[Len(g.history)].cell
           board == [g.board EXCEPT ![cell] = Empty]
<1>1. /\ DOMAIN m = Fields
      /\ m.history = Pop(g.history)
      /\ m.board = board
      /\ m.thoughts \in {g.thoughts, Pop(g.thoughts)}
      /\ m.config = g.config
  BY TakeLastFields
<1>2. /\ Follows(board, Pop(g.history))
      /\ Len(Pop(g.history)) = Len(g.history) - 1
      /\ \A i \in 1 .. Len(g.history) - 1 : Pop(g.history)[i] = g.history[i]
  BY FollowsPop
<1>3. Pop(g.thoughts) \in Seq(Nat)
  <2>1. CASE g.thoughts = <<>>
    BY <2>1 DEF Pop
  <2>2. CASE g.thoughts # <<>>
    <3>1. Pop(g.thoughts) = SubSeq(g.thoughts, 1, Len(g.thoughts) - 1)
      BY <2>2 DEF Pop
    <3>2. Len(g.thoughts) \in Nat
      OBVIOUS
    <3>3. SubSeq(g.thoughts, 1, Len(g.thoughts) - 1) \in Seq(Nat)
      BY <3>2
    <3> QED BY <3>1, <3>3
  <2> QED BY <2>1, <2>2
<1>4. m.thoughts \in Seq(Nat)
  BY <1>1, <1>3
<1> HIDE DEF m, board
<1> QED BY <1>1, <1>2, <1>4 DEF Peeled, m

(* As many entries taken off as can_undo and undo_last_moves say.          *)
LEMMA BackPeels ==
  ASSUME NEW g, Sound(g), Len(g.history) >= UndoLength(g)
  PROVE  UndoLength(g) \in {1, 2} /\ Peeled(Back(g), g, UndoLength(g))
<1> DEFINE k == UndoLength(g)
           one == TakeLast(g)
           two == TakeLast(one)
<1>1. k \in {1, 2}
  BY DEF UndoLength
<1>2. Len(g.history) \in Nat /\ Len(g.history) >= 1
  BY <1>1 DEF Sound, Follows
<1>3. Peeled(one, g, 1)
  BY <1>2, TakeLastPeels DEF Sound
<1>4. CASE k = 1
  <2>1. Back(g) = one
    BY <1>4 DEF Back
  <2> QED BY <1>3, <1>4, <2>1
<1>5. CASE k = 2
  <2>1. Back(g) = two
    BY <1>5 DEF Back
  <2> HIDE DEF one, two
  <2>2. Len(one.history) = Len(g.history) - 1 /\ Len(one.history) >= 1
    BY <1>2, <1>3, <1>5 DEF Peeled
  <2>3. Peeled(two, one, 1)
    BY <1>3, <2>2, TakeLastPeels DEF Peeled, two
  <2>4. Len(two.history) = Len(g.history) - 2
    BY <1>2, <2>2, <2>3 DEF Peeled
  <2>5. \A i \in 1 .. Len(g.history) - 2 : two.history[i] = g.history[i]
    BY <1>2, <1>3, <2>2, <2>3 DEF Peeled
  <2>6. Peeled(two, g, 2)
    BY <1>3, <2>3, <2>4, <2>5 DEF Peeled
  <2> QED BY <1>5, <2>1, <2>6
<1> QED BY <1>1, <1>4, <1>5

(* undo_last_moves keeps the record sound: the position it returns to was  *)
(* open, because every proper prefix is.                                   *)
LEMMA UndoSound ==
  ASSUME NEW g, Sound(g), g.state = "running", Len(g.history) >= UndoLength(g)
  PROVE  LET m == Undo(g)
             k == UndoLength(g)
         IN  /\ Sound(m) /\ m.state = "running" /\ k \in {1, 2}
             /\ Len(m.history) = Len(g.history) - k
             /\ MovesOf(m.history) = SubSeq(MovesOf(g.history), 1, Len(g.history) - k)
             /\ m.config = g.config
             /\ m.turn \in Colors /\ (k = 2 => m.turn = g.turn)
<1> DEFINE back == Back(g)
           m == Undo(g)
           k == UndoLength(g)
           n == Len(g.history)
           left == Len(back.history)
           h == g.history
           bh == back.history
<1>1. k \in {1, 2} /\ Peeled(back, g, k)
  BY BackPeels
<1>2. /\ DOMAIN m = Fields
      /\ m.turn = IF left > 0 THEN Other(bh[left].player) ELSE "X"
      /\ m.state = "running"
      /\ m.stones = Cardinality(Taken(back.board))
      /\ m.hash = HashOf(back.board)
      /\ m.history = bh /\ m.board = back.board
      /\ m.thoughts = back.thoughts
      /\ m.config = back.config
  BY <1>1, UndoFields, Zenon DEF Peeled
<1> HIDE DEF back, m, k
<1>3. n \in Nat /\ DOMAIN h = 1 .. n /\ n >= k
  BY DEF Sound, Follows, k
<1>4. /\ Follows(back.board, bh) /\ left = n - k /\ left \in Nat
      /\ DOMAIN bh = 1 .. left /\ \A i \in 1 .. left : bh[i] = h[i]
      /\ back.thoughts \in Seq(Nat) /\ back.config = g.config
  BY <1>1, <1>3 DEF Peeled, Follows
<1>5. OpenAfter(bh, left)
  <2>1. left \in 0 .. n - 1
    BY <1>1, <1>3, <1>4
  <2>2. OpenAfter(h, left)
    BY <2>1 DEF Sound
  <2> HIDE DEF left, bh, h
  <2> QED BY <1>4, <2>2, OpenAfterPrefix
<1>6. Verdict(m.board, "running") = "running"
  BY <1>2, <1>4, <1>5, VerdictOnBoard
<1>7. m.turn = ColorOfPly(left + 1)
  <2>1. CASE left > 0
    <3>1. bh[left].player = ColorOfPly(left)
      BY <1>4, <2>1 DEF Follows
    <3>2. Other(ColorOfPly(left)) = ColorOfPly(left + 1)
      BY <1>4, PlyColors
    <3> QED BY <1>2, <2>1, <3>1, <3>2
  <2>2. CASE left = 0
    BY <1>2, <2>2 DEF ColorOfPly
  <2> QED BY <1>4, <2>1, <2>2
<1>8. ~Ended(m) /\ m.state \in States /\ m.state \notin Colors
  BY <1>2 DEF Ended, States, Colors
<1>9. \A i \in 1 .. left : ~bh[i].winner
  <2>1. \A i \in 1 .. n : ~h[i].winner
    BY <1>3 DEF Sound, Colors
  <2> QED BY <1>1, <1>3, <1>4, <2>1
<1>10. \A j \in 0 .. left - 1 : OpenAfter(bh, j)
  <2> SUFFICES ASSUME NEW j \in 0 .. left - 1 PROVE OpenAfter(bh, j)
    OBVIOUS
  <2>1. OpenAfter(h, j)
    BY <1>1, <1>3, <1>4 DEF Sound
  <2>2. j \in Nat /\ \A i \in 1 .. j : h[i] = bh[i]
    BY <1>4
  <2> HIDE DEF left, bh, h
  <2> QED BY <2>1, <2>2, OpenAfterPrefix
<1>11. Cardinality(Taken(back.board)) = left
  BY <1>4, FollowsCount
<1>12. Sound(m)
  <2>1. Follows(m.board, m.history) /\ m.thoughts \in Seq(Nat) /\ m.stones = Len(m.history)
        /\ m.hash = HashOf(m.board) /\ Len(m.history) = left
    BY <1>2, <1>4, <1>11
  <2>2. m.turn = ColorOfPly(IF Ended(m) THEN Len(m.history) ELSE Len(m.history) + 1)
    BY <1>7, <1>8, <2>1
  <2>3. \A i \in DOMAIN m.history :
          m.history[i].winner <=> i = Len(m.history) /\ m.state \in Colors
    BY <1>2, <1>4, <1>8, <1>9
  <2>4. \A j \in 0 .. Len(m.history) - 1 : OpenAfter(m.history, j)
    BY <1>2, <1>10
  <2> QED BY <1>2, <1>6, <1>8, <2>1, <2>2, <2>3, <2>4 DEF Sound
<1>13. MovesOf(m.history) = SubSeq(MovesOf(h), 1, n - k)
  <2> DEFINE ms == MovesOf(h)
             ns == MovesOf(bh)
             cut == SubSeq(ms, 1, left)
  <2>1. \A i \in 1 .. n : h[i].cell \in Squares
    BY <1>3, FollowsAt DEF Sound
  <2>2. ms \in Seq(Squares) /\ Len(ms) = n /\ \A i \in 1 .. n : ms[i] = h[i].cell
    BY <1>3, <2>1 DEF MovesOf
  <2>3. \A i \in 1 .. left : bh[i].cell \in Squares
    BY <1>4, FollowsAt
  <2>4. ns \in Seq(Squares) /\ Len(ns) = left /\ \A i \in 1 .. left : ns[i] = bh[i].cell
    BY <1>4, <2>3 DEF MovesOf
  <2> HIDE DEF ms, ns, left, n, h, bh
  <2>5. cut \in Seq(Squares) /\ Len(cut) = left /\ \A i \in 1 .. left : cut[i] = ms[i]
    BY <1>1, <1>3, <1>4, <2>2
  <2>6. left <= n
    BY <1>1, <1>3, <1>4
  <2>7. \A i \in 1 .. left : cut[i] = ns[i]
    BY <1>3, <1>4, <2>2, <2>4, <2>5, <2>6
  <2> HIDE DEF cut
  <2>8. ns = cut
    BY <2>4, <2>5, <2>7, SeqEqual
  <2> QED BY <1>2, <1>4, <2>8 DEF ns, ms, cut, left, bh
<1>14. m.turn \in Colors
  BY <1>4, <1>7, PlyColors
<1>15. k = 2 => m.turn = g.turn
  <2>1. g.turn = ColorOfPly(n + 1)
    BY DEF Sound, Ended
  <2>2. ASSUME k = 2 PROVE ColorOfPly(left + 1) = ColorOfPly(n + 1)
    <3>1. left \in Nat /\ n = left + 2
      BY <1>3, <1>4, <2>2
    <3> HIDE DEF left, n
    <3>2. (left + 1) % 2 = ((left + 2) + 1) % 2
      BY <3>1
    <3> QED BY <3>1, <3>2 DEF ColorOfPly
  <2> HIDE DEF left, n
  <2> QED BY <1>7, <2>1, <2>2
<1>16. Len(m.history) = n - k
  BY <1>2, <1>4
<1> QED BY <1>1, <1>2, <1>4, <1>12, <1>13, <1>14, <1>15, <1>16 DEF m, k

-----------------------------------------------------------------------------
(* Induction on a number, for a property given as a set.                   *)
LEMMA Induction ==
  ASSUME NEW S, 0 \in S, \A n \in Nat : n \in S => n + 1 \in S
  PROVE  Nat \subseteq S
<1> DEFINE T == Nat \ S
<1> SUFFICES ASSUME T # {} PROVE FALSE
  OBVIOUS
<1>1. PICK x \in T : \A y \in T : <<y, x>> \notin OpToRel(<,Nat)
  BY WFMin, NatLessThanWellFounded, Zenon
<1>2. \A y \in T : ~ (y < x)
  BY <1>1 DEF OpToRel
<1>3. x # 0 /\ x \in Nat
  OBVIOUS
<1>4. x - 1 \in Nat /\ x - 1 < x /\ x - 1 \notin T
  BY <1>2, <1>3
<1> QED BY <1>4

(* Max of a set of numbers up to k + 1 that has k + 1 in it.               *)
LEMMA MaxIsLast ==
  ASSUME NEW k \in Nat, NEW s \in SUBSET (1 .. k + 1), k + 1 \in s
  PROVE  Max(s) = k + 1 /\ s \ {k + 1} \in SUBSET (1 .. k)
<1>1. \A y \in s : k + 1 >= y
  OBVIOUS
<1>2. \A x \in s : (\A y \in s : x >= y) => x = k + 1
  OBVIOUS
<1>3. Max(s) = k + 1
  BY <1>1, <1>2 DEF Max
<1> QED BY <1>3

(* f lists what the entries add up to after each of them.                  *)
Adds(f, human, moves, n) ==
  /\ f[0] = NewLedger(human)
  /\ \A k \in 0 .. n - 1 : f[k + 1] = Enter(f[k], moves[k + 1])
  /\ Ledger(human, moves) = f[n]

(* Entries are added up one after the other.                               *)
LEMMA EntryByEntry ==
  ASSUME NEW human, NEW moves, NEW n \in Nat, DOMAIN moves = 1 .. n
  PROVE  \E after : Adds(after, human, moves, n)
<1> DEFINE Value(f, s) ==
             IF s = {} THEN NewLedger(human) ELSE Enter(f[s \ {Max(s)}], moves[Max(s)])
           Folds(f, k) == f = [s \in SUBSET (1 .. k) |-> Value(f, s)]
           W == {k \in Nat : \E f : Folds(f, k)}
<1>1. 0 \in W
  <2> DEFINE f == [s \in SUBSET (1 .. 0) |-> NewLedger(human)]
  <2>1. \A s \in SUBSET (1 .. 0) : s = {}
    OBVIOUS
  <2>2. Folds(f, 0)
    BY <2>1
  <2> QED BY <2>2
<1>2. ASSUME NEW k \in Nat, k \in W PROVE k + 1 \in W
  <2>1. PICK f : Folds(f, k)
    BY <1>2
  <2> DEFINE g == [s \in SUBSET (1 .. k + 1) |->
                     IF k + 1 \in s THEN Enter(f[s \ {k + 1}], moves[k + 1]) ELSE f[s]]
  <2>2. ASSUME NEW s \in SUBSET (1 .. k + 1) PROVE g[s] = Value(g, s)
    <3>1. CASE k + 1 \in s
      <4>1. Max(s) = k + 1 /\ s \ {k + 1} \in SUBSET (1 .. k) /\ s # {}
        BY <3>1, MaxIsLast
      <4>2. g[s \ {k + 1}] = f[s \ {k + 1}]
        BY <4>1
      <4> QED BY <3>1, <4>1, <4>2
    <3>2. CASE k + 1 \notin s
      <4>1. s \in SUBSET (1 .. k)
        BY <3>2
      <4>2. g[s] = f[s] /\ f[s] = Value(f, s)
        BY <2>1, <3>2, <4>1
      <4>3. ASSUME s # {} PROVE g[s \ {Max(s)}] = f[s \ {Max(s)}]
        BY <4>1, <3>2
      <4> QED BY <4>2, <4>3
    <3> QED BY <3>1, <3>2
  <2>3. g = [s \in SUBSET (1 .. k + 1) |-> g[s]]
    OBVIOUS
  <2>4. Folds(g, k + 1)
    <3> HIDE DEF Value, g
    <3> QED BY <2>2, <2>3
  <2> HIDE DEF Folds
  <2> QED BY <2>4
<1>3. n \in W
  <2> HIDE DEF W
  <2> QED BY <1>1, <1>2, Induction
<1> DEFINE iter == CHOOSE f : Folds(f, n)
<1>4. Folds(iter, n)
  <2> HIDE DEF Folds
  <2> QED BY <1>3
<1>5. Ledger(human, moves) = iter[1 .. n]
  BY DEF Ledger, FoldLeft, MapThenFoldSet
<1> HIDE DEF iter
<1> DEFINE after == [k \in 0 .. n |-> iter[1 .. k]]
<1>6. after[0] = NewLedger(human)
  BY <1>4
<1>7. ASSUME NEW k \in 0 .. n - 1
      PROVE  after[k + 1] = Enter(after[k], moves[k + 1])
  <2>1. 1 .. k + 1 \in SUBSET (1 .. n) /\ k + 1 \in 1 .. k + 1
    OBVIOUS
  <2>2. Max(1 .. k + 1) = k + 1 /\ (1 .. k + 1) \ {k + 1} = 1 .. k
    BY <2>1, MaxIsLast
  <2>3. iter[1 .. k + 1] = Value(iter, 1 .. k + 1)
    BY <1>4, <2>1
  <2>4. iter[1 .. k + 1] = Enter(iter[1 .. k], moves[k + 1])
    BY <2>1, <2>2, <2>3
  <2>5. k \in 0 .. n /\ k + 1 \in 0 .. n
    OBVIOUS
  <2> QED BY <2>4, <2>5
<1>8. Ledger(human, moves) = after[n]
  BY <1>5
<1> HIDE DEF after
<1> QED BY <1>6, <1>7, <1>8 DEF Adds
(* One entry more is one entry more to add.                                *)
LEMMA LedgerMore ==
  ASSUME NEW human, NEW S, NEW moves \in Seq(S), NEW m \in S
  PROVE  Ledger(human, Append(moves, m)) = Enter(Ledger(human, moves), m)
<1> DEFINE n == Len(moves)
           more == Append(moves, m)
<1>1. /\ n \in Nat /\ DOMAIN moves = 1 .. n /\ DOMAIN more = 1 .. n + 1
      /\ \A k \in 1 .. n : more[k] = moves[k]
      /\ more[n + 1] = m
  OBVIOUS
<1> HIDE DEF n, more
<1>2. PICK f : Adds(f, human, moves, n)
  BY <1>1, EntryByEntry
<1>3. PICK g : Adds(g, human, more, n + 1)
  <2>1. n + 1 \in Nat
    BY <1>1
  <2> QED BY <1>1, <2>1, EntryByEntry
<1> DEFINE W == {k \in Nat : k <= n => f[k] = g[k]}
<1>4. 0 \in W
  BY <1>2, <1>3 DEF Adds
<1>5. ASSUME NEW k \in Nat, k \in W PROVE k + 1 \in W
  <2> SUFFICES ASSUME k + 1 <= n PROVE f[k + 1] = g[k + 1]
    OBVIOUS
  <2>1. k \in 0 .. n - 1 /\ k \in 0 .. (n + 1) - 1 /\ more[k + 1] = moves[k + 1] /\ f[k] = g[k]
    BY <1>1, <1>5
  <2> QED BY <1>2, <1>3, <2>1 DEF Adds
<1>6. n \in W
  <2> HIDE DEF W
  <2> QED BY <1>1, <1>4, <1>5, Induction
<1>7. n \in 0 .. (n + 1) - 1 /\ f[n] = g[n]
  BY <1>1, <1>6
<1> QED BY <1>1, <1>2, <1>3, <1>7 DEF more, Adds

(* Without an entry, there is nothing to add up.                           *)
LEMMA LedgerNothing ==
  ASSUME NEW human
  PROVE  Ledger(human, <<>>) = NewLedger(human)
<1>1. DOMAIN <<>> = 1 .. 0
  OBVIOUS
<1> QED BY <1>1, EntryByEntry, 0 \in Nat DEF Adds

(* What holds of the empty list, and of a longer list when it holds of the *)
(* shorter one, holds of every list.                                       *)
LEMMA ListInduction ==
  ASSUME NEW S, NEW T, <<>> \in T,
         \A s \in Seq(S), m \in S : s \in T => Append(s, m) \in T
  PROVE  Seq(S) \subseteq T
<1> DEFINE W == {n \in Nat : \A s \in Seq(S) : Len(s) = n => s \in T}
<1>1. 0 \in W
  OBVIOUS
<1>2. ASSUME NEW n \in Nat, n \in W PROVE n + 1 \in W
  <2> SUFFICES ASSUME NEW s \in Seq(S), Len(s) = n + 1 PROVE s \in T
    OBVIOUS
  <2> DEFINE front == SubSeq(s, 1, n)
  <2>1. front \in Seq(S) /\ Len(front) = n /\ s[n + 1] \in S /\ s = Append(front, s[n + 1])
    OBVIOUS
  <2> HIDE DEF front
  <2>2. front \in T
    BY <1>2, <2>1
  <2> QED BY <2>1, <2>2
<1>3. Nat \subseteq W
  <2> HIDE DEF W
  <2> QED BY <1>1, <1>2, Induction
<1> QED BY <1>3

(* What the ledger of a history is.                                        *)
LEMMA LedgerTyped ==
  ASSUME NEW human, NEW h \in Seq(Entries)
  PROVE  /\ Ledger(human, h).human = human
         /\ Ledger(human, h).spent \in [Colors -> Nat]
         /\ Ledger(human, h).engine \in Seq(Entries)
<1> DEFINE Typed(l) == /\ l.human = human
                       /\ l.spent \in [Colors -> Nat]
                       /\ l.engine \in Seq(Entries)
           T == {s \in Seq(Entries) : Typed(Ledger(human, s))}
<1>1. <<>> \in T
  <2>1. <<>> \in Seq(Entries)
    OBVIOUS
  <2>2. Ledger(human, <<>>) = NewLedger(human)
    BY LedgerNothing
  <2>3. Typed(NewLedger(human))
    BY <2>1 DEF NewLedger
  <2> QED BY <2>1, <2>2, <2>3
<1>2. ASSUME NEW s \in Seq(Entries), NEW m \in Entries, s \in T PROVE Append(s, m) \in T
  <2> DEFINE l == Ledger(human, s)
  <2>1. Typed(l)
    BY <1>2
  <2>2. m.player \in Colors /\ m.time \in Nat
    BY DEF Entries
  <2>3. Ledger(human, Append(s, m)) = Enter(l, m)
    BY LedgerMore
  <2> HIDE DEF l
  <2>4. Typed(Enter(l, m))
    <3>1. Enter(l, m).human = human
      BY <2>1 DEF Enter
    <3>2. Enter(l, m).spent \in [Colors -> Nat]
      <4>1. [l.spent EXCEPT ![m.player] = l.spent[m.player] + m.time] \in [Colors -> Nat]
        BY <2>1, <2>2
      <4> QED BY <4>1 DEF Enter
    <3>3. Enter(l, m).engine \in Seq(Entries)
      BY <2>1 DEF Enter
    <3> QED BY <3>1, <3>2, <3>3
  <2>5. Append(s, m) \in Seq(Entries)
    OBVIOUS
  <2> HIDE DEF Typed
  <2> QED BY <2>3, <2>4, <2>5
<1>3. Seq(Entries) \subseteq T
  <2> HIDE DEF T
  <2> QED BY <1>1, <1>2, ListInduction
<1> QED BY <1>3

-----------------------------------------------------------------------------
(* The thoughts t are about the last of the engine's entries e, one each,  *)
(* but for the first entry of the game.                                    *)
Match(t, e, first) ==
  /\ Len(t) <= Len(e)
  /\ \A k \in 0 .. Len(t) - 1 : \/ e[Len(e) - k].evals = t[Len(t) - k]
                                \/ e[Len(e) - k] = first

(* A thought and an entry more.                                            *)
LEMMA MatchMore ==
  ASSUME NEW t \in Seq(Nat), NEW e \in Seq(Entries), NEW first, Match(t, e, first),
         NEW v \in Nat, NEW m \in Entries, m.evals = v \/ m = first
  PROVE  Match(Append(t, v), Append(e, m), first)
<1> DEFINE tt == Append(t, v)
           ee == Append(e, m)
           a == Len(t)
           b == Len(e)
<1>1. /\ a \in Nat /\ b \in Nat /\ Len(tt) = a + 1 /\ Len(ee) = b + 1
      /\ tt[a + 1] = v /\ \A i \in 1 .. a : tt[i] = t[i]
      /\ ee[b + 1] = m /\ \A i \in 1 .. b : ee[i] = e[i]
  OBVIOUS
<1>2. a <= b /\ \A k \in 0 .. a - 1 : e[b - k].evals = t[a - k] \/ e[b - k] = first
  BY DEF Match
<1> HIDE DEF tt, ee, a, b
<1>3. ASSUME NEW k \in 0 .. (a + 1) - 1
      PROVE  ee[(b + 1) - k].evals = tt[(a + 1) - k] \/ ee[(b + 1) - k] = first
  <2>1. CASE k = 0
    BY <1>1, <2>1
  <2>2. CASE k # 0
    <3>1. /\ k - 1 \in 0 .. a - 1 /\ (b + 1) - k = b - (k - 1) /\ (a + 1) - k = a - (k - 1)
          /\ b - (k - 1) \in 1 .. b /\ a - (k - 1) \in 1 .. a
      <4>1. a \in Nat /\ b \in Nat /\ a <= b /\ k \in 1 .. a
        BY <1>1, <1>2, <2>2
      <4> QED BY <4>1
    <3>2. e[b - (k - 1)].evals = t[a - (k - 1)] \/ e[b - (k - 1)] = first
      BY <1>2, <3>1
    <3> QED BY <1>1, <3>1, <3>2
  <2> QED BY <2>1, <2>2
<1>4. Len(tt) <= Len(ee)
  BY <1>1, <1>2
<1> QED BY <1>1, <1>3, <1>4 DEF Match, tt, ee

(* What is left of thoughts when the oldest are dropped.                   *)
LEMMA SuffixTyped ==
  ASSUME NEW t \in Seq(Nat), NEW j \in 1 .. Len(t) + 1
  PROVE  SubSeq(t, j, Len(t)) \in Seq(Nat) /\ Len(SubSeq(t, j, Len(t))) = Len(t) - j + 1
OBVIOUS

(* And when the newest are.                                                *)
LEMMA PrefixTyped ==
  ASSUME NEW t \in Seq(Nat), NEW j \in 0 .. Len(t)
  PROVE  /\ SubSeq(t, 1, j) \in Seq(Nat) /\ Len(SubSeq(t, 1, j)) = j
         /\ \A i \in 1 .. j : SubSeq(t, 1, j)[i] = t[i]
OBVIOUS

(* The oldest thoughts dropped.                                            *)
LEMMA MatchCut ==
  ASSUME NEW t \in Seq(Nat), NEW e \in Seq(Entries), NEW first, Match(t, e, first),
         NEW j \in 1 .. Len(t) + 1
  PROVE  Match(SubSeq(t, j, Len(t)), e, first)
<1> DEFINE u == SubSeq(t, j, Len(t))
           a == Len(t)
           b == Len(e)
<1>1. /\ a \in Nat /\ b \in Nat /\ Len(u) = a - j + 1 /\ j \in 1 .. a + 1
      /\ \A i \in 1 .. a - j + 1 : u[i] = t[i + j - 1]
  OBVIOUS
<1>2. a <= b /\ \A k \in 0 .. a - 1 : e[b - k].evals = t[a - k] \/ e[b - k] = first
  BY DEF Match
<1> HIDE DEF u, a, b
<1>3. ASSUME NEW k \in 0 .. (a - j + 1) - 1
      PROVE  e[b - k].evals = u[(a - j + 1) - k] \/ e[b - k] = first
  <2>1. /\ k \in 0 .. a - 1 /\ (a - j + 1) - k \in 1 .. a - j + 1
        /\ ((a - j + 1) - k) + j - 1 = a - k
    BY <1>1
  <2>2. u[(a - j + 1) - k] = t[a - k]
    BY <1>1, <2>1
  <2> QED BY <1>2, <2>1, <2>2
<1>4. Len(u) <= b
  BY <1>1, <1>2
<1> QED BY <1>1, <1>3, <1>4 DEF Match, u, a, b

(* The newest thought and the newest entry taken off.                      *)
LEMMA MatchPop ==
  ASSUME NEW t \in Seq(Nat), NEW e \in Seq(Entries), NEW m \in Entries, NEW first,
         Match(t, Append(e, m), first)
  PROVE  /\ Match(Pop(t), e, first)
         /\ Pop(t) \in Seq(Nat)
         /\ Len(Pop(t)) = IF Len(t) = 0 THEN 0 ELSE Len(t) - 1
<1> DEFINE u == Pop(t)
           ee == Append(e, m)
           a == Len(t)
           b == Len(e)
<1>1. /\ a \in Nat /\ b \in Nat /\ Len(ee) = b + 1 /\ \A i \in 1 .. b : ee[i] = e[i]
  OBVIOUS
<1>2. CASE a = 0
  <2>1. t = <<>>
    BY <1>2
  <2>2. u = <<>>
    BY <2>1 DEF Pop
  <2>3. Len(<<>>) = 0 /\ <<>> \in Seq(Nat)
    OBVIOUS
  <2> QED BY <1>1, <1>2, <2>2, <2>3 DEF Match
<1>3. CASE a # 0
  <2> DEFINE w == SubSeq(t, 1, Len(t) - 1)
  <2>1. u = w
    BY <1>3 DEF Pop
  <2>2. u \in Seq(Nat) /\ Len(u) = a - 1 /\ \A i \in 1 .. a - 1 : u[i] = t[i]
    <3>1. w \in Seq(Nat) /\ Len(w) = Len(t) - 1 /\ \A i \in 1 .. Len(t) - 1 : w[i] = t[i]
      <4>1. Len(t) - 1 \in 0 .. Len(t)
        BY <1>1, <1>3
      <4> QED BY <4>1, PrefixTyped
    <3> HIDE DEF w, u
    <3> QED BY <2>1, <3>1
  <2>3. a <= b + 1 /\ \A k \in 0 .. a - 1 : ee[(b + 1) - k].evals = t[a - k] \/ ee[(b + 1) - k] = first
    BY <1>1 DEF Match
  <2> HIDE DEF u, ee, a, b
  <2>4. ASSUME NEW k \in 0 .. (a - 1) - 1
        PROVE  e[b - k].evals = u[(a - 1) - k] \/ e[b - k] = first
    <3>1. /\ k + 1 \in 0 .. a - 1 /\ (b + 1) - (k + 1) = b - k /\ a - (k + 1) = (a - 1) - k
          /\ b - k \in 1 .. b /\ (a - 1) - k \in 1 .. a - 1
      BY <1>1, <1>3, <2>3
    <3>2. ee[(b + 1) - (k + 1)].evals = t[a - (k + 1)] \/ ee[(b + 1) - (k + 1)] = first
      BY <2>3, <3>1
    <3> QED BY <1>1, <2>2, <3>1, <3>2
  <2>5. Len(u) <= b
    BY <1>1, <1>3, <2>2, <2>3
  <2> QED BY <1>3, <2>2, <2>4, <2>5 DEF Match, u, a, b
<1> QED BY <1>2, <1>3

(* The engine's entries of a record, and a record with its bookkeeping.    *)
EngineOf(g) == Ledger(g.config.human, g.history).engine
SpentOf(g) == Ledger(g.config.human, g.history).spent

Tallies(g) ==
  /\ g.config.human \in SUBSET Colors
  /\ g.total = SpentOf(g)
  /\ Match(g.thoughts, EngineOf(g), g.history[1])

Booked(g) ==
  /\ Tallies(g)
  /\ g.undos \in Nat
  /\ Len(g.thoughts) >= Window - g.undos \/ Len(g.thoughts) = Len(EngineOf(g))
  /\ g.lastAi # None => g.lastAi = Last(EngineOf(g)).cell

(* What an entry more does to the ledger.                                  *)
OneMore(n, g, m) ==
  /\ EngineOf(g) \in Seq(Entries)
  /\ SpentOf(g) \in [Colors -> Nat]
  /\ EngineOf(n) = IF m.player \in g.config.human THEN EngineOf(g) ELSE Append(EngineOf(g), m)
  /\ SpentOf(n) = [SpentOf(g) EXCEPT ![m.player] = SpentOf(g)[m.player] + m.time]
  /\ g.history # <<>> => n.history[1] = g.history[1]
  /\ g.history = <<>> => n.history[1] = m /\ EngineOf(g) = <<>>

LEMMA EnteredMore ==
  ASSUME NEW g, g.history \in Seq(Entries), NEW m \in Entries, NEW n,
         n.history = Append(g.history, m), n.config = g.config
  PROVE  OneMore(n, g, m)
<1> DEFINE human == g.config.human
           l == Ledger(human, g.history)
<1>1. Ledger(human, Append(g.history, m)) = Enter(l, m)
  BY LedgerMore
<1>2. l.human = human /\ l.engine \in Seq(Entries) /\ l.spent \in [Colors -> Nat]
  BY LedgerTyped
<1>3. /\ Enter(l, m).engine = IF m.player \in human THEN l.engine ELSE Append(l.engine, m)
      /\ Enter(l, m).spent = [l.spent EXCEPT ![m.player] = l.spent[m.player] + m.time]
  <2> HIDE DEF l, human
  <2> QED BY <1>2 DEF Enter
<1>4. g.history # <<>> => Append(g.history, m)[1] = g.history[1]
  OBVIOUS
<1>5. g.history = <<>> => Append(g.history, m)[1] = m
  OBVIOUS
<1>6. g.history = <<>> => l.engine = <<>>
  BY LedgerNothing DEF NewLedger
<1> HIDE DEF l
<1> QED BY <1>1, <1>2, <1>3, <1>4, <1>5, <1>6 DEF OneMore, EngineOf, SpentOf, l

(* A person's move.                                                        *)
LEMMA PersonBooked ==
  ASSUME NEW g, Booked(g), g.history \in Seq(Entries), g.thoughts \in Seq(Nat),
         NEW m \in Entries, m.player \in g.config.human,
         NEW n, n.history = Append(g.history, m), n.config = g.config,
         n.thoughts = g.thoughts, n.undos = g.undos, n.lastAi = g.lastAi,
         n.total = [g.total EXCEPT ![m.player] = g.total[m.player] + m.time]
  PROVE  Booked(n)
<1>1. /\ EngineOf(g) \in Seq(Entries) /\ EngineOf(n) = EngineOf(g)
      /\ SpentOf(n) = [SpentOf(g) EXCEPT ![m.player] = SpentOf(g)[m.player] + m.time]
      /\ g.history # <<>> => n.history[1] = g.history[1]
      /\ g.history = <<>> => EngineOf(g) = <<>>
  <2>1. OneMore(n, g, m)
    BY EnteredMore
  <2> QED BY <2>1 DEF OneMore
<1>2. Match(g.thoughts, EngineOf(g), n.history[1])
  <2>1. CASE g.history # <<>>
    BY <1>1, <2>1 DEF Booked, Tallies
  <2>2. CASE g.history = <<>>
    BY <1>1, <2>2 DEF Booked, Tallies, Match
  <2> QED BY <2>1, <2>2
<1>3. Tallies(n)
  BY <1>1, <1>2 DEF Booked, Tallies
<1> QED BY <1>1, <1>3 DEF Booked

(* A move of the engine, after its thought.                                *)
LEMMA EngineBooked ==
  ASSUME NEW g, Booked(g), g.history \in Seq(Entries), g.thoughts \in Seq(Nat),
         NEW m \in Entries, m.player \notin g.config.human, NEW v \in Nat,
         g.history = <<>> \/ m.evals = v,
         NEW n, n.history = Append(g.history, m), n.config = g.config,
         n.thoughts = LongerBy(g.thoughts, v), n.undos = g.undos, n.lastAi = m.cell,
         n.total = [g.total EXCEPT ![m.player] = g.total[m.player] + m.time]
  PROVE  Booked(n)
<1> DEFINE t == g.thoughts
           e == EngineOf(g)
           cut == IF Len(t) >= Window THEN SubSeq(t, Len(t) - Window + 2, Len(t)) ELSE t
           first == n.history[1]
<1>1. /\ e \in Seq(Entries) /\ EngineOf(n) = Append(e, m)
      /\ SpentOf(n) = [SpentOf(g) EXCEPT ![m.player] = SpentOf(g)[m.player] + m.time]
      /\ g.history # <<>> => first = g.history[1]
      /\ g.history = <<>> => first = m /\ e = <<>>
  <2>1. OneMore(n, g, m)
    BY EnteredMore
  <2> QED BY <2>1 DEF OneMore
<1>2. Window \in Nat \ {0}
  BY GameAssumption
<1>3. Match(t, e, first)
  <2>1. CASE g.history # <<>>
    BY <1>1, <2>1 DEF Booked, Tallies
  <2>2. CASE g.history = <<>>
    BY <1>1, <2>2 DEF Booked, Tallies, Match
  <2> QED BY <2>1, <2>2
<1>4. /\ cut \in Seq(Nat) /\ Match(cut, e, first)
      /\ Len(cut) = IF Len(t) >= Window THEN Window - 1 ELSE Len(t)
  <2>1. CASE Len(t) >= Window
    <3>1. Len(t) - Window + 2 \in 1 .. Len(t) + 1
      BY <1>2, <2>1
    <3> DEFINE j == Len(t) - Window + 2
    <3>2. /\ SubSeq(t, j, Len(t)) \in Seq(Nat)
          /\ Len(SubSeq(t, j, Len(t))) = Len(t) - j + 1
      <4> HIDE DEF t, j
      <4> QED BY <3>1, SuffixTyped DEF t, j
    <3>3. Len(t) - j + 1 = Window - 1
      BY <1>2
    <3>4. Match(SubSeq(t, j, Len(t)), e, first)
      <4> HIDE DEF t, e, first, j
      <4> QED BY <1>1, <1>3, <3>1, MatchCut DEF t, j
    <3> QED BY <2>1, <3>2, <3>3, <3>4
  <2>2. CASE ~(Len(t) >= Window)
    BY <1>3, <2>2
  <2> QED BY <2>1, <2>2
<1>5. n.thoughts = Append(cut, v)
  BY DEF LongerBy
<1>6. m.evals = v \/ m = first
  BY <1>1
<1> HIDE DEF cut, first, t, e
<1>7. Match(Append(cut, v), Append(e, m), first)
  BY <1>1, <1>4, <1>6, MatchMore
<1>8. Tallies(n)
  BY <1>1, <1>5, <1>7 DEF Booked, Tallies, first
<1>9. Len(n.thoughts) >= Window - n.undos \/ Len(n.thoughts) = Len(EngineOf(n))
  <2>1. Len(n.thoughts) = Len(cut) + 1 /\ Len(EngineOf(n)) = Len(e) + 1
    BY <1>1, <1>4, <1>5
  <2>2. Len(t) >= Window - g.undos \/ Len(t) = Len(e)
    BY DEF Booked, t, e
  <2>3. g.undos \in Nat /\ Len(t) \in Nat /\ Len(e) \in Nat
    BY <1>1 DEF Booked, t
  <2> QED BY <1>2, <1>4, <2>1, <2>2, <2>3
<1>10. Last(EngineOf(n)) = m
  <2>1. Len(Append(e, m)) = Len(e) + 1 /\ Append(e, m)[Len(e) + 1] = m
    BY <1>1
  <2> QED BY <1>1, <2>1 DEF Last
<1> QED BY <1>8, <1>9, <1>10 DEF Booked

(* A history is its last entry after the ones before.                      *)
LEMMA PopParts ==
  ASSUME NEW h \in Seq(Entries), Len(h) >= 1
  PROVE  /\ Pop(h) \in Seq(Entries) /\ h[Len(h)] \in Entries
         /\ h = Append(Pop(h), h[Len(h)])
<1> DEFINE k == Len(h) - 1
           w == SubSeq(h, 1, k)
<1>1. k \in Nat /\ k + 1 = Len(h)
  OBVIOUS
<1>2. Pop(h) = w
  BY DEF Pop
<1>3. /\ w \in Seq(Entries) /\ Len(w) = k /\ h[k + 1] \in Entries
      /\ \A i \in 1 .. k : w[i] = h[i]
  BY <1>1
<1> HIDE DEF w, k
<1>4. h = Append(w, h[k + 1])
  <2> DEFINE v == Append(w, h[k + 1])
  <2>1. v \in Seq(Entries) /\ Len(v) = k + 1 /\ v[k + 1] = h[k + 1] /\ \A i \in 1 .. k : v[i] = w[i]
    BY <1>1, <1>3, AppendProperties
  <2> HIDE DEF v
  <2>2. \A i \in 1 .. k + 1 : v[i] = h[i]
    BY <1>1, <1>3, <2>1
  <2>3. v = h
    BY <1>1, <2>1, <2>2, SeqEqual
  <2> QED BY <2>3 DEF v
<1> QED BY <1>1, <1>2, <1>3, <1>4

(* What taking off the last entry does to the bookkeeping.                 *)
Shorter(n, g) ==
  LET m == g.history[Len(g.history)]
  IN  /\ Tallies(n)
      /\ n.thoughts \in Seq(Nat) /\ EngineOf(n) \in Seq(Entries)
      /\ n.undos = g.undos /\ n.config = g.config
      /\ m.player \in g.config.human => n.thoughts = g.thoughts /\ EngineOf(n) = EngineOf(g)
      /\ m.player \notin g.config.human =>
           /\ Len(n.thoughts) = IF Len(g.thoughts) = 0 THEN 0 ELSE Len(g.thoughts) - 1
           /\ Len(EngineOf(g)) = Len(EngineOf(n)) + 1

LEMMA TakeLastBooks ==
  ASSUME NEW g, DOMAIN g = Fields, g.history \in Seq(Entries), Len(g.history) >= 1,
         g.thoughts \in Seq(Nat), Tallies(g)
  PROVE  Shorter(TakeLast(g), g)
<1> DEFINE n == TakeLast(g)
           m == g.history[Len(g.history)]
           total == [g.total EXCEPT ![m.player] = g.total[m.player] - m.time]
<1>1. /\ n.history = Pop(g.history)
      /\ n.thoughts = IF m.player \in g.config.human THEN g.thoughts ELSE Pop(g.thoughts)
      /\ n.total = total
      /\ n.config = g.config /\ n.undos = g.undos
  BY TakeLastFields
<1> HIDE DEF n
<1>2. n.history \in Seq(Entries) /\ m \in Entries /\ g.history = Append(n.history, m)
  BY <1>1, PopParts
<1> HIDE DEF m
<1>3. OneMore(g, n, m)
  BY <1>1, <1>2, EnteredMore
<1>4. /\ EngineOf(n) \in Seq(Entries)
      /\ SpentOf(n) \in [Colors -> Nat]
      /\ EngineOf(g) = IF m.player \in g.config.human THEN EngineOf(n) ELSE Append(EngineOf(n), m)
      /\ SpentOf(g) = [SpentOf(n) EXCEPT ![m.player] = SpentOf(n)[m.player] + m.time]
      /\ n.history # <<>> => g.history[1] = n.history[1]
      /\ n.history = <<>> => EngineOf(n) = <<>>
  BY <1>1, <1>3 DEF OneMore
<1>5. n.total = SpentOf(n)
  <2> DEFINE s == SpentOf(n)
             p == m.player
  <2>1. p \in Colors /\ m.time \in Nat
    BY <1>2 DEF Entries
  <2>2. s \in [Colors -> Nat] /\ g.total = [s EXCEPT ![p] = s[p] + m.time]
    BY <1>4 DEF Tallies
  <2>3. n.total = [g.total EXCEPT ![p] = g.total[p] - m.time]
    BY <1>1
  <2> HIDE DEF s, p
  <2>4. g.total[p] - m.time = s[p]
    BY <2>1, <2>2
  <2>5. n.total = [[s EXCEPT ![p] = s[p] + m.time] EXCEPT ![p] = s[p]]
    BY <2>2, <2>3, <2>4
  <2>6. n.total = s
    BY <2>1, <2>2, <2>5
  <2> QED BY <2>6 DEF s
<1>6. Match(g.thoughts, EngineOf(g), g.history[1])
  BY DEF Tallies
<1>7. CASE m.player \in g.config.human
  <2>1. n.thoughts = g.thoughts /\ EngineOf(n) = EngineOf(g)
    BY <1>1, <1>4, <1>7
  <2>2. Match(n.thoughts, EngineOf(n), n.history[1])
    <3>1. CASE n.history # <<>>
      BY <1>4, <1>6, <2>1, <3>1
    <3>2. CASE n.history = <<>>
      <4>1. EngineOf(n) = <<>> /\ Len(<<>>) = 0
        BY <1>4, <3>2
      <4>2. Len(n.thoughts) \in Nat /\ Len(n.thoughts) <= 0
        BY <1>6, <2>1, <4>1 DEF Match
      <4> QED BY <4>1, <4>2 DEF Match
    <3> QED BY <3>1, <3>2
  <2>3. Tallies(n)
    BY <1>1, <1>5, <2>2 DEF Tallies
  <2> QED BY <1>1, <1>4, <1>7, <2>1, <2>3 DEF Shorter, n, m
<1>8. CASE m.player \notin g.config.human
  <2>1. n.thoughts = Pop(g.thoughts) /\ EngineOf(g) = Append(EngineOf(n), m)
    BY <1>1, <1>4, <1>8
  <2>2. /\ Match(n.thoughts, EngineOf(n), g.history[1])
        /\ n.thoughts \in Seq(Nat)
        /\ Len(n.thoughts) = IF Len(g.thoughts) = 0 THEN 0 ELSE Len(g.thoughts) - 1
    BY <1>2, <1>4, <1>6, <2>1, MatchPop
  <2>3. Match(n.thoughts, EngineOf(n), n.history[1])
    <3>1. CASE n.history # <<>>
      <4>1. g.history[1] = n.history[1]
        BY <1>4, <3>1
      <4> QED BY <2>2, <4>1
    <3>2. CASE n.history = <<>>
      <4>1. EngineOf(n) = <<>> /\ Len(<<>>) = 0
        BY <1>4, <3>2
      <4>2. Len(n.thoughts) \in Nat /\ Len(n.thoughts) <= 0
        BY <2>2, <4>1 DEF Match
      <4> QED BY <4>1, <4>2 DEF Match
    <3> QED BY <3>1, <3>2
  <2>4. Tallies(n)
    BY <1>1, <1>5, <2>3 DEF Tallies
  <2>5. Len(EngineOf(g)) = Len(EngineOf(n)) + 1
    BY <1>2, <1>4, <2>1
  <2> QED BY <1>1, <1>4, <1>8, <2>2, <2>4, <2>5 DEF Shorter, n, m
<1> QED BY <1>7, <1>8

(* undo_last_moves: of the two moves that go, one at most is the engine's, *)
(* and its thought goes with it.                                           *)
LEMMA UndoBooked ==
  ASSUME NEW g, Sound(g), Booked(g), g.state = "running", Len(g.history) >= UndoLength(g),
         g.turn \in g.config.human
  PROVE  Booked(Undo(g))
<1> DEFINE k == UndoLength(g)
           one == TakeLast(g)
           back == Back(g)
           n == Undo(g)
           len == Len(g.history)
<1>1. k \in {1, 2} /\ Peeled(back, g, k)
  BY BackPeels
<1>2. /\ DOMAIN g = Fields /\ Follows(g.board, g.history) /\ g.history \in Seq(Entries)
      /\ g.thoughts \in Seq(Nat) /\ len \in Nat /\ len >= 1
      /\ g.turn = ColorOfPly(len + 1)
      /\ \A i \in 1 .. len : g.history[i].player = ColorOfPly(i)
  BY <1>1 DEF Sound, Follows, Ended
<1>3. Shorter(one, g) /\ Peeled(one, g, 1)
  BY <1>2, TakeLastBooks, TakeLastPeels DEF Booked
<1>4. /\ n.history = back.history /\ n.thoughts = back.thoughts
      /\ n.undos = back.undos + 1 /\ n.lastAi = None /\ n.total = back.total
      /\ n.config = back.config
  BY <1>1, UndoFields, Zenon DEF Peeled
<1> HIDE DEF n
<1>5. g.undos \in Nat /\ (Len(g.thoughts) >= Window - g.undos \/ Len(g.thoughts) = Len(EngineOf(g)))
  BY DEF Booked
<1>6. Window \in Nat
  BY GameAssumption
<1>7. ASSUME /\ Tallies(back) /\ back.undos = g.undos
             /\ \/ Len(back.thoughts) >= Window - (g.undos + 1)
                \/ Len(back.thoughts) = Len(EngineOf(back))
      PROVE  Booked(n)
  <2>1. EngineOf(n) = EngineOf(back) /\ Tallies(n)
    BY <1>4, <1>7 DEF Tallies, EngineOf, SpentOf
  <2> QED BY <1>4, <1>5, <1>7, <2>1 DEF Booked
<1>8. ASSUME k = 1 PROVE Booked(n)
  <2>1. back = one
    BY <1>8 DEF Back
  <2>2. g.config.human = Colors
    BY <1>8 DEF UndoLength
  <2>3. g.history[len].player \in Colors
    <3>1. len \in 1 .. len /\ ColorOfPly(len) \in Colors
      BY <1>2, PlyColors
    <3> QED BY <1>2, <3>1
  <2> HIDE DEF one, back
  <2>4. /\ Tallies(one) /\ one.undos = g.undos
        /\ one.thoughts = g.thoughts /\ EngineOf(one) = EngineOf(g)
    BY <1>3, <2>2, <2>3 DEF Shorter
  <2>5. Len(g.thoughts) \in Nat
    BY <1>2
  <2> QED BY <1>5, <1>6, <1>7, <2>1, <2>4, <2>5
<1>9. ASSUME k = 2 PROVE Booked(n)
  <2> DEFINE two == TakeLast(one)
  <2>1. back = two
    BY <1>9 DEF Back
  <2> HIDE DEF one, back, k
  <2>2. /\ DOMAIN one = Fields /\ one.history \in Seq(Entries)
        /\ Len(one.history) = len - 1 /\ len >= 2
        /\ \A i \in 1 .. len - 1 : one.history[i] = g.history[i]
    BY <1>3, <1>9 DEF Peeled, Follows, k
  <2>3. /\ Tallies(one) /\ one.thoughts \in Seq(Nat) /\ EngineOf(one) \in Seq(Entries)
        /\ one.undos = g.undos /\ one.config = g.config
    BY <1>3 DEF Shorter
  <2>4. Shorter(two, one)
    <3>1. Len(one.history) >= 1
      BY <1>2, <2>2
    <3> QED BY <2>2, <2>3, <3>1, TakeLastBooks
  <2>5. one.history[Len(one.history)].player \in one.config.human
    <3>1. /\ len - 1 \in 1 .. len - 1 /\ len - 1 \in 1 .. len /\ len - 1 \in Nat
          /\ (len - 1) + 1 = len
      <4> HIDE DEF len
      <4> QED BY <1>2, <2>2
    <3>2. ColorOfPly(len - 1) = ColorOfPly(len + 1)
      <4> HIDE DEF len
      <4>1. /\ Other(ColorOfPly(len - 1)) = ColorOfPly(len)
            /\ Other(ColorOfPly(len + 1)) = ColorOfPly(len)
            /\ ColorOfPly(len - 1) \in Colors /\ ColorOfPly(len + 1) \in Colors
        BY <1>2, <3>1, PlyColors
      <4> QED BY <4>1 DEF Other, Colors
    <3>3. one.history[len - 1].player = g.turn
      BY <1>2, <2>2, <3>1, <3>2
    <3> QED BY <2>2, <2>3, <3>3
  <2> HIDE DEF two
  <2>6. /\ Tallies(two) /\ two.undos = g.undos
        /\ two.thoughts = one.thoughts /\ EngineOf(two) = EngineOf(one)
    BY <2>3, <2>4, <2>5 DEF Shorter
  <2>7. \/ Len(one.thoughts) >= Window - (g.undos + 1)
        \/ Len(one.thoughts) = Len(EngineOf(one))
    <3> DEFINE a == Len(g.thoughts)
               b == Len(one.thoughts)
               c == Len(EngineOf(g))
               d == Len(EngineOf(one))
    <3>1. a \in Nat /\ b \in Nat /\ d \in Nat
      BY <1>2, <2>3
    <3>2. \/ b = a /\ d = c
          \/ b = (IF a = 0 THEN 0 ELSE a - 1) /\ c = d + 1
      BY <1>3 DEF Shorter
    <3>3. a >= Window - g.undos \/ a = c
      BY <1>5
    <3> HIDE DEF a, b, c, d
    <3>4. b >= Window - (g.undos + 1) \/ b = d
      BY <1>5, <1>6, <3>1, <3>2, <3>3
    <3> QED BY <3>4 DEF b, d
  <2> QED BY <1>7, <2>1, <2>6, <2>7
<1> HIDE DEF k
<1> QED BY <1>1, <1>8, <1>9 DEF n

-----------------------------------------------------------------------------
(* The invariant, and what it means in the terms of LocalGame.             *)
IInv == Sound(game)

(* A sound record is one that RecordAgrees describes.                      *)
LEMMA SoundAgrees == IInv => RecordAgrees
<1> SUFFICES ASSUME IInv PROVE RecordAgrees
  OBVIOUS
<1>1. BoardFromHistory
  BY DEF IInv, Sound, Follows, BoardFromHistory, Cell, History
<1>2. TurnFromHistory /\ CachesAgree /\ VerdictIsCurrent
  BY DEF IInv, Sound, Ended, TurnFromHistory, CachesAgree, VerdictIsCurrent, Decided,
         History
<1> QED BY <1>1, <1>2 DEF RecordAgrees

(* What a step does to the invariant, to the abstract game and to the turn.*)
HandsBack == game'.undos # game.undos => game'.turn \in game'.config.human
AbstractStep == [Abstract!Next]_(Abstract!vars)
Keeps == IInv' /\ AbstractStep /\ HandsBack

(* The abstract list of moves, before and after a step.                    *)
LEMMA AbstractMoves ==
  /\ [i \in DOMAIN History |-> Cell(i)] = MovesOf(game.history)
  /\ [i \in DOMAIN History |-> Cell(i)]' = MovesOf(game'.history)
BY DEF MovesOf, Cell, History

(* The abstract result of a game that was not left.                        *)
LEMMA SeenState ==
  /\ game.state \in {"running", "X", "O", "draw"} => ResultSeen = Seen(game.state)
  /\ game'.state \in {"running", "X", "O", "draw"} => ResultSeen' = Seen(game'.state)
BY DEF ResultSeen, Seen

(* A move by either side.                                                  *)
LEMMA PlacedKeeps ==
  ASSUME IInv, game.state = "running",
         NEW g, Alike(g, game), g.undos = game.undos,
         NEW c \in Squares, NEW m, Moved(m, g, c),
         Alike(game', m), game'.undos = m.undos
  PROVE  Keeps
<1>1. g.history = game.history
  BY DEF Alike
<1>2. /\ Sound(m)
      /\ MovesOf(m.history) = Append(MovesOf(game.history), c)
      /\ \A i \in DOMAIN MovesOf(game.history) : MovesOf(game.history)[i] # c
      /\ m.state \in {"running", "X", "O", "draw"}
      /\ Abstract!Outcome(MovesOf(m.history)) = Seen(m.state)
  BY <1>1 DEF Moved
<1>3. game'.undos = game.undos
  BY DEF Moved
<1>4. Sound(game') /\ game'.history = m.history /\ game'.state = m.state
  BY <1>2, AlikeSound DEF Alike
<1>5. ResultSeen = "open" /\ ResultSeen' = Seen(m.state)
  BY <1>2, <1>4, SeenState DEF Seen
<1>6. Abstract!Place(c)
  BY <1>2, <1>4, <1>5, AbstractMoves DEF Abstract!Place
<1>7. AbstractStep
  BY <1>6 DEF AbstractStep, Abstract!Next
<1> QED BY <1>3, <1>4, <1>7 DEF Keeps, IInv, HandsBack

(* A key on a free cell.                                                   *)
LEMMA HumanPlacesKeeps ==
  ASSUME IInv, NEW c \in Squares, NEW t \in Times, HumanPlaces(c, t)
  PROVE  Keeps
<1> DEFINE m == MakeMove(game, c, game.turn, t, 0)
<1>1. /\ game.state = "running" /\ Valid(game.board, c) /\ t \in Nat /\ game' = m
  BY LocalAssumption DEF HumanPlaces, Playing
<1>2. Alike(game, game)
  BY DEF IInv, Sound, Alike
<1>3. Moved(m, game, c)
  BY <1>1, MoveSound DEF IInv
<1> HIDE DEF m
<1>4. Alike(game', m) /\ game'.undos = m.undos
  BY <1>1, <1>3 DEF Moved, Sound, Alike
<1> QED BY <1>1, <1>2, <1>3, <1>4, PlacedKeeps

(* The engine; a cell that is not free would leave the board as it is.     *)
LEMMA EngineMovesKeeps ==
  ASSUME IInv, NEW t \in Times, NEW n \in Evals, EngineMoves(t, n)
  PROVE  Keeps
<1> DEFINE after == Think(game, n)
           evals == IF game.history = <<>> THEN 1 ELSE Last(after.thoughts)
<1>1. PICK c \in BestMoves(game.board) \ {None} :
        game' = [MakeMove(after, c, game.turn, t, evals) EXCEPT !.lastAi = c]
  BY DEF EngineMoves
<1> DEFINE m == MakeMove(after, c, game.turn, t, evals)
<1>2. game.state = "running" /\ t \in Nat /\ n \in Nat
  BY LocalAssumption DEF EngineMoves, Playing
<1>3. /\ DOMAIN after = Fields
      /\ after.hash = HashOf(game.board)
      /\ after.thoughts \in Seq(Nat) /\ after.thoughts # <<>>
      /\ after.history = game.history /\ after.board = game.board
      /\ after.turn = game.turn /\ after.state = game.state
      /\ after.stones = game.stones /\ after.undos = game.undos
      /\ after.config = game.config
  BY <1>2, ThinkFields DEF IInv, Sound
<1> HIDE DEF after
<1>4. Alike(after, game) /\ Sound(after)
  BY <1>3, AlikeSound DEF Alike, IInv
<1>5. evals \in Nat
  BY <1>3 DEF Last
<1> HIDE DEF evals
<1>6. CASE Valid(game.board, c)
  <2>1. Moved(m, after, c)
    <3>1. after.state = "running" /\ Valid(after.board, c) /\ after.turn = game.turn
      BY <1>2, <1>3, <1>6
    <3> QED BY <1>2, <1>4, <1>5, <3>1, MoveSound
  <2> HIDE DEF m
  <2>2. Alike(game', m) /\ game'.undos = m.undos
    BY <1>1, <2>1, SetLastAi DEF Moved, Sound, Alike, m
  <2>3. c \in Squares
    BY <1>6 DEF Valid, Free
  <2> QED BY <1>2, <1>3, <1>4, <2>1, <2>2, <2>3, PlacedKeeps
<1>7. CASE ~Valid(game.board, c)
  <2>1. m = after
    BY <1>3, <1>7, Zenon DEF MakeMove
  <2> HIDE DEF m
  <2>2. Alike(game', after) /\ game'.undos = game.undos
    BY <1>1, <1>3, <1>4, <2>1, SetLastAi DEF Sound, Alike, m
  <2>3. Sound(game') /\ game'.history = game.history /\ game'.state = game.state
    BY <1>3, <1>4, <2>2, AlikeSound DEF Alike
  <2>4. UNCHANGED Abstract!vars
    <3>1. ResultSeen' = ResultSeen
      BY <1>2, <2>3, SeenState
    <3> QED BY <2>3, <3>1, AbstractMoves DEF Abstract!vars
  <2> QED BY <2>2, <2>3, <2>4 DEF Keeps, IInv, AbstractStep, HandsBack
<1> QED BY <1>6, <1>7

(* U                                                                       *)
LEMMA HumanUndoesKeeps ==
  ASSUME IInv, HumanUndoes
  PROVE  Keeps
<1> DEFINE m == Undo(game)
           k == UndoLength(game)
           n == Len(game.history)
<1>1. /\ game.state = "running" /\ n >= k /\ game' = m /\ game.turn \in game.config.human
  BY DEF HumanUndoes, Playing, HumanTurn, CanUndo
<1>2. /\ Sound(m) /\ m.state = "running" /\ k \in {1, 2}
      /\ MovesOf(m.history) = SubSeq(MovesOf(game.history), 1, n - k)
      /\ m.config = game.config
      /\ m.turn \in Colors /\ (k = 2 => m.turn = game.turn)
  BY <1>1, UndoSound DEF IInv
<1>3. k = 1 => game.config.human = Colors
  BY DEF UndoLength
<1> HIDE DEF m, k
<1>4. HandsBack
  BY <1>1, <1>2, <1>3 DEF HandsBack
<1>5. ResultSeen = "open" /\ ResultSeen' = "open"
  BY <1>1, <1>2, SeenState DEF Seen
<1>6. Len(MovesOf(game.history)) = n
  BY DEF IInv, Sound, Follows, MovesOf
<1>7. Abstract!TakeBack(k)
  <2>1. /\ [i \in DOMAIN History |-> Cell(i)] = MovesOf(game.history)
        /\ [i \in DOMAIN History |-> Cell(i)]' = MovesOf(m.history)
    BY <1>1, AbstractMoves
  <2> QED BY <1>1, <1>2, <1>5, <1>6, <2>1 DEF Abstract!TakeBack
<1>8. AbstractStep
  BY <1>2, <1>7 DEF AbstractStep, Abstract!Next
<1> QED BY <1>1, <1>2, <1>4, <1>8 DEF Keeps, IInv

(* q or Esc                                                                *)
LEMMA HumanQuitsKeeps ==
  ASSUME IInv, HumanQuits
  PROVE  Keeps
<1> DEFINE m == [game EXCEPT !.state = "quit"]
<1>1. game' = m /\ game.state = "running" /\ DOMAIN game = Fields
  BY DEF HumanQuits, Playing, IInv, Sound
<1>2. m.undos = game.undos
  BY <1>1 DEF Fields
<1>3. /\ DOMAIN m = Fields /\ m.state = "quit"
      /\ m.hash = game.hash /\ m.thoughts = game.thoughts
      /\ m.history = game.history /\ m.board = game.board /\ m.turn = game.turn
      /\ m.stones = game.stones
  BY <1>1, SetState
<1> HIDE DEF m
<1>4. ~Ended(m) /\ ~Ended(game) /\ m.state \in States /\ m.state \notin Colors
      /\ game.state \notin Colors
  BY <1>1, <1>3 DEF Ended, States, Colors
<1>5. Sound(m)
  BY <1>3, <1>4 DEF IInv, Sound
<1>6. ResultSeen = "open" /\ ResultSeen' = "left"
  BY <1>1, <1>3 DEF ResultSeen
<1>7. Abstract!Leave
  BY <1>1, <1>3, <1>6, AbstractMoves DEF Abstract!Leave
<1>8. AbstractStep
  BY <1>7 DEF AbstractStep, Abstract!Next
<1> QED BY <1>1, <1>2, <1>5, <1>8 DEF Keeps, IInv, HandsBack

(* Writing the file and replaying it leave the record alone.               *)
LEMMA UnchangedKeeps ==
  ASSUME IInv, UNCHANGED game
  PROVE  Keeps
<1>1. UNCHANGED Abstract!vars
  BY DEF Abstract!vars, Cell, History, ResultSeen
<1> QED BY <1>1 DEF Keeps, IInv, AbstractStep, HandsBack

(* Every step of the program.                                              *)
LEMMA StepKeeps ==
  ASSUME IInv, [Next]_vars
  PROVE  Keeps
<1>1. CASE Finish \/ PressKey \/ StartReplay \/ ReplayMove \/ LeaveReplay \/ UNCHANGED vars
  BY <1>1, UnchangedKeeps DEF Finish, PressKey, WriteFile, StartReplay, ReplayMove, LeaveReplay, vars
<1> QED
  BY <1>1, HumanPlacesKeeps, HumanUndoesKeeps, HumanQuitsKeeps, EngineMovesKeeps DEF Next

(* init_game                                                               *)
LEMMA NewGameSound ==
  ASSUME NEW config
  PROVE  Sound(NewGame(config))
<1> DEFINE g == NewGame(config)
<1>1. /\ DOMAIN g = Fields /\ g.board = EmptyBoard /\ g.turn = "X" /\ g.state = "running"
      /\ g.history = <<>> /\ g.thoughts = <<>> /\ g.stones = 0 /\ g.hash = {}
  BY DEF NewGame, Fields
<1> HIDE DEF g
<1>2. Follows(EmptyBoard, <<>>)
  BY DEF Follows, EmptyBoard, Taken
<1>3. OpenAfter(<<>>, 0)
  <2>1. Laid(<<>>, 0, "X") = {} /\ Laid(<<>>, 0, "O") = {}
    BY DEF Laid
  <2>2. ~Five({}) /\ Centre \in Squares
    BY GameAssumption
  <2>3. \A i \in 1 .. 0 : <<>>[i].cell # Centre
    OBVIOUS
  <2> QED BY <2>1, <2>2, <2>3 DEF OpenAfter
<1>4. Verdict(EmptyBoard, "running") = "running"
  BY <1>2, <1>3, VerdictOnBoard
<1>5. HashOf(EmptyBoard) = {}
  BY DEF HashOf, Taken, EmptyBoard
<1>6. ~Ended(g) /\ g.state \in States
  BY <1>1 DEF Ended, States
<1>7. g.turn = ColorOfPly(1)
  BY <1>1 DEF ColorOfPly
<1> QED BY <1>1, <1>2, <1>4, <1>5, <1>6, <1>7 DEF Sound, g

(* The program starts with a new game, whatever its options.               *)
LEMMA InitSound == Init => IInv /\ Abstract!Init
<1> SUFFICES ASSUME Init PROVE IInv /\ Abstract!Init
  OBVIOUS
<1>1. PICK options \in CommandLines : game = NewGame(ParseArguments(options))
  BY DEF Init
<1>2. IInv
  BY <1>1, NewGameSound DEF IInv
<1>3. game.history = <<>> /\ game.state = "running"
  BY <1>1 DEF NewGame
<1>4. Abstract!Init
  BY <1>3 DEF Abstract!Init, Cell, History, ResultSeen
<1> QED BY <1>2, <1>4

-----------------------------------------------------------------------------
(* The cells find_best_ai_move chooses from are free: the reply to a lone  *)
(* stone is beside it, and the lone stone of a game is X's.                *)
LEMMA BestMovesAreFree ==
  ASSUME NEW g, Sound(g), NEW c \in BestMoves(g.board) \ {None}
  PROVE  Valid(g.board, c)
<1> DEFINE b == g.board
           h == g.history
<1>1. Follows(b, h) /\ Cardinality(Taken(b)) = Len(h)
  BY FollowsCount DEF Sound
<1> HIDE DEF b, h
<1>2. CASE Cardinality(Taken(b)) = 1
  <2>1. /\ h[1].cell \in Squares /\ b[h[1].cell] = "X"
        /\ \A d \in Taken(b) : d = h[1].cell
    <3>1. Len(h) = 1 /\ 1 \in 1 .. Len(h) /\ DOMAIN h = 1 .. 1
      <4>1. Len(h) = 1
        BY <1>1, <1>2
      <4>2. h \in Seq(Entries)
        BY <1>1 DEF Follows
      <4> QED BY <4>1, <4>2
    <3>2. ColorOfPly(1) = "X"
      BY DEF ColorOfPly
    <3>3. h[1].cell \in Squares /\ b[h[1].cell] = "X"
      BY <1>1, <3>1, <3>2, FollowsAt
    <3>4. \A d \in Taken(b) : \E i \in 1 .. 1 : h[i].cell = d
      BY <1>1, <3>1 DEF Follows
    <3> QED BY <3>3, <3>4
  <2>2. StonesOf(b, "X") = {h[1].cell}
    BY <2>1 DEF StonesOf, Taken, Empty
  <2>3. FirstReply(b) = Book(h[1].cell)
    BY <2>2 DEF FirstReply
  <2>4. Book(h[1].cell) \in Squares /\ Book(h[1].cell) # h[1].cell
    BY <2>1, GameAssumption
  <2>5. c = Book(h[1].cell)
    BY <1>2, <2>3 DEF BestMoves, b
  <2>6. b[c] = Empty /\ c \in Squares
    BY <2>1, <2>4, <2>5 DEF Taken
  <2> QED BY <2>6 DEF Valid, Free, b
<1>3. CASE Cardinality(Taken(b)) # 1 /\ Taken(b) = {}
  <2>1. c = Centre /\ Centre \in Squares
    BY <1>3, GameAssumption DEF BestMoves, b
  <2> QED BY <1>3, <2>1 DEF Valid, Free, Taken, b
<1>4. CASE Cardinality(Taken(b)) # 1 /\ Taken(b) # {}
  BY <1>4 DEF BestMoves, Valid, b
<1> QED BY <1>2, <1>3, <1>4

(* An entry that make_move writes.                                         *)
LEMMA EntryTyped ==
  ASSUME NEW g, NEW c \in Squares, NEW p \in Colors, NEW t \in Nat, NEW e \in Nat
  PROVE  LET m == Entry(g, c, p, t, e)
         IN  m \in Entries /\ m.cell = c /\ m.player = p /\ m.time = t /\ m.evals = e
<1> DEFINE won == Verdict([g.board EXCEPT ![c] = p], g.state) \in Colors
<1>1. won \in BOOLEAN
  OBVIOUS
<1> HIDE DEF won
<1>2. LET m == [cell |-> c, player |-> p, time |-> t, evals |-> e, winner |-> won]
      IN  m \in Entries /\ m.cell = c /\ m.player = p /\ m.time = t /\ m.evals = e
  BY <1>1 DEF Entries
<1> QED BY <1>2 DEF Entry, won

(* The newest thought is the one added last.                               *)
LEMMA NewestThought ==
  ASSUME NEW t \in Seq(Nat), NEW v \in Nat
  PROVE  Last(LongerBy(t, v)) = v
<1>1. ASSUME NEW u \in Seq(Nat) PROVE Last(Append(u, v)) = v
  <2>1. Len(Append(u, v)) = Len(u) + 1 /\ Append(u, v)[Len(u) + 1] = v
    OBVIOUS
  <2> QED BY <2>1 DEF Last
<1>2. CASE Len(t) >= Window
  <2>1. Len(t) - Window + 2 \in 1 .. Len(t) + 1
    BY <1>2, GameAssumption
  <2>2. SubSeq(t, Len(t) - Window + 2, Len(t)) \in Seq(Nat)
    BY <2>1, SuffixTyped
  <2> QED BY <1>1, <1>2, <2>2 DEF LongerBy
<1>3. CASE ~(Len(t) >= Window)
  BY <1>1, <1>3 DEF LongerBy
<1> QED BY <1>2, <1>3

(* What a sound record says of its types.                                  *)
LEMMA SoundTypes ==
  ASSUME NEW g, Sound(g)
  PROVE  /\ DOMAIN g = Fields /\ g.history \in Seq(Entries) /\ g.thoughts \in Seq(Nat)
         /\ g.turn \in Colors
<1>1. Len(g.history) \in Nat
  BY DEF Sound, Follows
<1>2. g.turn \in Colors
  <2>1. g.turn \in {ColorOfPly(Len(g.history)), ColorOfPly(Len(g.history) + 1)}
    BY DEF Sound
  <2> QED BY <1>1, <2>1, PlyColors
<1> QED BY <1>2 DEF Sound, Follows

(* A key on a free cell.                                                   *)
LEMMA HumanPlacesBooks ==
  ASSUME Sound(game), Booked(game), NEW c \in Squares, NEW t \in Times, HumanPlaces(c, t)
  PROVE  Booked(game')
<1> DEFINE n == MakeMove(game, c, game.turn, t, 0)
           m == Entry(game, c, game.turn, t, 0)
<1>1. /\ Valid(game.board, c) /\ t \in Nat /\ game' = n /\ game.turn \in game.config.human
  BY LocalAssumption DEF HumanPlaces, HumanTurn
<1>2. /\ DOMAIN game = Fields /\ game.history \in Seq(Entries) /\ game.thoughts \in Seq(Nat)
      /\ game.turn \in Colors
  BY SoundTypes
<1>3. Placed(n, game, c, game.turn, t, 0)
  BY <1>1, <1>2, MoveFields
<1>4. m \in Entries /\ m.player = game.turn /\ m.time = t
  BY <1>1, <1>2, EntryTyped
<1> HIDE DEF n, m
<1>5. /\ n.history = Append(game.history, m)
      /\ n.config = game.config /\ n.thoughts = game.thoughts
      /\ n.undos = game.undos /\ n.lastAi = game.lastAi
      /\ n.total = [game.total EXCEPT ![m.player] = game.total[m.player] + m.time]
  BY <1>3, <1>4 DEF Placed, m
<1>6. Booked(n)
  BY <1>1, <1>2, <1>4, <1>5, PersonBooked
<1> QED BY <1>1, <1>6

(* The engine's move, with its thought and its marker.                     *)
LEMMA EngineMovesBooks ==
  ASSUME Sound(game), Booked(game), NEW t \in Times, NEW k \in Evals, EngineMoves(t, k)
  PROVE  Booked(game')
<1> DEFINE after == Think(game, k)
           evals == IF game.history = <<>> THEN 1 ELSE Last(after.thoughts)
<1>1. PICK c \in BestMoves(game.board) \ {None} :
        game' = [MakeMove(after, c, game.turn, t, evals) EXCEPT !.lastAi = c]
  BY DEF EngineMoves
<1> DEFINE n == MakeMove(after, c, game.turn, t, evals)
           m == Entry(after, c, game.turn, t, evals)
<1>2. t \in Nat /\ k \in Nat /\ game.turn \notin game.config.human
  BY LocalAssumption DEF EngineMoves, HumanTurn
<1>3. /\ DOMAIN game = Fields /\ game.history \in Seq(Entries) /\ game.thoughts \in Seq(Nat)
      /\ game.turn \in Colors
  BY SoundTypes
<1>4. /\ DOMAIN after = Fields
      /\ \E v \in Nat : after.thoughts = LongerBy(game.thoughts, v)
      /\ after.total = game.total /\ after.lastAi = game.lastAi
      /\ after.history = game.history /\ after.board = game.board
      /\ after.undos = game.undos /\ after.config = game.config
  BY <1>2, <1>3, ThinkFields
<1> HIDE DEF after
<1>5. PICK v \in Nat : after.thoughts = LongerBy(game.thoughts, v)
  BY <1>4
<1>6. evals \in Nat /\ (game.history = <<>> \/ evals = v)
  BY <1>3, <1>5, NewestThought
<1> HIDE DEF evals
<1>7. Valid(game.board, c) /\ c \in Squares
  <2>1. Valid(game.board, c)
    BY BestMovesAreFree
  <2> QED BY <2>1 DEF Valid, Free
<1>8. Placed(n, after, c, game.turn, t, evals)
  BY <1>4, <1>7, MoveFields
<1>9. m \in Entries /\ m.cell = c /\ m.player = game.turn /\ m.time = t /\ m.evals = evals
  BY <1>2, <1>3, <1>6, <1>7, EntryTyped
<1> HIDE DEF n, m
<1>10. /\ DOMAIN n = Fields
       /\ n.history = Append(game.history, m)
       /\ n.config = game.config /\ n.thoughts = LongerBy(game.thoughts, v)
       /\ n.undos = game.undos
       /\ n.total = [game.total EXCEPT ![m.player] = game.total[m.player] + m.time]
  BY <1>4, <1>5, <1>8, <1>9 DEF Placed, m
<1> DEFINE new == [n EXCEPT !.lastAi = c]
<1>11. /\ new.history = n.history /\ new.config = n.config /\ new.thoughts = n.thoughts
       /\ new.undos = n.undos /\ new.total = n.total /\ new.lastAi = c
  BY <1>10, SetLastAi
<1>12. game' = new
  BY <1>1 DEF n
<1> HIDE DEF new
<1>13. Booked(new)
  <2>1. /\ new.history = Append(game.history, m) /\ new.config = game.config
        /\ new.thoughts = LongerBy(game.thoughts, v) /\ new.undos = game.undos
        /\ new.lastAi = m.cell
        /\ new.total = [game.total EXCEPT ![m.player] = game.total[m.player] + m.time]
    BY <1>9, <1>10, <1>11
  <2>2. /\ m \in Entries /\ m.player \notin game.config.human
        /\ game.history = <<>> \/ m.evals = v
    BY <1>2, <1>6, <1>9
  <2> QED BY <1>3, <2>1, <2>2, EngineBooked
<1> QED BY <1>12, <1>13

(* q or Esc                                                                *)
LEMMA HumanQuitsBooks ==
  ASSUME Sound(game), Booked(game), HumanQuits
  PROVE  Booked(game')
<1> DEFINE n == [game EXCEPT !.state = "quit"]
<1>1. DOMAIN game = Fields /\ game' = n
  BY SoundTypes DEF HumanQuits
<1>2. /\ n.history = game.history /\ n.config = game.config /\ n.thoughts = game.thoughts
      /\ n.undos = game.undos /\ n.total = game.total /\ n.lastAi = game.lastAi
  BY <1>1, SetState
<1> HIDE DEF n
<1>3. EngineOf(n) = EngineOf(game) /\ SpentOf(n) = SpentOf(game)
  BY <1>2 DEF EngineOf, SpentOf
<1>4. Booked(n)
  BY <1>2, <1>3 DEF Booked, Tallies
<1> QED BY <1>1, <1>4

(* Every step of the program.                                              *)
LEMMA StepBooks ==
  ASSUME Sound(game), Booked(game), [Next]_vars
  PROVE  Booked(game')
<1>1. CASE Finish \/ PressKey \/ StartReplay \/ ReplayMove \/ LeaveReplay \/ UNCHANGED vars
  BY <1>1 DEF Finish, PressKey, WriteFile, StartReplay, ReplayMove, LeaveReplay, vars
<1>2. CASE HumanUndoes
  <2>1. /\ game.state = "running" /\ Len(game.history) >= UndoLength(game)
        /\ game.turn \in game.config.human /\ game' = Undo(game)
    BY <1>2 DEF HumanUndoes, Playing, HumanTurn, CanUndo
  <2>2. Booked(Undo(game))
    BY <2>1, UndoBooked
  <2> QED BY <2>1, <2>2
<1> QED
  BY <1>1, <1>2, HumanPlacesBooks, HumanQuitsBooks, EngineMovesBooks DEF Next

(* init_game, whatever the options.                                        *)
LEMMA InitBooked == Init => Booked(game)
<1> SUFFICES ASSUME Init PROVE Booked(game)
  OBVIOUS
<1>1. PICK options \in CommandLines : game = NewGame(ParseArguments(options))
  BY DEF Init
<1> DEFINE config == ParseArguments(options)
<1>2. config.human \in SUBSET Colors
  BY DEF ParseArguments
<1> HIDE DEF config
<1>3. /\ game.history = <<>> /\ game.thoughts = <<>> /\ game.undos = 0 /\ game.lastAi = None
      /\ game.total = [p \in Colors |-> 0] /\ game.config = config
  BY <1>1 DEF NewGame, config
<1>4. EngineOf(game) = <<>> /\ SpentOf(game) = [p \in Colors |-> 0]
  BY <1>3, LedgerNothing DEF EngineOf, SpentOf, NewLedger
<1>5. Match(<<>>, <<>>, game.history[1]) /\ Len(<<>>) = 0
  BY DEF Match
<1> QED BY <1>2, <1>3, <1>4, <1>5 DEF Booked, Tallies

-----------------------------------------------------------------------------
(* A line is completed by the player who moved last.                       *)
LEMMA WinnerMovedLast ==
  ASSUME NEW g, Sound(g), g.state \in Colors
  PROVE  Len(g.history) \in Nat /\ Len(g.history) >= 1 /\ g.state = ColorOfPly(Len(g.history))
<1> DEFINE b == g.board
           h == g.history
           n == Len(h)
           p == g.state
<1>1. Follows(b, h) /\ n \in Nat /\ DOMAIN h = 1 .. n /\ \A k \in 0 .. n - 1 : OpenAfter(h, k)
  BY DEF Sound, Follows
<1>2. p \in Colors /\ p = Verdict(b, "running")
  BY DEF Sound, Ended, Colors
<1> HIDE DEF b, h, n, p
<1>3. Five(StonesOf(b, p))
  BY <1>2 DEF Verdict, Colors
<1>4. Five(Laid(h, n, p))
  BY <1>1, <1>2, <1>3, VerdictOnBoard DEF n
<1>5. n # 0
  <2>1. ASSUME n = 0 PROVE Laid(h, n, p) = {}
    BY <2>1 DEF Laid
  <2> QED BY <1>4, <2>1, GameAssumption
<1>6. ~Five(Laid(h, n - 1, p))
  <2>1. n - 1 \in 0 .. n - 1
    BY <1>1, <1>5
  <2>2. OpenAfter(h, n - 1)
    BY <1>1, <2>1
  <2> QED BY <1>2, <2>2 DEF OpenAfter, Colors
<1>7. ASSUME ColorOfPly(n) # p PROVE Laid(h, n, p) = Laid(h, n - 1, p)
  <2>1. \A j \in 1 .. n : ColorOfPly(j) = p => j \in 1 .. n - 1
    BY <1>1, <1>7
  <2>2. \A j \in 1 .. n - 1 : j \in 1 .. n
    BY <1>1
  <2> QED BY <2>1, <2>2 DEF Laid
<1>8. n >= 1
  BY <1>1, <1>5
<1> QED BY <1>1, <1>4, <1>6, <1>7, <1>8 DEF n, h, p

(* What write_game_json makes of the list of moves.                        *)
LEMMA WrittenMoves ==
  ASSUME NEW g, Sound(g)
  PROVE  /\ \A i \in 1 .. Len(g.history) :
              LET m == WrittenMove(g, g.history[i])
              IN  /\ m \in Entries /\ m.cell = g.history[i].cell
                  /\ m.player = g.history[i].player /\ m.winner = g.history[i].winner
         /\ Written(g).moves \in Seq(Entries) /\ Len(Written(g).moves) = Len(g.history)
         /\ \A i \in 1 .. Len(g.history) : Written(g).moves[i] = WrittenMove(g, g.history[i])
<1> DEFINE h == g.history
           moves == [i \in DOMAIN h |-> WrittenMove(g, h[i])]
<1>1. h \in Seq(Entries) /\ Len(h) \in Nat /\ DOMAIN h = 1 .. Len(h)
      /\ \A i \in 1 .. Len(h) : h[i] \in Entries
  BY DEF Sound, Follows
<1>2. ASSUME NEW i \in 1 .. Len(h)
      PROVE  LET m == WrittenMove(g, h[i])
             IN  /\ m \in Entries /\ m.cell = h[i].cell
                 /\ m.player = h[i].player /\ m.winner = h[i].winner
  <2>1. h[i] \in Entries
    BY <1>1
  <2> DEFINE e == h[i]
             looked == IF e.player \in g.config.human THEN 0 ELSE e.evals
  <2>2. looked \in Nat
    BY <2>1 DEF Entries
  <2> HIDE DEF e, looked
  <2>3. LET m == [cell |-> e.cell, player |-> e.player, time |-> e.time, winner |-> e.winner,
                  evals |-> looked]
        IN  /\ m \in Entries /\ m.cell = e.cell /\ m.player = e.player /\ m.winner = e.winner
    BY <2>1, <2>2 DEF Entries, e
  <2> QED BY <2>3 DEF WrittenMove, looked, e
<1>3. Written(g).moves = moves
  BY DEF Written
<1>4. moves \in Seq(Entries) /\ Len(moves) = Len(h)
      /\ \A i \in 1 .. Len(h) : moves[i] = WrittenMove(g, h[i])
  BY <1>1, <1>2
<1> QED BY <1>2, <1>3, <1>4

(* The replay shows the first n moves of game g.                           *)
Drawn(s, g) ==
  LET n == Len(s.history)
      h == g.history
  IN  /\ DOMAIN s = Fields
      /\ s.history \in Seq(Entries)
      /\ n <= Len(h) /\ Len(h) # 0
      /\ \A i \in 1 .. n : s.history[i] = WrittenMove(g, h[i])
      /\ s.board \in [Squares -> Colors \cup {Empty}]
      /\ \A i \in 1 .. n : s.board[h[i].cell] = ColorOfPly(i)
      /\ \A c \in Taken(s.board) : \E i \in 1 .. n : h[i].cell = c
      /\ s.state = IF n = Len(h) /\ g.state \in Colors THEN g.state ELSE "running"

ReplayInv ==
  /\ phase \in {"play", "over", "replay", "end"}
  /\ phase # "play" => game.state # "running"
  /\ phase \in {"play", "over"} => shown = Blank
  /\ phase = "over" => file \in {NoFile, Written(game)}
  /\ phase \in {"replay", "end"} => file = Written(game) /\ Drawn(shown, game)

(* The fields that a replayed move sets.                                   *)
LEMMA SetDrawn ==
  ASSUME NEW g, DOMAIN g = Fields, NEW vb, NEW vu, NEW vl, NEW vh, NEW vs
  PROVE  LET n == [g EXCEPT !.board = vb, !.turn = vu, !.lastAi = vl, !.history = vh, !.state = vs]
         IN  DOMAIN n = Fields /\ n.board = vb /\ n.history = vh /\ n.state = vs
BY DEF Fields

(* Nothing is drawn at first.                                              *)
LEMMA BlankDrawn ==
  ASSUME NEW g, Len(g.history) # 0, Len(g.history) \in Nat
  PROVE  Drawn(Blank, g)
<1>1. /\ DOMAIN Blank = Fields /\ Blank.history = <<>> /\ Blank.board = EmptyBoard
      /\ Blank.state = "running"
  BY DEF Blank, NewGame, Fields
<1>2. /\ EmptyBoard \in [Squares -> Colors \cup {Empty}]
      /\ \A c \in Squares : EmptyBoard[c] = Empty
  BY DEF EmptyBoard
<1>3. Len(<<>>) = 0 /\ <<>> \in Seq(Entries)
  OBVIOUS
<1> HIDE DEF Blank
<1> QED BY <1>1, <1>2, <1>3 DEF Drawn, Taken

(* One move more is drawn.                                                 *)
LEMMA OneMoreDrawn ==
  ASSUME NEW s, NEW g, Sound(g), Drawn(s, g), Len(s.history) < Len(g.history),
         NEW n, DOMAIN n = Fields,
         NEW m, m = WrittenMove(g, g.history[Len(s.history) + 1]),
         n.board = [s.board EXCEPT ![m.cell] = m.player],
         n.history = Append(s.history, m),
         n.state = IF m.winner THEN m.player ELSE s.state
  PROVE  Drawn(n, g)
<1> DEFINE h == g.history
           k == Len(s.history)
           len == Len(h)
           b == s.board
           nb == n.board
           nh == n.history
<1>1. /\ Follows(g.board, h) /\ len \in Nat /\ DOMAIN h = 1 .. len
      /\ \A i \in 1 .. len : h[i] \in Entries /\ h[i].cell \in Squares
                             /\ h[i].player = ColorOfPly(i)
      /\ \A i, j \in 1 .. len : h[i].cell = h[j].cell => i = j
      /\ \A i \in 1 .. len : h[i].winner <=> i = len /\ g.state \in Colors
  <2>1. Follows(g.board, h) /\ len \in Nat /\ DOMAIN h = 1 .. len
    BY DEF Sound, Follows
  <2>2. \A i \in 1 .. len : h[i] \in Entries /\ h[i].cell \in Squares
    BY <2>1, FollowsAt
  <2>3. /\ \A i \in 1 .. len : h[i].player = ColorOfPly(i)
        /\ \A i, j \in 1 .. len : h[i].cell = h[j].cell => i = j
    BY <2>1 DEF Follows
  <2>4. \A i \in 1 .. len : h[i].winner <=> i = len /\ g.state \in Colors
    BY <2>1 DEF Sound
  <2> QED BY <2>1, <2>2, <2>3, <2>4
<1>2. /\ s.history \in Seq(Entries) /\ k \in Nat /\ k < len
      /\ \A i \in 1 .. k : s.history[i] = WrittenMove(g, h[i])
      /\ b \in [Squares -> Colors \cup {Empty}]
      /\ \A i \in 1 .. k : b[h[i].cell] = ColorOfPly(i)
      /\ \A c \in Taken(b) : \E i \in 1 .. k : h[i].cell = c
      /\ s.state = "running"
  BY DEF Drawn
<1>3. k + 1 \in 1 .. len
  BY <1>1, <1>2
<1>4. /\ m \in Entries /\ m.cell = h[k + 1].cell /\ m.player = h[k + 1].player
      /\ m.winner = h[k + 1].winner
  BY <1>3, WrittenMoves
<1> HIDE DEF h, k, len
<1>5. /\ m.cell = h[k + 1].cell /\ m.cell \in Squares
      /\ m.player = ColorOfPly(k + 1) /\ m.player \in Colors /\ m.player # Empty
      /\ m.winner <=> k + 1 = len /\ g.state \in Colors
  <2>1. m.cell = h[k + 1].cell /\ m.cell \in Squares /\ m.player = ColorOfPly(k + 1)
    BY <1>1, <1>3, <1>4 DEF h, k
  <2>2. m.player \in Colors /\ m.player # Empty
    BY <1>2, <2>1, PlyColors
  <2>3. m.winner <=> k + 1 = len /\ g.state \in Colors
    BY <1>1, <1>3, <1>4 DEF h, k
  <2> QED BY <2>1, <2>2, <2>3
<1>6. /\ nh \in Seq(Entries) /\ Len(nh) = k + 1 /\ nh[k + 1] = m
      /\ \A i \in 1 .. k : nh[i] = s.history[i]
  BY <1>2, <1>4 DEF k
<1>7. /\ nb \in [Squares -> Colors \cup {Empty}]
      /\ nb[m.cell] = m.player /\ \A c \in Squares \ {m.cell} : nb[c] = b[c]
  BY <1>2, <1>5
<1> HIDE DEF b, nb, nh
<1>8. \A i \in 1 .. k + 1 : i \in 1 .. k \/ i = k + 1
  BY <1>2
<1>9. \A i \in 1 .. k + 1 : nh[i] = WrittenMove(g, h[i])
  BY <1>2, <1>6, <1>8 DEF h, k
<1>10. \A i \in 1 .. k + 1 : nb[h[i].cell] = ColorOfPly(i)
  <2>1. ASSUME NEW i \in 1 .. k PROVE h[i].cell \in Squares \ {m.cell}
    <3>1. i \in 1 .. len /\ i # k + 1
      BY <1>1, <1>2
    <3> QED BY <1>1, <1>3, <1>5, <3>1
  <2> QED BY <1>2, <1>5, <1>7, <1>8, <2>1
<1>11. \A c \in Taken(nb) : \E i \in 1 .. k + 1 : h[i].cell = c
  <2> SUFFICES ASSUME NEW c \in Squares, nb[c] # Empty
               PROVE  \E i \in 1 .. k + 1 : h[i].cell = c
    BY DEF Taken
  <2>1. CASE c = m.cell
    BY <1>2, <1>5, <2>1
  <2>2. CASE c # m.cell
    <3>1. c \in Taken(b)
      BY <1>7, <2>2 DEF Taken
    <3>2. PICK i \in 1 .. k : h[i].cell = c
      BY <1>2, <3>1
    <3> QED BY <1>8, <1>2, <3>2
  <2> QED BY <2>1, <2>2
<1>12. n.state = IF k + 1 = len /\ g.state \in Colors THEN g.state ELSE "running"
  <2>1. CASE m.winner
    <3>1. g.state = ColorOfPly(len)
      BY <1>5, <2>1, WinnerMovedLast DEF len, h
    <3> QED BY <1>5, <2>1, <3>1
  <2>2. CASE ~m.winner
    BY <1>2, <1>5, <2>2
  <2> QED BY <2>1, <2>2
<1>13. k + 1 <= len /\ len # 0
  BY <1>1, <1>2
<1> QED BY <1>6, <1>7, <1>9, <1>10, <1>11, <1>12, <1>13 DEF Drawn, h, len, nb, nh

(* When all moves are drawn, the board is that of the game.                *)
LEMMA AllDrawn ==
  ASSUME NEW s, NEW g, Sound(g), Drawn(s, g), Len(s.history) = Len(g.history)
  PROVE  s.board = g.board
<1>1. Follows(g.board, g.history) /\ DOMAIN g.history = 1 .. Len(g.history)
  BY DEF Sound, Follows
<1>2. ASSUME NEW c \in Squares PROVE s.board[c] = g.board[c]
  <2>1. CASE \E i \in 1 .. Len(g.history) : g.history[i].cell = c
    BY <1>1, <2>1, FollowsAt DEF Drawn
  <2>2. CASE ~\E i \in 1 .. Len(g.history) : g.history[i].cell = c
    <3>1. c \notin Taken(g.board) /\ c \notin Taken(s.board)
      BY <1>1, <2>2 DEF Drawn, Follows
    <3> QED BY <3>1 DEF Taken
  <2> QED BY <2>1, <2>2
<1>3. s.board \in [Squares -> Colors \cup {Empty}] /\ g.board \in [Squares -> Colors \cup {Empty}]
  BY <1>1 DEF Drawn, Follows
<1> QED BY <1>2, <1>3

(* Every step of the program.                                              *)
LEMMA StepReplays ==
  ASSUME Sound(game), ReplayInv, [Next]_vars
  PROVE  ReplayInv'
<1>1. CASE \/ \E c \in Squares, t \in Times : HumanPlaces(c, t)
           \/ HumanUndoes \/ HumanQuits
           \/ \E t \in Times, n \in Evals : EngineMoves(t, n)
  <2>1. phase = "play" /\ phase' = phase /\ shown' = shown
    BY <1>1 DEF HumanPlaces, HumanUndoes, HumanQuits, EngineMoves, Playing
  <2>2. shown' = Blank'
    BY <2>1 DEF ReplayInv, Blank, NewGame, EmptyBoard
  <2> QED BY <2>1, <2>2 DEF ReplayInv
<1>2. CASE Finish \/ PressKey
  <2>1. LoopLeft /\ WriteFile
    BY <1>2 DEF Finish, PressKey, AwaitsKey
  <2>2. shown' = Blank' /\ Written(game)' = Written(game')
    BY <2>1 DEF LoopLeft, WriteFile, ReplayInv, Blank
  <2> QED BY <2>1, <2>2 DEF LoopLeft, WriteFile, ReplayInv
<1>3. CASE StartReplay
  <2>1. /\ phase = "over" /\ file.saved /\ file.moves # <<>> /\ phase' = "replay"
        /\ UNCHANGED <<game, file, shown>>
    BY <1>3 DEF StartReplay
  <2>2. file = Written(game) /\ shown = Blank /\ game.state # "running"
    BY <2>1 DEF ReplayInv, NoFile
  <2>3. Len(game.history) \in Nat /\ Len(game.history) # 0
    <3>1. /\ Written(game).moves \in Seq(Entries)
          /\ Len(Written(game).moves) = Len(game.history)
      BY WrittenMoves
    <3>2. Written(game).moves # <<>>
      BY <2>1, <2>2
    <3> HIDE DEF Written
    <3> QED BY <3>1, <3>2
  <2>4. Drawn(shown, game)
    BY <2>2, <2>3, BlankDrawn
  <2> QED BY <2>1, <2>2, <2>4 DEF ReplayInv
<1>4. CASE ReplayMove
  <2> DEFINE m == file.moves[Len(shown.history) + 1]
             board == [shown.board EXCEPT ![m.cell] = m.player]
             history == Append(shown.history, m)
             state == IF m.winner THEN m.player ELSE shown.state
  <2>1. /\ phase = "replay" /\ UNCHANGED <<game, phase, file>>
        /\ Len(shown.history) < Len(file.moves)
        /\ shown' = [shown EXCEPT !.board = board, !.turn = m.player, !.lastAi = m.cell,
                                  !.history = history, !.state = state]
    BY <1>4 DEF ReplayMove
  <2>2. file = Written(game) /\ Drawn(shown, game) /\ game.state # "running"
    BY <2>1 DEF ReplayInv
  <2>3. DOMAIN shown = Fields /\ Len(shown.history) \in Nat
    BY <2>2 DEF Drawn
  <2>4. /\ Len(shown.history) < Len(game.history)
        /\ m = WrittenMove(game, game.history[Len(shown.history) + 1])
    <3>1. /\ Len(Written(game).moves) = Len(game.history)
          /\ \A i \in 1 .. Len(game.history) :
               Written(game).moves[i] = WrittenMove(game, game.history[i])
      BY WrittenMoves
    <3>2. Len(game.history) \in Nat
      BY DEF Sound, Follows
    <3>3. Len(shown.history) < Len(game.history)
      BY <2>1, <2>2, <3>1
    <3>4. Len(shown.history) + 1 \in 1 .. Len(game.history)
      BY <2>3, <3>2, <3>3
    <3> QED BY <2>2, <3>1, <3>3, <3>4
  <2> HIDE DEF m
  <2>5. /\ DOMAIN shown' = Fields /\ shown'.board = board /\ shown'.history = history
        /\ shown'.state = state
    <3> HIDE DEF board, history, state
    <3> QED BY <2>1, <2>3, SetDrawn
  <2>6. Drawn(shown', game)
    BY <2>2, <2>4, <2>5, OneMoreDrawn
  <2> QED BY <2>1, <2>2, <2>6 DEF ReplayInv
<1>5. CASE LeaveReplay
  BY <1>5 DEF LeaveReplay, ReplayInv
<1>6. CASE UNCHANGED vars
  BY <1>6 DEF vars, ReplayInv
<1> QED BY <1>1, <1>2, <1>3, <1>4, <1>5, <1>6 DEF Next

(* What the invariant says of the property.                                *)
LEMMA ReplayIsFaithful ==
  ASSUME Sound(game), ReplayInv
  PROVE  ReplayShowsTheGame
<1> SUFFICES ASSUME phase \in {"replay", "end"}
             PROVE  LET n == Len(shown.history)
                    IN  /\ \A i \in 1 .. n : shown.history[i] = WrittenMove(game, game.history[i])
                        /\ IF n = Len(game.history)
                           THEN /\ shown.board = game.board
                                /\ shown.state = IF game.state \in Colors THEN game.state
                                                                          ELSE "running"
                           ELSE shown.state = "running"
  BY DEF ReplayShowsTheGame, History
<1>1. Drawn(shown, game)
  BY DEF ReplayInv
<1>2. Len(shown.history) = Len(game.history) => shown.board = game.board
  BY <1>1, AllDrawn
<1> QED BY <1>1, <1>2 DEF Drawn

-----------------------------------------------------------------------------
(* The record of a game agrees with its list of moves, and every proper    *)
(* prefix of that list is a game still open.                               *)
THEOREM RecordInvariance == Spec => []IInv
<1>1. IInv /\ [Next]_vars => IInv'
  BY StepKeeps DEF Keeps
<1> QED BY InitSound, <1>1, PTL DEF Spec

(* Board, turn, verdict, stone count and hash agree with the moves, on any *)
(* board, for any rule of winning and whatever is undone.                  *)
THEOREM RecordAlwaysAgrees == Spec => []RecordAgrees
<1> QED BY RecordInvariance, SoundAgrees, PTL

(* Times, thoughts and marker stand for the moves that stand, whatever was *)
(* undone and however long the game.                                       *)
THEOREM BookkeepingAlwaysAgrees == Spec => []Bookkeeping
<1>1. IInv /\ Booked(game) /\ [Next]_vars => Booked(game)'
  BY StepBooks DEF IInv
<1>2. Booked(game) => Bookkeeping
  BY DEF Booked, Tallies, Match, EngineOf, SpentOf, Bookkeeping, EngineEntries, History
<1> QED BY <1>1, <1>2, InitBooked, RecordInvariance, PTL DEF Spec

(* A replayed file shows the game it was written from, move by move, and   *)
(* its winner with the winning move and no earlier.                        *)
THEOREM ReplayAlwaysShowsTheGame == Spec => []ReplayShowsTheGame
<1>1. Init => ReplayInv
  BY DEF Init, ReplayInv
<1>2. IInv /\ ReplayInv /\ [Next]_vars => ReplayInv'
  BY StepReplays DEF IInv
<1>3. IInv /\ ReplayInv => ReplayShowsTheGame
  BY ReplayIsFaithful DEF IInv
<1> QED BY <1>1, <1>2, <1>3, RecordInvariance, PTL DEF Spec

(* After an undo it is a person's turn.                                    *)
THEOREM UndoAlwaysHandsBack == Spec => UndoHandsTurnBack
<1>1. IInv /\ [Next]_vars => [HandsBack]_vars
  BY StepKeeps DEF Keeps
<1>2. UndoHandsTurnBack <=> [][HandsBack]_vars
  BY DEF UndoHandsTurnBack, HandsBack
<1> QED BY <1>1, <1>2, RecordInvariance, PTL DEF Spec

(* The terminal program implements the plain game of a list of moves.      *)
THEOREM RecordImplementsBoardGame == Spec => ImplementsBoardGame
<1>1. IInv /\ [Next]_vars => [Abstract!Next]_(Abstract!vars)
  BY StepKeeps DEF Keeps, AbstractStep
<1> QED BY <1>1, InitSound, RecordInvariance, PTL DEF Spec, ImplementsBoardGame, Abstract!Spec
=============================================================================
