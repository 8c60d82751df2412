------------------------------ MODULE Threats ------------------------------
(***************************************************************************)
(* What the C engine sees in a position before it searches: the value of a *)
(* cell by the lines through it (evaluate_threat_fast of gomoku-c/src/     *)
(* gomoku/ai.c) and the victory by continuous threats (find_forced_win).   *)
(* Unlike the win rule, neither looks at whole lines: a direction is       *)
(* followed from the cell, across one gap at most.                         *)
(***************************************************************************)
EXTENDS WinDetector, FiniteSetsExt

CONSTANTS
  Squares,   (* the cells of the board                                      *)
  Radius,    (* search_radius                                               *)
  VctDepth   (* how many fours a forced win may take, 10 in the code        *)

ASSUME ThreatsAssumption ==
  /\ WinLength = 5
  /\ Squares \subseteq Cells
  /\ Radius \in Nat \ {0} /\ VctDepth \in Nat

(* A position: the stones of each colour.                                  *)
Taken(pos) == pos["X"] \cup pos["O"]
IsFree(pos, c) == c \in Squares /\ c \notin pos["X"] /\ c \notin pos["O"]
Free(pos) == Squares \ Taken(pos)
Put(pos, c, p) == [pos EXCEPT ![p] = @ \cup {c}]

(* generate_moves_optimized: the middle of an empty board, else the free   *)
(* cells near a stone.                                                     *)
Near(c, s) == c[1] - s[1] \in -Radius .. Radius /\ c[2] - s[2] \in -Radius .. Radius
Candidates(pos) ==
  IF Taken(pos) = {} THEN {<<BoardSize \div 2, BoardSize \div 2>>} \cap Squares
  ELSE {c \in Free(pos) : \E s \in Taken(pos) : Near(c, s)}

-----------------------------------------------------------------------------
(* analyze_direction: the stones next to c on one side, those behind one   *)
(* gap as well, and whether the cell at which the walk ends is free.       *)
BeyondAcross(pos, gap, d, sign, near, far) ==                    \* mutant
  [near |-> near + far, total |-> near + far, holes |-> 0,
   open |-> IF IsFree(pos, gap) THEN 1 ELSE 0]
BeyondOpenEdge(pos, gap, d, sign, near, far) ==                  \* mutant
  [near |-> near, total |-> near, holes |-> 0,
   open |-> IF gap \in Taken(pos) THEN 0 ELSE 1]
Beyond(pos, gap, d, sign, near, far) ==
  LET end == IF far > 0 THEN Shift(gap, d, sign * (far + 1)) ELSE gap
  IN  [near |-> near, total |-> near + far,
       holes |-> IF far > 0 THEN 1 ELSE 0,
       open |-> IF IsFree(pos, end) THEN 1 ELSE 0]

(* The walk stops at the first cell that is not p's, and goes on if free.  *)
AtGap(pos, p, gap, d, sign, near) ==
  Beyond(pos, gap, d, sign, near, IF IsFree(pos, gap) THEN Walk(pos[p], gap, d, sign) ELSE 0)
AnalyzeDirection(pos, p, c, d, sign) ==
  LET near == Walk(pos[p], c, d, sign)
  IN  AtGap(pos, p, Shift(c, d, sign * (near + 1)), d, sign, near)

(* The pattern a stone of p on c makes in one direction.                   *)
KindOf(contiguous, total, single, ends) ==
  LET ByEnds(two, one, none) == IF ends = 2 THEN two ELSE IF ends = 1 THEN one ELSE none
  IN  IF contiguous = 5 THEN "five"
      ELSE IF contiguous > 5 THEN "overline"
      ELSE IF contiguous = 4 THEN ByEnds("open four", "closed four", "dead four")
      ELSE IF total >= 4 /\ single THEN "broken four"
      ELSE IF contiguous = 3 THEN ByEnds("open three", "closed three", "dead three")
      ELSE IF total = 3 /\ single THEN ByEnds("broken three", "half-open three", "nothing")
      ELSE IF contiguous = 2 THEN ByEnds("open two", "nothing", "nothing")
      ELSE "nothing"
LineKind(pos, p, c, d) ==
  LET a == AnalyzeDirection(pos, p, c, d, 1)
      b == AnalyzeDirection(pos, p, c, d, -1)
  IN  KindOf(1 + a.near + b.near, 1 + a.total + b.total, a.holes + b.holes <= 1, a.open + b.open)

Worth(kind) ==
  IF kind = "five" THEN 1000000
  ELSE IF kind = "open four" THEN 500000
  ELSE IF kind \in {"closed four", "broken four"} THEN 100000
  ELSE IF kind \in {"open three", "broken three"} THEN 1500
  ELSE IF kind = "closed three" THEN 500
  ELSE IF kind = "half-open three" THEN 400
  ELSE IF kind = "open two" THEN 100
  ELSE 0

Fours == {"open four", "closed four", "dead four", "broken four"}
OpenThrees == {"open three", "broken three"}
Threes == OpenThrees \cup {"closed three", "dead three", "half-open three"}

(* evaluate_threat_fast: the best line through the cell, or what several   *)
(* lines are worth together.                                               *)
WorthTogether(lines) ==
  LET Lines(kinds) == Cardinality({l \in lines : l[2] \in kinds})
      fours == Lines(Fours)
      threes == Lines(Threes)
      openThrees == Lines(OpenThrees)
      openTwos == Lines({"open two"})
      Together(condition, value) == IF condition THEN {value} ELSE {}
  IN  Max({Worth(l[2]) : l \in lines}
          \cup Together(fours >= 1 /\ threes >= 1, 45000)
          \cup Together(openThrees >= 2, 40000)
          \cup Together(fours >= 2, 48000)
          \cup Together(openThrees >= 1 /\ threes >= 2, 30000)
          \cup Together(openTwos >= 2, 25000)
          \cup Together(openTwos >= 1 /\ openThrees >= 1, 15000))
EvaluateThreat(pos, p, c) == WorthTogether({<<d, LineKind(pos, p, c, d)>> : d \in Dirs})

-----------------------------------------------------------------------------
(* is_winning_move                                                         *)
WinningMove(pos, p, c) == ScanHasWinner(pos[p] \cup {c})

(* find_block_cell: the ends of the lines of p's stones through c at which *)
(* one more stone wins; only a single one is an answer.                    *)
NoCell == <<>>
FindBlockCell(pos, p, c) ==
  LET short == {s \in Dirs \X {1, -1} : Walk(pos[p], c, s[1], s[2]) < 5}
      ends == {Shift(c, s[1], s[2] * (Walk(pos[p], c, s[1], s[2]) + 1)) : s \in short}
      winning == {e \in ends \cap Free(pos) : WinningMove(pos, p, e)}
  IN  IF Cardinality(winning) = 1 THEN CHOOSE e \in winning : TRUE ELSE NoCell

(* find_forced_win: a move is worth enough, or it forces one answer after  *)
(* which there is a forced win again, with one four less to go (won).      *)
Positions == [Colors -> SUBSET Squares]
Forcing(pos, p, c, won) ==
  LET after == Put(pos, c, p)
      block == FindBlockCell(after, p, c)
  IN  /\ EvaluateThreat(pos, p, c) >= 8000
      /\ \/ \E e \in Candidates(pos) \ {c} : EvaluateThreat(after, p, e) >= 40000
         \/ /\ block # NoCell
            /\ EvaluateThreat(after, Opposite(p), block) < 8000
            /\ won[Put(after, block, Opposite(p))]
ForcedWin[depth \in Nat] ==
  [p \in Colors |-> [pos \in Positions |->
     \/ \E c \in Candidates(pos) : EvaluateThreat(pos, p, c) >= 40000
     \/ depth > 0 /\ \E c \in Candidates(pos) : Forcing(pos, p, c, ForcedWin[depth - 1][p])]]
HasForcedWin(pos, p, depth) == ForcedWin[depth][p][pos]

(* The moves it may return: it takes the first it finds.                   *)
FindForcedWin(pos, p, depth) ==
  LET enough == {c \in Candidates(pos) : EvaluateThreat(pos, p, c) >= 40000}
  IN  IF enough # {} THEN enough
      ELSE {c \in Candidates(pos) : depth > 0 /\ Forcing(pos, p, c, ForcedWin[depth - 1][p])}

(* find_forced_win_block: what disrupts the other player's forced win, of  *)
(* that what is worth most to p, or else the first move of that win.       *)
FindForcedWinBlock(pos, p, depth) ==
  LET them == Opposite(p)
      disrupting == {c \in Candidates(pos) : ~HasForcedWin(Put(pos, c, p), them, depth)}
      Better(c, e) == EvaluateThreat(pos, p, c) > EvaluateThreat(pos, p, e)
  IN  IF ~HasForcedWin(pos, them, depth) THEN {}
      ELSE IF disrupting = {} THEN FindForcedWin(pos, them, depth)
      ELSE {c \in disrupting : \A e \in disrupting : ~Better(e, c)}
=============================================================================
