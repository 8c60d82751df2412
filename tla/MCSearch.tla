------------------------------ MODULE MCSearch ------------------------------
(***************************************************************************)
(* The search on a 3 x 3 board where three in a row win, with the win rule *)
(* of WinDetector.                                                         *)
(***************************************************************************)
EXTENDS Search

Rule == INSTANCE WinDetector WITH BoardSize <- 3, WinLength <- 3

(* The rule, looked up: the sets of stones with a line through one of them.*)
LinesThrough == {<<S, c>> \in (SUBSET Rule!Cells) \X Rule!Cells : Rule!CompletesLine(S, c)}
RuleThrough(own, c) == Cardinality(own) >= 3 /\ <<own, c>> \in LinesThrough

Board3 == Rule!Cells
Middle == <<1, 1>>
Around(c, d) == c[1] - d[1] \in -1 .. 1 /\ c[2] - d[2] \in -1 .. 1

(* Middle, corners, edges, and of these the upper left ones first.         *)
Corners == {<<0, 0>>, <<0, 2>>, <<2, 0>>, <<2, 2>>}
MiddleFirst(p, c) ==
  (IF c = Middle THEN 200 ELSE IF c \in Corners THEN 100 ELSE 0) - 3 * c[1] - c[2]

(* The first of the diagonal replies that is on the board.                 *)
Diagonal(c) ==
  LET replies == <<<<1, 1>>, <<1, -1>>, <<-1, 1>>, <<-1, -1>>>>
      At(i) == <<c[1] + replies[i][1], c[2] + replies[i][2]>>
  IN  At(CHOOSE i \in 1 .. 4 : At(i) \in Board3 /\ \A j \in 1 .. i - 1 : At(j) \notin Board3)

(* The patterns: a line of the other player that must be stopped, and a    *)
(* corner that opens two lines at once; other forks are left to the search.*)
Completing(own, p) == {c \in Candidates(p) : RuleThrough(own \cup {c}, c)}
CornerForks(p) == {c \in Corners \cap Candidates(p) :
                     Cardinality(Completing(p.mine \cup {c}, Put(p, c, TRUE))) >= 2}
FixedPatterns(p) ==
  LET blocks == Completing(p.theirs, p)
  IN  IF blocks # {} THEN blocks ELSE CornerForks(p)

(* A score that looks only at the cells next to the last stone, and takes  *)
(* three corners for a win, as the code may do with a sum of patterns.     *)
NextToLast(p, c) ==
  IF Cardinality(p.mine \cap Corners) = 3 THEN Win
  ELSE   Cardinality({d \in p.mine \ {c} : Around(c, d)})
       - Cardinality({d \in p.theirs \ {c} : Around(c, d)})

(* The clock may run out when few cells are left, or at any time.          *)
NearTheEnd(p) == Cardinality(Stones(p)) >= 7
Always(p) == TRUE
=============================================================================
