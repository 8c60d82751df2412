---------------------------- MODULE PatternPlay ----------------------------
(***************************************************************************)
(* The steps of find_best_ai_move that come before the search, in a game   *)
(* of the engine against a player who plays anything: a five, the block of *)
(* a five or an open four, an open four, a forced win, the disruption of   *)
(* one. Where none of them applies, and on a board with a single stone,    *)
(* the engine plays any candidate; how the search chooses is Search.       *)
(***************************************************************************)
EXTENDS Threats

VARIABLES
  pos,      (* the board                                                    *)
  engine,   (* the engine's colour                                          *)
  said      (* ai_status_message: which step it came from                   *)

vars == <<pos, engine, said>>

them == Opposite(engine)
Turn == IF Cardinality(pos["X"]) = Cardinality(pos["O"]) THEN "X" ELSE "O"
Running == ~ScanHasWinner(pos["X"]) /\ ~ScanHasWinner(pos["O"]) /\ Free(pos) # {}
Thinking == Running /\ Turn = engine

Init ==
  /\ pos = [p \in Colors |-> {}]
  /\ engine \in Colors
  /\ said = "nothing"

Respond(c) ==
  /\ Running /\ Turn = them /\ c \in Free(pos)
  /\ pos' = Put(pos, c, them)
  /\ UNCHANGED <<engine, said>>

-----------------------------------------------------------------------------
Mine(c) == EvaluateThreat(pos, engine, c)
Theirs(c) == EvaluateThreat(pos, them, c)

(* Step 1 and its collection of open fours for later.                      *)
Fives == {c \in Candidates(pos) : Mine(c) >= 1000000}
OpenFours == {c \in Candidates(pos) : Mine(c) = 500000}

(* Step 2: of the cells at which the other player wins or makes an open    *)
(* four, the most urgent, and of those the best for the engine.            *)
Urgent ==
  LET most == Max({Theirs(c) : c \in Candidates(pos)})
  IN  {c \in Candidates(pos) : Theirs(c) >= 500000 /\ Theirs(c) = most}
Blocks == LET urgent == Urgent IN {c \in urgent : \A e \in urgent : Mine(e) <= Mine(c)}

ForcedWins == FindForcedWin(pos, engine, VctDepth)
Disruptions == FindForcedWinBlock(pos, engine, VctDepth)

Answer(c, step) ==
  /\ pos' = Put(pos, c, engine)
  /\ said' = step
  /\ UNCHANGED engine

PlayFive == Thinking /\ \E c \in Fives : Answer(c, "checkmate")

BlockThreat == Thinking /\ Fives = {} /\ \E c \in Blocks : Answer(c, "block")

PlayOpenFour ==
  Thinking /\ Fives = {} /\ Urgent = {} /\ \E c \in OpenFours : Answer(c, "open four")

(* Steps 3 to 5: a forced win, the disruption of one, the search.          *)
QuietUnblocked == Thinking /\ Fives = {} /\ OpenFours = {}       \* mutant
Quiet == Thinking /\ Fives = {} /\ Urgent = {} /\ OpenFours = {}

PlayForcedWin == Quiet /\ \E c \in ForcedWins : Answer(c, "forced win")

BreakOrSearch ==
  /\ Quiet /\ ~HasForcedWin(pos, engine, VctDepth)
  /\ LET breaks == Disruptions
     IN  IF breaks # {} THEN \E c \in breaks : Answer(c, "disruption")
         ELSE \E c \in Candidates(pos) : Answer(c, "search")

Next ==
  \/ \E c \in Squares : Respond(c)
  \/ PlayFive \/ BlockThreat \/ PlayOpenFour \/ PlayForcedWin \/ BreakOrSearch

Spec == Init /\ [][Next]_vars

-----------------------------------------------------------------------------
(* Four pieces of code decide whether a stone wins: the evaluation follows *)
(* each line from the cell, across gaps; the server looks through the last *)
(* stone; the engines scan the board. They agree with the rule, exactly    *)
(* five in a row, for either player at every free cell.                    *)
WinnersAgree ==
  Running => \A p \in Colors : \A c \in Free(pos) :
    LET own == pos[p] \cup {c}
        wins == HasExactLine(own)
    IN  /\ ScanHasWinner(own) <=> wins
        /\ CompletesLine(own, c) <=> wins
        /\ EvaluateThreat(pos, p, c) >= 1000000 <=> wins

Completing(p) == {c \in Free(pos) : HasExactLine(pos[p] \cup {c})}

(* Whatever else there is on the board, the engine takes a five if it has  *)
(* one, and otherwise stops one of the other player.                       *)
FiveIsNotOverlooked ==
  [][pos'[engine] # pos[engine] =>
       LET urgent == IF Completing(engine) # {} THEN Completing(engine) ELSE Completing(them)
       IN  urgent # {} => pos'[engine] \ pos[engine] \subseteq urgent]_vars

(* "Creating unstoppable open four!": when the other player has replied,   *)
(* nobody but the engine has won, and it can. (A further stone one gap     *)
(* beyond the four makes six at that end, which the code overlooks.)       *)
StoneBeyondFour ==
  \E c \in pos[engine], d \in Dirs, sign \in {1, -1} :
    LET gap == Walk(pos[engine], c, d, sign) + 1
    IN  /\ RunThrough(pos[engine], c, d) = 4
        /\ Shift(c, d, sign * gap) \in Free(pos)
        /\ Shift(c, d, sign * (gap + 1)) \in pos[engine]
OpenFourWins ==
  said = "open four" =>
    /\ ~ScanHasWinner(pos[them])
    /\ Thinking => Completing(engine) # {} \/ StoneBeyondFour

(* "This move creates an unstoppable compound threat": a forced win cannot *)
(* be answered by taking from the engine every line it could still fill.   *)
(* The code does not keep this (README).                                   *)
Fillable(p) == {c \in Cells : \E d \in Dirs : \A k \in 0 .. 4 :
                  Shift(c, d, k) \in Squares \ pos[Opposite(p)]}
ForcedWinIsForced ==
  said = "forced win" /\ ~ScanHasWinner(pos[engine]) => Fillable(engine) # {}
=============================================================================
