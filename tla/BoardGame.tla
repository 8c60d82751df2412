----------------------------- MODULE BoardGame -----------------------------
(***************************************************************************)
(* What the terminal program promises: a game of alternating stones, which *)
(* ends with the first line or a full board and in which the last one or   *)
(* two stones can be taken back while it is open. Nothing else is          *)
(* remembered: not the board, the turn, the clocks or the engine's         *)
(* thoughts, all of which follow from the list of moves.                   *)
(***************************************************************************)
EXTENDS Integers, Sequences, FiniteSets

CONSTANTS Squares, Five(_)

VARIABLES moves, result

vars == <<moves, result>>

Stones(ms, odd) == {ms[i] : i \in {j \in DOMAIN ms : (j % 2 = 1) = odd}}

Outcome(ms) ==
  IF Five(Stones(ms, TRUE)) THEN "X"
  ELSE IF Five(Stones(ms, FALSE)) THEN "O"
  ELSE IF \A c \in Squares : \E i \in DOMAIN ms : ms[i] = c THEN "draw"
  ELSE "open"

Init == moves = <<>> /\ result = "open"

Place(c) ==
  /\ result = "open"
  /\ \A i \in DOMAIN moves : moves[i] # c
  /\ moves' = Append(moves, c)
  /\ result' = Outcome(moves')

TakeBack(k) ==
  /\ result = "open"
  /\ Len(moves) >= k
  /\ moves' = SubSeq(moves, 1, Len(moves) - k)
  /\ result' = "open"

Leave == result = "open" /\ result' = "left" /\ UNCHANGED moves

Next == \/ \E c \in Squares : Place(c)
        \/ \E k \in {1, 2} : TakeBack(k)
        \/ Leave

Spec == Init /\ [][Next]_vars
=============================================================================
