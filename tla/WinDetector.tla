---------------------------- MODULE WinDetector ----------------------------
(***************************************************************************)
(* The win rule of the game server: api/app/multiplayer/win_detector.py,   *)
(* with the whole-board scan of the C and Rust engines it was ported from. *)
(* A move list is a sequence of cells <<x, y>>; X owns the odd plies.      *)
(***************************************************************************)
EXTENDS Integers, Sequences

CONSTANTS
  BoardSize,   (* side of the square board, 15 or 19 in the code            *)
  WinLength    (* stones in a winning line, the literal 5 of the code       *)

ASSUME BoardAssumption ==
  /\ BoardSize \in Nat \ {0}
  /\ WinLength \in Nat \ {0}

Colors == {"X", "O"}
Opposite(c) == IF c = "X" THEN "O" ELSE "X"

Cells == (0 .. BoardSize - 1) \X (0 .. BoardSize - 1)

(* The four directions; each line is walked both ways from a cell.         *)
Dirs == {<<1, 0>>, <<0, 1>>, <<1, 1>>, <<1, -1>>}
Shift(c, d, k) == <<c[1] + k * d[1], c[2] + k * d[2]>>

(* The parity of its position in the list says who placed a stone.         *)
ColorOfPly(i) == IF i % 2 = 1 THEN "X" ELSE "O"
StonesOf(moves, color) ==
  {moves[i] : i \in {j \in DOMAIN moves : ColorOfPly(j) = color}}

(* How many stones of `own` follow c without a gap when the walk goes in   *)
(* direction d (sign = 1) or against it (sign = -1), c itself excluded.    *)
Walk(own, c, d, sign) ==
  CHOOSE k \in 0 .. BoardSize :
    /\ \A j \in 1 .. k : Shift(c, d, sign * j) \in own
    /\ Shift(c, d, sign * (k + 1)) \notin own

RunThrough(own, c, d) == 1 + Walk(own, c, d, 1) + Walk(own, c, d, -1)

(* has_winner of the server: only the lines through the last move, which   *)
(* must be a stone of the player it is asked about.                        *)
CompletesLine(own, c) ==
  /\ c \in own
  /\ \E d \in Dirs : RunThrough(own, c, d) = WinLength

HasWinner(moves, c, color) == CompletesLine(StonesOf(moves, color), c)

(* has_winner of the engines: every stone of the player, every direction.  *)
ScanHasWinner(own) ==
  \E c \in own, d \in Dirs : RunThrough(own, c, d) = WinLength

-----------------------------------------------------------------------------
(* The rule itself, without walking: WinLength stones in a row with no     *)
(* stone of the same colour at either end (an overline does not win).      *)
IsExactLine(own, c, d) ==
  /\ \A k \in 0 .. WinLength - 1 : Shift(c, d, k) \in own
  /\ Shift(c, d, -1) \notin own
  /\ Shift(c, d, WinLength) \notin own

HasExactLine(own) == \E c \in own, d \in Dirs : IsExactLine(own, c, d)
=============================================================================
