--------------------------- MODULE MCPatternPlay ---------------------------
(***************************************************************************)
(* A board of two lines that cross, one of seven cells and one of five:    *)
(* fives, overlines, open and broken fours, and threats in two directions. *)
(***************************************************************************)
EXTENDS PatternPlay

Crossing == {<<k, 3>> : k \in 0 .. 6} \cup {<<1, k>> : k \in 1 .. 5}

(* The win rule alone, over every set of stones on a small square board:   *)
(* the scan finds exactly the exact-length lines, and looking through the  *)
(* last stone gives the same answer if there was no line before it.        *)
Small == INSTANCE WinDetector WITH BoardSize <- 3, WinLength <- 2

ASSUME ScanFindsTheRule ==
  \A own \in SUBSET Small!Cells :
    LET wins == Small!ScanHasWinner(own)
    IN  /\ wins <=> Small!HasExactLine(own)
        /\ \A c \in own : ~Small!ScanHasWinner(own \ {c}) =>
                           (Small!CompletesLine(own, c) <=> wins)
=============================================================================
