---------------------------- MODULE MCLocalGame ----------------------------
(***************************************************************************)
(* The terminal program on a row of five cells where exactly three in a    *)
(* row win: lines, overlines, draws and positions one undo before a line   *)
(* all occur.                                                              *)
(***************************************************************************)
EXTENDS LocalGame

Rule == INSTANCE WinDetector WITH BoardSize <- 5, WinLength <- 3

Row == {<<0, k>> : k \in 0 .. 4}
Middle == <<0, 2>>
Lines == {S \in SUBSET Row : Rule!ScanHasWinner(S)}
ExactlyThree(S) == S \in Lines
NextDoor(c) == IF c[2] < 4 THEN <<0, c[2] + 1>> ELSE <<0, c[2] - 1>>

(* Against the engine with either colour, two people with and without a    *)
(* limit, two engines with and without a terminal.                         *)
Starts ==
  {<<>>,
   <<<<"U", 1>>>>,
   <<<<"o", "human">>>>,
   <<<<"x", "ai">>, <<"U", 0>>>>,
   <<<<"x", "human">>, <<"o", "human">>, <<"U", 1>>>>,
   <<<<"x", "ai">>, <<"o", "ai">>>>,
   <<<<"q", "">>>>}
=============================================================================
