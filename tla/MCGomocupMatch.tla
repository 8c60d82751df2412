--------------------------- MODULE MCGomocupMatch ---------------------------
(***************************************************************************)
(* A match on a row of four cells where exactly three in a row win.        *)
(***************************************************************************)
EXTENDS GomocupMatch

Rule == INSTANCE WinDetector WITH BoardSize <- 4, WinLength <- 3

Row == {<<0, k>> : k \in 0 .. 3}
Middle == <<0, 2>>
Lines == {S \in SUBSET Row : Rule!ScanHasWinner(S)}
ExactlyThree(S) == S \in Lines
NextDoor(c) == IF c[2] < 3 THEN <<0, c[2] + 1>> ELSE <<0, c[2] - 1>>

(* Nothing, a lone stone of either side, two and three stones, noise.      *)
Bodies ==
  {<<>>,
   <<<<Middle, 2>>>>,
   <<<<Middle, 1>>>>,
   <<<<<<0, 0>>, 2>>>>,
   <<<<<<0, 1>>, 1>>, Garbage, <<Outside, 2>>, <<<<0, 3>>, 2>>, <<<<0, 1>>, 2>>>>,
   <<<<Middle, 2>>, <<<<0, 0>>, 1>>, <<<<0, 3>>, 2>>>>}
=============================================================================
