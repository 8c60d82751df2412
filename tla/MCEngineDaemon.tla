--------------------------- MODULE MCEngineDaemon ---------------------------
(***************************************************************************)
(* The daemon with a board of three cells in a row, where exactly two in a *)
(* row win, and a client that begins with any of a few requests.           *)
(***************************************************************************)
EXTENDS EngineDaemon

Rule == INSTANCE WinDetector WITH BoardSize <- 3, WinLength <- 2

Row == {<<0, k>> : k \in 0 .. 2}
Middle == <<0, 1>>
Lines == {S \in SUBSET Row : Rule!ScanHasWinner(S)}
ExactlyTwo(S) == S \in Lines
NextDoor(c) == IF c[2] < 2 THEN <<0, c[2] + 1>> ELSE <<0, c[2] - 1>>

Game(x, o, moves) == [size |-> "allowed", X |-> x, O |-> o, moves |-> moves]
M(who, k) == [who |-> who, at |-> <<0, k>>, evals |-> 0]
At(who, place) == [who |-> who, at |-> place, evals |-> 0]

(* A new game; lone stones; entries that are passed over; two stones of    *)
(* one colour; a move after the end; a stone on a stone, off the board;    *)
(* wrong fields.                                                           *)
Requests ==
  {Game("ai", "human", <<>>),
   Game("ai", "ai", <<M("O", 1)>>),
   Game("human", "ai", <<M("X", 2), At("O", Unreadable), At(None, <<0, 0>>)>>),
   Game("ai", "ai", <<M("X", 0), M("X", 2)>>),
   Game("ai", "ai", <<M("X", 0), M("X", 1), M("O", 2)>>),
   Game("ai", "ai", <<M("X", 0), M("O", 0)>>),
   Game("ai", "ai", <<At("X", Outside)>>),
   Game("robot", "ai", <<>>), Game("ai", "missing", <<>>),
   [size |-> "refused", X |-> "ai", O |-> "ai", moves |-> <<>>],
   Garbage}

(* A field nobody has set may hold any number.                             *)
Counts == {-1, 1}

Starts ==
  {<<<<"b", 8787>>, <<"a", 8788>>>>, <<<<"b", 8787>>>>, <<<<"b", 0>>>>, <<<<"a", 8788>>>>,
   <<<<"b", 8787>>, <<"L", Garbage>>>>, <<<<"b", 8787>>, <<"h", "">>>>, <<<<"?", "">>>>}
=============================================================================
