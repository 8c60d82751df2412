----------------------------- MODULE EngineApi -----------------------------
(***************************************************************************)
(* POST /gomoku/play of gomoku-httpd: how net/json_api.c reads a game from *)
(* a request, what handle_play of net/handlers.c decides about it, and how *)
(* the answer is written. The daemon keeps nothing between two requests:   *)
(* the game travels in the bodies.                                         *)
(*                                                                         *)
(* A body is Garbage, or a record of the board size ("allowed" stands for  *)
(* the one of 15 and 19 that the game is played on), the two players and   *)
(* the moves. A move names a colour (None: a key that begins with neither  *)
(* X nor O), a place and the positions evaluated for it; a place is a      *)
(* cell, Outside for an array of numbers beyond the board, or Unreadable   *)
(* for a string that is no coordinate of this board. Depth, radius, undo   *)
(* and times of a request only pass through, and are left out.             *)
(***************************************************************************)
EXTENDS GameState, SequencesExt

CONSTANTS Garbage, Outside, Unreadable, Evals

PlayerTypes == {"human", "ai"}

(* The shapes of an entry of "moves", of a request that is JSON and of an  *)
(* answer, and of the record of a game.                                    *)
MoveEntries ==
  [who : Colors \cup {None}, at : Squares \cup {Outside, Unreadable}, evals : Int]
PlayRequests == [size : STRING, X : STRING, O : STRING, moves : Seq(MoveEntries)]
PlayAnswers ==
  [size : {"allowed"}, X : PlayerTypes, O : PlayerTypes,
   winner : {"none", "X", "O", "draw"}, moves : Seq(MoveEntries)]
States == {"running", "X", "O", "draw"}
Games ==
  [board : [Squares -> Colors \cup {Empty}], turn : Colors, state : States,
   history : Seq([cell : Squares, player : Colors, time : Nat, evals : Int, winner : BOOLEAN]),
   undos : Nat, thoughts : Seq(Nat), lastAi : Squares \cup {None},
   total : [Colors -> Nat], stones : Nat, hash : SUBSET (Colors \X Squares), config : Config]

ASSUME ApiAssumption ==
  /\ {Outside, Unreadable} \cap Squares = {} /\ Evals \subseteq Int
  /\ None \notin Colors \cup Games \cup PlayAnswers
  /\ Garbage \notin PlayRequests \cup PlayAnswers

(* notation_to_coord, the test on x, y and player, and make_move for one   *)
(* entry of "moves": an entry that cannot be read is passed over, one that *)
(* names a taken cell or a cell beyond the board spoils the request. The   *)
(* order of the colours is not looked at.                                  *)
ReadMoveOldName(game, m) ==                                      \* mutant
  IF game = None \/ m.who = None \/ m.at = Unreadable THEN game
  ELSE IF ~Valid(game.board, m.at) THEN None
  ELSE MakeMove(game, m.at, m.who, 0, 0)
ReadMove(game, m) ==
  IF game = None \/ m.who = None \/ m.at = Unreadable THEN game
  ELSE IF ~Valid(game.board, m.at) THEN None
  ELSE MakeMove(game, m.at, m.who, 0, m.evals)

ReadMoves(game, moves) == FoldLeft(ReadMove, game, moves)

(* json_api_parse_game; None for a request that is refused.                *)
ConfigOf(body) ==
  [human |-> {p \in Colors : body[p] = "human"}, undo |-> TRUE, limit |-> 5]
ParseGameTurnX(body) ==                                          \* mutant
  IF body = Garbage THEN None
  ELSE IF body.size # "allowed" \/ ~({body.X, body.O} \subseteq PlayerTypes) THEN None
  ELSE ReadMoves(NewGame(ConfigOf(body)), body.moves)
ParseGame(body) ==
  IF body = Garbage THEN None
  ELSE IF body.size # "allowed" \/ ~({body.X, body.O} \subseteq PlayerTypes) THEN None
  ELSE LET game == ReadMoves(NewGame(ConfigOf(body)), body.moves)
       IN  IF game = None \/ game.history = <<>> THEN game
           ELSE [game EXCEPT !.turn = Other(Last(game.history).player),
                             !.state = Verdict(game.board, @)]

(* json_api_serialize_game_ex: what a search cost goes with the engine's   *)
(* moves only, and only a number above 0 is written; none reads as 0.      *)
Serialize(game) ==
  [size |-> "allowed", X |-> IF "X" \in game.config.human THEN "human" ELSE "ai",
   O |-> IF "O" \in game.config.human THEN "human" ELSE "ai",
   winner |-> IF game.state = "running" THEN "none" ELSE game.state,
   moves |-> [i \in DOMAIN game.history |->
     LET m == game.history[i]
     IN  [who |-> m.player, at |-> m.cell,
          evals |-> IF m.player \in game.config.human \/ m.evals < 0 THEN 0 ELSE m.evals]]]

(* json_api_has_winner                                                     *)
HasWinner(game) == game.state \in {"X", "O", "draw"}

(* The part of handle_play before the search: a finished game comes back   *)
(* as it is, and only an engine's turn is searched for.                    *)
Assess(body) ==
  LET game == ParseGame(body)
  IN  IF game = None THEN "bad request"
      ELSE IF HasWinner(game) THEN "finished"
      ELSE IF game.turn \in game.config.human THEN "bad request"
      ELSE "search"

(* The search, and with how many evaluations its move is recorded: the     *)
(* first and the second move of a game are played without one, and then    *)
(* the number is read from a field nobody has set.                         *)
BestCells(game) ==
  IF game.history = <<>> THEN {Centre}
  ELSE IF Len(game.history) = 1 THEN {FirstReply(game.board)}
  ELSE BestMoves(game.board)

(* The part after the search: the bodies that may be answered, or None for *)
(* a server error.                                                         *)
Reply(game, c) ==
  IF c = None \/ ~Valid(game.board, c) THEN {None}
  ELSE {Serialize(MakeMove(game, c, game.turn, 0, n)) : n \in Evals}
Replies(game) == UNION {Reply(game, c) : c \in BestCells(game)}
=============================================================================
