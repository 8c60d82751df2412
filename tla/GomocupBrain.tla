---------------------------- MODULE GomocupBrain ----------------------------
(***************************************************************************)
(* The tournament brain, gomoku-c/src/gomocup: what each line of the       *)
(* Gomocup protocol makes of the brain's state, as the set of outcomes a   *)
(* handler may have. An outcome is the new state of the brain and the line *)
(* it answers with. GomocupMatch sends the lines.                          *)
(*                                                                         *)
(* A line is a record: its verb, and an argument that is Garbage when the  *)
(* tokeniser cannot read it. Wire and engine coordinates differ in their   *)
(* order only (coords.c), so a cell stands for either; a cell that is not  *)
(* in Squares is off the board. Times are in units of 50 ms.               *)
(***************************************************************************)
EXTENDS GameState, SequencesExt

CONSTANTS
  Garbage,      (* an argument that does not parse                          *)
  DefaultTurn, DefaultMatch,       (* DEFAULT_TURN_MS, DEFAULT_MATCH_MS     *)
  SafetyMargin, LeastBudget        (* GOMOCUP_SAFETY_MARGIN_MS and 50 ms    *)

ASSUME BrainAssumption ==
  /\ {DefaultTurn, DefaultMatch, SafetyMargin, LeastBudget} \subseteq Nat \ {0}
  /\ Garbage \notin Squares \cup Nat
  /\ Garbage \notin {"timeout_turn", "timeout_match", "time_left", "rule"} \X Nat

Smaller(a, b) == IF a <= b THEN a ELSE b
Greater(a, b) == IF a >= b THEN a ELSE b

(* brain_t                                                                 *)
Unknown == "unknown"

(* time_budget_init                                                        *)
InitBudget ==
  [turn |-> DefaultTurn, match |-> DefaultMatch, left |-> DefaultMatch,
   estimate |-> DefaultMatch, received |-> FALSE]

(* make_brain_config: two engines, undo without a limit.                   *)
BrainConfig == [human |-> {}, undo |-> TRUE, limit |-> 0]

InitBrain ==
  [game |-> NewGame(BrainConfig), self |-> Unknown, started |-> FALSE,
   budget |-> InitBudget]

Outcome(b, line) == [brain |-> b, out |-> line]
Silence == [line |-> "nothing"]
Ok      == [line |-> "ok"]
Error   == [line |-> "error"]
Move(c, granted) == [line |-> "move", cell |-> c, granted |-> granted]

(* protocol_parse_line: which command a line is. START wants a positive    *)
(* number, TURN, TAKEBACK and RECTSTART a pair, INFO a key.                *)
WithArgument == {"START", "RECTSTART", "TURN", "TAKEBACK", "INFO"}
Bare == {"RESTART", "BEGIN", "BOARD", "END", "ABOUT", "SWAP2BOARD"}
Kind(line) ==
  IF line.verb = "" THEN "EMPTY"
  ELSE IF line.verb \in WithArgument /\ line.arg = Garbage THEN "INVALID"
  ELSE IF line.verb \in WithArgument \cup Bare THEN line.verb
  ELSE "UNKNOWN"

-----------------------------------------------------------------------------
(* time_budget.c                                                           *)
SetTurn(budget, t) == [budget EXCEPT !.turn = t]
SetMatch(budget, t) ==
  IF budget.received THEN [budget EXCEPT !.match = t]
  ELSE [budget EXCEPT !.match = t, !.left = t, !.estimate = t]
SetTimeLeft(budget, t) ==
  [budget EXCEPT !.left = t, !.estimate = t, !.received = TRUE]

ComputeSecondsToTheEnd(budget) ==                                \* mutant
  LET remaining == IF budget.received THEN budget.left ELSE budget.estimate
  IN  IF budget.turn = 0 THEN 0 ELSE Greater(LeastBudget, Smaller(budget.turn, remaining))
ComputeSeconds(budget) ==
  LET remaining == IF budget.received THEN budget.left ELSE budget.estimate
      room == Greater(0, remaining - SafetyMargin)
  IN  IF budget.turn = 0 THEN 0
      ELSE Greater(LeastBudget, Smaller(budget.turn, room))

RecordElapsed(budget, elapsed) ==
  [budget EXCEPT !.estimate = Greater(0, budget.estimate - elapsed),
                 !.left = Greater(0, budget.left - elapsed)]

-----------------------------------------------------------------------------
(* reset_game                                                              *)
ResetGame(b) == [b EXCEPT !.game = NewGame(BrainConfig), !.self = Unknown]

(* compute_and_emit_move: the search runs for the brain's own colour; what *)
(* it returns is put on the board if that is possible, and answered in any *)
(* case.                                                                   *)
ComputeAndEmit(b, elapsed) ==
  LET self == IF b.self = Unknown THEN "X" ELSE b.self
      granted == ComputeSeconds(b.budget)
      Searched == Think([b.game EXCEPT !.turn = self], 1)
      Chosen(best) == IF best = None THEN Centre ELSE best
  IN  {Outcome([b EXCEPT !.self = self,
                         !.game = MakeMove(Searched, Chosen(best), self, 0, 0),
                         !.budget = RecordElapsed(b.budget, elapsed)],
               Move(Chosen(best), granted)) : best \in BestMoves(b.game.board)}

HandleStart(b, size) ==
  {IF size # 15 THEN Outcome(b, Error)
   ELSE Outcome([ResetGame(b) EXCEPT !.budget = InitBudget, !.started = TRUE], Ok)}

(* handle_restart: the clocks stay as they are.                            *)
HandleRestart(b) ==
  {IF ~b.started THEN Outcome(b, Error) ELSE Outcome(ResetGame(b), Ok)}

(* handle_begin: the centre, searched for by nobody.                       *)
HandleBegin(b) ==
  {IF ~b.started THEN Outcome(b, Error)
   ELSE Outcome([b EXCEPT !.self = "X",
                          !.game = MakeMove([b.game EXCEPT !.turn = "X"], Centre, "X", 0, 0)],
                Move(Centre, 0))}

(* handle_turn: a brain without a colour becomes O, even if the stone that *)
(* comes with the command is then refused.                                 *)
HandleTurn(b, c, elapsed) ==
  LET self == IF b.self = Unknown THEN "O" ELSE b.self
      named == [b EXCEPT !.self = self]
  IN  IF ~b.started THEN {Outcome(b, Error)}
      ELSE IF ~Valid(b.game.board, c) THEN {Outcome(named, Error)}
      ELSE ComputeAndEmit([named EXCEPT !.game = MakeMove(b.game, c, Other(self), 0, 0)], elapsed)

(* handle_takeback: any stone may be named; the history loses its last     *)
(* entry, whichever stone that was, and state and turn stay.               *)
HandleTakebackBoardOnly(b, c) ==                                 \* mutant
  {IF ~b.started \/ c \notin Taken(b.game.board) THEN Outcome(b, Error)
   ELSE Outcome([b EXCEPT !.game.board[c] = Empty], Ok)}
HandleTakeback(b, c) ==
  LET board == [b.game.board EXCEPT ![c] = Empty]
  IN  {IF ~b.started \/ c \notin Taken(b.game.board) THEN Outcome(b, Error)
       ELSE Outcome([b EXCEPT !.game =
                       [b.game EXCEPT !.board = board,
                                      !.history = Pop(@),
                                      !.stones = Cardinality(Taken(board)),
                                      !.hash = HashOf(board)]], Ok)}

ApplyInfo(b, key, value) ==
  {Outcome([b EXCEPT !.budget =
              CASE key = "timeout_turn" -> SetTurn(b.budget, value)
                [] key = "timeout_match" -> SetMatch(b.budget, value)
                [] key = "time_left" -> SetTimeLeft(b.budget, value)
                [] OTHER -> b.budget], Silence)}

(* One row of BOARD, <<cell, field>>; a row that does not parse, is off    *)
(* the board or names a taken cell is passed over. Field 1 is the brain's. *)
PlaceRow(game, self, row) ==
  IF row = Garbage THEN game
  ELSE MakeMove(game, row[1], IF row[2] = 1 THEN self ELSE Other(self), 0, 0)
PlaceRows(game, self, rows) ==
  FoldLeft(LAMBDA placed, row : PlaceRow(placed, self, row), game, rows)

(* handle_board: the board is emptied and filled row by row until DONE,    *)
(* then the brain moves. A brain without a colour becomes X.               *)
HandleBoardOverlay(b, rows, elapsed) ==                          \* mutant
  LET self == IF b.self = Unknown THEN "X" ELSE b.self
      filled == PlaceRows(b.game, self, rows)
  IN  IF ~b.started THEN {Outcome(b, Error)}
      ELSE ComputeAndEmit([b EXCEPT !.self = self, !.game = filled], elapsed)
HandleBoard(b, rows, elapsed) ==
  LET self == IF b.self = Unknown THEN "X" ELSE b.self
      emptied == [b.game EXCEPT !.board = EmptyBoard, !.history = <<>>,
                                !.stones = 0, !.hash = {}, !.turn = "X"]
      filled == PlaceRows(emptied, self, rows)
  IN  IF ~b.started THEN {Outcome(b, Error)}
      ELSE ComputeAndEmit([b EXCEPT !.self = self, !.game = filled], elapsed)

(* dispatch; END is answered by leaving, which GomocupMatch models.        *)
Dispatch(b, line, elapsed) ==
  LET kind == Kind(line)
  IN  CASE kind = "START" -> HandleStart(b, line.arg)
        [] kind = "RESTART" -> HandleRestart(b)
        [] kind = "BEGIN" -> HandleBegin(b)
        [] kind = "TURN" -> HandleTurn(b, line.arg, elapsed)
        [] kind = "TAKEBACK" -> HandleTakeback(b, line.arg)
        [] kind = "BOARD" -> HandleBoard(b, line.arg, elapsed)
        [] kind = "INFO" -> ApplyInfo(b, line.arg[1], line.arg[2])
        [] kind = "ABOUT" -> {Outcome(b, [line |-> "about"])}
        [] kind = "EMPTY" -> {Outcome(b, Silence)}
        [] kind = "UNKNOWN" -> {Outcome(b, [line |-> "unknown"])}
        [] kind \in {"RECTSTART", "SWAP2BOARD", "INVALID"} -> {Outcome(b, Error)}
=============================================================================
