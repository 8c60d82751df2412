----------------------------- MODULE LocalGame -----------------------------
(***************************************************************************)
(* The terminal program: the loop of gomoku-c/src/gomoku/main.c with the   *)
(* keys of ui.c, the options of cli.c, the game file of write_game_json    *)
(* and load_game_json, and a later run of the program that replays it.     *)
(***************************************************************************)
EXTENDS GameState, SequencesExt

CONSTANTS
  CommandLines, (* the option lists the program may be started with         *)
  Times,        (* how long a move may take                                 *)
  Evals,        (* how many positions a search may report                   *)
  MaxUndos      (* a bound on the undos of a game whose undo is unlimited   *)

ASSUME LocalAssumption ==
  Times \subseteq Nat /\ Evals \subseteq Nat /\ MaxUndos \in Nat

VARIABLES
  game,   (* the game record                                                *)
  phase,  (* "play", "over" (result written or not), "replay", "end"        *)
  file,   (* the game file, or NoFile                                       *)
  shown,  (* the record that the replay draws                               *)
  headless (* config.headless: the program has no terminal                  *)

vars == <<game, phase, file, shown, headless>>

-----------------------------------------------------------------------------
(* parse_arguments. An option is <<letter, value>>; the options are taken  *)
(* in their order, and only then is the other side of a lone -o human or   *)
(* -x ai inferred.                                                         *)
Defaults == [X |-> "human", O |-> "ai", xSet |-> FALSE, oSet |-> FALSE, limit |-> 5,
             headless |-> FALSE]

ApplyOption(parsed, option) ==
  CASE option[1] = "q" -> [parsed EXCEPT !.X = "ai", !.O = "ai", !.headless = TRUE]
    [] option[1] = "x" -> [parsed EXCEPT !.X = option[2], !.xSet = TRUE]
    [] option[1] = "o" -> [parsed EXCEPT !.O = option[2], !.oSet = TRUE]
    [] option[1] = "U" -> [parsed EXCEPT !.limit = option[2]]

InferX(p) == IF p.oSet /\ ~p.xSet /\ p.O = "human" THEN [p EXCEPT !.X = "ai"] ELSE p
InferO(p) == IF p.xSet /\ ~p.oSet /\ p.X = "ai" THEN [p EXCEPT !.O = "human"] ELSE p

ParseArguments(options) ==
  LET p == InferO(InferX(FoldLeft(ApplyOption, Defaults, options)))
  IN  [human |-> {c \in Colors : p[c] = "human"}, undo |-> TRUE, limit |-> p.limit]
Headless(options) == FoldLeft(ApplyOption, Defaults, options).headless

-----------------------------------------------------------------------------
NoFile == [saved |-> FALSE]

(* write_game_json. What a search cost is written for an engine's move     *)
(* only, and not when it is 0; moves are named like "H7", which loses      *)
(* nothing. A game that was left has no winner.                            *)
WrittenMoveUnflagged(g, m) ==                                    \* mutant
  [cell |-> m.cell, player |-> m.player, time |-> m.time, winner |-> FALSE,
   evals |-> IF m.player \in g.config.human THEN 0 ELSE m.evals]
WrittenMove(g, m) ==
  [cell |-> m.cell, player |-> m.player, time |-> m.time, winner |-> m.winner,
   evals |-> IF m.player \in g.config.human THEN 0 ELSE m.evals]
Written(g) ==
  [saved |-> TRUE,
   winner |-> IF g.state \in {"X", "O", "draw"} THEN g.state ELSE "none",
   board |-> g.board,
   total |-> g.total,
   moves |-> [i \in DOMAIN g.history |-> WrittenMove(g, g.history[i])]]

(* run_replay_mode: a fresh record, whose players do not matter.           *)
Blank == NewGame([human |-> Colors, undo |-> TRUE, limit |-> 5])

Init ==
  /\ \E options \in CommandLines :
       game = NewGame(ParseArguments(options)) /\ headless = Headless(options)
  /\ phase = "play"
  /\ file = NoFile
  /\ shown = Blank

Playing == phase = "play" /\ game.state = "running"
HumanTurn == game.turn \in game.config.human

(* Space or Enter on a cell (handle_input), or nothing on a taken one.     *)
HumanPlaces(c, t) ==
  /\ Playing /\ HumanTurn
  /\ Valid(game.board, c)
  /\ game' = MakeMove(game, c, game.turn, t, 0)
  /\ UNCHANGED <<phase, file, shown, headless>>

(* U                                                                       *)
HumanUndoes ==
  /\ Playing /\ HumanTurn
  /\ CanUndo(game) /\ game.undos < MaxUndos
  /\ game' = Undo(game)
  /\ UNCHANGED <<phase, file, shown, headless>>

(* q or Esc                                                                *)
HumanQuits ==
  /\ Playing /\ HumanTurn
  /\ game' = [game EXCEPT !.state = "quit"]
  /\ UNCHANGED <<phase, file, shown, headless>>

(* The engine's turn. The number of positions kept with the move is read   *)
(* back from the newest thought, except for the first move of the game.    *)
EngineMoves(t, n) ==
  /\ Playing /\ ~HumanTurn
  /\ \E c \in BestMoves(game.board) \ {None} :
       LET after == Think(game, n)
           evals == IF game.history = <<>> THEN 1 ELSE Last(after.thoughts)
       IN  game' = [MakeMove(after, c, game.turn, t, evals) EXCEPT !.lastAi = c]
  /\ UNCHANGED <<phase, file, shown, headless>>

(* The loop is left. A game that has ended on a terminal stays on show     *)
(* until a key is pressed; then the game file is written, if one was asked *)
(* for and it can be opened.                                               *)
LoopLeft == phase = "play" /\ game.state # "running"
AwaitsKey == LoopLeft /\ game.state # "quit" /\ ~headless

WriteFile ==
  /\ phase' = "over"
  /\ file' \in {NoFile, Written(game)}
  /\ UNCHANGED <<game, shown, headless>>

Finish == LoopLeft /\ ~AwaitsKey /\ WriteFile

PressKey == AwaitsKey /\ WriteFile

(* The program is started again to replay the file; a file without moves   *)
(* is refused.                                                             *)
StartReplay ==
  /\ phase = "over" /\ file.saved
  /\ file.moves # <<>>
  /\ phase' = "replay"
  /\ UNCHANGED <<game, file, shown, headless>>

(* One turn of the replay's loop: the stone is put down without the rules  *)
(* of make_move, and the state follows the flag of the entry alone.        *)
ReplayMove ==
  /\ phase = "replay"
  /\ Len(shown.history) < Len(file.moves)
  /\ LET m == file.moves[Len(shown.history) + 1]
     IN  shown' = [shown EXCEPT !.board[m.cell] = m.player,
                                !.turn = m.player,
                                !.lastAi = m.cell,
                                !.history = Append(@, m),
                                !.state = IF m.winner THEN m.player ELSE @]
  /\ UNCHANGED <<game, phase, file, headless>>

(* The last key, or q at any time before.                                  *)
LeaveReplay ==
  /\ phase = "replay"
  /\ phase' = "end"
  /\ UNCHANGED <<game, file, shown, headless>>

Next ==
  \/ \E c \in Squares, t \in Times : HumanPlaces(c, t)
  \/ HumanUndoes
  \/ HumanQuits
  \/ \E t \in Times, n \in Evals : EngineMoves(t, n)
  \/ Finish \/ PressKey
  \/ StartReplay \/ ReplayMove \/ LeaveReplay

(* The engine thinks without waiting for anyone, and the program ends by   *)
(* itself where no key is awaited. Nobody has to press a key: neither to   *)
(* move nor when a game on a terminal has ended.                           *)
EngineTurn == \E t \in Times, n \in Evals : EngineMoves(t, n)
Spec == Init /\ [][Next]_vars /\ WF_vars(EngineTurn) /\ WF_vars(Finish)
-----------------------------------------------------------------------------
History == game.history
Cell(i) == History[i].cell
ColorOfPly(i) == IF i % 2 = 1 THEN "X" ELSE "O"

(* The board holds the stones of the history and no others, X and O in     *)
(* turn, each on a cell of its own.                                        *)
BoardFromHistory ==
  /\ \A i \in DOMAIN History : History[i].player = ColorOfPly(i)
  /\ \A i, j \in DOMAIN History : Cell(i) = Cell(j) => i = j
  /\ \A i \in DOMAIN History : game.board[Cell(i)] = ColorOfPly(i)
  /\ \A c \in Taken(game.board) : \E i \in DOMAIN History : Cell(i) = c

(* The turn: the other player's while the game runs, else the last mover's.*)
Decided == game.state \in {"X", "O", "draw"}
TurnFromHistory ==
  game.turn = ColorOfPly(IF Decided THEN Len(History) ELSE Len(History) + 1)

CachesAgree ==
  game.stones = Len(History) /\ game.hash = HashOf(game.board)

(* The state is the verdict on the board as it is, whether it was reached  *)
(* by a move or by an undo, and only the winning move is flagged.          *)
VerdictIsCurrent ==
  /\ Decided <=> Verdict(game.board, "running") # "running"
  /\ Decided => game.state = Verdict(game.board, "running")
  /\ \A i \in DOMAIN History :
       History[i].winner <=> i = Len(History) /\ game.state \in Colors

(* game.c keeps the same game several times over: as a board, a list of    *)
(* moves, a turn, a verdict, a stone count and a hash. They agree after    *)
(* any moves and undos.                                                    *)
RecordAgrees == BoardFromHistory /\ TurnFromHistory /\ CachesAgree /\ VerdictIsCurrent

(* What the entries of a history add up to: the time of each player, and   *)
(* the entries of the engine.                                              *)
Enter(ledger, m) ==
  [human |-> ledger.human,
   spent |-> [ledger.spent EXCEPT ![m.player] = @ + m.time],
   engine |-> IF m.player \in ledger.human THEN ledger.engine ELSE Append(ledger.engine, m)]
NewLedger(human) == [human |-> human, spent |-> [p \in Colors |-> 0], engine |-> <<>>]
Ledger(human, history) == FoldLeft(Enter, NewLedger(human), history)
EngineEntries == Ledger(game.config.human, History).engine

(* undo_last_moves takes back with the moves what the record holds beside  *)
(* them. The totals are those of the moves that still stand; no thought of *)
(* the engine is missing but what a full window dropped and an undo did    *)
(* not bring back; the k-th last thought is about the k-th last engine     *)
(* move, which keeps its number of positions (the first move of a game     *)
(* keeps 1); the marker is not on a stone that is gone or on an older move.*)
Bookkeeping ==
  /\ game.total = Ledger(game.config.human, History).spent
  /\ Len(game.thoughts) <= Len(EngineEntries)
  /\ Len(game.thoughts) >= Window - game.undos \/ Len(game.thoughts) = Len(EngineEntries)
  /\ LET entries == EngineEntries
     IN  \A k \in 0 .. Len(game.thoughts) - 1 :
           LET m == entries[Len(entries) - k]
           IN  m.evals = game.thoughts[Len(game.thoughts) - k] \/ m = History[1]
  /\ game.lastAi # None => game.lastAi = Last(EngineEntries).cell

(* After an undo it is a person's turn, also against the engine: the       *)
(* engine never gets to move in the place of the person who took back.     *)
UndoHandsTurnBack ==
  [][game'.undos # game.undos => game'.turn \in game'.config.human]_vars

(* A replayed file ends on the position of the game it was written from,   *)
(* with the winner of that game and the same move list, as far as the list *)
(* is drawn, and shows a winner no earlier than with the winning move.     *)
ReplayShowsTheGame ==
  LET n == Len(shown.history)
  IN  phase \in {"replay", "end"} =>
        /\ \A i \in 1 .. n : shown.history[i] = WrittenMove(game, History[i])
        /\ IF n = Len(History)
           THEN /\ shown.board = game.board
                /\ shown.state = IF game.state \in Colors THEN game.state ELSE "running"
           ELSE shown.state = "running"

(* The record with all its caches implements the plain game of a move list.*)
ResultSeen == CASE game.state = "running" -> "open"
                [] game.state = "quit" -> "left"
                [] OTHER -> game.state
Abstract == INSTANCE BoardGame WITH
  moves <- [i \in DOMAIN History |-> Cell(i)], result <- ResultSeen
ImplementsBoardGame == Abstract!Spec

(* The engine's turn always ends, with a move that hands the turn to a     *)
(* person or with the end of the game, which a terminal shows until a key  *)
(* is pressed; two engines play to the end, and without a terminal the     *)
(* program gets past it by itself.                                         *)
EngineAnswers ==
  Playing /\ ~HumanTurn ~> phase = "over" \/ AwaitsKey \/ (Playing /\ HumanTurn)
=============================================================================
