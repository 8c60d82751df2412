----------------------------- MODULE GameState -----------------------------
(***************************************************************************)
(* The game record of the C engine, game_state_t of gomoku-c/src/gomoku/   *)
(* game.h, and the operations of game.c on it. The terminal program, the   *)
(* HTTP daemon and the Gomocup brain all keep their game in this record;   *)
(* their modules extend this one.                                          *)
(*                                                                         *)
(* The board is any finite set of cells. A Zobrist key is modelled by the  *)
(* stone it stands for, so a hash is the set of stones XORed into it.      *)
(***************************************************************************)
EXTENDS Integers, Sequences, FiniteSets

CONSTANTS
  Squares,     (* the cells of the board                                    *)
  Centre,    (* <board_size / 2, board_size / 2>                            *)
  Book(_),   (* the first free cell of the opening table around a lone stone*)
  Five(_),   (* has_winner: do these stones of one colour win?              *)
  Window,    (* MAX_AI_HISTORY                                              *)
  None       (* no cell, the -1 of last_ai_move_x and best_x                *)

ASSUME GameAssumption ==
  /\ IsFiniteSet(Squares) /\ Centre \in Squares /\ None \notin Squares
  /\ \A c \in Squares : Book(c) \in Squares \ {c}
  /\ \A S \in SUBSET Squares : Five(S) \in BOOLEAN
  /\ ~Five({})
  /\ Window \in Nat \ {0}

Colors == {"X", "O"}
Empty == "-"
Other(p) == IF p = "X" THEN "O" ELSE "X"

(* init_game: human holds the colours a person plays, limit is             *)
(* max_undo_allowed, where 0 stands for no limit.                          *)
Config == [human : SUBSET Colors, undo : BOOLEAN, limit : Nat]

EmptyBoard == [c \in Squares |-> Empty]
NewGame(config) ==
  [board |-> EmptyBoard, turn |-> "X", state |-> "running",
   history |-> <<>>, undos |-> 0, thoughts |-> <<>>, lastAi |-> None,
   total |-> [p \in Colors |-> 0], stones |-> 0, hash |-> {}, config |-> config]

StonesOf(board, p) == {c \in Squares : board[c] = p}
Taken(board) == {c \in Squares : board[c] # Empty}
Free(board) == {c \in Squares : board[c] = Empty}

(* compute_zobrist_hash, and the XOR of one key into a hash.               *)
HashOf(board) == {<<board[c], c>> : c \in Taken(board)}
Xor(hash, key) == (hash \ {key}) \cup ({key} \ hash)

(* is_valid_move                                                           *)
Valid(board, c) == c \in Free(board)

(* check_game_state: X is asked first, and nothing but a line or a full    *)
(* board changes the state.                                                *)
VerdictFullFirst(board, state) ==                                \* mutant
  IF Free(board) = {} THEN "draw"
  ELSE IF Five(StonesOf(board, "X")) THEN "X"
  ELSE IF Five(StonesOf(board, "O")) THEN "O"
  ELSE state
Verdict(board, state) ==
  IF Five(StonesOf(board, "X")) THEN "X"
  ELSE IF Five(StonesOf(board, "O")) THEN "O"
  ELSE IF Free(board) = {} THEN "draw"
  ELSE state

(* make_move: the history, the stone, the caches, the verdict, the flag on *)
(* the winning entry; the turn passes only while the game runs on. A move  *)
(* off the board or on a stone changes nothing (the code returns 0).       *)
MakeMove(g, c, p, time, evals) ==
  LET board == [g.board EXCEPT ![c] = p]
      verdict == Verdict(board, g.state)
      entry == [cell |-> c, player |-> p, time |-> time, evals |-> evals,
                winner |-> verdict \in Colors]
  IN  IF ~Valid(g.board, c) THEN g
      ELSE [g EXCEPT !.board = board,
                     !.history = Append(@, entry),
                     !.total[p] = @ + time,
                     !.stones = @ + 1,
                     !.hash = Xor(@, <<p, c>>),
                     !.state = verdict,
                     !.turn = IF verdict = "running" THEN Other(@) ELSE @]

(* can_undo: between two people one move goes back, else a pair.           *)
UndoLengthAlwaysOne(g) == 1                                      \* mutant
UndoLength(g) == IF g.config.human = Colors THEN 1 ELSE 2
CanUndo(g) ==
  /\ g.config.undo
  /\ g.config.limit > 0 => g.undos < g.config.limit
  /\ Len(g.history) >= UndoLength(g)

(* The body of the loop of undo_last_moves: the last entry goes, with its  *)
(* stone, its time and, for an engine's move, the newest of its thoughts.  *)
Pop(s) == IF s = <<>> THEN s ELSE SubSeq(s, 1, Len(s) - 1)
TakeLastAndThought(g) ==                                         \* mutant
  LET last == g.history[Len(g.history)]
  IN  [g EXCEPT !.history = Pop(@),
                !.board[last.cell] = Empty,
                !.thoughts = Pop(@),
                !.total[last.player] = @ - last.time]
TakeLast(g) ==
  LET last == g.history[Len(g.history)]
  IN  [g EXCEPT !.history = Pop(@),
                !.board[last.cell] = Empty,
                !.thoughts = IF last.player \in g.config.human THEN @ ELSE Pop(@),
                !.total[last.player] = @ - last.time]

(* undo_last_moves, once can_undo holds; the caches are built anew.        *)
UndoStaleCaches(g) ==                                            \* mutant
  LET back == IF UndoLength(g) = 1 THEN TakeLast(g) ELSE TakeLast(TakeLast(g))
      left == Len(back.history)
  IN  [back EXCEPT !.undos = @ + 1,
                   !.lastAi = None,
                   !.turn = IF left > 0 THEN Other(back.history[left].player) ELSE "X",
                   !.state = "running"]
Undo(g) ==
  LET back == IF UndoLength(g) = 1 THEN TakeLast(g) ELSE TakeLast(TakeLast(g))
      left == Len(back.history)
  IN  [back EXCEPT !.undos = @ + 1,
                   !.lastAi = None,
                   !.turn = IF left > 0 THEN Other(back.history[left].player) ELSE "X",
                   !.state = "running",
                   !.stones = Cardinality(Taken(back.board)),
                   !.hash = HashOf(back.board)]

(* add_ai_history_entry: a full history loses its oldest entry.            *)
AddThought(g, n) ==
  [g EXCEPT !.thoughts =
     IF Len(@) >= Window THEN Append(SubSeq(@, Len(@) - Window + 2, Len(@)), n)
                         ELSE Append(@, n)]

(* find_first_ai_move: the reply to a lone stone, which it takes to be X's.*)
FirstReply(board) ==
  LET xs == StonesOf(board, "X")
  IN  IF xs = {} THEN Centre ELSE Book(CHOOSE c \in xs : TRUE)

(* The cells find_best_ai_move may choose: the reply to a lone stone, the  *)
(* centre of an empty board, and else any candidate of                     *)
(* generate_moves_optimized (the boards here are no wider than its radius);*)
(* None when there is no candidate at all.                                 *)
BestMovesAnywhere(board) ==                                      \* mutant
  IF Cardinality(Taken(board)) = 1 THEN {FirstReply(board)}
  ELSE IF Taken(board) = {} THEN {Centre}
  ELSE IF Free(board) = {} THEN {None}
  ELSE Squares
BestMoves(board) ==
  IF Cardinality(Taken(board)) = 1 THEN {FirstReply(board)}
  ELSE IF Taken(board) = {} THEN {Centre}
  ELSE IF Free(board) = {} THEN {None}
  ELSE Free(board)

(* What find_best_ai_move leaves in the record: the hash computed from the *)
(* board and a thought; n positions were looked at, 1 for the lone stone.  *)
Think(g, n) ==
  AddThought([g EXCEPT !.hash = HashOf(g.board)],
             IF Cardinality(Taken(g.board)) = 1 THEN 1 ELSE n)
=============================================================================
