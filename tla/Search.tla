------------------------------- MODULE Search -------------------------------
(***************************************************************************)
(* How the C engine finds a move: gomoku-c/src/gomoku/ai.c, with the       *)
(* transposition table of game.c, which lives as long as the game and so   *)
(* carries what one search stored into the searches of later turns.        *)
(*                                                                         *)
(* One player is the engine, the other plays anything. A hash stands for   *)
(* its position and the table has room for every position; Priority stands *)
(* for the order qsort leaves the candidates in, ties in any order, and    *)
(* Evaluate for the pattern scores of the region around the last stone.    *)
(***************************************************************************)
EXTENDS Integers, Sequences, FiniteSets

CONSTANTS
  Squares, Center,  (* the cells of the board, and the one in its middle    *)
  FiveThrough(_, _),(* do these stones win through this one of them?        *)
  Near(_, _),       (* are these cells within search_radius of each other?  *)
  Priority(_, _),   (* how promising a cell is in a position                *)
  Book(_),          (* the reply to a first stone                           *)
  Patterns(_),      (* the cells the pattern steps of the root choose from  *)
  Evaluate(_, _),   (* the score of a position, given the last stone        *)
  MaxDepth,         (* game->max_depth, in plies                            *)
  Win, Margin,      (* WIN_SCORE, and how close to it a score must be to    *)
                    (* count as a win: 1000000 and 1000 in the code         *)
  MaxUndos,         (* config.max_undo_allowed; 0 stands for undo being off *)
  Hurry(_)          (* may move_timeout pass in a search of this position?  *)

ASSUME SearchAssumption ==
  /\ {MaxDepth, Win, Margin, MaxUndos} \subseteq Nat
  /\ 0 < MaxDepth /\ MaxDepth < Margin /\ Margin < Win
  /\ IsFiniteSet(Squares) /\ Center \in Squares
  /\ \A c \in Squares : Book(c) \in Squares \ {c}

(* A stone makes no line it is not part of, and none without stones.       *)
ASSUME FiveAssumption ==
  \A own \in SUBSET Squares : \A c \in Squares \ own, d \in own :
    FiveThrough(own \cup {c}, d) => FiveThrough(own, d) \/ FiveThrough(own \cup {c}, c)

(* A position: the stones of the engine and those of the other player.     *)
Positions == {p \in [mine : SUBSET Squares, theirs : SUBSET Squares] : p.mine \cap p.theirs = {}}
Stones(p) == p.mine \cup p.theirs
Own(p, engine) == IF engine THEN p.mine ELSE p.theirs
ASSUME PatternsAssumption == \A p \in Positions : Patterns(p) \subseteq Squares \ Stones(p)
ASSUME EvaluateAssumption == \A p \in Positions, c \in Squares : Evaluate(p, c) \in Int

Put(p, c, my) == [mine |-> IF my THEN p.mine \cup {c} ELSE p.mine,
                  theirs |-> IF my THEN p.theirs ELSE p.theirs \cup {c}]

(* generate_moves_optimized: the middle of an empty board, else the free   *)
(* cells near a stone; qsort puts those of higher priority first.          *)
Candidates(p) ==
  IF Stones(p) = {} THEN {Center}
  ELSE {c \in Squares \ Stones(p) : \E s \in Stones(p) : Near(c, s)}
Foremost(p, S) == {c \in S : \A d \in S : Priority(p, d) <= Priority(p, c)}

IsWin(value)  == value >= Win - Margin
IsLoss(value) == value <= Margin - Win
Least == -Win - 1
Most == Win + 1

Greater(a, b) == IF a >= b THEN a ELSE b
Smaller(a, b) == IF a <= b THEN a ELSE b

-----------------------------------------------------------------------------
VARIABLES
  moves,    (* the cells of move_history, in turn; X begins                 *)
  engineX,  (* does the engine play X?                                      *)
  undos,    (* undos_used                                                   *)
  status,   (* ai_status_message: what the engine said of its last move     *)
  table,    (* transposition_table of the engine's colour                   *)
  root,     (* find_best_ai_move: its depth, moves still to try, best score,*)
            (* the moves that have it, and those chosen at the depth before *)
  stack,    (* the calls of minimax_with_timeout under way, innermost last  *)
  timedOut, (* search_timed_out                                             *)
  misled    (* history: has time run out in a search of this game, or has   *)
            (* the score of a position been taken for a win or a loss?      *)

vars == <<moves, engineX, undos, status, table, root, stack, timedOut, misled>>
gameVars == <<moves, engineX, undos, status>>
clockVars == <<timedOut, misled>>
searchVars == <<table, root, stack, timedOut, misled>>

Idle == [depth |-> 0, rest |-> {}, best |-> Least, cells |-> {}, chosen |-> {}]

Init ==
  /\ moves = <<>>
  /\ engineX \in BOOLEAN
  /\ undos = 0
  /\ status = "none"
  /\ table = <<>>
  /\ root = Idle
  /\ stack = <<>>
  /\ timedOut = FALSE
  /\ misled = FALSE

My(i) == engineX <=> i % 2 = 1
Mine == {moves[i] : i \in {j \in DOMAIN moves : My(j)}}
Theirs == {moves[i] : i \in {j \in DOMAIN moves : ~My(j)}}
Board == [mine |-> Mine, theirs |-> Theirs]
EngineToMove == My(Len(moves) + 1)

Free == Squares \ Stones(Board)
Fives(own) == {c \in Candidates(Board) : FiveThrough(own \cup {c}, c)}

(* check_game_state: nobody has won and the board is not full.             *)
Running ==
  /\ Free # {}
  /\ \A own \in {Mine, Theirs} : \A c \in own : ~FiveThrough(own, c)

Play(c, said) ==
  /\ moves' = Append(moves, c)
  /\ status' = said
  /\ UNCHANGED <<engineX, undos>>

(* make_move of the other player, who plays where they like.               *)
Respond(c) ==
  /\ ~EngineToMove /\ Running /\ c \in Free
  /\ Play(c, status)
  /\ UNCHANGED searchVars

(* undo_last_moves takes back a pair; the table stays as it is.            *)
Undo ==
  /\ ~EngineToMove /\ Running /\ Len(moves) >= 2 /\ undos < MaxUndos
  /\ moves' = SubSeq(moves, 1, Len(moves) - 2)
  /\ undos' = undos + 1
  /\ status' = "none"
  /\ UNCHANGED <<engineX, searchVars>>

-----------------------------------------------------------------------------
(* The transposition table.                                                *)
Store(p, value, depth, flag) ==
  LET entry == [value |-> value, depth |-> depth, flag |-> flag]
  IN  IF p \notin DOMAIN table
      THEN table' = [q \in DOMAIN table \cup {p} |-> IF q = p THEN entry ELSE table[q]]
      ELSE table' = IF table[p].depth <= depth THEN [table EXCEPT ![p] = entry] ELSE table

(* probe_transposition: may the entry answer for this depth and window?    *)
AnswersAnyDepth(n) ==                                            \* mutant
  /\ n.pos \in DOMAIN table
  /\ \/ table[n.pos].flag = "exact"
     \/ table[n.pos].flag = "lower" /\ table[n.pos].value >= n.beta
     \/ table[n.pos].flag = "upper" /\ table[n.pos].value <= n.alpha
Answers(n) ==
  /\ n.pos \in DOMAIN table
  /\ table[n.pos].depth >= n.depth
  /\ \/ table[n.pos].flag = "exact"
     \/ table[n.pos].flag = "lower" /\ table[n.pos].value >= n.beta
     \/ table[n.pos].flag = "upper" /\ table[n.pos].value <= n.alpha

(* is_search_timed_out: a look at the clock. Once late, always late.       *)
InTime == ~timedOut
Late == Hurry(Board)
IsLate == Late /\ timedOut' = TRUE /\ misled' = TRUE

-----------------------------------------------------------------------------
(* A call of minimax_with_timeout is a node: position, depth left, window, *)
(* whether it is the engine's turn, and the last stone. Its frame adds what*)
(* the loop over its moves keeps: the best value, the window, the moves    *)
(* still to try.                                                           *)
Frame(n) == [node |-> n, best |-> IF n.my THEN Least ELSE Most,
             alpha |-> n.alpha, beta |-> n.beta, rest |-> Candidates(n.pos)]

Child(f, c) == [pos |-> Put(f.node.pos, c, f.node.my), depth |-> f.node.depth - 1,
                alpha |-> f.alpha, beta |-> f.beta, my |-> ~f.node.my, last |-> c]

(* The loop over the moves ends early at a won value and at a cut-off.     *)
Done(f) ==
  \/ f.rest = {}
  \/ f.beta <= f.alpha
  \/ IF f.node.my THEN IsWin(f.best) ELSE IsLoss(f.best)

Takes(f, c, value) ==
  [node |-> f.node,
   best |-> IF f.node.my THEN Greater(f.best, value) ELSE Smaller(f.best, value),
   alpha |-> IF f.node.my THEN Greater(f.alpha, value) ELSE f.alpha,
   beta |-> IF f.node.my THEN f.beta ELSE Smaller(f.beta, value),
   rest |-> f.rest \ {c}]

FlagExact(f) == "exact"                                          \* mutant
Flag(f) == IF f.best <= f.node.alpha THEN "upper"
           ELSE IF f.best >= f.node.beta THEN "lower" ELSE "exact"

(* The root of find_best_ai_move tries every move with an open window and  *)
(* collects the best ones; a won value ends the search.                    *)
Searching == root.chosen # {}
RootChildNarrow(c) ==                                            \* mutant
  [pos |-> Put(Board, c, TRUE), depth |-> root.depth - 1,
   alpha |-> root.best, beta |-> Most, my |-> FALSE, last |-> c]
RootChild(c) == [pos |-> Put(Board, c, TRUE), depth |-> root.depth - 1,
                 alpha |-> Least, beta |-> Most, my |-> FALSE, last |-> c]
RootTakes(c, value) ==
  [depth |-> root.depth, rest |-> root.rest \ {c}, best |-> Greater(root.best, value),
   cells |-> IF value > root.best THEN {c}
             ELSE IF value = root.best THEN root.cells \cup {c} ELSE root.cells,
   chosen |-> root.chosen]

(* The calls the innermost loop may make next.                             *)
Called ==
  IF stack = <<>>
  THEN {RootChild(c) : c \in IF IsWin(root.best) THEN {} ELSE Foremost(Board, root.rest)}
  ELSE LET f == stack[Len(stack)]
       IN  {Child(f, c) : c \in IF Done(f) THEN {} ELSE Foremost(f.node.pos, f.rest)}

(* The call that tried c returns a value to the last of its callers.       *)
Return(callers, c, value) ==
  IF callers = <<>>
  THEN root' = RootTakes(c, value) /\ stack' = <<>>
  ELSE /\ stack' = [callers EXCEPT ![Len(callers)] = Takes(@, c, value)]
       /\ UNCHANGED root

-----------------------------------------------------------------------------
(* minimax_with_timeout up to its loop, by what it finds.                  *)
LooksLate(n) ==
  /\ InTime /\ IsLate
  /\ Return(stack, n.last, Evaluate(n.pos, n.last))
  /\ UNCHANGED <<gameVars, table>>

Recall(n) ==
  /\ InTime /\ Answers(n)
  /\ Return(stack, n.last, table[n.pos].value)
  /\ UNCHANGED <<gameVars, table, clockVars>>

(* A line through the last stone, worth more the earlier it comes.         *)
HasFive(n) == FiveThrough(Own(n.pos, ~n.my), n.last)
FiveScoreUnsigned(n) == Win + n.depth                            \* mutant
FiveScore(n) == IF n.my THEN -Win - n.depth ELSE Win + n.depth

SeeFive(n) ==
  /\ InTime /\ ~Answers(n) /\ HasFive(n)
  /\ Store(n.pos, FiveScore(n), n.depth, "exact")
  /\ Return(stack, n.last, FiveScore(n))
  /\ UNCHANGED <<gameVars, clockVars>>

(* The patterns of the 49 cells around the last stone are added up without *)
(* a limit, and nothing keeps the sum away from the scores of a line.      *)
Modest(value) == ~IsWin(value) /\ ~IsLoss(value)

Score(n) ==
  /\ InTime /\ ~Answers(n) /\ ~HasFive(n) /\ n.depth = 0
  /\ Store(n.pos, Evaluate(n.pos, n.last), 0, "exact")
  /\ Return(stack, n.last, Evaluate(n.pos, n.last))
  /\ misled' = (misled \/ ~Modest(Evaluate(n.pos, n.last)))
  /\ UNCHANGED <<gameVars, timedOut>>

(* No stone in the game, or no move. The stones counted are those of the   *)
(* game record, which a search does not change: below the first move of a  *)
(* game nothing is looked at but the last stone.                           *)
SeesNothing(n) == n.depth > 0 /\ (moves = <<>> \/ Candidates(n.pos) = {})

SeeFull(n) ==
  /\ InTime /\ ~Answers(n) /\ ~HasFive(n) /\ SeesNothing(n)
  /\ Return(stack, n.last, 0)
  /\ UNCHANGED <<gameVars, table, clockVars>>

Enter(n) ==
  /\ InTime /\ ~Answers(n) /\ ~HasFive(n) /\ n.depth > 0 /\ ~SeesNothing(n)
  /\ stack' = Append(stack, Frame(n))
  /\ UNCHANGED <<gameVars, table, root, clockVars>>

(* The end of the loop: the value is stored as what it is a bound of.      *)
Top == stack[Len(stack)]
Callers == SubSeq(stack, 1, Len(stack) - 1)

Finish ==
  /\ stack # <<>> /\ Done(Top)
  /\ Store(Top.node.pos, Top.best, Top.node.depth, Flag(Top))
  /\ Return(Callers, Top.node.last, Top.best)
  /\ UNCHANGED <<gameVars, clockVars>>

(* When time runs out the call returns the best value so far, and stores   *)
(* nothing.                                                                *)
GiveUp ==
  /\ stack # <<>> /\ ~Done(Top) /\ IsLate
  /\ Return(Callers, Top.node.last, Top.best)
  /\ UNCHANGED <<gameVars, table>>

-----------------------------------------------------------------------------
(* find_best_ai_move and the make_move that follows, by what decides. The  *)
(* reply to the first stone comes from a small book.                       *)
Thinking == ~Searching /\ EngineToMove /\ Running
Opening == Len(moves) = 1

PlayOpening ==
  /\ Thinking /\ Opening
  /\ Play(Book(moves[1]), status)
  /\ UNCHANGED searchVars

PlayFive(c) ==
  /\ Thinking /\ ~Opening /\ c \in Fives(Mine)
  /\ Play(c, "checkmate")
  /\ UNCHANGED searchVars

(* The block of a five or an open four, an open four of one's own, and the *)
(* forced sequences (VCT) of either player.                                *)
PlayPattern(c) ==
  /\ Thinking /\ ~Opening /\ Fives(Mine) = {} /\ c \in Patterns(Board)
  /\ Play(c, "pattern")
  /\ UNCHANGED searchVars

(* The search begins with its first candidate as the move to fall back on. *)
BeginSearch ==
  /\ Thinking /\ ~Opening /\ Fives(Mine) = {} /\ Patterns(Board) = {}
  /\ \E c \in Foremost(Board, Candidates(Board)) : root' = [Idle EXCEPT !.chosen = {c}]
  /\ UNCHANGED <<gameVars, table, stack, clockVars>>

(* Iterative deepening. No move of a depth that was cut short counts, nor  *)
(* does a depth at which every move scored below the first best score.     *)
AtRoot == Searching /\ stack = <<>> /\ ~IsWin(root.best)
Selected == IF root.cells = {} THEN root.chosen ELSE root.cells

Deepen ==
  /\ AtRoot /\ InTime /\ root.rest = {} /\ root.depth < MaxDepth
  /\ root' = [depth |-> root.depth + 1, rest |-> Candidates(Board), best |-> Least,
              cells |-> {}, chosen |-> Selected]
  /\ UNCHANGED <<gameVars, table, stack, clockVars>>

Conclude(c, said) ==
  /\ Play(c, said)
  /\ root' = Idle /\ timedOut' = FALSE
  /\ UNCHANGED <<table, stack>>

PlayWon(c) ==
  /\ Searching /\ stack = <<>> /\ IsWin(root.best) /\ c \in root.cells
  /\ Conclude(c, "win") /\ UNCHANGED misled

PlaySearched(c) ==
  /\ AtRoot /\ InTime /\ root.rest = {} /\ root.depth = MaxDepth /\ c \in Selected
  /\ Conclude(c, "done") /\ UNCHANGED misled

(* The look between two depths ends the search, but is not reported.       *)
PlayUnfinished(c) ==
  /\ AtRoot /\ InTime /\ root.rest = {} /\ root.depth < MaxDepth /\ Late /\ c \in Selected
  /\ Conclude(c, "done") /\ misled' = TRUE

PlayTimedOut(c) ==
  /\ AtRoot /\ (timedOut \/ root.rest # {}) /\ Late /\ c \in root.chosen
  /\ Conclude(c, "timeout") /\ misled' = TRUE

SearchStep ==
  \/ \E n \in Called : \/ LooksLate(n) \/ Recall(n) \/ SeeFive(n)
                       \/ Score(n) \/ SeeFull(n) \/ Enter(n)
  \/ Finish \/ GiveUp \/ BeginSearch \/ Deepen

Next ==
  \/ \E c \in Squares : Respond(c) \/ PlayFive(c) \/ PlayPattern(c)
                        \/ PlayWon(c) \/ PlaySearched(c)
                        \/ PlayUnfinished(c) \/ PlayTimedOut(c)
  \/ PlayOpening
  \/ Undo
  \/ SearchStep

Spec == Init /\ [][Next]_vars

-----------------------------------------------------------------------------
Entries == [value : Int, depth : 0 .. MaxDepth, flag : {"exact", "lower", "upper"}]
Nodes == [pos : Positions, depth : 0 .. MaxDepth, alpha : Int, beta : Int,
          my : BOOLEAN, last : Squares]
Frames == [node : Nodes, best : Int, alpha : Int, beta : Int, rest : SUBSET Squares]

TypeOK ==
  /\ moves \in Seq(Squares) /\ engineX \in BOOLEAN /\ undos \in 0 .. MaxUndos
  /\ status \in {"none", "checkmate", "pattern", "win", "timeout", "done"}
  /\ DOMAIN table \subseteq Positions /\ \A p \in DOMAIN table : table[p] \in Entries
  /\ root \in [depth : 0 .. MaxDepth, rest : SUBSET Squares, best : Int,
               cells : SUBSET Squares, chosen : SUBSET Squares]
  /\ stack \in Seq(Frames)
  /\ timedOut \in BOOLEAN /\ misled \in BOOLEAN

-----------------------------------------------------------------------------
(* The reference: plain minimax to the end of the game, without window,    *)
(* table, clock or score. Can the engine (or else the other player) force  *)
(* a line within k plies among the candidate moves, if it is the engine's  *)
(* turn (or not)?                                                          *)
Has(p, engine) == \E c \in Own(p, engine) : FiveThrough(Own(p, engine), c)

Situations == [engine : BOOLEAN, pos : Positions, my : BOOLEAN]
After(x, c) == [engine |-> x.engine, pos |-> Put(x.pos, c, x.my), my |-> ~x.my]
Decided(F) ==
  {x \in Situations :
     \/ Has(x.pos, x.engine)
     \/ LET replies == Candidates(x.pos)
        IN  /\ ~Has(x.pos, ~x.engine) /\ replies # {}
            /\ IF x.my = x.engine THEN \E c \in replies : After(x, c) \in F
                                ELSE \A c \in replies : After(x, c) \in F}
Forced[k \in Nat] == IF k = 0 THEN {x \in Situations : Has(x.pos, x.engine)}
                    ELSE Decided(Forced[k - 1])
Forces(engine, p, my, k) == [engine |-> engine, pos |-> p, my |-> my] \in Forced[k]

Plies == Cardinality(Squares)

(* What an entry of the table says about its position is so, although it   *)
(* was stored while other nodes were cut off, from other entries, or before*)
(* a pair of moves was taken back: a score near WIN_SCORE stands for a line*)
(* that can be forced, any other for there being none within its depth.    *)
(* (Whose turn it is follows from the number of stones.)                   *)
Turn(p) == My(Cardinality(Stones(p)) + 1)
Sound(p, e) ==
  /\ e.flag # "upper" =>
       /\ IsWin(e.value) => Forces(TRUE, p, Turn(p), Plies)
       /\ ~IsLoss(e.value) => ~Forces(FALSE, p, Turn(p), e.depth)
  /\ e.flag # "lower" =>
       /\ IsLoss(e.value) => Forces(FALSE, p, Turn(p), Plies)
       /\ ~IsWin(e.value) => ~Forces(TRUE, p, Turn(p), e.depth)

AtHand == {n.pos : n \in Called} \cup {stack[i].node.pos : i \in DOMAIN stack}
TableIsSound ==
  [][table' # table /\ ~misled' => \A p \in AtHand \cap DOMAIN table' : Sound(p, table'[p])]_vars

(* When the engine reports a win, the move it made wins by force.          *)
WinIsForced ==
  status = "win" /\ ~EngineToMove => Forces(TRUE, Board, FALSE, Plies)

(* It does as long as no time has run out in the game, and no score of a   *)
(* position was taken for a win or a loss.                                 *)
WinIsForcedUnlessMisled == ~misled => WinIsForced

(* Pruning and table lose no win: one that can be forced within the search *)
(* depth is played and reported, unless the engine was misled or has the   *)
(* first move of the game, which it makes without a search.                *)
EngineMoved == EngineToMove /\ Len(moves') = Len(moves) + 1
WinsAreFound ==
  [][EngineMoved /\ status' = "done" /\ moves # <<>> /\ ~misled'
       => ~Forces(TRUE, Board, TRUE, MaxDepth)]_vars

(* The engine makes no move that loses by force within the search depth    *)
(* while it has a move that does not lose, unless it was misled.           *)
Lost(p, k) == Forces(FALSE, p, FALSE, k)
NoBlunder ==
  [][EngineMoved /\ status' \in {"done", "win"} /\ ~misled' /\ Lost(Board', MaxDepth - 1)
       => \A c \in Candidates(Board) : Lost(Put(Board, c, TRUE), Plies)]_vars
=============================================================================
