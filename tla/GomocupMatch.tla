---------------------------- MODULE GomocupMatch ----------------------------
(***************************************************************************)
(* A match: the brain's main loop and a tournament manager that keeps its  *)
(* own board and clock, sends what the protocol allows (and lines that any *)
(* brain must refuse), and judges the answers. The manager is not in the   *)
(* repository; the lines it may send are those of the protocol in README   *)
(* and protocol.h.                                                         *)
(***************************************************************************)
EXTENDS GomocupBrain

CONSTANTS
  Outside,     (* a cell off the board                                      *)
  Positions,   (* the bodies of BOARD the manager may send                  *)
  TurnLimits,  (* the values of INFO timeout_turn                           *)
  MatchLimits, (* and of INFO timeout_match                                 *)
  MaxLines,    (* bound on the lines of a match                             *)
  Lags         (* time the manager counts beside the search                 *)

(* The margin is meant for what the manager counts beside the search.      *)
ASSUME MatchAssumption ==
  /\ Outside \notin Squares \cup {Garbage}
  /\ Positions \subseteq Seq({Garbage} \cup (Squares \cup {Outside}) \X Nat)
  /\ TurnLimits \cup MatchLimits \cup Lags \subseteq Nat
  /\ \A lag \in Lags : lag <= SafetyMargin

VARIABLES
  brain,   (* brain_t                                                       *)
  out,     (* the brain's last line                                         *)
  ref,     (* the manager's board: "own" stones of the brain, "opp" others  *)
  clock,   (* what the manager's clock has left for the brain               *)
  told,    (* does the brain's estimate start from that clock?              *)
  result,  (* "on", "forfeit", "overtime" or "ended"                        *)
  sent     (* how many lines the manager has sent                           *)

vars == <<brain, out, ref, clock, told, result, sent>>

Owned(board, who) == {c \in Squares : board[c] = who}
Over(board) == \/ Five(Owned(board, "own")) \/ Five(Owned(board, "opp"))
               \/ Free(board) = {}

Init ==
  /\ brain = InitBrain
  /\ out = Silence
  /\ ref = EmptyBoard
  /\ clock = DefaultMatch
  /\ told = TRUE
  /\ result = "on"
  /\ sent = 0

(* Every action is one line of a match that is still on.                   *)
NextLine == result = "on" /\ sent < MaxLines /\ sent' = sent + 1

(* The manager sends a line, after which the board should be `asked`, the  *)
(* brain works for e and answers, and the manager adds the lag.            *)
Judge(answer, asked, e, lag) ==
  /\ brain' = answer.brain
  /\ out' = answer.out
  /\ IF answer.out.line = "move"
     THEN LET legal == Valid(asked, answer.out.cell)
          IN  /\ ref' = IF legal THEN [asked EXCEPT ![answer.out.cell] = "own"] ELSE asked
              /\ clock' = Greater(0, clock - e - lag)
              /\ told' = (told /\ lag = 0)
              /\ result' = IF ~legal THEN "forfeit"
                           ELSE IF e + lag > clock THEN "overtime" ELSE "on"
     ELSE /\ ref' = IF answer.out = Error THEN ref ELSE asked
          /\ UNCHANGED <<clock, told, result>>

Exchange(line, asked, times) ==
  /\ NextLine
  /\ \E e \in times, lag \in Lags :
       \E answer \in Dispatch(brain, line, e) : Judge(answer, asked, e, lag)

(* A search takes up to the time granted; one that is to be instant has no *)
(* timeout, but two plies only. That the steps before the search, a bounded*)
(* number of looks at patterns which consult no clock (ai.c, 523-745), end *)
(* within the grant is taken for granted here.                             *)
SearchTimes == {0, Greater(LeastBudget, ComputeSeconds(brain.budget))}
Send(line, asked) == Exchange(line, asked, SearchTimes)

(* START 15 begins a match with the clocks of the category.                *)
Start ==
  /\ NextLine
  /\ \E answer \in Dispatch(brain, [verb |-> "START", arg |-> 15], 0) :
       brain' = answer.brain /\ out' = answer.out
  /\ ref' = EmptyBoard /\ clock' = DefaultMatch /\ told' = TRUE
  /\ UNCHANGED result

(* RESTART begins the next game, with a full clock.                        *)
Restart ==
  /\ NextLine /\ brain.started
  /\ \E answer \in Dispatch(brain, [verb |-> "RESTART"], 0) :
       brain' = answer.brain /\ out' = answer.out
  /\ ref' = EmptyBoard /\ clock' = DefaultMatch /\ told' = (clock = DefaultMatch /\ told)
  /\ UNCHANGED result

Begin == ref = EmptyBoard /\ Exchange([verb |-> "BEGIN"], ref, {0})

(* A stone of the opponent that ends nothing, or one that must be refused. *)
Turn(c) ==
  IF Valid(ref, c)
  THEN /\ ~Over(ref) /\ ~Over([ref EXCEPT ![c] = "opp"])
       /\ Send([verb |-> "TURN", arg |-> c], [ref EXCEPT ![c] = "opp"])
  ELSE Send([verb |-> "TURN", arg |-> c], ref)

Takeback(c) ==
  Send([verb |-> "TAKEBACK", arg |-> c], IF c \in Squares THEN [ref EXCEPT ![c] = Empty] ELSE ref)

(* BOARD: the first row that names a cell decides about it.                *)
Naming(rows, c) == {i \in DOMAIN rows : rows[i] # Garbage /\ rows[i][1] = c}
Described(rows) ==
  [c \in Squares |-> IF Naming(rows, c) = {} THEN Empty
                    ELSE IF rows[Min(Naming(rows, c))][2] = 1 THEN "own" ELSE "opp"]
Board(rows) ==
  /\ ~Over(Described(rows))
  /\ Send([verb |-> "BOARD", arg |-> rows], Described(rows))

(* INFO: the limit of a turn, of the match before it begins, the clock.    *)
InfoTurn(t) == Send([verb |-> "INFO", arg |-> <<"timeout_turn", t>>], ref)
InfoMatch(t) ==
  /\ NextLine /\ ref = EmptyBoard
  /\ \E answer \in Dispatch(brain, [verb |-> "INFO", arg |-> <<"timeout_match", t>>], 0) :
       brain' = answer.brain /\ out' = answer.out
  /\ clock' = t /\ told' = FALSE
  /\ UNCHANGED <<ref, result>>
InfoClock ==
  /\ NextLine
  /\ \E answer \in Dispatch(brain, [verb |-> "INFO", arg |-> <<"time_left", clock>>], 0) :
       brain' = answer.brain /\ out' = answer.out
  /\ told' = TRUE
  /\ UNCHANGED <<ref, clock, result>>

(* Lines that change nothing: blank ones, verbs the brain declines or does *)
(* not know, arguments that do not parse, other boards, other INFO keys.   *)
Noise == {[verb |-> ""], [verb |-> "ABOUT"], [verb |-> "SWAP2BOARD"], [verb |-> "HELLO"],
          [verb |-> "RECTSTART", arg |-> <<15, 20>>], [verb |-> "TURN", arg |-> Garbage],
          [verb |-> "START", arg |-> 20], [verb |-> "INFO", arg |-> <<"rule", 1>>]}

(* END, or the end of the input.                                           *)
End ==
  /\ NextLine
  /\ result' = "ended"
  /\ UNCHANGED <<brain, out, ref, clock, told>>

Next ==
  \/ Start \/ Restart \/ Begin \/ End \/ InfoClock
  \/ \E c \in Squares \cup {Outside} : Turn(c) \/ Takeback(c)
  \/ \E rows \in Positions : Board(rows)
  \/ \E t \in TurnLimits : InfoTurn(t)
  \/ \E t \in MatchLimits : InfoMatch(t)
  \/ \E line \in Noise : Exchange(line, ref, {0})

Spec == Init /\ [][Next]_vars

-----------------------------------------------------------------------------
(* Brain and manager keep two boards that are never compared on the wire.  *)
(* Until the match is over they hold the same stones, after any takebacks, *)
(* BOARDs, restarts and refused lines, whichever colour the brain believes *)
(* it plays.                                                               *)
Label(stone) == CASE stone = Empty -> Empty
                  [] stone = "own" -> brain.self
                  [] stone = "opp" -> Other(brain.self)
MirrorsTheManager ==
  brain.started => \A c \in Squares : brain.game.board[c] = Label(ref[c])

(* The length of the history, the stone count and the hash are maintained  *)
(* by make_move and, in code of their own, by TAKEBACK and BOARD: they     *)
(* always agree with the board.                                            *)
CountsAgree ==
  LET game == brain.game
  IN  /\ Len(game.history) = Cardinality(Taken(game.board))
      /\ game.stones = Len(game.history)
      /\ game.hash = HashOf(game.board)

(* The brain answers with an illegal move in one situation only: a single  *)
(* stone, on the centre, which the brain takes for O's.                    *)
ForfeitsAreLone ==
  result = "forfeit" => /\ Taken(ref) = {Centre}
                        /\ Label(ref[Centre]) = "O"

(* A brain that has been told the clock does not overrun it, unless so     *)
(* little is left that the least budget exceeds it: the safety margin      *)
(* covers what the manager counts beside the search.                       *)
ClockHolds ==
  [][result' = "overtime" => ~told \/ out'.granted <= LeastBudget]_vars

(* compute_and_emit_move falls back to the centre "so we do not forfeit".  *)
(* The code does not keep this (README).                                   *)
NeverForfeits == result # "forfeit"
=============================================================================
