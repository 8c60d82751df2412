------------------------ MODULE GomocupMatchProofs ------------------------
(***************************************************************************)
(* Proofs about a match, for any board, any rule of winning, any lines,    *)
(* any limits of time and any length: the brain keeps within the manager's *)
(* clock (ClockHolds), and the two boards that are never compared on the   *)
(* wire are one position (MirrorsTheManager, CountsAgree,                  *)
(* ForfeitsAreLone). IInv relates the clocks kept on the two sides: as     *)
(* long as the manager has told its own, the brain's is not ahead of it.   *)
(* BoardInv relates the boards; that a brain without a colour has seen no  *)
(* stone yet is what makes it inductive.                                   *)
(***************************************************************************)
EXTENDS GomocupMatch, FiniteSetTheorems, SequenceTheorems, WellFoundedInduction, TLAPS

Budgets ==
  [turn : Nat, match : Nat, left : Nat, estimate : Nat, received : BOOLEAN]

(* What the brain believes it has left: compute_seconds starts from this.  *)
Remaining(budget) == IF budget.received THEN budget.left ELSE budget.estimate

IInv ==
  /\ "budget" \in DOMAIN brain
  /\ brain.budget \in Budgets
  /\ clock \in Nat
  /\ told => Remaining(brain.budget) <= clock

-----------------------------------------------------------------------------
(* What every handler does with the budget. An answer other than a move    *)
(* leaves the clock alone; a move was searched for within what             *)
(* compute_seconds granted, and is charged to the clock.                   *)
Unmoved(b, o) ==
  /\ o.out.line # "move"
  /\ o.brain.budget = b.budget
Searched(b, o, e) ==
  /\ o.out.line = "move"
  /\ o.out.granted = ComputeSeconds(b.budget)
  /\ o.brain.budget = RecordElapsed(b.budget, e)
Charged(b, o, e) ==
  /\ "budget" \in DOMAIN o.brain
  /\ Unmoved(b, o) \/ Searched(b, o, e)

(* The kind of line a verb with an argument makes.                         *)
LEMMA KindWithArgument ==
  ASSUME NEW verb \in WithArgument, NEW arg
  PROVE  Kind([verb |-> verb, arg |-> arg]) = IF arg = Garbage THEN "INVALID" ELSE verb
BY DEF Kind, WithArgument

(* The handlers set the other fields of the brain; the budget stays, or is *)
(* the one they set.                                                       *)
LEMMA SelfAside ==
  ASSUME NEW b, "budget" \in DOMAIN b, NEW s
  PROVE  /\ "budget" \in DOMAIN [b EXCEPT !.self = s]
         /\ [b EXCEPT !.self = s].budget = b.budget
OBVIOUS
LEMMA GameAside ==
  ASSUME NEW b, "budget" \in DOMAIN b, NEW g
  PROVE  /\ "budget" \in DOMAIN [b EXCEPT !.game = g]
         /\ [b EXCEPT !.game = g].budget = b.budget
OBVIOUS
LEMMA BudgetSet ==
  ASSUME NEW b, "budget" \in DOMAIN b, NEW v
  PROVE  /\ "budget" \in DOMAIN [b EXCEPT !.budget = v]
         /\ [b EXCEPT !.budget = v].budget = v
OBVIOUS
LEMMA SelfGameAside ==
  ASSUME NEW b, "budget" \in DOMAIN b, NEW s, NEW g
  PROVE  /\ "budget" \in DOMAIN [b EXCEPT !.self = s, !.game = g]
         /\ [b EXCEPT !.self = s, !.game = g].budget = b.budget
BY SelfAside, GameAside
LEMMA AllSet ==
  ASSUME NEW b, "budget" \in DOMAIN b, NEW s, NEW g, NEW v
  PROVE  /\ "budget" \in DOMAIN [b EXCEPT !.self = s, !.game = g, !.budget = v]
         /\ [b EXCEPT !.self = s, !.game = g, !.budget = v].budget = v
BY SelfGameAside, BudgetSet

(* compute_and_emit_move                                                   *)
LEMMA ComputeCharges ==
  ASSUME NEW b, "budget" \in DOMAIN b, NEW e,
         NEW o \in ComputeAndEmit(b, e)
  PROVE  /\ "budget" \in DOMAIN o.brain
         /\ Searched(b, o, e)
<1> DEFINE self == IF b.self = Unknown THEN "X" ELSE b.self
           searched == Think([b.game EXCEPT !.turn = self], 1)
           chosen(best) == IF best = None THEN Centre ELSE best
           after(best) == MakeMove(searched, chosen(best), self, 0, 0)
           brainAfter(best) == [b EXCEPT !.self = self, !.game = after(best),
                                         !.budget = RecordElapsed(b.budget, e)]
<1>1. PICK best \in BestMoves(b.game.board) :
        o = Outcome(brainAfter(best), Move(chosen(best), ComputeSeconds(b.budget)))
  BY DEF ComputeAndEmit
<1>2. /\ "budget" \in DOMAIN brainAfter(best)
      /\ brainAfter(best).budget = RecordElapsed(b.budget, e)
  <2> HIDE DEF self, after
  <2> QED BY AllSet
<1> HIDE DEF brainAfter, chosen
<1> QED
  BY <1>1, <1>2 DEF Outcome, Move, Searched

(* handle_turn                                                             *)
LEMMA TurnCharges ==
  ASSUME NEW b, "budget" \in DOMAIN b, NEW e, NEW c,
         NEW o \in HandleTurn(b, c, e)
  PROVE  Charged(b, o, e)
<1> DEFINE self == IF b.self = Unknown THEN "O" ELSE b.self
           named == [b EXCEPT !.self = self]
           put == MakeMove(b.game, c, Other(self), 0, 0)
           placed == [named EXCEPT !.game = put]
<1>1. \/ o = Outcome(b, Error) \/ o = Outcome(named, Error)
      \/ o \in ComputeAndEmit(placed, e)
  BY DEF HandleTurn
<1>2. /\ "budget" \in DOMAIN named /\ named.budget = b.budget
      /\ "budget" \in DOMAIN placed /\ placed.budget = b.budget
  <2> HIDE DEF self, put
  <2> QED BY SelfAside, GameAside
<1> HIDE DEF named, placed
<1>3. CASE o = Outcome(b, Error) \/ o = Outcome(named, Error)
  BY <1>2, <1>3 DEF Outcome, Error, Charged, Unmoved
<1>4. CASE o \in ComputeAndEmit(placed, e)
  BY <1>2, <1>4, ComputeCharges DEF Charged, Searched
<1> QED
  BY <1>1, <1>3, <1>4

(* handle_board                                                            *)
LEMMA BoardCharges ==
  ASSUME NEW b, "budget" \in DOMAIN b, NEW e, NEW rows,
         NEW o \in HandleBoard(b, rows, e)
  PROVE  Charged(b, o, e)
<1> DEFINE self == IF b.self = Unknown THEN "X" ELSE b.self
           emptied == [b.game EXCEPT !.board = EmptyBoard, !.history = <<>>,
                                     !.stones = 0, !.hash = {}, !.turn = "X"]
           placed == PlaceRows(emptied, self, rows)
           filled == [b EXCEPT !.self = self, !.game = placed]
<1>1. o = Outcome(b, Error) \/ o \in ComputeAndEmit(filled, e)
  BY DEF HandleBoard
<1>2. "budget" \in DOMAIN filled /\ filled.budget = b.budget
  <2> HIDE DEF self, placed
  <2> QED BY SelfGameAside
<1> HIDE DEF filled
<1>3. CASE o = Outcome(b, Error)
  BY <1>3 DEF Outcome, Error, Charged, Unmoved
<1>4. CASE o \in ComputeAndEmit(filled, e)
  BY <1>2, <1>4, ComputeCharges DEF Charged, Searched
<1> QED
  BY <1>1, <1>3, <1>4

(* handle_takeback                                                         *)
LEMMA TakebackCharges ==
  ASSUME NEW b, "budget" \in DOMAIN b, NEW e, NEW c,
         NEW o \in HandleTakeback(b, c)
  PROVE  Charged(b, o, e)
<1> DEFINE board == [b.game.board EXCEPT ![c] = Empty]
           shorter == [b.game EXCEPT !.board = board,
                                     !.history = Pop(@),
                                     !.stones = Cardinality(Taken(board)),
                                     !.hash = HashOf(board)]
           taken == [b EXCEPT !.game = shorter]
<1>1. o = Outcome(b, Error) \/ o = Outcome(taken, Ok)
  BY DEF HandleTakeback
<1>2. "budget" \in DOMAIN taken /\ taken.budget = b.budget
  <2> HIDE DEF shorter
  <2> QED BY GameAside
<1> HIDE DEF taken
<1> QED
  BY <1>1, <1>2 DEF Outcome, Error, Ok, Charged, Unmoved

-----------------------------------------------------------------------------
(* What the clocks need of an answer: a budget still, whose remainder is   *)
(* untouched, or less the time of the move that was answered.              *)
Respects(b, o, e) ==
  /\ "budget" \in DOMAIN o.brain
  /\ o.brain.budget \in Budgets
  /\ \/ /\ o.out.line # "move"
        /\ Remaining(o.brain.budget) = Remaining(b.budget)
     \/ /\ o.out.line = "move"
        /\ Remaining(o.brain.budget) = Greater(0, Remaining(b.budget) - e)
        /\ o.out.granted \in {0, ComputeSeconds(b.budget)}

(* time_budget_record_elapsed takes the time off what the brain has left.  *)
LEMMA RecordElapsedSubtracts ==
  ASSUME NEW budget \in Budgets, NEW e \in Nat
  PROVE  /\ RecordElapsed(budget, e) \in Budgets
         /\ Remaining(RecordElapsed(budget, e)) = Greater(0, Remaining(budget) - e)
<1> DEFINE estimate == Greater(0, budget.estimate - e)
           left == Greater(0, budget.left - e)
           less == [budget EXCEPT !.estimate = estimate, !.left = left]
<1>1. estimate \in Nat /\ left \in Nat
  BY DEF Budgets, Greater
<1>2. /\ less \in Budgets
      /\ less.received = budget.received
      /\ less.estimate = estimate /\ less.left = left
  <2> HIDE DEF estimate, left
  <2> QED BY <1>1 DEF Budgets
<1>3. RecordElapsed(budget, e) = less
  BY DEF RecordElapsed
<1> HIDE DEF less
<1> QED
  BY <1>2, <1>3 DEF Remaining

(* An answer that is charged as it should respects the clocks.             *)
LEMMA ChargedRespects ==
  ASSUME NEW b, "budget" \in DOMAIN b, b.budget \in Budgets, NEW e \in Nat,
         NEW o, Charged(b, o, e)
  PROVE  Respects(b, o, e)
BY RecordElapsedSubtracts DEF Charged, Unmoved, Searched, Respects

(* handle_begin: the centre, at no charge.                                 *)
LEMMA BeginRespects ==
  ASSUME NEW b, "budget" \in DOMAIN b, b.budget \in Budgets,
         NEW o \in HandleBegin(b)
  PROVE  Respects(b, o, 0)
<1> DEFINE put == MakeMove([b.game EXCEPT !.turn = "X"], Centre, "X", 0, 0)
           begun == [b EXCEPT !.self = "X", !.game = put]
<1>1. o = Outcome(b, Error) \/ o = Outcome(begun, Move(Centre, 0))
  BY DEF HandleBegin
<1>2. "budget" \in DOMAIN begun /\ begun.budget = b.budget
  <2> HIDE DEF put
  <2> QED BY SelfGameAside
<1>3. Greater(0, Remaining(b.budget) - 0) = Remaining(b.budget)
  BY DEF Budgets, Remaining, Greater
<1> HIDE DEF begun
<1> QED
  BY <1>1, <1>2, <1>3 DEF Outcome, Error, Move, Respects

(* apply_info, for the keys that leave the remaining time alone.           *)
LEMMA InfoTurnRespects ==
  ASSUME NEW b, "budget" \in DOMAIN b, b.budget \in Budgets, NEW t \in Nat,
         NEW o \in ApplyInfo(b, "timeout_turn", t)
  PROVE  Respects(b, o, 0)
<1> DEFINE limited == [b EXCEPT !.budget = SetTurn(b.budget, t)]
<1>1. o = Outcome(limited, Silence)
  BY DEF ApplyInfo
<1>2. "budget" \in DOMAIN limited /\ limited.budget = SetTurn(b.budget, t)
  <2> DEFINE v == SetTurn(b.budget, t)
  <2> HIDE DEF v
  <2> QED BY BudgetSet
<1>3. /\ SetTurn(b.budget, t) \in Budgets
      /\ Remaining(SetTurn(b.budget, t)) = Remaining(b.budget)
  BY DEF SetTurn, Budgets, Remaining
<1> HIDE DEF limited
<1> QED
  BY <1>1, <1>2, <1>3 DEF Outcome, Silence, Respects
-----------------------------------------------------------------------------
(* dispatch: the handler of each verb, and the lines that change nothing.  *)
LEMMA DispatchVerb ==
  ASSUME NEW b, NEW arg, NEW e, arg # Garbage
  PROVE  /\ Dispatch(b, [verb |-> "TURN", arg |-> arg], e) = HandleTurn(b, arg, e)
         /\ Dispatch(b, [verb |-> "TAKEBACK", arg |-> arg], e) = HandleTakeback(b, arg)
         /\ Dispatch(b, [verb |-> "START", arg |-> arg], e) = HandleStart(b, arg)
BY KindWithArgument DEF Dispatch, WithArgument

(* An INFO line that parses goes to apply_info.                            *)
LEMMA DispatchInfo ==
  ASSUME NEW b, NEW e,
         NEW key \in {"timeout_turn", "timeout_match", "time_left", "rule"}, NEW value \in Nat
  PROVE  Dispatch(b, [verb |-> "INFO", arg |-> <<key, value>>], e) = ApplyInfo(b, key, value)
<1> DEFINE arg == <<key, value>>
           line == [verb |-> "INFO", arg |-> arg]
<1>1. arg # Garbage
  BY BrainAssumption
<1>2. arg[1] = key /\ arg[2] = value
  OBVIOUS
<1> HIDE DEF arg
<1>3. Kind(line) = "INFO" /\ line.arg = arg
  BY <1>1, KindWithArgument DEF WithArgument
<1> HIDE DEF line
<1>4. Dispatch(b, line, e) = ApplyInfo(b, line.arg[1], line.arg[2])
  BY <1>3 DEF Dispatch
<1> QED BY <1>2, <1>3, <1>4 DEF line, arg

(* The verbs without an argument, and BOARD with the rows read after it.   *)
LEMMA DispatchBare ==
  ASSUME NEW b, NEW arg, NEW e
  PROVE  /\ Dispatch(b, [verb |-> "BOARD", arg |-> arg], e) = HandleBoard(b, arg, e)
         /\ Dispatch(b, [verb |-> "BEGIN"], e) = HandleBegin(b)
         /\ Dispatch(b, [verb |-> "RESTART"], e) = HandleRestart(b)
BY DEF Dispatch, Kind, WithArgument, Bare

-----------------------------------------------------------------------------
(* The least budget exceeds what is granted, or the search and the lag fit *)
(* into what is left: the lag is within the margin that compute_seconds    *)
(* keeps back.                                                             *)
LEMMA GrantedFits ==
  ASSUME NEW budget \in Budgets, NEW lag \in Lags,
         NEW e \in {0, Greater(LeastBudget, ComputeSeconds(budget))},
         ComputeSeconds(budget) > LeastBudget
  PROVE  e + lag <= Remaining(budget)
<1> DEFINE remaining == Remaining(budget)
           room == Greater(0, remaining - SafetyMargin)
<1>1. remaining \in Nat /\ budget.turn \in Nat
  BY DEF Budgets, Remaining
<1>2. lag \in Nat /\ lag <= SafetyMargin
  BY MatchAssumption
<1>3. SafetyMargin \in Nat /\ LeastBudget \in Nat
  BY BrainAssumption
<1>4. ComputeSeconds(budget) = IF budget.turn = 0 THEN 0
                               ELSE Greater(LeastBudget, Smaller(budget.turn, room))
  BY DEF ComputeSeconds, Remaining
<1>5. room \in Nat
  BY <1>1, <1>3 DEF Greater
<1>6. ComputeSeconds(budget) <= room /\ room > 0
  <2> HIDE DEF room
  <2> QED BY <1>1, <1>3, <1>4, <1>5 DEF Greater, Smaller
<1>7. remaining = room + SafetyMargin
  BY <1>1, <1>3, <1>6 DEF Greater
<1>8. e \in Nat /\ e <= room
  <2> HIDE DEF room
  <2> QED BY <1>1, <1>3, <1>4, <1>5, <1>6 DEF Greater, Smaller
<1> HIDE DEF remaining, room
<1>9. e + lag <= remaining
  BY <1>1, <1>2, <1>3, <1>5, <1>7, <1>8
<1> QED BY <1>9 DEF remaining

(* What a step does to the result, as ClockHolds has it.                   *)
InTime == result' = "overtime" => ~told \/ out'.granted <= LeastBudget

(* The times a search may take are numbers.                                *)
LEMMA SearchTimesAreTimes ==
  ASSUME IInv
  PROVE  SearchTimes \subseteq Nat
<1>1. LeastBudget \in Nat /\ SafetyMargin \in Nat
  BY BrainAssumption
<1>2. ComputeSeconds(brain.budget) \in Nat
  BY <1>1 DEF IInv, Budgets, ComputeSeconds, Greater, Smaller
<1> QED BY <1>1, <1>2 DEF SearchTimes, Greater

(* The manager judges an answer that respects the clocks.                  *)
LEMMA JudgeKeeps ==
  ASSUME IInv, result = "on", NEW asked, NEW lag \in Lags, NEW answer,
         NEW e \in SearchTimes, Respects(brain, answer, e),
         Judge(answer, asked, e, lag)
  PROVE  IInv' /\ InTime
<1> DEFINE remaining == Remaining(brain.budget)
           after == Remaining(answer.brain.budget)
<1>1. e \in Nat
  BY SearchTimesAreTimes
<1>2. lag \in Nat
  BY MatchAssumption
<1>3. remaining \in Nat /\ clock \in Nat /\ (told => remaining <= clock)
  BY DEF IInv, Budgets, Remaining
<1>4. /\ brain' = answer.brain /\ out' = answer.out
      /\ "budget" \in DOMAIN brain' /\ brain'.budget \in Budgets
  BY DEF Judge, Respects
<1>5. CASE answer.out.line # "move"
  <2>1. after = remaining
    BY <1>5 DEF Respects
  <2>2. clock' = clock /\ told' = told /\ result' = result
    BY <1>5 DEF Judge
  <2>3. Remaining(brain'.budget) = after
    BY <1>4
  <2> HIDE DEF remaining, after
  <2> QED BY <1>3, <1>4, <2>1, <2>2, <2>3 DEF IInv, InTime
<1>6. CASE answer.out.line = "move"
  <2>1. /\ after = Greater(0, remaining - e)
        /\ answer.out.granted \in {0, ComputeSeconds(brain.budget)}
    BY <1>6 DEF Respects
  <2>2. /\ clock' = Greater(0, clock - e - lag)
        /\ told' = (told /\ lag = 0)
        /\ result' = "overtime" => e + lag > clock
    BY <1>6 DEF Judge
  <2>3. clock' \in Nat
    BY <1>1, <1>2, <1>3, <2>2 DEF Greater
  <2>4. told' => after <= clock'
    <3> SUFFICES ASSUME told'
                 PROVE  after <= clock'
      OBVIOUS
    <3>1. told /\ lag = 0
      BY <2>2, Zenon
    <3>2. remaining <= clock
      BY <1>3, <3>1, Zenon
    <3> HIDE DEF remaining, after
    <3> QED BY <1>1, <1>3, <2>1, <2>2, <3>1, <3>2 DEF Greater
  <2>5. Remaining(brain'.budget) = after
    BY <1>4
  <2>6. IInv'
    <3> HIDE DEF after
    <3> QED BY <1>4, <2>3, <2>4, <2>5 DEF IInv
  <2>7. ASSUME told, ComputeSeconds(brain.budget) > LeastBudget
        PROVE  e + lag <= clock
    <3>1. e + lag <= remaining
      BY <2>7, GrantedFits DEF IInv, SearchTimes
    <3> HIDE DEF remaining
    <3> QED BY <3>1, <2>7, <1>1, <1>2, <1>3
  <2>8. LeastBudget \in Nat /\ ComputeSeconds(brain.budget) \in Nat
    BY BrainAssumption DEF IInv, Budgets, ComputeSeconds, Greater, Smaller
  <2>9. InTime
    <3>1. answer.out.granted <= LeastBudget \/ ComputeSeconds(brain.budget) > LeastBudget
      BY <2>1, <2>8
    <3>2. out'.granted = answer.out.granted
      BY <1>4
    <3> QED BY <3>1, <3>2, <2>2, <2>7, <1>1, <1>2, <1>3 DEF InTime
  <2> QED BY <2>6, <2>9
<1> QED BY <1>5, <1>6

-----------------------------------------------------------------------------
(* An exchange of lines keeps the clocks in step when every answer does.   *)
LEMMA ExchangeKeeps ==
  ASSUME IInv, NEW line, NEW asked, NEW times \in SUBSET SearchTimes,
         \A e \in times : \A o \in Dispatch(brain, line, e) : Respects(brain, o, e),
         Exchange(line, asked, times)
  PROVE  IInv' /\ InTime
<1>1. PICK e \in times, lag \in Lags : \E answer \in Dispatch(brain, line, e) :
        Judge(answer, asked, e, lag)
  BY DEF Exchange
<1>2. PICK answer \in Dispatch(brain, line, e) : Judge(answer, asked, e, lag)
  BY <1>1
<1>3. result = "on" /\ Respects(brain, answer, e)
  BY <1>2 DEF Exchange, NextLine
<1> QED BY <1>2, <1>3, JudgeKeeps

(* TURN and TAKEBACK.                                                      *)
LEMMA TurnKeeps ==
  ASSUME IInv, NEW c \in Squares \cup {Outside}, Turn(c) \/ Takeback(c)
  PROVE  IInv' /\ InTime
<1>1. c # Garbage
  BY BrainAssumption, MatchAssumption
<1>2. SearchTimes \subseteq Nat /\ "budget" \in DOMAIN brain /\ brain.budget \in Budgets
  BY SearchTimesAreTimes DEF IInv
<1>3. ASSUME NEW asked, Send([verb |-> "TURN", arg |-> c], asked)
      PROVE  IInv' /\ InTime
  <2>1. ASSUME NEW e \in SearchTimes,
               NEW o \in Dispatch(brain, [verb |-> "TURN", arg |-> c], e)
        PROVE  Respects(brain, o, e)
    BY <1>1, <1>2, DispatchVerb, TurnCharges, ChargedRespects
  <2> QED BY <1>3, <2>1, ExchangeKeeps DEF Send
<1>4. ASSUME NEW asked, Send([verb |-> "TAKEBACK", arg |-> c], asked)
      PROVE  IInv' /\ InTime
  <2>1. ASSUME NEW e \in SearchTimes,
               NEW o \in Dispatch(brain, [verb |-> "TAKEBACK", arg |-> c], e)
        PROVE  Respects(brain, o, e)
    BY <1>1, <1>2, DispatchVerb, TakebackCharges, ChargedRespects
  <2> QED BY <1>4, <2>1, ExchangeKeeps DEF Send
<1> QED BY <1>3, <1>4 DEF Turn, Takeback

(* BOARD.                                                                  *)
LEMMA BoardKeeps ==
  ASSUME IInv, NEW rows, Board(rows)
  PROVE  IInv' /\ InTime
<1>1. SearchTimes \subseteq Nat /\ "budget" \in DOMAIN brain /\ brain.budget \in Budgets
  BY SearchTimesAreTimes DEF IInv
<1>2. ASSUME NEW e \in SearchTimes,
             NEW o \in Dispatch(brain, [verb |-> "BOARD", arg |-> rows], e)
      PROVE  Respects(brain, o, e)
  BY <1>1, DispatchBare, BoardCharges, ChargedRespects
<1> QED BY <1>2, ExchangeKeeps DEF Board, Send

(* BEGIN.                                                                  *)
LEMMA BeginKeeps ==
  ASSUME IInv, Begin
  PROVE  IInv' /\ InTime
<1>1. ASSUME NEW e \in {0}, NEW o \in Dispatch(brain, [verb |-> "BEGIN"], e)
      PROVE  Respects(brain, o, e)
  BY DispatchBare, BeginRespects DEF IInv
<1>2. {0} \in SUBSET SearchTimes
  BY DEF SearchTimes
<1> QED BY <1>1, <1>2, ExchangeKeeps DEF Begin

(* INFO timeout_turn.                                                      *)
LEMMA InfoTurnKeeps ==
  ASSUME IInv, NEW t \in TurnLimits, InfoTurn(t)
  PROVE  IInv' /\ InTime
<1> DEFINE line == [verb |-> "INFO", arg |-> <<"timeout_turn", t>>]
<1>1. t \in Nat
  BY MatchAssumption
<1>2. ASSUME NEW e \in SearchTimes, NEW o \in Dispatch(brain, line, e)
      PROVE  Respects(brain, o, e)
  <2>1. o \in ApplyInfo(brain, "timeout_turn", t)
    BY <1>1, <1>2, DispatchInfo
  <2>2. Respects(brain, o, 0)
    BY <1>1, <2>1, InfoTurnRespects DEF IInv
  <2>3. o.out.line # "move"
    BY <2>1 DEF ApplyInfo, Outcome, Silence
  <2> QED BY <2>2, <2>3 DEF Respects
<1> HIDE DEF line
<1>3. Exchange(line, ref, SearchTimes)
  BY DEF InfoTurn, Send, line
<1> QED BY <1>2, <1>3, ExchangeKeeps

(* INFO timeout_match: the manager no longer knows what the brain starts   *)
(* from.                                                                   *)
LEMMA InfoMatchKeeps ==
  ASSUME IInv, NEW t \in MatchLimits, InfoMatch(t)
  PROVE  IInv' /\ InTime
<1> DEFINE limited == [brain EXCEPT !.budget = SetMatch(brain.budget, t)]
<1>1. t \in Nat
  BY MatchAssumption
<1>2. brain' = limited
  <2>1. PICK answer \in Dispatch(brain, [verb |-> "INFO", arg |-> <<"timeout_match", t>>], 0) :
          brain' = answer.brain
    BY DEF InfoMatch
  <2>2. answer \in ApplyInfo(brain, "timeout_match", t)
    BY <1>1, <2>1, DispatchInfo
  <2>3. answer = Outcome(limited, Silence)
    BY <2>2 DEF ApplyInfo
  <2> HIDE DEF limited
  <2> QED BY <2>1, <2>3 DEF Outcome
<1>3. "budget" \in DOMAIN limited /\ limited.budget = SetMatch(brain.budget, t)
  <2> DEFINE v == SetMatch(brain.budget, t)
  <2> HIDE DEF v
  <2> QED BY BudgetSet DEF IInv
<1>4. SetMatch(brain.budget, t) \in Budgets
  BY <1>1 DEF IInv, SetMatch, Budgets
<1>5. clock' = t /\ told' = FALSE /\ result' = result /\ result = "on"
  BY DEF InfoMatch, NextLine
<1> HIDE DEF limited
<1> QED BY <1>1, <1>2, <1>3, <1>4, <1>5 DEF IInv, InTime

(* INFO time_left: from here on the brain's clock is the manager's.        *)
LEMMA InfoClockKeeps ==
  ASSUME IInv, InfoClock
  PROVE  IInv' /\ InTime
<1> DEFINE set == [brain EXCEPT !.budget = SetTimeLeft(brain.budget, clock)]
<1>1. clock \in Nat
  BY DEF IInv
<1>2. brain' = set
  <2>1. PICK answer \in Dispatch(brain, [verb |-> "INFO", arg |-> <<"time_left", clock>>], 0) :
          brain' = answer.brain
    BY DEF InfoClock
  <2>2. answer \in ApplyInfo(brain, "time_left", clock)
    BY <1>1, <2>1, DispatchInfo
  <2>3. answer = Outcome(set, Silence)
    BY <2>2 DEF ApplyInfo
  <2> HIDE DEF set
  <2> QED BY <2>1, <2>3 DEF Outcome
<1>3. "budget" \in DOMAIN set /\ set.budget = SetTimeLeft(brain.budget, clock)
  <2> DEFINE v == SetTimeLeft(brain.budget, clock)
  <2> HIDE DEF v
  <2> QED BY BudgetSet DEF IInv
<1>4. /\ SetTimeLeft(brain.budget, clock) \in Budgets
      /\ Remaining(SetTimeLeft(brain.budget, clock)) = clock
  BY <1>1 DEF IInv, SetTimeLeft, Budgets, Remaining
<1>5. clock' = clock /\ result' = result /\ result = "on"
  BY DEF InfoClock, NextLine
<1> HIDE DEF set
<1> QED BY <1>1, <1>2, <1>3, <1>4, <1>5 DEF IInv, InTime

(* time_budget_init                                                        *)
LEMMA InitBudgetTyped == InitBudget \in Budgets /\ Remaining(InitBudget) = DefaultMatch
BY BrainAssumption DEF InitBudget, Budgets, Remaining

(* START gives the brain a new clock.                                      *)
LEMMA StartKeeps ==
  ASSUME IInv, Start
  PROVE  IInv' /\ InTime
<1> DEFINE fresh == [ResetGame(brain) EXCEPT !.budget = InitBudget, !.started = TRUE]
<1>1. 15 # Garbage
  BY BrainAssumption
<1>2. brain' = fresh
  <2>1. PICK answer \in Dispatch(brain, [verb |-> "START", arg |-> 15], 0) :
          brain' = answer.brain
    BY DEF Start
  <2>2. answer \in HandleStart(brain, 15)
    BY <1>1, <2>1, DispatchVerb
  <2>3. answer = Outcome(fresh, Ok)
    BY <2>2 DEF HandleStart
  <2> HIDE DEF fresh
  <2> QED BY <2>1, <2>3 DEF Outcome
<1>3. "budget" \in DOMAIN fresh /\ fresh.budget = InitBudget
  <2> DEFINE g == NewGame(BrainConfig)
             v == InitBudget
             reset == [brain EXCEPT !.game = g, !.self = Unknown]
  <2>1. "budget" \in DOMAIN reset
    <3> HIDE DEF g
    <3> QED BY GameAside, SelfAside DEF IInv
  <2> HIDE DEF reset, v
  <2>2. "budget" \in DOMAIN [reset EXCEPT !.budget = v, !.started = TRUE]
        /\ [reset EXCEPT !.budget = v, !.started = TRUE].budget = v
    BY <2>1
  <2> QED BY <2>2 DEF ResetGame, reset, v
<1>4. clock' = DefaultMatch /\ DefaultMatch \in Nat /\ result' = result /\ result = "on"
  BY BrainAssumption DEF Start, NextLine
<1> HIDE DEF fresh
<1> QED BY <1>2, <1>3, <1>4, InitBudgetTyped DEF IInv, InTime

(* RESTART leaves it as it is.                                             *)
LEMMA RestartKeeps ==
  ASSUME IInv, Restart
  PROVE  IInv' /\ InTime
<1>1. brain' = ResetGame(brain)
  <2>1. PICK answer \in Dispatch(brain, [verb |-> "RESTART"], 0) : brain' = answer.brain
    BY DEF Restart
  <2>2. answer \in HandleRestart(brain) /\ brain.started
    BY <2>1, DispatchBare DEF Restart
  <2>3. answer = Outcome(ResetGame(brain), Ok)
    BY <2>2 DEF HandleRestart
  <2> QED BY <2>1, <2>3 DEF Outcome
<1>2. "budget" \in DOMAIN ResetGame(brain) /\ ResetGame(brain).budget = brain.budget
  <2> DEFINE g == NewGame(BrainConfig)
  <2> HIDE DEF g
  <2>1. /\ "budget" \in DOMAIN [brain EXCEPT !.game = g, !.self = Unknown]
        /\ [brain EXCEPT !.game = g, !.self = Unknown].budget = brain.budget
    BY GameAside, SelfAside DEF IInv
  <2> QED BY <2>1 DEF ResetGame, g
<1>3. clock' = DefaultMatch /\ DefaultMatch \in Nat /\ result' = result /\ result = "on"
  BY BrainAssumption DEF Restart, NextLine
<1>4. told' => told /\ clock = DefaultMatch
  BY Zenon DEF Restart
<1> QED BY <1>1, <1>2, <1>3, <1>4 DEF IInv, InTime

(* The lines that change nothing.                                          *)
LEMMA NoiseIsIdle ==
  ASSUME NEW b, NEW line \in Noise, NEW e, NEW o \in Dispatch(b, line, e)
  PROVE  \/ o.brain = b /\ o.out.line # "move"
         \/ o \in ApplyInfo(b, "rule", 1)
<1> DEFINE bare(v) == [verb |-> v]
<1>1. CASE line = bare("")
  <2>1. Kind(line) = "EMPTY"
    BY <1>1 DEF Kind
  <2> QED BY <2>1 DEF Dispatch, Outcome, Silence
<1>2. CASE line = bare("ABOUT")
  BY <1>2 DEF Dispatch, Kind, WithArgument, Bare, Outcome
<1>3. CASE line = bare("SWAP2BOARD")
  BY <1>3 DEF Dispatch, Kind, WithArgument, Bare, Outcome, Error
<1>4. CASE line = bare("HELLO")
  BY <1>4 DEF Dispatch, Kind, WithArgument, Bare, Outcome
<1>5. CASE line = [verb |-> "RECTSTART", arg |-> <<15, 20>>]
  <2>1. Kind(line) \in {"RECTSTART", "INVALID"}
    BY <1>5, KindWithArgument DEF WithArgument
  <2> QED BY <2>1 DEF Dispatch, Outcome, Error
<1>6. CASE line = [verb |-> "TURN", arg |-> Garbage]
  <2>1. Kind(line) = "INVALID"
    BY <1>6, KindWithArgument DEF WithArgument
  <2> QED BY <2>1 DEF Dispatch, Outcome, Error
<1>7. CASE line = [verb |-> "START", arg |-> 20]
  <2>1. o \in HandleStart(b, 20)
    <3>1. 20 # Garbage
      BY BrainAssumption
    <3> QED BY <1>7, <3>1, DispatchVerb
  <2> QED BY <2>1 DEF HandleStart, Outcome, Error
<1>8. CASE line = [verb |-> "INFO", arg |-> <<"rule", 1>>]
  BY <1>8, DispatchInfo
<1> QED BY <1>1, <1>2, <1>3, <1>4, <1>5, <1>6, <1>7, <1>8 DEF Noise

LEMMA NoiseKeeps ==
  ASSUME IInv, NEW line \in Noise, Exchange(line, ref, {0})
  PROVE  IInv' /\ InTime
<1>1. ASSUME NEW e \in {0}, NEW o \in Dispatch(brain, line, e)
      PROVE  Respects(brain, o, e)
  <2>1. CASE o.brain = brain /\ o.out.line # "move"
    BY <2>1 DEF Respects, IInv
  <2>2. CASE o \in ApplyInfo(brain, "rule", 1)
    <3> DEFINE kept == [brain EXCEPT !.budget = brain.budget]
    <3>1. o = Outcome(kept, Silence)
      BY <2>2 DEF ApplyInfo
    <3>2. "budget" \in DOMAIN kept /\ kept.budget = brain.budget
      BY BudgetSet DEF IInv
    <3> HIDE DEF kept
    <3> QED BY <3>1, <3>2 DEF Outcome, Silence, Respects, IInv
  <2> QED BY <1>1, <2>1, <2>2, NoiseIsIdle
<1>2. {0} \in SUBSET SearchTimes
  BY DEF SearchTimes
<1> QED BY <1>1, <1>2, ExchangeKeeps

-----------------------------------------------------------------------------
(* Every line of a match.                                                  *)
LEMMA StepKeeps ==
  ASSUME IInv, [Next]_vars
  PROVE  IInv' /\ [InTime]_vars
<1>1. CASE Next
  <2>1. CASE End
    BY <2>1 DEF End, IInv, InTime
  <2> QED BY <1>1, <2>1, StartKeeps, RestartKeeps, BeginKeeps, InfoClockKeeps, TurnKeeps,
             BoardKeeps, InfoTurnKeeps, InfoMatchKeeps, NoiseKeeps DEF Next
<1>2. CASE UNCHANGED vars
  BY <1>2 DEF vars, IInv
<1> QED BY <1>1, <1>2

(* The brain is started with a clock of its own, the default.              *)
LEMMA InitKeeps == Init => IInv
<1> SUFFICES ASSUME Init PROVE IInv
  OBVIOUS
<1>1. brain = InitBrain /\ clock = DefaultMatch /\ DefaultMatch \in Nat
  BY BrainAssumption DEF Init
<1>2. "budget" \in DOMAIN InitBrain /\ InitBrain.budget = InitBudget
  <2> DEFINE g == NewGame(BrainConfig)
             v == InitBudget
  <2> HIDE DEF g, v
  <2>1. LET b == [game |-> g, self |-> Unknown, started |-> FALSE, budget |-> v]
        IN  "budget" \in DOMAIN b /\ b.budget = v
    OBVIOUS
  <2> QED BY <2>1 DEF InitBrain, g, v
<1> QED BY <1>1, <1>2, InitBudgetTyped DEF IInv

(* Whatever lines a match consists of, the brain's clock is never ahead of *)
(* a manager's clock it has been told.                                     *)
THEOREM ClocksInStep == Spec => []IInv
<1> QED BY InitKeeps, StepKeeps, PTL DEF Spec

(* The brain does not overrun a clock it has been told, on any board, with *)
(* any limits and whatever the length of the match, unless the least       *)
(* budget already exceeds what is left.                                    *)
THEOREM ClockIsKept == Spec => ClockHolds
<1>1. IInv /\ [Next]_vars => [InTime]_vars
  BY StepKeeps
<1>2. ClockHolds <=> [][InTime]_vars
  BY DEF ClockHolds, InTime
<1> QED BY <1>1, <1>2, ClocksInStep, PTL DEF Spec

-----------------------------------------------------------------------------
(* Induction on a number, for a property given as a set.                   *)
LEMMA Induction ==
  ASSUME NEW S, 0 \in S, \A n \in Nat : n \in S => n + 1 \in S
  PROVE  Nat \subseteq S
<1> DEFINE T == Nat \ S
<1> SUFFICES ASSUME T # {} PROVE FALSE
  OBVIOUS
<1>1. PICK x \in T : \A y \in T : <<y, x>> \notin OpToRel(<,Nat)
  BY WFMin, NatLessThanWellFounded, Zenon
<1>2. \A y \in T : ~ (y < x)
  BY <1>1 DEF OpToRel
<1>3. x # 0 /\ x \in Nat
  OBVIOUS
<1>4. x - 1 \in Nat /\ x - 1 < x /\ x - 1 \notin T
  BY <1>2, <1>3
<1> QED BY <1>4

(* Max of a set of numbers up to k + 1 that has k + 1 in it.               *)
LEMMA MaxIsLast ==
  ASSUME NEW k \in Nat, NEW s \in SUBSET (1 .. k + 1), k + 1 \in s
  PROVE  Max(s) = k + 1 /\ s \ {k + 1} \in SUBSET (1 .. k)
<1>1. \A y \in s : k + 1 >= y
  OBVIOUS
<1>2. \A x \in s : (\A y \in s : x >= y) => x = k + 1
  OBVIOUS
<1>3. Max(s) = k + 1
  BY <1>1, <1>2 DEF Max
<1> QED BY <1>3

(* A set of numbers up to k has a greatest member.                         *)
LEMMA MaxExists ==
  ASSUME NEW k \in Nat, NEW s \in SUBSET (1 .. k), s # {}
  PROVE  Max(s) \in s
<1> DEFINE W == {n \in Nat : \A t \in SUBSET (1 .. n) : t # {} => \E x \in t : \A y \in t : x >= y}
<1>1. 0 \in W
  <2>1. \A t \in SUBSET (1 .. 0) : t = {}
    OBVIOUS
  <2> QED BY <2>1
<1>2. ASSUME NEW n \in Nat, n \in W PROVE n + 1 \in W
  <2>1. ASSUME NEW t \in SUBSET (1 .. n + 1), t # {} PROVE \E x \in t : \A y \in t : x >= y
    <3>1. CASE n + 1 \in t
      BY <2>1, <3>1
    <3>2. CASE n + 1 \notin t
      <4>1. t \in SUBSET (1 .. n)
        BY <3>2
      <4> QED BY <4>1, <2>1, <1>2
    <3> QED BY <3>1, <3>2
  <2> QED BY <2>1
<1>3. k \in W
  <2> HIDE DEF W
  <2> QED BY <1>1, <1>2, Induction
<1>4. \E x \in s : \A y \in s : x >= y
  BY <1>3
<1> QED BY <1>4 DEF Max

(* A set of numbers has a least member.                                    *)
LEMMA MinExists ==
  ASSUME NEW s \in SUBSET Nat, s # {}
  PROVE  Min(s) \in s /\ \A y \in s : Min(s) <= y
<1>1. PICK x \in s : \A y \in s : <<y, x>> \notin OpToRel(<,Nat)
  BY WFMin, NatLessThanWellFounded, Zenon
<1>2. \A y \in s : y \in Nat /\ x \in Nat /\ ~(y < x)
  BY <1>1 DEF OpToRel
<1>3. \A y \in s : x <= y
  BY <1>2
<1>4. \E z \in s : \A y \in s : z <= y
  BY <1>3
<1> QED BY <1>4 DEF Min

(* The rows of BOARD are placed one after the other.                       *)
LEMMA RowByRow ==
  ASSUME NEW game, NEW self, NEW rows, NEW n \in Nat, DOMAIN rows = 1 .. n
  PROVE  \E after :
           /\ after[0] = game
           /\ \A k \in 0 .. n - 1 : after[k + 1] = PlaceRow(after[k], self, rows[k + 1])
           /\ PlaceRows(game, self, rows) = after[n]
<1> DEFINE Value(f, s) ==
             IF s = {} THEN game ELSE PlaceRow(f[s \ {Max(s)}], self, rows[Max(s)])
           Folds(f, k) == f = [s \in SUBSET (1 .. k) |-> Value(f, s)]
           W == {k \in Nat : \E f : Folds(f, k)}
<1>1. 0 \in W
  <2> DEFINE f == [s \in SUBSET (1 .. 0) |-> game]
  <2>1. \A s \in SUBSET (1 .. 0) : s = {}
    OBVIOUS
  <2>2. Folds(f, 0)
    BY <2>1
  <2> QED BY <2>2
<1>2. ASSUME NEW k \in Nat, k \in W PROVE k + 1 \in W
  <2>1. PICK f : Folds(f, k)
    BY <1>2
  <2> DEFINE g == [s \in SUBSET (1 .. k + 1) |->
                     IF k + 1 \in s THEN PlaceRow(f[s \ {k + 1}], self, rows[k + 1]) ELSE f[s]]
  <2>2. ASSUME NEW s \in SUBSET (1 .. k + 1) PROVE g[s] = Value(g, s)
    <3>1. CASE k + 1 \in s
      <4>1. Max(s) = k + 1 /\ s \ {k + 1} \in SUBSET (1 .. k) /\ s # {}
        BY <3>1, MaxIsLast
      <4>2. g[s \ {k + 1}] = f[s \ {k + 1}]
        BY <4>1
      <4> QED BY <3>1, <4>1, <4>2
    <3>2. CASE k + 1 \notin s
      <4>1. s \in SUBSET (1 .. k)
        BY <3>2
      <4>2. g[s] = f[s] /\ f[s] = Value(f, s)
        BY <2>1, <3>2, <4>1
      <4>3. ASSUME s # {} PROVE g[s \ {Max(s)}] = f[s \ {Max(s)}]
        BY <4>1, <3>2
      <4> QED BY <4>2, <4>3
    <3> QED BY <3>1, <3>2
  <2>3. g = [s \in SUBSET (1 .. k + 1) |-> g[s]]
    OBVIOUS
  <2>4. Folds(g, k + 1)
    <3> HIDE DEF Value, g
    <3> QED BY <2>2, <2>3
  <2> HIDE DEF Folds
  <2> QED BY <2>4
<1>3. n \in W
  <2> HIDE DEF W
  <2> QED BY <1>1, <1>2, Induction
<1> DEFINE iter == CHOOSE f : Folds(f, n)
<1>4. Folds(iter, n)
  <2> HIDE DEF Folds
  <2> QED BY <1>3
<1>5. PlaceRows(game, self, rows) = iter[1 .. n]
  BY DEF PlaceRows, FoldLeft, MapThenFoldSet
<1> HIDE DEF iter
<1> DEFINE after == [k \in 0 .. n |-> iter[1 .. k]]
<1>6. after[0] = game
  BY <1>4
<1>7. ASSUME NEW k \in 0 .. n - 1
      PROVE  after[k + 1] = PlaceRow(after[k], self, rows[k + 1])
  <2>1. 1 .. k + 1 \in SUBSET (1 .. n) /\ k + 1 \in 1 .. k + 1
    OBVIOUS
  <2>2. Max(1 .. k + 1) = k + 1 /\ (1 .. k + 1) \ {k + 1} = 1 .. k
    BY <2>1, MaxIsLast
  <2>3. iter[1 .. k + 1] = Value(iter, 1 .. k + 1)
    BY <1>4, <2>1
  <2>4. iter[1 .. k + 1] = PlaceRow(iter[1 .. k], self, rows[k + 1])
    BY <2>1, <2>2, <2>3
  <2>5. k \in 0 .. n /\ k + 1 \in 0 .. n
    OBVIOUS
  <2> QED BY <2>4, <2>5
<1>8. PlaceRows(game, self, rows) = after[n]
  BY <1>5
<1> HIDE DEF after
<1> QED BY <1>6, <1>7, <1>8

Fields == {"board", "turn", "state", "history", "undos", "thoughts", "lastAi",
           "total", "stones", "hash", "config"}
BrainFields == {"game", "self", "started", "budget"}

Entries == [cell : Squares, player : Colors, time : {0}, evals : {0}, winner : BOOLEAN]
Boards == [Squares -> Colors \cup {Empty}]
Sheets == [Squares -> {Empty, "own", "opp"}]

(* A record of the game whose counts fit its board.                        *)
Consistent(g) ==
  /\ DOMAIN g = Fields
  /\ g.board \in Boards
  /\ g.history \in Seq(Entries)
  /\ Len(g.history) = Cardinality(Taken(g.board))
  /\ g.stones = Len(g.history)
  /\ g.hash = HashOf(g.board)

(* The stone the manager knows as the brain's own or as the opponent's.    *)
Named(self, stone) == CASE stone = Empty -> Empty
                        [] stone = "own" -> self
                        [] stone = "opp" -> Other(self)
Mirrors(board, self, sheet) == \A c \in Squares : board[c] = Named(self, sheet[c])

Brains(b) ==
  /\ DOMAIN b = BrainFields
  /\ Consistent(b.game)
  /\ b.self \in Colors \cup {Unknown}

(* A brain without a colour has seen no stone yet.                         *)
BoardInv ==
  /\ Brains(brain)
  /\ ref \in Sheets
  /\ brain.self = Unknown => ref = EmptyBoard
  /\ Mirrors(brain.game.board, brain.self, ref)
  /\ result = "forfeit" => Taken(ref) = {Centre} /\ brain.game.board[Centre] = "O"

-----------------------------------------------------------------------------
(* The taken cells are some of the board's.                                *)
LEMMA TakenIsFinite ==
  ASSUME NEW board
  PROVE  IsFiniteSet(Taken(board)) /\ Taken(board) \subseteq Squares
BY GameAssumption, FS_Subset DEF Taken

(* A stone on a free cell: one cell more is taken, and its key is in the   *)
(* hash.                                                                   *)
LEMMA StonePut ==
  ASSUME NEW board \in Boards, NEW c \in Free(board), NEW p \in Colors
  PROVE  LET after == [board EXCEPT ![c] = p]
         IN  /\ after \in Boards
             /\ Cardinality(Taken(after)) = Cardinality(Taken(board)) + 1
             /\ HashOf(after) = Xor(HashOf(board), <<p, c>>)
<1> DEFINE after == [board EXCEPT ![c] = p]
<1>1. c \in Squares /\ board[c] = Empty /\ after \in Boards
  BY DEF Free, Boards
<1>2. /\ \A d \in Squares \ {c} : after[d] = board[d]
      /\ after[c] = p /\ p # Empty
  BY <1>1 DEF Boards, Colors, Empty
<1> HIDE DEF after
<1>3. Taken(after) = Taken(board) \cup {c} /\ c \notin Taken(board)
  BY <1>1, <1>2 DEF Taken
<1>4. Cardinality(Taken(after)) = Cardinality(Taken(board)) + 1
  BY <1>3, TakenIsFinite, FS_AddElement
<1>5. HashOf(after) = HashOf(board) \cup {<<p, c>>}
  BY <1>2, <1>3 DEF HashOf, Taken
<1>6. <<p, c>> \notin HashOf(board)
  BY <1>3 DEF HashOf
<1>7. Xor(HashOf(board), <<p, c>>) = HashOf(board) \cup {<<p, c>>}
  BY <1>6 DEF Xor
<1> QED BY <1>1, <1>4, <1>5, <1>7 DEF after

(* A stone taken off: one cell less is taken.                              *)
LEMMA StoneTaken ==
  ASSUME NEW board \in Boards, NEW c \in Taken(board)
  PROVE  LET after == [board EXCEPT ![c] = Empty]
         IN  /\ after \in Boards
             /\ Cardinality(Taken(after)) = Cardinality(Taken(board)) - 1
             /\ Cardinality(Taken(board)) \in Nat \ {0}
<1> DEFINE after == [board EXCEPT ![c] = Empty]
<1>1. c \in Squares /\ after \in Boards
  BY DEF Taken, Boards
<1>2. /\ \A d \in Squares \ {c} : after[d] = board[d]
      /\ after[c] = Empty
  BY <1>1 DEF Boards
<1> HIDE DEF after
<1>3. Taken(after) = Taken(board) \ {c}
  BY <1>1, <1>2 DEF Taken
<1>4. Cardinality(Taken(after)) = Cardinality(Taken(board)) - 1
  BY <1>3, TakenIsFinite, FS_RemoveElement
<1>5. Cardinality(Taken(board)) \in Nat \ {0}
  BY TakenIsFinite, FS_CardinalityType, FS_EmptySet
<1> QED BY <1>1, <1>4, <1>5 DEF after

(* The fields of a record after several of them were set.                  *)
LEMMA SetMoveFields ==
  ASSUME NEW g, DOMAIN g = Fields, NEW vb, NEW vh, NEW vt, NEW vs, NEW vx, NEW vv, NEW vu
  PROVE  LET n == [g EXCEPT !.board = vb, !.history = vh, !.total = vt, !.stones = vs,
                            !.hash = vx, !.state = vv, !.turn = vu]
         IN  /\ DOMAIN n = Fields
             /\ n.board = vb /\ n.history = vh /\ n.stones = vs /\ n.hash = vx
BY DEF Fields

(* make_move: a stone on a free cell is counted and hashed; anything else  *)
(* leaves the record as it is.                                             *)
LEMMA MovePuts ==
  ASSUME NEW g, Consistent(g), NEW c, NEW p \in Colors
  PROVE  /\ Consistent(MakeMove(g, c, p, 0, 0))
         /\ MakeMove(g, c, p, 0, 0).board =
              IF Valid(g.board, c) THEN [g.board EXCEPT ![c] = p] ELSE g.board
<1>1. CASE ~Valid(g.board, c)
  BY <1>1 DEF MakeMove
<1>2. CASE Valid(g.board, c)
  <2> DEFINE board == [g.board EXCEPT ![c] = p]
             verdict == Verdict(board, g.state)
             entry == [cell |-> c, player |-> p, time |-> 0, evals |-> 0,
                       winner |-> verdict \in Colors]
             history == Append(g.history, entry)
             total == [g.total EXCEPT ![p] = g.total[p] + 0]
             stones == g.stones + 1
             hash == Xor(g.hash, <<p, c>>)
             turn == IF verdict = "running" THEN Other(g.turn) ELSE g.turn
             n == [g EXCEPT !.board = board, !.history = history, !.total = total,
                            !.stones = stones, !.hash = hash, !.state = verdict, !.turn = turn]
  <2>1. MakeMove(g, c, p, 0, 0) = n
    BY <1>2, Zenon DEF MakeMove
  <2>2. /\ DOMAIN n = Fields
        /\ n.board = board /\ n.history = history /\ n.stones = stones /\ n.hash = hash
    <3> HIDE DEF board, verdict, history, total, stones, hash, turn
    <3> QED BY SetMoveFields DEF Consistent
  <2>3. c \in Free(g.board) /\ c \in Squares
    BY <1>2 DEF Valid, Free
  <2>4. entry \in Entries
    <3> HIDE DEF verdict
    <3> QED BY <2>3 DEF Entries
  <2>5. history \in Seq(Entries) /\ Len(history) = Len(g.history) + 1
    <3> HIDE DEF entry
    <3> QED BY <2>4 DEF Consistent
  <2>6. /\ board \in Boards
        /\ Cardinality(Taken(board)) = Cardinality(Taken(g.board)) + 1
        /\ HashOf(board) = Xor(HashOf(g.board), <<p, c>>)
    BY <2>3, StonePut DEF Consistent
  <2>7. Consistent(n)
    <3> HIDE DEF n, board, history
    <3> QED BY <2>2, <2>5, <2>6 DEF Consistent
  <2> HIDE DEF n
  <2> QED BY <1>2, <2>1, <2>2, <2>7
<1> QED BY <1>1, <1>2

(* find_best_ai_move leaves the stones alone and computes the hash anew.   *)
LEMMA ThinkKeeps ==
  ASSUME NEW g, Consistent(g), NEW p
  PROVE  LET n == Think([g EXCEPT !.turn = p], 1)
         IN  Consistent(n) /\ n.board = g.board
<1> DEFINE turned == [g EXCEPT !.turn = p]
           hashed == [turned EXCEPT !.hash = HashOf(turned.board)]
           n == Think(turned, 1)
<1>1. PICK v : n = [hashed EXCEPT !.thoughts = v]
  BY DEF Think, AddThought
<1>2. /\ DOMAIN turned = Fields /\ turned.board = g.board /\ turned.history = g.history
      /\ turned.stones = g.stones
  BY DEF Consistent, Fields
<1> HIDE DEF turned
<1>3. /\ DOMAIN hashed = Fields /\ hashed.board = g.board /\ hashed.history = g.history
      /\ hashed.stones = g.stones /\ hashed.hash = HashOf(g.board)
  <2> DEFINE h == HashOf(turned.board)
  <2>1. h = HashOf(g.board)
    BY <1>2
  <2> HIDE DEF h
  <2> QED BY <1>2, <2>1 DEF Fields
<1> HIDE DEF hashed, n
<1>4. /\ DOMAIN n = Fields /\ n.board = g.board /\ n.history = g.history
      /\ n.stones = g.stones /\ n.hash = HashOf(g.board)
  BY <1>1, <1>3 DEF Fields
<1> QED BY <1>4 DEF Consistent, n, turned

(* find_best_ai_move: while a cell is free, the cell it names is free,     *)
(* unless the only stone is O's and on the centre.                         *)
LEMMA ChoiceIsLegal ==
  ASSUME NEW board \in Boards, Free(board) # {}, NEW best \in BestMoves(board)
  PROVE  LET cell == IF best = None THEN Centre ELSE best
         IN  /\ cell \in Squares
             /\ cell \in Free(board) \/ (Taken(board) = {Centre} /\ board[Centre] = "O")
<1>1. Free(board) \subseteq Squares /\ Taken(board) \subseteq Squares
  BY DEF Free, Taken
<1>2. None \notin Squares /\ Centre \in Squares
  BY GameAssumption
<1>3. CASE Cardinality(Taken(board)) = 1
  <2>1. PICK c : Taken(board) = {c}
    BY <1>3, TakenIsFinite, FS_Singleton
  <2>2. best = FirstReply(board)
    BY <1>3 DEF BestMoves
  <2>3. \A d \in Squares : d # c => d \in Free(board)
    BY <2>1 DEF Taken, Free
  <2>4. CASE board[c] = "X"
    <3>1. StonesOf(board, "X") = {c}
      BY <2>1, <2>4 DEF StonesOf, Taken, Empty
    <3>2. best = Book(c)
      BY <2>2, <3>1 DEF FirstReply
    <3>3. Book(c) \in Squares /\ Book(c) # c
      BY <1>1, <2>1, GameAssumption
    <3> QED BY <1>2, <2>3, <3>2, <3>3
  <2>5. CASE board[c] # "X"
    <3>1. StonesOf(board, "X") = {}
      BY <2>1, <2>5 DEF StonesOf, Taken, Empty
    <3>2. best = Centre
      BY <2>2, <3>1 DEF FirstReply
    <3>3. board[c] = "O"
      BY <1>1, <2>1, <2>5 DEF Boards, Colors, Taken
    <3> QED BY <1>2, <2>1, <2>3, <3>2, <3>3
  <2> QED BY <2>4, <2>5
<1>4. CASE Cardinality(Taken(board)) # 1 /\ Taken(board) = {}
  BY <1>2, <1>4 DEF BestMoves, Taken, Free
<1>5. CASE Cardinality(Taken(board)) # 1 /\ Taken(board) # {}
  BY <1>1, <1>2, <1>5 DEF BestMoves
<1> QED BY <1>3, <1>4, <1>5

-----------------------------------------------------------------------------
(* The fields of the brain after some of them were set.                    *)
LEMMA BrainSet ==
  ASSUME NEW b, DOMAIN b = BrainFields, NEW s, NEW g, NEW v
  PROVE  /\ LET n == [b EXCEPT !.self = s]
            IN  DOMAIN n = BrainFields /\ n.self = s /\ n.game = b.game /\ n.budget = b.budget
                /\ n.started = b.started
         /\ LET n == [b EXCEPT !.game = g]
            IN  DOMAIN n = BrainFields /\ n.self = b.self /\ n.game = g /\ n.budget = b.budget
                /\ n.started = b.started
         /\ LET n == [b EXCEPT !.budget = v]
            IN  DOMAIN n = BrainFields /\ n.self = b.self /\ n.game = b.game /\ n.budget = v
                /\ n.started = b.started
         /\ LET n == [b EXCEPT !.self = s, !.game = g]
            IN  DOMAIN n = BrainFields /\ n.self = s /\ n.game = g
         /\ LET n == [b EXCEPT !.game = g, !.self = s]
            IN  DOMAIN n = BrainFields /\ n.self = s /\ n.game = g
         /\ LET n == [b EXCEPT !.self = s, !.game = g, !.budget = v]
            IN  DOMAIN n = BrainFields /\ n.self = s /\ n.game = g
BY DEF BrainFields

(* What an answer may be, when the manager's sheet was `sheet` and should  *)
(* be `asked` after the line. A refusal leaves the stones alone; any other *)
(* answer than a move has made the board the sheet asked for; a move adds  *)
(* a stone of the brain's own to it, or is the illegal one on the centre.  *)
Refuses(b, o) ==
  /\ o.out = Error
  /\ o.brain.game = b.game
  /\ b.self # Unknown => o.brain.self = b.self
Complies(o, asked) ==
  /\ o.out # Error /\ o.out.line # "move"
  /\ Mirrors(o.brain.game.board, o.brain.self, asked)
  /\ o.brain.self = Unknown => asked = EmptyBoard
Moves(o, asked) ==
  /\ o.out.line = "move"
  /\ o.brain.self # Unknown
  /\ o.out.cell \in Squares
  /\ IF Valid(asked, o.out.cell)
     THEN Mirrors(o.brain.game.board, o.brain.self, [asked EXCEPT ![o.out.cell] = "own"])
     ELSE /\ Mirrors(o.brain.game.board, o.brain.self, asked)
          /\ Taken(asked) = {Centre} /\ o.brain.game.board[Centre] = "O"
Plays(b, o, asked) ==
  /\ Brains(o.brain)
  /\ Refuses(b, o) \/ Complies(o, asked) \/ Moves(o, asked)

(* A board that mirrors a sheet has the same cells taken and free.         *)
LEMMA SameCells ==
  ASSUME NEW self \in Colors, NEW sheet \in Sheets, NEW board, Mirrors(board, self, sheet)
  PROVE  Taken(board) = Taken(sheet) /\ Free(board) = Free(sheet)
<1>1. \A stone \in {Empty, "own", "opp"} : Named(self, stone) = Empty <=> stone = Empty
  BY DEF Named, Colors, Empty, Other
<1>2. \A c \in Squares : board[c] = Empty <=> sheet[c] = Empty
  BY <1>1 DEF Mirrors, Sheets
<1> QED BY <1>2 DEF Taken, Free

(* A stone put on both sides keeps them alike.                             *)
LEMMA MirrorsPut ==
  ASSUME NEW self \in Colors, NEW sheet \in Sheets, NEW board \in Boards,
         Mirrors(board, self, sheet), NEW c \in Squares, NEW stone \in {Empty, "own", "opp"}
  PROVE  /\ Mirrors([board EXCEPT ![c] = Named(self, stone)], self, [sheet EXCEPT ![c] = stone])
         /\ [sheet EXCEPT ![c] = stone] \in Sheets
<1> DEFINE named == Named(self, stone)
<1>1. Mirrors([board EXCEPT ![c] = named], self, [sheet EXCEPT ![c] = stone])
  BY DEF Mirrors, Sheets, Boards
<1> QED BY <1>1 DEF Sheets

(* compute_and_emit_move, for a brain that knows its colour.               *)
LEMMA ComputeMoves ==
  ASSUME NEW b, Brains(b), b.self \in Colors, NEW asked \in Sheets,
         Mirrors(b.game.board, b.self, asked), Free(asked) # {},
         NEW e, NEW o \in ComputeAndEmit(b, e)
  PROVE  Brains(o.brain) /\ Moves(o, asked)
<1> DEFINE self == b.self
           searched == Think([b.game EXCEPT !.turn = self], 1)
           chosen(best) == IF best = None THEN Centre ELSE best
           after(best) == MakeMove(searched, chosen(best), self, 0, 0)
           budget == RecordElapsed(b.budget, e)
           brainAfter(best) == [b EXCEPT !.self = self, !.game = after(best), !.budget = budget]
<1>1. PICK best \in BestMoves(b.game.board) :
        o = Outcome(brainAfter(best), Move(chosen(best), ComputeSeconds(b.budget)))
  <2>1. (IF b.self = Unknown THEN "X" ELSE b.self) = self
    BY DEF Unknown, Colors
  <2> QED BY <2>1 DEF ComputeAndEmit
<1> DEFINE cell == chosen(best)
<1>2. o.brain = brainAfter(best) /\ o.out.line = "move" /\ o.out.cell = cell
  <2> HIDE DEF brainAfter, chosen
  <2> QED BY <1>1 DEF Outcome, Move
<1>3. Consistent(searched) /\ searched.board = b.game.board /\ b.game.board \in Boards
  BY ThinkKeeps DEF Brains, Consistent
<1>4. /\ Consistent(after(best))
      /\ after(best).board = IF Valid(b.game.board, cell) THEN [b.game.board EXCEPT ![cell] = self]
                                                          ELSE b.game.board
  <2> DEFINE c == chosen(best)
  <2> HIDE DEF searched, c
  <2>1. /\ Consistent(MakeMove(searched, c, self, 0, 0))
        /\ MakeMove(searched, c, self, 0, 0).board =
             IF Valid(searched.board, c) THEN [searched.board EXCEPT ![c] = self] ELSE searched.board
    BY <1>3, MovePuts
  <2> QED BY <1>3, <2>1 DEF c
<1>5. DOMAIN brainAfter(best) = BrainFields /\ brainAfter(best).self = self
      /\ brainAfter(best).game = after(best)
  <2> HIDE DEF after, budget
  <2> QED BY BrainSet DEF Brains
<1>6. Free(b.game.board) = Free(asked) /\ Taken(b.game.board) = Taken(asked)
  BY SameCells
<1>7. /\ cell \in Squares
      /\ cell \in Free(asked) \/ (Taken(asked) = {Centre} /\ b.game.board[Centre] = "O")
  <2> QED BY <1>3, <1>6, ChoiceIsLegal
<1> HIDE DEF brainAfter, after, chosen
<1>8. Brains(o.brain)
  BY <1>2, <1>4, <1>5 DEF Brains
<1>9. o.brain.self = self /\ o.brain.game.board = after(best).board /\ self # Unknown
  BY <1>2, <1>5 DEF Unknown, Colors
<1>10. CASE Valid(asked, cell)
  <2>1. o.brain.game.board = [b.game.board EXCEPT ![cell] = Named(self, "own")]
    BY <1>4, <1>6, <1>9, <1>10 DEF Valid, Named, Empty
  <2>2. Mirrors(o.brain.game.board, self, [asked EXCEPT ![cell] = "own"])
    <3> DEFINE board == b.game.board
    <3>1. /\ Mirrors(board, self, asked) /\ board \in Boards /\ self \in Colors
          /\ cell \in Squares
      BY <1>3, <1>7
    <3> HIDE DEF board, cell, self
    <3>2. Mirrors([board EXCEPT ![cell] = Named(self, "own")], self, [asked EXCEPT ![cell] = "own"])
      BY <3>1, MirrorsPut
    <3> QED BY <2>1, <3>2 DEF board
  <2> QED BY <1>2, <1>7, <1>8, <1>9, <1>10, <2>2 DEF Moves
<1>11. CASE ~Valid(asked, cell)
  <2>1. o.brain.game.board = b.game.board
    BY <1>4, <1>6, <1>9, <1>11 DEF Valid
  <2>2. Taken(asked) = {Centre} /\ b.game.board[Centre] = "O"
    BY <1>7, <1>11 DEF Valid
  <2> QED BY <1>2, <1>7, <1>8, <1>9, <1>11, <2>1, <2>2 DEF Moves
<1> QED BY <1>10, <1>11

Sane(b, sheet) ==
  /\ Brains(b)
  /\ sheet \in Sheets
  /\ b.self = Unknown => sheet = EmptyBoard
  /\ Mirrors(b.game.board, b.self, sheet)

(* An empty sheet is mirrored by the empty board, whatever the colour.     *)
LEMMA EmptyMirrors ==
  /\ EmptyBoard \in Sheets /\ EmptyBoard \in Boards
  /\ \A board, self : Mirrors(board, self, EmptyBoard) <=> \A c \in Squares : board[c] = Empty
<1>1. EmptyBoard \in Sheets /\ EmptyBoard \in Boards
  BY DEF EmptyBoard, Sheets, Boards
<1>2. \A c \in Squares : EmptyBoard[c] = Empty
  BY DEF EmptyBoard
<1>3. \A self : Named(self, Empty) = Empty
  BY DEF Named, Empty
<1> QED BY <1>1, <1>2, <1>3 DEF Mirrors

(* What the manager's names for a stone stand for, given the brain's       *)
(* colour.                                                                 *)
LEMMA ColorsNamed ==
  /\ \A self \in Colors : self # Unknown /\ Other(self) \in Colors
  /\ \A self : Named(self, Empty) = Empty /\ Named(self, "own") = self
               /\ Named(self, "opp") = Other(self)
BY DEF Colors, Unknown, Other, Named, Empty

(* handle_turn                                                             *)
LEMMA TurnPlays ==
  ASSUME NEW b, NEW sheet, Sane(b, sheet), NEW c, NEW asked, NEW e,
         IF Valid(sheet, c) THEN asked = [sheet EXCEPT ![c] = "opp"] /\ Free(asked) # {}
                            ELSE asked = sheet,
         NEW o \in HandleTurn(b, c, e)
  PROVE  Plays(b, o, asked)
<1> DEFINE self == IF b.self = Unknown THEN "O" ELSE b.self
           named == [b EXCEPT !.self = self]
           put == MakeMove(b.game, c, Other(self), 0, 0)
           placed == [named EXCEPT !.game = put]
           board == b.game.board
<1>1. /\ self \in Colors /\ self # Unknown /\ (b.self # Unknown => self = b.self)
      /\ Other(self) \in Colors /\ Named(self, "opp") = Other(self)
  BY ColorsNamed DEF Sane, Brains, Colors
<1>2. /\ Brains(b) /\ DOMAIN b = BrainFields /\ Consistent(b.game) /\ board \in Boards
      /\ sheet \in Sheets
  BY DEF Sane, Brains, Consistent
<1>3. Mirrors(board, self, sheet)
  <2>1. CASE b.self = Unknown
    BY <2>1, EmptyMirrors DEF Sane
  <2>2. CASE b.self # Unknown
    BY <2>2 DEF Sane
  <2> QED BY <2>1, <2>2
<1> HIDE DEF self
<1>4. DOMAIN named = BrainFields /\ named.self = self /\ named.game = b.game
  BY <1>2, BrainSet
<1>5. Brains(named)
  <2> HIDE DEF named
  <2> QED BY <1>1, <1>2, <1>4 DEF Brains
<1>6. CASE o = Outcome(b, Error) \/ o = Outcome(named, Error)
  <2>1. o.out = Error /\ (o.brain = b \/ o.brain = named)
    <3> HIDE DEF named
    <3> QED BY <1>6 DEF Outcome
  <2> HIDE DEF named
  <2>2. Refuses(b, o) /\ Brains(o.brain)
    BY <2>1, <1>1, <1>2, <1>4, <1>5 DEF Refuses
  <2> QED BY <2>2 DEF Plays
<1>7. CASE Valid(board, c) /\ o \in ComputeAndEmit(placed, e)
  <2>1. Valid(sheet, c) /\ c \in Squares
    BY <1>1, <1>2, <1>3, <1>7, SameCells DEF Valid, Free
  <2>2. Consistent(put) /\ put.board = [board EXCEPT ![c] = Other(self)]
    BY <1>1, <1>2, <1>7, MovePuts
  <2>3. DOMAIN placed = BrainFields /\ placed.self = self /\ placed.game = put
    <3> HIDE DEF put, named
    <3> QED BY <1>4, BrainSet
  <2> HIDE DEF placed, put
  <2>4. Mirrors(put.board, self, asked) /\ asked \in Sheets
    <3>1. board \in Boards
      BY <1>2
    <3> HIDE DEF board
    <3>2. /\ Mirrors([board EXCEPT ![c] = Named(self, "opp")], self, [sheet EXCEPT ![c] = "opp"])
          /\ [sheet EXCEPT ![c] = "opp"] \in Sheets
      BY <1>1, <1>2, <1>3, <2>1, <3>1, MirrorsPut
    <3>3. asked = [sheet EXCEPT ![c] = "opp"]
      BY <2>1
    <3> QED BY <1>1, <2>2, <3>2, <3>3
  <2>5. Brains(placed)
    BY <1>1, <2>2, <2>3 DEF Brains
  <2>6. Free(asked) # {}
    BY <2>1
  <2>7. Brains(o.brain) /\ Moves(o, asked)
    BY <1>1, <1>7, <2>3, <2>4, <2>5, <2>6, ComputeMoves
  <2> QED BY <2>7 DEF Plays
<1> QED
  BY <1>6, <1>7 DEF HandleTurn, self

(* handle_takeback: the history loses an entry with the stone.             *)
LEMMA TakebackPlays ==
  ASSUME NEW b, NEW sheet, Sane(b, sheet), NEW c, NEW asked,
         asked = IF c \in Squares THEN [sheet EXCEPT ![c] = Empty] ELSE sheet,
         NEW o \in HandleTakeback(b, c)
  PROVE  Plays(b, o, asked)
<1> DEFINE before == b.game.board
           board == [before EXCEPT ![c] = Empty]
           history == Pop(b.game.history)
           stones == Cardinality(Taken(board))
           hash == HashOf(board)
           shorter == [b.game EXCEPT !.board = board, !.history = history,
                                     !.stones = stones, !.hash = hash]
           taken == [b EXCEPT !.game = shorter]
<1>1. /\ Brains(b) /\ DOMAIN b = BrainFields /\ Consistent(b.game) /\ before \in Boards
      /\ sheet \in Sheets /\ Mirrors(before, b.self, sheet) /\ DOMAIN b.game = Fields
  BY DEF Sane, Brains, Consistent
<1>2. CASE o = Outcome(b, Error)
  BY <1>1, <1>2 DEF Outcome, Refuses, Plays
<1>3. CASE c \in Taken(before) /\ o = Outcome(taken, Ok)
  <2>1. b.self # Unknown
    BY <1>3, EmptyMirrors DEF Sane, Taken
  <2>2. b.self \in Colors /\ c \in Squares /\ Named(b.self, Empty) = Empty
    BY <1>1, <1>3, <2>1, ColorsNamed DEF Brains, Taken
  <2>3. /\ board \in Boards /\ Cardinality(Taken(board)) = Cardinality(Taken(before)) - 1
        /\ Cardinality(Taken(before)) \in Nat \ {0}
    BY <1>1, <1>3, StoneTaken
  <2>4. history \in Seq(Entries) /\ Len(history) = Len(b.game.history) - 1
    <3>1. b.game.history \in Seq(Entries) /\ Len(b.game.history) \in Nat \ {0}
      BY <1>1, <2>3 DEF Consistent
    <3> QED BY <3>1 DEF Pop
  <2>5. /\ DOMAIN shorter = Fields /\ shorter.board = board /\ shorter.history = history
        /\ shorter.stones = stones /\ shorter.hash = hash
    <3> HIDE DEF board, history, stones, hash
    <3> QED BY <1>1 DEF Fields
  <2>6. Consistent(shorter)
    <3> HIDE DEF shorter, board, history
    <3> QED BY <1>1, <2>3, <2>4, <2>5 DEF Consistent
  <2>7. DOMAIN taken = BrainFields /\ taken.self = b.self /\ taken.game = shorter
    <3> HIDE DEF shorter
    <3> QED BY <1>1, BrainSet
  <2>8. o.brain = taken /\ o.out = Ok
    <3> HIDE DEF taken
    <3> QED BY <1>3 DEF Outcome
  <2>9. Mirrors(board, b.self, asked)
    <3> DEFINE self == b.self
    <3> HIDE DEF self, before
    <3>1. Mirrors([before EXCEPT ![c] = Named(self, Empty)], self, [sheet EXCEPT ![c] = Empty])
      BY <1>1, <2>2, MirrorsPut DEF self
    <3> QED BY <2>2, <3>1 DEF self
  <2> HIDE DEF taken, shorter, board
  <2>10. Brains(o.brain)
    BY <1>1, <2>6, <2>7, <2>8 DEF Brains
  <2>11. Complies(o, asked)
    BY <2>1, <2>5, <2>7, <2>8, <2>9 DEF Complies, Ok, Error
  <2> QED BY <2>10, <2>11 DEF Plays
<1> QED
  BY <1>2, <1>3 DEF HandleTakeback

(* handle_begin, when the board is empty.                                  *)
LEMMA BeginPlays ==
  ASSUME NEW b, Sane(b, EmptyBoard), NEW o \in HandleBegin(b)
  PROVE  Plays(b, o, EmptyBoard)
<1> DEFINE turned == [b.game EXCEPT !.turn = "X"]
           put == MakeMove(turned, Centre, "X", 0, 0)
           begun == [b EXCEPT !.self = "X", !.game = put]
<1>1. /\ Brains(b) /\ DOMAIN b = BrainFields /\ Consistent(b.game)
      /\ \A c \in Squares : b.game.board[c] = Empty
  BY EmptyMirrors DEF Sane, Brains
<1>2. CASE o = Outcome(b, Error)
  BY <1>1, <1>2 DEF Outcome, Refuses, Plays
<1>3. CASE o = Outcome(begun, Move(Centre, 0))
  <2>1. Consistent(turned) /\ turned.board = b.game.board
    <3>1. /\ DOMAIN turned = Fields /\ turned.board = b.game.board
          /\ turned.history = b.game.history /\ turned.stones = b.game.stones
          /\ turned.hash = b.game.hash
      BY <1>1 DEF Consistent, Fields
    <3> HIDE DEF turned
    <3> QED BY <1>1, <3>1 DEF Consistent
  <2>2. Centre \in Squares /\ Valid(turned.board, Centre) /\ Valid(EmptyBoard, Centre)
    BY <1>1, <2>1, GameAssumption DEF Valid, Free, EmptyBoard
  <2>3. Consistent(put) /\ put.board = [b.game.board EXCEPT ![Centre] = "X"]
    <3> HIDE DEF turned
    <3> QED BY <2>1, <2>2, MovePuts DEF Colors
  <2>4. DOMAIN begun = BrainFields /\ begun.self = "X" /\ begun.game = put
    <3> HIDE DEF put
    <3> QED BY <1>1, BrainSet
  <2>5. o.brain = begun /\ o.out.line = "move" /\ o.out.cell = Centre
    <3> HIDE DEF begun
    <3> QED BY <1>3 DEF Outcome, Move
  <2>6. b.game.board \in Boards
    BY <1>1 DEF Consistent
  <2> HIDE DEF begun, put, turned
  <2>7. Mirrors(put.board, "X", [EmptyBoard EXCEPT ![Centre] = "own"])
    <3> DEFINE board == b.game.board
    <3> HIDE DEF board
    <3>1. Mirrors([board EXCEPT ![Centre] = Named("X", "own")], "X", [EmptyBoard EXCEPT ![Centre] = "own"])
      BY <1>1, <2>2, <2>6, EmptyMirrors, MirrorsPut DEF Colors, board
    <3> QED BY <2>3, <3>1, ColorsNamed DEF board
  <2>8. Brains(o.brain)
    BY <2>3, <2>4, <2>5 DEF Brains, Colors
  <2>9. Moves(o, EmptyBoard)
    BY <2>2, <2>4, <2>5, <2>7 DEF Moves, Unknown
  <2> QED BY <2>8, <2>9 DEF Plays
<1> QED BY <1>2, <1>3 DEF HandleBegin

Rows == Seq({Garbage} \cup (Squares \cup {Outside}) \X Nat)

(* What a row has to say about the cell it names.                          *)
Owner(row) == IF row[2] = 1 THEN "own" ELSE "opp"

(* The first k rows are on the board: a cell is empty as long as no row    *)
(* names it, and else has the stone of the first row that does.            *)
Placed(board, self, rows, k) ==
  \A c \in Squares :
    LET naming == Naming(rows, c) \cap (1 .. k)
    IN  /\ naming = {} => board[c] = Empty
        /\ \A i \in naming : (\A j \in naming : i <= j) => board[c] = Named(self, Owner(rows[i]))

(* One more row: the first row that names a cell is the one that counts.   *)
LEMMA PlaceNext ==
  ASSUME NEW g, Consistent(g), NEW self \in Colors, NEW rows \in Rows,
         NEW k \in Nat, k + 1 \in DOMAIN rows, Placed(g.board, self, rows, k)
  PROVE  /\ Consistent(PlaceRow(g, self, rows[k + 1]))
         /\ Placed(PlaceRow(g, self, rows[k + 1]).board, self, rows, k + 1)
<1> DEFINE row == rows[k + 1]
           n == PlaceRow(g, self, row)
           Upto(c, m) == Naming(rows, c) \cap (1 .. m)
<1>1. row = Garbage \/ row \in (Squares \cup {Outside}) \X Nat
  BY DEF Rows
<1>2. \A c \in Squares : Upto(c, k) \subseteq 1 .. k /\ Upto(c, k + 1) =
        IF row # Garbage /\ row[1] = c THEN Upto(c, k) \cup {k + 1} ELSE Upto(c, k)
  BY DEF Naming
<1>3. ASSUME NEW c \in Squares
      PROVE  \/ Upto(c, k) = {} /\ g.board[c] = Empty
             \/ Upto(c, k) # {} /\ g.board[c] # Empty
  <2>1. CASE Upto(c, k) = {}
    BY <2>1 DEF Placed
  <2>2. CASE Upto(c, k) # {}
    <3> DEFINE i == Min(Upto(c, k))
    <3>1. i \in Upto(c, k) /\ \A j \in Upto(c, k) : i <= j
      <4>1. Upto(c, k) \in SUBSET Nat
        BY <1>2
      <4> HIDE DEF Upto
      <4> QED BY <2>2, <4>1, MinExists
    <3> HIDE DEF i
    <3>2. g.board[c] = Named(self, Owner(rows[i]))
      BY <3>1 DEF Placed
    <3>3. Named(self, Owner(rows[i])) # Empty
      BY DEF Named, Owner, Colors, Other, Empty
    <3> QED BY <2>2, <3>2, <3>3
  <2> QED BY <2>1, <2>2
<1>4. CASE row = Garbage
  <2>1. n = g
    BY <1>4 DEF PlaceRow
  <2>2. \A c \in Squares : Upto(c, k + 1) = Upto(c, k)
    BY <1>2, <1>4
  <2> HIDE DEF n
  <2> QED BY <2>1, <2>2 DEF Placed, n
<1>5. CASE row # Garbage
  <2> DEFINE d == row[1]
             stone == Named(self, Owner(row))
  <2>1. d \in Squares \cup {Outside} /\ Outside \notin Squares
    BY <1>1, <1>5, MatchAssumption
  <2>2. stone \in Colors
    BY ColorsNamed DEF Owner
  <2>3. n = MakeMove(g, d, stone, 0, 0)
    BY <1>5, ColorsNamed DEF PlaceRow, Owner
  <2>4. /\ Consistent(n)
        /\ n.board = IF Valid(g.board, d) THEN [g.board EXCEPT ![d] = stone] ELSE g.board
    <3> HIDE DEF d, stone, n
    <3> QED BY <2>2, <2>3, MovePuts
  <2>5. Placed(n.board, self, rows, k + 1)
    <3> SUFFICES ASSUME NEW c \in Squares
                 PROVE  /\ Upto(c, k + 1) = {} => n.board[c] = Empty
                        /\ \A i \in Upto(c, k + 1) :
                             (\A j \in Upto(c, k + 1) : i <= j)
                               => n.board[c] = Named(self, Owner(rows[i]))
      BY DEF Placed
    <3>1. g.board \in Boards
      BY DEF Consistent
    <3>2. /\ Upto(c, k) = {} => g.board[c] = Empty
          /\ \A i \in Upto(c, k) :
               (\A j \in Upto(c, k) : i <= j) => g.board[c] = Named(self, Owner(rows[i]))
      BY DEF Placed
    <3> HIDE DEF n
    <3>3. CASE c # d
      <4>1. Upto(c, k + 1) = Upto(c, k)
        BY <1>2, <3>3
      <4>2. n.board[c] = g.board[c]
        BY <2>4, <3>1, <3>3 DEF Boards
      <4> QED BY <3>2, <4>1, <4>2
    <3>4. CASE c = d /\ Upto(c, k) = {}
      <4>1. Upto(c, k + 1) = {k + 1}
        BY <1>2, <1>5, <3>4
      <4>2. n.board[c] = stone
        BY <1>3, <2>4, <3>1, <3>4 DEF Valid, Free, Boards
      <4> QED BY <4>1, <4>2
    <3>5. CASE c = d /\ Upto(c, k) # {}
      <4>1. Upto(c, k + 1) = Upto(c, k) \cup {k + 1}
        BY <1>2, <1>5, <3>5
      <4>2. n.board[c] = g.board[c]
        BY <1>3, <2>4, <3>5 DEF Valid, Free
      <4>3. \A j \in Upto(c, k) : j \in Nat /\ j <= k
        BY <1>2
      <4> HIDE DEF Upto
      <4>4. ASSUME NEW i \in Upto(c, k + 1), \A j \in Upto(c, k + 1) : i <= j
            PROVE  n.board[c] = Named(self, Owner(rows[i]))
        <5>1. i \in Upto(c, k)
          BY <3>5, <4>1, <4>3, <4>4
        <5> QED BY <3>2, <4>1, <4>2, <4>4, <5>1
      <4> QED BY <4>1, <4>4, <3>5
    <3> QED BY <3>3, <3>4, <3>5
  <2> QED BY <2>4, <2>5
<1> QED BY <1>4, <1>5

(* BOARD leaves on the board what its rows describe.                       *)
LEMMA RowsDescribed ==
  ASSUME NEW g, Consistent(g), g.board = EmptyBoard, NEW self \in Colors, NEW rows \in Rows
  PROVE  /\ Consistent(PlaceRows(g, self, rows))
         /\ Mirrors(PlaceRows(g, self, rows).board, self, Described(rows))
         /\ Described(rows) \in Sheets
<1> DEFINE n == Len(rows)
<1>1. n \in Nat /\ DOMAIN rows = 1 .. n
  BY DEF Rows
<1>2. PICK after :
        /\ after[0] = g
        /\ \A k \in 0 .. n - 1 : after[k + 1] = PlaceRow(after[k], self, rows[k + 1])
        /\ PlaceRows(g, self, rows) = after[n]
  <2> HIDE DEF n
  <2> QED BY <1>1, RowByRow
<1> DEFINE W == {k \in Nat : k <= n => Consistent(after[k]) /\ Placed(after[k].board, self, rows, k)}
<1>3. 0 \in W
  BY <1>2 DEF Placed, EmptyBoard
<1>4. ASSUME NEW k \in Nat, k \in W PROVE k + 1 \in W
  <2> SUFFICES ASSUME k + 1 <= n
               PROVE  Consistent(after[k + 1]) /\ Placed(after[k + 1].board, self, rows, k + 1)
    OBVIOUS
  <2>1. k <= n /\ k \in 0 .. n - 1 /\ k + 1 \in DOMAIN rows
    BY <1>1
  <2>2. Consistent(after[k]) /\ Placed(after[k].board, self, rows, k)
    BY <1>4, <2>1
  <2>3. after[k + 1] = PlaceRow(after[k], self, rows[k + 1])
    BY <1>2, <2>1
  <2> HIDE DEF n
  <2> QED BY <2>1, <2>2, <2>3, PlaceNext
<1>5. n \in W
  <2> HIDE DEF W
  <2> QED BY <1>1, <1>3, <1>4, Induction
<1> DEFINE board == PlaceRows(g, self, rows).board
<1>6. Consistent(PlaceRows(g, self, rows)) /\ Placed(board, self, rows, n)
  BY <1>1, <1>2, <1>5
<1>7. ASSUME NEW c \in Squares
      PROVE  board[c] = Named(self, Described(rows)[c])
             /\ Described(rows)[c] \in {Empty, "own", "opp"}
  <2> DEFINE naming == Naming(rows, c)
  <2>1. naming = naming \cap (1 .. n) /\ naming \in SUBSET (1 .. n)
    BY <1>1 DEF Naming
  <2>2. Described(rows)[c] = IF naming = {} THEN Empty ELSE Owner(rows[Min(naming)])
    BY DEF Described, Owner
  <2>3. /\ naming = {} => board[c] = Empty
        /\ \A i \in naming : (\A j \in naming : i <= j) => board[c] = Named(self, Owner(rows[i]))
    <3> HIDE DEF board, n
    <3> QED BY <1>6, <2>1 DEF Placed
  <2>4. CASE naming = {}
    BY <2>2, <2>3, <2>4, ColorsNamed
  <2>5. CASE naming # {}
    <3>1. Min(naming) \in naming /\ \A j \in naming : Min(naming) <= j
      BY <2>1, <2>5, <1>1, MinExists
    <3> HIDE DEF naming, board
    <3> QED BY <2>2, <2>3, <2>5, <3>1 DEF Owner
  <2> QED BY <2>4, <2>5
<1>8. Described(rows) = [c \in Squares |-> Described(rows)[c]]
  BY DEF Described
<1> HIDE DEF board, n
<1>9. Mirrors(board, self, Described(rows)) /\ Described(rows) \in Sheets
  BY <1>7, <1>8 DEF Mirrors, Sheets
<1> QED BY <1>6, <1>9 DEF board

(* handle_board: what the rows describe, and the brain's stone on top.     *)
LEMMA BoardPlays ==
  ASSUME NEW b, NEW sheet, Sane(b, sheet), NEW rows \in Rows, NEW e,
         Free(Described(rows)) # {}, NEW o \in HandleBoard(b, rows, e)
  PROVE  Plays(b, o, Described(rows))
<1> DEFINE self == IF b.self = Unknown THEN "X" ELSE b.self
           emptied == [b.game EXCEPT !.board = EmptyBoard, !.history = <<>>,
                                     !.stones = 0, !.hash = {}, !.turn = "X"]
           placed == PlaceRows(emptied, self, rows)
           filled == [b EXCEPT !.self = self, !.game = placed]
<1>1. self \in Colors /\ Brains(b) /\ DOMAIN b = BrainFields /\ Consistent(b.game)
  BY ColorsNamed DEF Sane, Brains, Colors
<1>2. CASE o = Outcome(b, Error)
  BY <1>1, <1>2 DEF Outcome, Refuses, Plays
<1>3. CASE o \in ComputeAndEmit(filled, e)
  <2> HIDE DEF self
  <2>1. Consistent(emptied) /\ emptied.board = EmptyBoard
    <3> DEFINE board == EmptyBoard
    <3>1. board \in Boards /\ Taken(board) = {} /\ HashOf(board) = {}
      BY EmptyMirrors DEF EmptyBoard, Taken, HashOf
    <3>2. /\ DOMAIN emptied = Fields /\ emptied.board = board /\ emptied.history = <<>>
          /\ emptied.stones = 0 /\ emptied.hash = {}
      <4> HIDE DEF board
      <4>1. LET n == [b.game EXCEPT !.board = board, !.history = <<>>,
                                    !.stones = 0, !.hash = {}, !.turn = "X"]
            IN  /\ DOMAIN n = Fields /\ n.board = board /\ n.history = <<>>
                /\ n.stones = 0 /\ n.hash = {}
        BY <1>1 DEF Consistent, Fields
      <4> QED BY <4>1 DEF board
    <3> HIDE DEF emptied, board
    <3>3. Cardinality(Taken(board)) = 0 /\ Len(<<>>) = 0
      BY <3>1, FS_EmptySet
    <3>4. <<>> \in Seq(Entries)
      OBVIOUS
    <3> QED BY <3>1, <3>2, <3>3, <3>4 DEF Consistent, board
  <2>2. /\ Consistent(placed) /\ Mirrors(placed.board, self, Described(rows))
        /\ Described(rows) \in Sheets
    <3> HIDE DEF emptied
    <3> QED BY <1>1, <2>1, RowsDescribed
  <2>3. DOMAIN filled = BrainFields /\ filled.self = self /\ filled.game = placed
    <3> HIDE DEF placed
    <3> QED BY <1>1, BrainSet
  <2> HIDE DEF filled, placed
  <2>4. Brains(filled) /\ filled.self \in Colors
        /\ Mirrors(filled.game.board, filled.self, Described(rows))
    BY <1>1, <2>2, <2>3 DEF Brains
  <2>5. Brains(o.brain) /\ Moves(o, Described(rows))
    BY <1>3, <2>2, <2>4, ComputeMoves
  <2> QED BY <2>5 DEF Plays
<1> QED
  BY <1>2, <1>3 DEF HandleBoard

(* apply_info leaves game and colour alone.                                *)
LEMMA InfoPlays ==
  ASSUME NEW b, NEW sheet, Sane(b, sheet), NEW key, NEW value, NEW o \in ApplyInfo(b, key, value)
  PROVE  /\ Plays(b, o, sheet) /\ o.out = Silence
         /\ Sane(o.brain, sheet) /\ o.brain.game = b.game
<1> DEFINE budget == CASE key = "timeout_turn" -> SetTurn(b.budget, value)
                       [] key = "timeout_match" -> SetMatch(b.budget, value)
                       [] key = "time_left" -> SetTimeLeft(b.budget, value)
                       [] OTHER -> b.budget
           n == [b EXCEPT !.budget = budget]
<1>1. o = Outcome(n, Silence)
  BY DEF ApplyInfo
<1>2. Brains(b) /\ DOMAIN b = BrainFields
  BY DEF Sane, Brains
<1>3. DOMAIN n = BrainFields /\ n.self = b.self /\ n.game = b.game
  <2> HIDE DEF budget
  <2> QED BY <1>2, BrainSet
<1> HIDE DEF n
<1>4. o.brain = n /\ o.out = Silence /\ Silence # Error /\ Silence.line # "move"
  BY <1>1 DEF Outcome, Silence, Error
<1>5. Sane(n, sheet)
  BY <1>2, <1>3 DEF Sane, Brains
<1> QED BY <1>3, <1>4, <1>5 DEF Sane, Plays, Complies

(* A line that leaves the brain as it is.                                  *)
LEMMA StillPlays ==
  ASSUME NEW b, NEW sheet, Sane(b, sheet), NEW o, o.brain = b, o.out.line # "move"
  PROVE  Plays(b, o, sheet)
BY DEF Sane, Plays, Complies, Refuses

-----------------------------------------------------------------------------
(* The manager judges the answer: the sheet stays a mirror of the board.   *)
LEMMA JudgeMirrors ==
  ASSUME BoardInv, result = "on", NEW asked, NEW e, NEW lag, NEW o, Plays(brain, o, asked),
         o.out # Error => asked \in Sheets, Judge(o, asked, e, lag)
  PROVE  BoardInv'
<1>1. brain' = o.brain /\ Brains(brain')
  BY DEF Judge, Plays
<1>2. CASE Refuses(brain, o)
  <2>1. ref' = ref /\ result' = result /\ o.out = Error
    BY <1>2 DEF Judge, Refuses, Error
  <2>2. brain'.game = brain.game /\ (brain.self # Unknown => brain'.self = brain.self)
    BY <1>1, <1>2 DEF Refuses
  <2>3. Mirrors(brain'.game.board, brain'.self, ref')
    <3>1. CASE brain.self = Unknown
      BY <2>1, <2>2, <3>1, EmptyMirrors DEF BoardInv
    <3>2. CASE brain.self # Unknown
      BY <2>1, <2>2, <3>2 DEF BoardInv
    <3> QED BY <3>1, <3>2
  <2> QED BY <1>1, <2>1, <2>2, <2>3 DEF BoardInv
<1>3. CASE Complies(o, asked)
  <2>1. ref' = asked /\ result' = result /\ asked \in Sheets
    BY <1>3 DEF Judge, Complies
  <2> QED BY <1>1, <1>3, <2>1 DEF BoardInv, Complies
<1>4. CASE Moves(o, asked)
  <2>1. o.out # Error /\ asked \in Sheets /\ o.out.cell \in Squares /\ o.brain.self # Unknown
    BY <1>4 DEF Moves, Error
  <2>2. CASE Valid(asked, o.out.cell)
    <3>1. ref' = [asked EXCEPT ![o.out.cell] = "own"] /\ result' # "forfeit"
      BY <1>4, <2>2 DEF Judge, Moves
    <3>2. ref' \in Sheets
      BY <2>1, <3>1 DEF Sheets
    <3> QED BY <1>1, <1>4, <2>1, <2>2, <3>1, <3>2 DEF BoardInv, Moves
  <2>3. CASE ~Valid(asked, o.out.cell)
    <3>1. ref' = asked
      BY <1>4, <2>3 DEF Judge, Moves
    <3> QED BY <1>1, <1>4, <2>1, <2>3, <3>1 DEF BoardInv, Moves
  <2> QED BY <2>2, <2>3
<1> QED BY <1>2, <1>3, <1>4 DEF Plays

(* An exchange of lines keeps the boards alike when every answer does.     *)
LEMMA ExchangeMirrors ==
  ASSUME BoardInv, NEW line, NEW asked, NEW times,
         \A e \in times : \A o \in Dispatch(brain, line, e) :
           Plays(brain, o, asked) /\ (o.out # Error => asked \in Sheets),
         Exchange(line, asked, times)
  PROVE  BoardInv'
<1>1. PICK e \in times, lag \in Lags : \E o \in Dispatch(brain, line, e) :
        Judge(o, asked, e, lag)
  BY DEF Exchange
<1>2. PICK o \in Dispatch(brain, line, e) : Judge(o, asked, e, lag)
  BY <1>1
<1>3. result = "on" /\ Plays(brain, o, asked) /\ (o.out # Error => asked \in Sheets)
  BY <1>2 DEF Exchange, NextLine
<1> QED BY <1>2, <1>3, JudgeMirrors

(* The invariant, as the handlers need it.                                 *)
LEMMA SaneNow == BoardInv => Sane(brain, ref)
BY DEF BoardInv, Sane

(* TURN, with a stone that may be refused.                                 *)
LEMMA TurnMirrors ==
  ASSUME BoardInv, NEW c \in Squares \cup {Outside}, Turn(c)
  PROVE  BoardInv'
<1> DEFINE line == [verb |-> "TURN", arg |-> c]
           put == [ref EXCEPT ![c] = "opp"]
<1>1. c # Garbage /\ ref \in Sheets /\ Sane(brain, ref)
  BY BrainAssumption, MatchAssumption, SaneNow DEF BoardInv
<1>2. \A e : Dispatch(brain, line, e) = HandleTurn(brain, c, e)
  BY <1>1, DispatchVerb
<1> HIDE DEF line
<1>3. CASE Valid(ref, c)
  <2>1. ~Over(put) /\ Exchange(line, put, SearchTimes)
    BY <1>3 DEF Turn, Send, line
  <2>2. Free(put) # {}
    BY <2>1 DEF Over
  <2>3. put \in Sheets
    BY <1>1 DEF Sheets
  <2>4. ASSUME NEW e \in SearchTimes, NEW o \in Dispatch(brain, line, e)
        PROVE  Plays(brain, o, put)
    <3>1. IF Valid(ref, c) THEN put = [ref EXCEPT ![c] = "opp"] /\ Free(put) # {} ELSE put = ref
      BY <1>3, <2>2
    <3> HIDE DEF put
    <3> QED BY <1>1, <1>2, <2>4, <3>1, TurnPlays
  <2> HIDE DEF put
  <2> QED BY <2>1, <2>3, <2>4, ExchangeMirrors
<1>4. CASE ~Valid(ref, c)
  <2>1. Exchange(line, ref, SearchTimes)
    BY <1>4 DEF Turn, Send, line
  <2>2. ASSUME NEW e \in SearchTimes, NEW o \in Dispatch(brain, line, e)
        PROVE  Plays(brain, o, ref)
    BY <1>1, <1>2, <1>4, <2>2, TurnPlays
  <2> QED BY <1>1, <2>1, <2>2, ExchangeMirrors
<1> QED BY <1>3, <1>4

(* TAKEBACK, of any stone or of none.                                      *)
LEMMA TakebackMirrors ==
  ASSUME BoardInv, NEW c \in Squares \cup {Outside}, Takeback(c)
  PROVE  BoardInv'
<1> DEFINE line == [verb |-> "TAKEBACK", arg |-> c]
           asked == IF c \in Squares THEN [ref EXCEPT ![c] = Empty] ELSE ref
<1>1. c # Garbage /\ ref \in Sheets /\ Sane(brain, ref)
  BY BrainAssumption, MatchAssumption, SaneNow DEF BoardInv
<1>2. \A e : Dispatch(brain, line, e) = HandleTakeback(brain, c)
  BY <1>1, DispatchVerb
<1>3. Exchange(line, asked, SearchTimes)
  BY DEF Takeback, Send
<1>4. asked \in Sheets
  BY <1>1 DEF Sheets
<1> HIDE DEF line
<1>5. ASSUME NEW e \in SearchTimes, NEW o \in Dispatch(brain, line, e)
      PROVE  Plays(brain, o, asked)
  BY <1>1, <1>2, <1>5, TakebackPlays
<1> HIDE DEF asked
<1> QED BY <1>3, <1>4, <1>5, ExchangeMirrors

(* BOARD.                                                                  *)
LEMMA BoardMirrors ==
  ASSUME BoardInv, NEW rows \in Positions, Board(rows)
  PROVE  BoardInv'
<1> DEFINE line == [verb |-> "BOARD", arg |-> rows]
<1>1. rows \in Rows /\ Sane(brain, ref)
  BY MatchAssumption, SaneNow DEF Rows
<1>2. \A e : Dispatch(brain, line, e) = HandleBoard(brain, rows, e)
  BY DispatchBare
<1>3. Exchange(line, Described(rows), SearchTimes) /\ Free(Described(rows)) # {}
  BY DEF Board, Send, Over
<1> HIDE DEF line
<1>4. Described(rows) \in Sheets
  BY DEF Described, Sheets
<1>5. ASSUME NEW e \in SearchTimes, NEW o \in Dispatch(brain, line, e)
      PROVE  Plays(brain, o, Described(rows))
  BY <1>1, <1>2, <1>3, <1>5, BoardPlays
<1> QED BY <1>3, <1>4, <1>5, ExchangeMirrors

(* BEGIN.                                                                  *)
LEMMA BeginMirrors ==
  ASSUME BoardInv, Begin
  PROVE  BoardInv'
<1>1. ref = EmptyBoard /\ Sane(brain, EmptyBoard) /\ Exchange([verb |-> "BEGIN"], EmptyBoard, {0})
  BY SaneNow DEF Begin
<1>2. ASSUME NEW e \in {0}, NEW o \in Dispatch(brain, [verb |-> "BEGIN"], e)
      PROVE  Plays(brain, o, EmptyBoard)
  BY <1>1, <1>2, DispatchBare, BeginPlays
<1> QED BY <1>1, <1>2, EmptyMirrors, ExchangeMirrors

(* INFO, with the keys the brain knows.                                    *)
LEMMA InfoMirrors ==
  ASSUME BoardInv
  PROVE  /\ \A t \in TurnLimits : InfoTurn(t) => BoardInv'
         /\ \A t \in MatchLimits : InfoMatch(t) => BoardInv'
         /\ clock \in Nat /\ InfoClock => BoardInv'
<1>1. Sane(brain, ref) /\ ref \in Sheets
  BY SaneNow DEF BoardInv
<1>2. TurnLimits \subseteq Nat /\ MatchLimits \subseteq Nat
  BY MatchAssumption
<1>3. ASSUME NEW t \in TurnLimits, InfoTurn(t) PROVE BoardInv'
  <2> DEFINE line == [verb |-> "INFO", arg |-> <<"timeout_turn", t>>]
  <2>1. Exchange(line, ref, SearchTimes)
    BY <1>3 DEF InfoTurn, Send
  <2>2. \A e : Dispatch(brain, line, e) = ApplyInfo(brain, "timeout_turn", t)
    BY <1>2, DispatchInfo
  <2> HIDE DEF line
  <2>3. ASSUME NEW e \in SearchTimes, NEW o \in Dispatch(brain, line, e) PROVE Plays(brain, o, ref)
    BY <1>1, <2>2, <2>3, InfoPlays
  <2> QED BY <1>1, <2>1, <2>3, ExchangeMirrors
<1>4. ASSUME NEW key, NEW value, NEW o \in ApplyInfo(brain, key, value),
             brain' = o.brain, ref' = ref, result = "on", result' = "on"
      PROVE  BoardInv'
  <2>1. Sane(brain', ref')
    BY <1>1, <1>4, InfoPlays
  <2> QED BY <2>1, <1>4 DEF Sane, BoardInv
<1>5. ASSUME NEW t \in MatchLimits, InfoMatch(t) PROVE BoardInv'
  <2>1. PICK o \in Dispatch(brain, [verb |-> "INFO", arg |-> <<"timeout_match", t>>], 0) :
          brain' = o.brain
    BY <1>5 DEF InfoMatch
  <2>2. o \in ApplyInfo(brain, "timeout_match", t)
    BY <1>2, <2>1, DispatchInfo
  <2>3. ref' = ref /\ result' = "on" /\ result = "on"
    BY <1>5 DEF InfoMatch, NextLine
  <2> QED BY <2>1, <2>2, <2>3, <1>4
<1>6. ASSUME clock \in Nat, InfoClock PROVE BoardInv'
  <2>1. PICK o \in Dispatch(brain, [verb |-> "INFO", arg |-> <<"time_left", clock>>], 0) :
          brain' = o.brain
    BY <1>6 DEF InfoClock
  <2>2. o \in ApplyInfo(brain, "time_left", clock)
    BY <1>6, <2>1, DispatchInfo
  <2>3. ref' = ref /\ result' = "on" /\ result = "on"
    BY <1>6 DEF InfoClock, NextLine
  <2> QED BY <2>1, <2>2, <2>3, <1>4
<1> QED BY <1>3, <1>5, <1>6

(* init_game                                                               *)
LEMMA NewGameConsistent ==
  LET g == NewGame(BrainConfig)
  IN  Consistent(g) /\ g.board = EmptyBoard
<1> DEFINE g == NewGame(BrainConfig)
           board == EmptyBoard
<1>1. DOMAIN g = Fields /\ g.board = board /\ g.history = <<>> /\ g.stones = 0 /\ g.hash = {}
  <2> HIDE DEF board
  <2> QED BY DEF NewGame, Fields, board
<1>2. board \in Boards /\ Taken(board) = {} /\ HashOf(board) = {}
  BY EmptyMirrors DEF EmptyBoard, Taken, HashOf
<1>3. Cardinality(Taken(board)) = 0 /\ Len(<<>>) = 0 /\ <<>> \in Seq(Entries)
  BY <1>2, FS_EmptySet
<1> HIDE DEF g, board
<1>4. Consistent(g) /\ g.board = board
  BY <1>1, <1>2, <1>3 DEF Consistent
<1> QED BY <1>4 DEF g, board

(* reset_game: a new game, and no colour.                                  *)
LEMMA ResetSane ==
  ASSUME NEW b, DOMAIN b = BrainFields
  PROVE  Sane(ResetGame(b), EmptyBoard)
<1> DEFINE g == NewGame(BrainConfig)
           n == [b EXCEPT !.game = g, !.self = Unknown]
<1>1. Consistent(g) /\ g.board = EmptyBoard
  BY NewGameConsistent
<1>2. DOMAIN n = BrainFields /\ n.self = Unknown /\ n.game = g
  <2> HIDE DEF g
  <2> QED BY BrainSet
<1>3. n = ResetGame(b)
  BY DEF ResetGame
<1>4. Mirrors(EmptyBoard, Unknown, EmptyBoard)
  BY EmptyMirrors DEF EmptyBoard
<1> HIDE DEF n, g
<1> QED BY <1>1, <1>2, <1>3, <1>4, EmptyMirrors DEF Sane, Brains

(* START.                                                                  *)
LEMMA StartMirrors ==
  ASSUME BoardInv, Start
  PROVE  BoardInv'
<1> DEFINE reset == ResetGame(brain)
           fresh == [reset EXCEPT !.budget = InitBudget, !.started = TRUE]
<1>1. brain' = fresh
  <2>1. PICK o \in Dispatch(brain, [verb |-> "START", arg |-> 15], 0) : brain' = o.brain
    BY DEF Start
  <2>2. o \in HandleStart(brain, 15)
    <3>1. 15 # Garbage
      BY BrainAssumption
    <3> QED BY <2>1, <3>1, DispatchVerb
  <2>3. o = Outcome(fresh, Ok)
    BY <2>2 DEF HandleStart
  <2> HIDE DEF fresh
  <2> QED BY <2>1, <2>3 DEF Outcome
<1>2. Sane(reset, EmptyBoard)
  BY ResetSane DEF BoardInv, Brains
<1>3. /\ DOMAIN fresh = DOMAIN reset /\ DOMAIN reset = BrainFields
      /\ fresh.self = reset.self /\ fresh.game = reset.game
  <2>1. DOMAIN reset = BrainFields
    BY <1>2 DEF Sane, Brains
  <2> DEFINE v == InitBudget
  <2> HIDE DEF reset, v
  <2>2. LET n == [reset EXCEPT !.budget = v, !.started = TRUE]
        IN  DOMAIN n = BrainFields /\ n.self = reset.self /\ n.game = reset.game
    BY <2>1 DEF BrainFields
  <2> QED BY <2>1, <2>2 DEF v
<1>4. ref' = EmptyBoard /\ result' = "on"
  BY DEF Start, NextLine
<1> HIDE DEF fresh, reset
<1> QED BY <1>1, <1>2, <1>3, <1>4 DEF Sane, Brains, BoardInv

(* RESTART.                                                                *)
LEMMA RestartMirrors ==
  ASSUME BoardInv, Restart
  PROVE  BoardInv'
<1>1. brain' = ResetGame(brain)
  <2>1. PICK o \in Dispatch(brain, [verb |-> "RESTART"], 0) : brain' = o.brain
    BY DEF Restart
  <2>2. o \in HandleRestart(brain) /\ brain.started
    BY <2>1, DispatchBare DEF Restart
  <2>3. o = Outcome(ResetGame(brain), Ok)
    BY <2>2 DEF HandleRestart
  <2> QED BY <2>1, <2>3 DEF Outcome
<1>2. Sane(brain', EmptyBoard)
  BY <1>1, ResetSane DEF BoardInv, Brains
<1>3. ref' = EmptyBoard /\ result' = "on"
  BY DEF Restart, NextLine
<1> QED BY <1>2, <1>3 DEF Sane, BoardInv

(* The lines that change nothing.                                          *)
LEMMA NoiseMirrors ==
  ASSUME BoardInv, NEW line \in Noise, Exchange(line, ref, {0})
  PROVE  BoardInv'
<1>1. Sane(brain, ref) /\ ref \in Sheets
  BY SaneNow DEF BoardInv
<1>2. ASSUME NEW e \in {0}, NEW o \in Dispatch(brain, line, e)
      PROVE  Plays(brain, o, ref)
  BY <1>1, <1>2, NoiseIsIdle, StillPlays, InfoPlays
<1> QED BY <1>1, <1>2, ExchangeMirrors

(* Every line of a match keeps the boards alike.                           *)
LEMMA StepMirrors ==
  ASSUME IInv, BoardInv, [Next]_vars
  PROVE  BoardInv'
<1>1. CASE Next
  <2>1. CASE End
    BY <2>1 DEF End, BoardInv
  <2>2. clock \in Nat
    BY DEF IInv
  <2> QED BY <1>1, <2>1, <2>2, StartMirrors, RestartMirrors, BeginMirrors, InfoMirrors,
             TurnMirrors, TakebackMirrors, BoardMirrors, NoiseMirrors DEF Next
<1>2. CASE UNCHANGED vars
  BY <1>2 DEF vars, BoardInv
<1> QED BY <1>1, <1>2

(* Brain and manager begin with empty boards.                              *)
LEMMA InitMirrors == Init => BoardInv
<1> SUFFICES ASSUME Init PROVE BoardInv
  OBVIOUS
<1>1. brain = InitBrain /\ ref = EmptyBoard /\ result = "on"
  BY DEF Init
<1> DEFINE g == NewGame(BrainConfig)
<1>2. DOMAIN InitBrain = BrainFields /\ InitBrain.game = g /\ InitBrain.self = Unknown
  <2> HIDE DEF g
  <2> QED BY DEF InitBrain, BrainFields, g
<1>3. Consistent(g) /\ g.board = EmptyBoard
  BY NewGameConsistent
<1>4. Mirrors(EmptyBoard, Unknown, EmptyBoard) /\ EmptyBoard \in Sheets
  BY EmptyMirrors DEF EmptyBoard
<1> HIDE DEF g
<1> QED BY <1>1, <1>2, <1>3, <1>4 DEF BoardInv, Brains

(* Whatever lines a match consists of, the two boards are one position.    *)
THEOREM BoardsInStep == Spec => []BoardInv
<1> QED BY InitMirrors, StepMirrors, ClocksInStep, PTL DEF Spec

(* The brain's board and the manager's hold the same stones as long as a   *)
(* match is on, for any board, after any takebacks, BOARDs, restarts and   *)
(* refused lines.                                                          *)
THEOREM BrainMirrorsTheManager == Spec => []MirrorsTheManager
<1>1. BoardInv => MirrorsTheManager
  <2>1. \A stone : Named(brain.self, stone) = Label(stone)
    BY DEF Named, Label
  <2> QED BY <2>1 DEF BoardInv, Mirrors, MirrorsTheManager
<1> QED BY <1>1, BoardsInStep, PTL

(* make_move, TAKEBACK and BOARD, each with code of its own, keep the      *)
(* length of the history, the stone count and the hash in agreement with   *)
(* the board.                                                              *)
THEOREM CountsAlwaysAgree == Spec => []CountsAgree
<1>1. BoardInv => CountsAgree
  BY DEF BoardInv, Brains, Consistent, CountsAgree
<1> QED BY <1>1, BoardsInStep, PTL

(* The only illegal move the brain can answer with is the centre, when the *)
(* one stone on the board is there and the brain takes it for O's.         *)
THEOREM ForfeitsAreAlwaysLone == Spec => []ForfeitsAreLone
<1>1. BoardInv => ForfeitsAreLone
  <2> SUFFICES ASSUME BoardInv, result = "forfeit"
               PROVE  Taken(ref) = {Centre} /\ Label(ref[Centre]) = "O"
    BY DEF ForfeitsAreLone
  <2>1. Taken(ref) = {Centre} /\ brain.game.board[Centre] = "O" /\ Centre \in Squares
    BY GameAssumption DEF BoardInv
  <2>2. brain.game.board[Centre] = Named(brain.self, ref[Centre])
    BY <2>1 DEF BoardInv, Mirrors
  <2> QED BY <2>1, <2>2 DEF Named, Label
<1> QED BY <1>1, BoardsInStep, PTL
=============================================================================
