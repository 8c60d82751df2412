SPECIFICATION Spec
CONSTANTS
  Squares <- Row
  Centre <- Middle
  Book <- NextDoor
  Five <- ExactlyThree
  Window = 1
  None = None
  Garbage = Garbage
  Outside = Outside
  DefaultTurn = 3
  DefaultMatch = 6
  SafetyMargin = 2
  LeastBudget = 1
  Positions <- Bodies
  TurnLimits = {0, 3}
  MatchLimits = {5}
  MaxLines = 6
  Lags = {0, 2}
INVARIANTS MirrorsTheManager CountsAgree ForfeitsAreLone
PROPERTY ClockHolds
CHECK_DEADLOCK FALSE
