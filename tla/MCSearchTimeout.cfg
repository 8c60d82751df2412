SPECIFICATION Spec
CONSTANTS
  Squares <- Board3
  Center <- Middle
  FiveThrough <- RuleThrough
  Near <- Around
  Priority <- MiddleFirst
  Book <- Diagonal
  Patterns <- FixedPatterns
  Evaluate <- NextToLast
  MaxDepth = 4
  MaxUndos = 0
  Win = 100
  Margin = 10
  Hurry <- Always
INVARIANT WinIsForced
CHECK_DEADLOCK FALSE
