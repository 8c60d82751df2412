SPECIFICATION Spec
CONSTANTS
  Squares <- Board3
  Center <- Middle
  FiveThrough <- RuleThrough
  Near <- Around
  Priority <- MiddleFirst
  Book <- Diagonal
  Patterns <- FixedPatterns
  Evaluate <- NextToLast
  MaxDepth = 4
  MaxUndos = 1
  Win = 100
  Margin = 10
  Hurry <- NearTheEnd
INVARIANTS
  WinIsForcedUnlessMisled
PROPERTIES
  TableIsSound
  WinsAreFound
  NoBlunder
CHECK_DEADLOCK FALSE
