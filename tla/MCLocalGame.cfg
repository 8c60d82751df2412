SPECIFICATION Spec
CONSTANTS
  Squares <- Row
  Centre <- Middle
  Book <- NextDoor
  Five <- ExactlyThree
  Window = 2
  None = None
  CommandLines <- Starts
  Times = {1, 2}
  Evals = {0, 2}
  MaxUndos = 2
INVARIANTS RecordAgrees Bookkeeping ReplayShowsTheGame
PROPERTIES UndoHandsTurnBack ImplementsBoardGame EngineAnswers
CHECK_DEADLOCK FALSE
