SPECIFICATION Spec
CONSTANTS
  Squares <- Row
  Centre <- Middle
  Book <- NextDoor
  Five <- ExactlyTwo
  Window = 1
  None = None
  Garbage = Garbage
  Outside = Outside
  Unreadable = Unreadable
  Evals <- Counts
  OptionLists <- Starts
  Bodies <- Requests
  Probes = {"ready"}
  MaxSignals = 1
INVARIANTS AnswersAreRequests DiesOnlyStopping
PROPERTIES AnswersWithOneMove AgentTellsTheTruth EveryRequestAnswered ShutdownCompletes
CHECK_DEADLOCK FALSE
