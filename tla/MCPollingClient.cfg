SPECIFICATION FairSpec
CONSTANTS
  Slots = {c0, c1, c2}
  PollSlot = c0
  PageOfHost = FALSE
  MaxVersion = 3
  MaxFailures = 1
INVARIANT StopsOnlyForCause
PROPERTY CatchesUp
CHECK_DEADLOCK FALSE
