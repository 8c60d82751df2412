SPECIFICATION Spec
CONSTANTS
  Slots = {c0, c1}
  PollSlot = c0
  PageOfHost = TRUE
  MaxVersion = 2
  MaxFailures = 0
INVARIANT EightHoursInProgress
CHECK_DEADLOCK FALSE
