SPECIFICATION FairSpec
CONSTANTS
  MaxClicks = 3
  MaxFailures = 1
INVARIANT OneCurrentGame
INVARIANT SavedResultsStand
INVARIANT CountedOnce
PROPERTY SavesSettle
CHECK_DEADLOCK FALSE
