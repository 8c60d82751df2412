SPECIFICATION FairChatSpec
CONSTANTS
  Pages = {host, guest}
  Senders = {host, guest}
  MaxMessages = 3
  MaxInserting = 2
  MaxChatFailures = 1
INVARIANT ShownOnce
INVARIANT OnlyOvertakenAreMissed
PROPERTY PagesCatchUp
CHECK_DEADLOCK FALSE
