SPECIFICATION Spec
CONSTANTS
  Users = {u1, u2, u3}
  NoUser = NoUser
  BoardSize = 2
  WinLength = 2
INVARIANT VersionIdentifiesRow
INVARIANT MovesDecidedOnCurrentBoard
INVARIANT SettledExactlyOnce
INVARIANT DeclineIsFinal
PROPERTY ImplementsRoomLifecycle
CHECK_DEADLOCK FALSE
