SPECIFICATION Spec
CONSTANTS
  BoardSize = 7
  WinLength = 5
  Squares <- Crossing
  Radius = 1
  VctDepth = 3
INVARIANTS WinnersAgree OpenFourWins
PROPERTY FiveIsNotOverlooked
CHECK_DEADLOCK FALSE
