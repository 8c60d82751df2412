SPECIFICATION RatingSpec
CONSTANTS
  Users = {u1, u2}
  NoUser = NoUser
  Games = {g1, g2, a1, a2}
  AiGames = {a1, a2}
  Sessions = {s1}
  NoSession = NoSession
  Owner <- OneOwner
  Initial = 10
  AiRating = 10
  Gap = 1
  Provisional = 1
SYMMETRY Symmetry
INVARIANT EveryRatingCounts
INVARIANT RatingIsLastAfter
CHECK_DEADLOCK FALSE
