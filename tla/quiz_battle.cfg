SPECIFICATION Spec
CONSTANTS
  u1 = u1
  u2 = u2
  r1 = r1
  r2 = r2
  r3 = r3
  None = None
  Users = {u1, u2}
  Scores <- ThreeScores
  Requests = {r1, r2, r3}
SYMMETRY Symmetric
INVARIANTS
  ResultFollowsAnswers
  OnlyWinnerAwarded
  CrossingAnswersComplete
PROPERTIES
  WinnerNeverChanges
CHECK_DEADLOCK FALSE
