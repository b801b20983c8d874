SPECIFICATION Spec
CONSTANTS
  u1 = u1
  u2 = u2
  r1 = r1
  r2 = r2
  r3 = r3
  None = None
  Users = {u1, u2}
  Role <- SmallRole
  Policies = {"moderators"}
  Requests = {r1, r2, r3}
  MaxProducts = 1
SYMMETRY RequestSymmetry
INVARIANTS
  SerialCounts
PROPERTIES
  ModerationSticks
CHECK_DEADLOCK FALSE
