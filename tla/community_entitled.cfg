SPECIFICATION Spec
CONSTANTS
  u1 = u1
  u2 = u2
  r1 = r1
  r2 = r2
  r3 = r3
  None = None
  Users = {u1, u2}
  Role <- SmallRole
  Policies = {"open"}
  Requests = {r1, r2}
  MaxProducts = 2
SYMMETRY RequestSymmetry
INVARIANTS
  EntitledUsersEnter
CHECK_DEADLOCK FALSE
