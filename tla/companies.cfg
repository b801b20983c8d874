SPECIFICATION Spec
CONSTANTS
  u1 = u1
  u2 = u2
  j1 = j1
  j2 = j2
  j3 = j3
  None = None
  Blank = Blank
  Short = Short
  Users = {u1, u2}
  Files <- SmallFiles
  Jobs = {j1, j2, j3}
SYMMETRY JobSymmetry
INVARIANTS
  RowsAccounted
  SerialJobsSucceed
  AcceptedAreMembers
CHECK_DEADLOCK FALSE
