SPECIFICATION Spec
CONSTANTS
  r1 = r1
  r2 = r2
  s1 = s1
  s2 = s2
  s3 = s3
  Revisions <- Chain
  Runners = {r1, r2}
  Goals <- SomeGoals
  Fresh <- EmptyOrPrisma
  Seeds = {s1, s2, s3}
  Creatable <- Created
  Deletable <- Deleted
  MaxPlatformOps = 2
SYMMETRY RunSymmetry
INVARIANTS
  VersionTellsTables
  OnlyLeftTypesBlockUpgrades
  HeadServesModels
  SeedsNeverDuplicate
  QuietSeedsSucceed
PROPERTIES
  QuietSeedsRestore
CHECK_DEADLOCK FALSE
