SPECIFICATION FairSpec
CONSTANTS
  w1 = w1
  w2 = w2
  s1 = s1
  s2 = s2
  s3 = s3
  b1 = b1
  None = None
  Workers = {w1, w2}
  Sources = {s1, s2, s3}
  Unlisted = {s3}
  Badges = {b1}
  XP <- SmallXP
  MinXp <- SmallMinXp
  Thresholds <- SmallThresholds
  Multipliers <- SmallMultipliers
  MaxFaults = 1
INVARIANTS
  XpIsEarned
  SerialAwardsAddUp
  OneRewardPerBadge
  RacesLoseNoAward
PROPERTIES
  ChainEnds
CHECK_DEADLOCK FALSE
