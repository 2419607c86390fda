SPECIFICATION MCFairSpec
CONSTANTS
  MaxSleeps = 1
  StackMax = 3
  ArenaBytes = 8
  LINK_MISS_MAX = 2
  StateBytes <- MCStateBytes
  ArgBytes <- MCArgBytes
  LeftUp <- MCLeftUp
  FileProfiles = {0, 1}
INVARIANTS
    OfflineWhileLost
    DialogIsHeld
    WokenIsRejoined
PROPERTIES
    StageSettles
CHECK_DEADLOCK FALSE
