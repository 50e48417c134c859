SPECIFICATION Spec
CONSTANTS
  StorageMayFail = FALSE
  MaxCalls = 2
  MaxPast = 1
  MaxPurges = 0
  MaxDeaths = 1
CHECK_DEADLOCK FALSE
INVARIANT AliveAtMostOnce
