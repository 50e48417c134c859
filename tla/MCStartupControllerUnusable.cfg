SPECIFICATION FairSpec
CONSTANTS
  NHosts = 2
  Unusable = {2}
  Multiplier = 1
  MaxInterval = 2
  IntBits = 4
  MaxUpdates = 1
  MaxExpiries = 0
  MaxDeaths = 0
CHECK_DEADLOCK FALSE
PROPERTY UpdateEnds
