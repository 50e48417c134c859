SPECIFICATION FairSpec
CONSTANTS
  NHosts = 2
  Unusable = {}
  Multiplier = 2
  MaxInterval = 5
  IntBits = 4
  MaxUpdates = 4
  MaxExpiries = 2
  MaxDeaths = 1
CHECK_DEADLOCK FALSE
INVARIANTS
  TypeOK
  OneRequestor
  OneOutcome
  DatedIsStored
PROPERTIES
  FailureBacksOff
  UpdateEnds
