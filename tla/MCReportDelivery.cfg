SPECIFICATION Spec
CONSTANTS
  Events <- MCEvents
  GroupOf <- MCGroupOf
  SessionOf <- MCSessionOf
  BatchSize = 2
  NGroups = 2
  Tracking = {}
  Unreadable = {3}
  Hosts <- TwoHosts
  NamelessHosts = TRUE
  DeletionMayFail = TRUE
  MaxCalls = 2
  MaxShutdowns = 1
  MaxRestarts = 1
INVARIANTS NoLoss FreshIdentifier WireHoldsStored OneRound
