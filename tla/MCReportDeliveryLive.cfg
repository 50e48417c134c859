SPECIFICATION FairSpec
CONSTANTS
  Events <- TwoEvents
  GroupOf <- MCGroupOf
  SessionOf <- MCSessionOf
  BatchSize = 2
  NGroups = 2
  Tracking = {2}
  Unreadable = {}
  Hosts <- TwoHosts
  NamelessHosts = TRUE
  DeletionMayFail = TRUE
  MaxCalls = 1
  MaxShutdowns = 1
  MaxRestarts = 0
PROPERTY RoundEnds
