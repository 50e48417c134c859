SPECIFICATION Spec
CONSTANTS
  Events <- MCEvents
  GroupOf <- MCGroupOf
  SessionOf <- MCSessionOf
  BatchSize = 3
  NGroups = 2
  Tracking = {}
  Unreadable = {3}
  Hosts <- OneHost
  NamelessHosts = FALSE
  DeletionMayFail = FALSE
  MaxCalls = 1
  MaxShutdowns = 1
  MaxRestarts = 0
INVARIANT PurgesTheFailedModel
