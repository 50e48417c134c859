SPECIFICATION Spec
CONSTANTS
  Events <- TwoEvents
  GroupOf <- MCGroupOf
  SessionOf <- MCSessionOf
  BatchSize = 2
  NGroups = 2
  Tracking = {2}
  Unreadable = {}
  Hosts <- OneHost
  NamelessHosts = TRUE
  DeletionMayFail = FALSE
  MaxCalls = 2
  MaxShutdowns = 1
  MaxRestarts = 1
INVARIANTS TypeOK InProgressHasRequest WorkingMakesProgress LeftoversAreCancelled
PROPERTY OutboxSpec
