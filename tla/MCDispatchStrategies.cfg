SPECIFICATION FairSpec
CONSTANTS
  TypeMasks <- MCTypeMasks
  Kinds = {"urgent", "ordinary"}
  Limits = {2}
  Periods = {0, 1}
  MaxEvents <- MCMaxEvents
  MaxCalls = 2
  MaxTasks = 1
CHECK_DEADLOCK FALSE
INVARIANTS
  TypeOK
  TimerSetOnce
  ScheduledIsOnItsWay
  ActiveTimerTicks
  CountCoversEvents
PROPERTIES
  EventsAreTried
  ReachedCountAsks
