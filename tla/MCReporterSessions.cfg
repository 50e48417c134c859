SPECIFICATION Spec
CONSTANTS
  StorageMayFail = TRUE
  MaxCalls = 2
  MaxPast = 1
  MaxPurges = 2
  MaxDeaths = 1
CHECK_DEADLOCK FALSE
INVARIANTS
  TypeOK
  EventsHaveSession
  SequenceNumbersDistinct
  OneLiveSession
  EndedSessionsHaveAlive
  InitReportedOnce
CONSTRAINT OneCallAtATime
