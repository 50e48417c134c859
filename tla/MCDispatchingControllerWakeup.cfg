SPECIFICATION FairSpec
CONSTANTS
  Keys = {k1}
  Callers = {c1}
  TwoEnded = {}
  None = none
  MaxCalls = 2
PROPERTY ForcedIsPerformed
