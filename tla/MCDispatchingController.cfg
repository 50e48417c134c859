SPECIFICATION FairSpec
CONSTANTS
  Keys = {k1, k2}
  Callers = {c1, c2}
  TwoEnded = {k1, k2}
  None = none
  MaxCalls = 3
INVARIANTS TypeOK OneChain RequestKept WaitsOnce
PROPERTIES ChainEnds ChainServesForced
