SPECIFICATION FairSpec
CONSTANTS
  w1 = w1
  w2 = w2
  r1 = r1
  r2 = r2
  c1 = c1
  c2 = c2
  None = None
  Workers = {w1}
  Requests = {r1, r2}
  Connections = {c1, c2}
  MaxFaults = 1
INVARIANT TypeOK
PROPERTY AttemptsHold 
CHECK_DEADLOCK FALSE
