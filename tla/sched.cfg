SPECIFICATION FairSpec
CONSTANTS
  p1 = p1
  p2 = p2
  k1 = k1
  k2 = k2
  r1 = r1
  r2 = r2
  None = None
  Procs = {p1, p2}
  Workers = {k1,k2}
  Requests = {r1, r2}
  CanRun <- CanRunSome
  MayBreak = {r1}
  MaxFailures = 1
INVARIANT TypeOK
PROPERTY AssignedOnce PendingGetsWorker
CHECK_DEADLOCK FALSE
