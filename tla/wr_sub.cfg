SPECIFICATION Spec
CONSTANTS
  Steps = 4
  Plan <- SubPipelinePlan
  k1 = k1
  k2 = k2
  Workers = {k1}
  MAX_AUTOMATIC_RETRIES = 1
  Outcomes = {"success", "failure", "error"}
  UserOps = {"abort", "retry"}
  OrchestratorMayFail = TRUE
  MaxId = 7
INVARIANTS TypeOK   HistoryIsAChain
CHECK_DEADLOCK FALSE
