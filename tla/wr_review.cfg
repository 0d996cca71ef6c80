SPECIFICATION Spec
CONSTANTS
  Steps = 3
  Plan <- ReviewPlan
  k1 = k1
  k2 = k2
  Workers = {k1}
  MAX_AUTOMATIC_RETRIES = 1
  Outcomes = {"success", "failure"}
  UserOps = {"abort", "retry", "review"}
  OrchestratorMayFail = FALSE
  MaxId = 6
INVARIANTS NoMissedFinish PendingDepsDone 
PROPERTY SupersededFrozen
CHECK_DEADLOCK FALSE
