SPECIFICATION FairSpec
CONSTANTS
  Steps = 8
  Plan <- NestedPlan
  k1 = k1
  k2 = k2
  Workers = {k1}
  MAX_AUTOMATIC_RETRIES = 1
  Outcomes = {"success", "failure"}
  UserOps = {"abort"}
  OrchestratorMayFail = FALSE
  MaxId = 11
INVARIANT NoStuckChild
PROPERTY WorkflowTerminates
CHECK_DEADLOCK FALSE
