SPECIFICATION FairSpec
CONSTANTS
  provisioner = provisioner
  admin = admin
  pool = pool
  None = None
  Procs = {provisioner, admin}
  Provisioner = provisioner
  Pools <- OnePool
  Members = {1, 2}
  PoolOf <- InPool
  max_active_instances <- One
  TASK_DURATION = 2
  TARGET_LATENCY = 1
  Quotas = TRUE
  static_workers = 0
  Instances = {1, 2}
  Requests = {1, 2}
  MaxEvents = 1
INVARIANTS TypeOK  CredentialsCurrent  RunningServed
 
CHECK_DEADLOCK FALSE
