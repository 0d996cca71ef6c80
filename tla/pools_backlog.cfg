SPECIFICATION FairSpec
CONSTANTS
  provisioner = provisioner
  admin = admin
  pool = pool
  None = None
  Procs = {provisioner, admin}
  Provisioner = provisioner
  Pools <- OnePool
  Members = {1, 2}
  PoolOf <- InPool
  max_active_instances <- Two
  TASK_DURATION = 2
  TARGET_LATENCY = 1
  Quotas = FALSE
  static_workers = 0
  Instances = {1, 2}
  Requests = {1, 2}
  MaxEvents = 0
PROPERTY BacklogServed
CHECK_DEADLOCK FALSE
