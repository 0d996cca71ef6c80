SPECIFICATION Spec
CONSTANTS
  p1 = p1
  p2 = p2
  s1 = s1
  s2 = s2
  archive = archive
  hello = hello
  hello2 = hello2
  other = other
  Procs = {p1, p2}
  Suites = {s1, s2}
  Archive = archive
  Artifacts = {hello, hello2, other}
  NameOf <- Names
  Files <- Contents
  Workspaces <- Some
  MaxClock = 4
SYMMETRY TwoProcs
INVARIANTS TypeOK PoolHistory PoolServed IndexChain StaleOrListed
PROPERTY SnapshotStable
CHECK_DEADLOCK FALSE
