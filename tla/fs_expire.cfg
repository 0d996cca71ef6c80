SPECIFICATION Spec
CONSTANTS
  p1 = p1
  p2 = p2
  c1 = c1
  c2 = c2
  w1 = w1
  w2 = w2
  s1 = s1
  s2 = s2
  s3 = s3
  s4 = s4
  f1 = f1
  f2 = f2
  f3 = f3
  a1 = a1
  a2 = a2
  a3 = a3
  None = None
  Procs = {p1}
  Scopes = {c1}
  Workspaces = {w1}
  Stores = {s1, s2}
  Files = {f1, f2, f3}
  Artifacts = {a1, a2, a3}
  ScopeOf <- OneScope
  WorkspaceOf <- AllInW1
  FilesOf <- Chain
  Empty = {}
  Size <- Size1
  Expires = {a1, a2}
  Policy <- Drain
  max_size <- NoLimits
  soft_max_size <- NoLimits
  Relatable <- Line
  Retained = {a1, a2}
  Given = {a1, a2}
  GivenIn = s1
  DryRuns = {TRUE, FALSE}
  Overlap = FALSE
  MaxDays = 1
  MaxCrashes = 1
INVARIANT OneLostPerCrash
PROPERTY TargetsKept
CHECK_DEADLOCK FALSE
