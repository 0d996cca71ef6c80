SPECIFICATION FairSpec
CONSTANTS
  p1 = p1
  p2 = p2
  c1 = c1
  c2 = c2
  w1 = w1
  w2 = w2
  s1 = s1
  s2 = s2
  s3 = s3
  s4 = s4
  f1 = f1
  f2 = f2
  f3 = f3
  a1 = a1
  a2 = a2
  a3 = a3
  None = None
  Procs = {p1, p2}
  Scopes = {c1}
  Workspaces = {w1}
  Stores = {s1, s2, s3, s4}
  Files = {f1}
  Artifacts = {a1, a2, a3}
  ScopeOf <- OneScope
  WorkspaceOf <- AllInW1
  FilesOf <- SameFile
  Empty = {}
  Size <- Size1
  Expires = {a1}
  Policy <- AllPolicies
  max_size <- NoLimits
  soft_max_size <- S2Limit
  Relatable = {}
  Retained = {}
  Given = {a1}
  GivenIn = s1
  DryRuns = {FALSE}
  Overlap = FALSE
  MaxDays = 1
  MaxCrashes = 0
INVARIANT TypeOK FileAvailable PendingHasContent
PROPERTY DrainedForGood
CHECK_DEADLOCK FALSE
