SPECIFICATION StoreSpec
CONSTANTS
  j1 = j1  j2 = j2  j3 = j3  j4 = j4  j5 = j5  j6 = j6
  r1 = r1  r2 = r2  s1 = s1  s2 = s2  k1 = k1
  Job = {j1, j2, j3, j4}
  Runner = {r1, r2}
  Scope = {s1, s2}
  Key = {k1}
  NoJob = NoJob  NoRunner = NoRunner  NoScope = NoScope  NoKey = NoKey
  KeyOf <- Keys
  PrintOf <- Prints
  ScopeOf <- LeaseScopes
  UnitsOf <- OneUnit
  Allowed <- RunnerScopes
  MaxAttempts = 2
  HasQuota = FALSE
  RunsMax = 2
  UnitsMax = 3

  f1 = f1  f2 = f2  run1 = run1  run2 = run2  writer1 = writer1  writer2 = writer2
  Finding = {f1, f2}  Run = {run1, run2}  RunOf <- Runs
  Verifiable = {f1}  HasOriginal = {f2}  LocalEvents = 2
  Writer = {writer1, writer2}  Server = {server}
  MaxChanges = 2  MaxSeeds = 2  NoWriter = NoWriter  NoRun = NoRun

  fetch1 = fetch1  fetch2 = fetch2
  Change = {change1, change2}  Fetch = {fetch1, fetch2}
  ReplayLimit = 1  NoChange = NoChange
SYMMETRY Symmetry
CHECK_DEADLOCK FALSE
INVARIANTS
  LeaseSafety
  RetrySafety
  AuditSafety
  LiveSafety
PROPERTIES
  ImplementsLeaseQueue
  StepsAreAllowed
