SPECIFICATION Spec
CONSTANTS
  j1 = j1  j2 = j2  j3 = j3  j4 = j4
  r1 = r1  r2 = r2  s1 = s1  s2 = s2  k1 = k1
  Job = {j1, j2}
  Runner = {r1, r2}
  Scope = {s1, s2}
  Key = {k1}
  NoJob = NoJob  NoRunner = NoRunner  NoScope = NoScope  NoKey = NoKey
  KeyOf <- SharedKey
  PrintOf <- Prints
  ScopeOf <- OneScope
  UnitsOf <- Weights
  Allowed <- RunnerScopes
  PriorityOf <- Priorities
  ArrivalOf <- Arrivals
  MaxAttempts = 3
  MaxOverrides = 0
  HasQuota = FALSE
  RunsMax = 2
  UnitsMax = 3
CHECK_DEADLOCK FALSE
INVARIANT
  HolderCanSettle
