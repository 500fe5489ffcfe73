SPECIFICATION ExecutionSpec
CONSTANTS
  j1 = j1  j2 = j2  r1 = r1  r2 = r2  s1 = s1  s2 = s2
  Job = {j1}
  Runner = {r1, r2}
  Scope = {s1, s2}
  Key = {}
  NoJob = NoJob  NoRunner = NoRunner  NoScope = NoScope  NoKey = NoKey
  KeyOf <- NoKeys
  PrintOf <- OnePrint
  ScopeOf <- Scopes
  UnitsOf <- OneUnit
  Allowed <- RunnerScopes
  MaxAttempts = 2
  HasQuota = FALSE
  RunsMax = 1
  UnitsMax = 1
  Faults = TRUE

  Scenario <- Scenarios  Journey = {4}  Special = {3}
  Checks <- CheckCounts  Steps <- StepCounts
  Observers <- ObserverCounts  Cleanups <- CleanupCounts
  Worker = {turn1, turn2}
  Group = {"group"}  NoGroup = "none"  GroupOf <- Groups
  NoScenario = NoScenario  Returned = Returned  Threw = Threw
  MaxFaults = 2
CHECK_DEADLOCK FALSE
INVARIANTS
  ReportSafety
  RunSafety
PROPERTIES
  WorkEnds
  RunIsAnswered
