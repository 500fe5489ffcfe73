SPECIFICATION InProcessSpec
CONSTANTS
  j1 = j1  j2 = j2  j3 = j3  j4 = j4
  r1 = r1  r2 = r2  s1 = s1  s2 = s2  k1 = k1
  Job = {j1, j2, j3, j4}
  Runner = {r1, r2}
  Scope = {s1, s2}
  Key = {k1}
  NoJob = NoJob  NoRunner = NoRunner  NoScope = NoScope  NoKey = NoKey
  KeyOf <- SharedKey
  PrintOf <- Prints
  ScopeOf <- OneScope
  UnitsOf <- Weights
  Allowed <- RunnerScopes
  PriorityOf <- Priorities
  ArrivalOf <- Arrivals
  MaxAttempts = 2
  MaxOverrides = 1
  HasQuota = TRUE
  RunsMax = 2
  UnitsMax = 3

  MaxBatch = 2  MaxQueue = 3  MaxSpans = 6

  c1 = c1  c2 = c2  c3 = c3
  Call = {c1, c2, c3}  p1 = p1  p2 = p2
  Entrant = {p1, p2}
  MaxCalls = 2  MaxSteps = 1   MaxFailures = 1
  Torn = Torn  NoIndex = NoIndex

  d1 = d1  d2 = d2  d3 = d3  d4 = d4
  Request = {d1, d2, d3, d4}
  FingerprintOf <- Fingerprints
  NoRequest = NoRequest
SYMMETRY Symmetry
CHECK_DEADLOCK FALSE
INVARIANT
  QueueSafety ExporterSafety
  TraceSafety TrajectoryVerifies
  RequestSafety
PROPERTIES
  FirstInOrderIsLeased
  ImplementsLeaseQueue
  ShutdownIsTrue
  ResponsesAreKept
