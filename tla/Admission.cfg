SPECIFICATION AdmissionSpec
CONSTANTS
  j1 = j1  j2 = j2  j3 = j3  j4 = j4  j5 = j5  j6 = j6
  r1 = r1  r2 = r2  s1 = s1  s2 = s2  k1 = k1
  Job = {j1, j2, j4, j5, j6}
  Runner = {}
  Scope = {s1, s2}
  Key = {k1}
  NoJob = NoJob  NoRunner = NoRunner  NoScope = NoScope  NoKey = NoKey
  KeyOf <- Keys
  PrintOf <- Prints
  ScopeOf <- QuotaScopes
  UnitsOf <- QuotaUnits
  Allowed <- RunnerScopes
  MaxAttempts = 1
  HasQuota = TRUE
  RunsMax = 2
  UnitsMax = 3

  c1 = c1  c2 = c2  c3 = c3  p1 = p1  p2 = p2  ledgerKey = ledgerKey
  Call = {c1, c2, c3}
  Process = {p1, p2}
  LedgerKey = {ledgerKey}
  Reaper = {a, b}
  NoHolder = NoHolder  NoLimit = NoLimit  Absent = Absent
  Charges = {0, 3}
  ProcessOf <- Processes
  LedgerKeyOf <- OneKey
  LimitOf <- Limits
  EstimateOf <- Estimates2

  q1 = q1  q2 = q2  q3 = q3  dA = dA  dB = dB  dC = dC  u1 = u1
  t1 = t1  t2 = t2
  Proposal = {q1, q2, q3}  Artifact = {1, 2}
  ArtifactOf <- Artifacts  DigestOf <- Contents  ProposerOf <- Proposers
  User = {u1, u2}  Legacy = {2}  LegacyDigest = LegacyDigest
  Session = {t1, t2}  Purger = {purger}
  NoDigest = NoDigest  NoLifecycle = NoLifecycle  NoOne = NoOne
SYMMETRY Symmetry
CHECK_DEADLOCK FALSE
INVARIANTS
  QuotaSafety
  LedgerSafety
  MethodologySafety
PROPERTIES
  RetryPrecedesQuota
  LimitsAndHaltsHold
  RulingsStand ImplementsMethodology
