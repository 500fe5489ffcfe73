SPECIFICATION LedgerSpec
CONSTANTS
  c1 = c1  c2 = c2  c3 = c3  c4 = c4  p1 = p1  p2 = p2  k1 = k1  k2 = k2
  a = a  b = b
  Call = {c1, c2, c3}
  Process = {p1, p2}
  LedgerKey = {k1}
  Reaper = {a, b}
  NoHolder = NoHolder  NoLimit = NoLimit  Absent = Absent
  ProcessOf <- Processes
  LedgerKeyOf <- OneKey
  LimitOf <- Limits
  EstimateOf <- Estimates2
  Charges = {0, 3}
CHECK_DEADLOCK FALSE
INVARIANT
  UsageIsAccounted
