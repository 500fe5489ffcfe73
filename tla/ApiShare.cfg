SPECIFICATION IdempotencySpec
CONSTANTS
  d1 = d1  d2 = d2  d3 = d3  d4 = d4
  Request = {d1, d2}
  FingerprintOf <- Fingerprints
  NoRequest = NoRequest
CHECK_DEADLOCK FALSE
INVARIANT
  IdenticalRequestsShare
