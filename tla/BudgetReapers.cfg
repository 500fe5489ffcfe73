SPECIFICATION ReapersSpec
CONSTANTS
  c1 = c1  c2 = c2  c3 = c3  c4 = c4  p1 = p1  p2 = p2  k1 = k1  k2 = k2
  a = a  b = b
  Call = {c1, c2, c3, c4}
  Process = {p1, p2}
  LedgerKey = {k1, k2}
  Reaper = {a, b}
  NoHolder = NoHolder  NoLimit = NoLimit  Absent = Absent
  ProcessOf <- Processes
  LedgerKeyOf <- TwoKeys
  LimitOf <- Unlimited
  EstimateOf <- Ones
  Charges = {1}

  w1 = w1  w2 = w2
  Delivery = {w1, w2}  Dispatcher = {dispatcher1, dispatcher2}
  MaxSendAttempts = 2  BatchLimit = 2
  MaxRequests = 2  MaxRedrives = 1  MaxLapses = 1  MaxCrashes = 1
  NoDelivery = NoDelivery
CHECK_DEADLOCK FALSE
INVARIANT
  OutboxSafety
PROPERTIES
  ReservationsAreClosed
  DeadLettersAreEarned DeliveriesSettle
