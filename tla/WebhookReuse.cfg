SPECIFICATION Spec
CONSTANTS
  d1 = d1  d2 = d2  d3 = d3  d4 = d4  e1 = e1  e2 = e2
  Delivery = {d1, d2, d4}
  Event = {e1, e2}
  EventOf <- Events
  NoEvent = NoEvent
CHECK_DEADLOCK FALSE
INVARIANT
  OneEventPerEffect
