SPECIFICATION CommerceSpec
CONSTANTS
  d1 = d1  d2 = d2  d3 = d3  d4 = d4  e1 = e1  e2 = e2
  Delivery = {d1, d2, d3, d4}
  Event = {e1, e2}
  EventOf <- Events
  NoEvent = NoEvent

  s1 = s1  s2 = s2  c1 = c1  c2 = c2  k1 = k1  r1 = r1
  Sku = {s1, s2}  Customer = {c1, c2}  Key = {k1, r1}  Reason = {"r"}
  RefundKeyOf <- RefundKeys  Price <- Prices  OnHand <- Stocks
  MaxQuantity = 1  MaxCarts = 2  MaxReturns = 1

  Quantity = 2  MaxOthers = 2

  t1 = t1  t2 = t2  t3 = t3  t4 = t4  t5 = t5  t6 = t6  g1 = g1  g2 = g2
  Request = {t1, t2, t3, t4, t5, t6}  Card = {g1, g2}  EntryOf <- Entries
  NoRequest = NoRequest  Nothing = Nothing

  l1 = l1  l2 = l2  l3 = l3  l4 = l4  m1 = m1  m2 = m2
  Claimant = {l1, l2, l3, l4}  Code = {m1, m2}
  CodeOf <- Codes  RedemptionOf <- Redemptions  CapOf <- Caps
  NoClaimant = NoClaimant

  x1 = x1  x2 = x2  x3 = x3  x4 = x4  x5 = x5  x6 = x6  x7 = x7  x8 = x8
  call1 = call1  call2 = call2  v1 = v1  n1 = n1  n2 = n2  n3 = n3
  Attempt = {x1, x2, x3, x4, x5, x6, x7, x8}
  CallOf <- Calls  ApprovalOf <- Approvals  GrantOf <- Grants  ReplicaOf <- Replicas
  InMemory = {n3}  Reads = {x4, x7, x8}  AllowedReads = {x4, x8}
  NoApproval = NoApproval  NoCall = NoCall
CHECK_DEADLOCK FALSE
INVARIANTS
  ClaimSafety
  ShopSafety
  JourneySafety
  NoOverdraft TenderSafety
  PromotionSafety
  GateSafety
PROPERTIES
  CompletedIsFinal OrdersOnlyWindDown LedgerIsAtomic
