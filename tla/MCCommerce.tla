----------------------------- MODULE MCCommerce -----------------------------
(***************************************************************************)
(* Small instances, for one TLC run, of the parts of the commerce packages *)
(* and of the agent security gate.  The parts share no state: a behaviour  *)
(* is one of "part" while the others stay where they began.                *)
(***************************************************************************)
EXTENDS MCWebhookLedger, CommerceReference, CommerceJourney, TenderLedger, PromotionLedger,
        ApprovalGate

CONSTANTS
  s1, s2, c1, c2, k1, r1,
  t1, t2, t3, t4, t5, t6, g1, g2,
  l1, l2, l3, l4, m1, m2,
  x1, x2, x3, x4, x5, x6, x7, x8, call1, call2, v1, n1, n2, n3

\* The shop: two of one article and one of another.  The key of a refund can be the one that
\* cancelling derives from k1.
RefundKeys == [k \in Key |-> IF k = k1 THEN r1 ELSE "derived"]
Prices == s1 :> 60 @@ s2 :> 150
Stocks == s1 :> 2 @@ s2 :> 1

\* The tender ledger: a top-up, an order that is sent twice, one that is too many, a top-up
\* whose operation is reused, and the same operation on another card.
TenderEntry(card, operation, kind, amount, currency) ==
  [card |-> card, operation |-> operation, kind |-> kind, amount |-> amount,
   currency |-> currency]
Entries ==
  (t1 :> TenderEntry(g1, "top-up", "credit", 3, "EUR")) @@
  (t2 :> TenderEntry(g1, "order-1", "redeem", 2, "EUR")) @@
  (t3 :> TenderEntry(g1, "order-1", "redeem", 2, "EUR")) @@
  (t4 :> TenderEntry(g1, "order-2", "redeem", 2, "EUR")) @@
  (t5 :> TenderEntry(g1, "top-up", "credit", 3, "USD")) @@
  (t6 :> TenderEntry(g2, "order-1", "credit", 2, "EUR"))

\* The promotions: a redemption sent twice, one that is too many, and its id under another code.
Codes == l1 :> m1 @@ l2 :> m1 @@ l3 :> m1 @@ l4 :> m2
Redemptions == l1 :> "i" @@ l2 :> "i" @@ l3 :> "j" @@ l4 :> "i"
Caps == [l \in Claimant |-> 1]

\* The gate: an approval that is tried twice, for another call, twice by a process with its
\* ledger in memory, and by two reads, of which x7 is not of an allowed tool; and a read that
\* comes without one.
Calls == [x \in Attempt |-> IF x = x3 THEN call2 ELSE call1]
Approvals == [x \in Attempt |-> IF x = x8 THEN NoApproval ELSE v1]
Grants == v1 :> call1
Replicas == [x \in Attempt |-> IF x = x2 THEN n2 ELSE IF x \in {x5, x6} THEN n3 ELSE n1]

VARIABLE part

CommerceInit ==
  /\ part \in {"webhooks", "shop", "journeys", "tenders", "promotions", "gate"}
  /\ Init /\ ShopInit /\ JourneyInit /\ TenderInit /\ PromotionInit /\ GateInit

CommerceNext ==
  /\ UNCHANGED part
  /\ \/ /\ part = "webhooks" /\ Next
        /\ UNCHANGED <<shopVars, journeyVars, tenderVars, promotionVars, gateVars>>
     \/ /\ part = "shop" /\ ShopNext
        /\ UNCHANGED <<vars, journeyVars, tenderVars, promotionVars, gateVars>>
     \/ /\ part = "journeys" /\ JourneyNext
        /\ UNCHANGED <<vars, shopVars, tenderVars, promotionVars, gateVars>>
     \/ /\ part = "tenders" /\ TenderNext
        /\ UNCHANGED <<vars, shopVars, journeyVars, promotionVars, gateVars>>
     \/ /\ part = "promotions" /\ PromotionNext
        /\ UNCHANGED <<vars, shopVars, journeyVars, tenderVars, gateVars>>
     \/ /\ part = "gate" /\ GateNext
        /\ UNCHANGED <<vars, shopVars, journeyVars, tenderVars, promotionVars>>

CommerceSpec ==
  CommerceInit /\ [][CommerceNext]_<<part, vars, shopVars, journeyVars, tenderVars,
                                      promotionVars, gateVars>>

=============================================================================
