-------------------------- MODULE MCWebhookLedger ---------------------------
(***************************************************************************)
(* Small instances of WebhookLedger for TLC: three deliveries of one event *)
(* and one of another that claims the same effect.                         *)
(***************************************************************************)
EXTENDS WebhookLedger, TLC

CONSTANTS d1, d2, d3, d4, e1, e2

Events == [d \in Delivery |-> IF d = d4 THEN e2 ELSE e1]

=============================================================================
