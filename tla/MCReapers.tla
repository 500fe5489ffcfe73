----------------------------- MODULE MCReapers -----------------------------
(***************************************************************************)
(* Small instances, for one TLC run, of two parts of the control plane     *)
(* that must get through their work: the reapers of the budget ledger and  *)
(* the dispatchers of outbound webhooks.  They share no state: a behaviour *)
(* is one of "part" while the other stays where it began.                  *)
(***************************************************************************)
EXTENDS MCBudgetLedger, OutboundWebhooks

CONSTANTS w1, w2

VARIABLE part

hostVars == <<part, budgetVars, outboxVars>>

ReapersInit ==
  /\ \/ part = "reservations" /\ Reserved
     \/ part \in {"webhooks", "batches"} /\ LedgerInit
  /\ OutboxInit

\* Two instances of the outbox: one delivery that is queued twice, redriven and fails in
\* every way, and two that are queued once and claimed together, where no send throws and
\* either the dispatcher dies or the second is still waiting when its lock runs out.
Deliveries(A) ==
  /\ A
  /\ \/ part = "webhooks" /\ requests'[w2] = 0
     \/ /\ part = "batches"
        /\ \A d \in Delivery : requests'[d] <= 1 /\ redrives'[d] = 0
        /\ \A p \in Dispatcher : dispatchers'[p].pc # "threw"
        /\ lockLapses'[w1] = 0
        /\ lockLapses'[w2] = 0 \/ \A d \in Delivery : crashes'[d] = 0

ReapersNext ==
  /\ UNCHANGED part
  /\ \/ part = "reservations" /\ LedgerNext /\ UNCHANGED outboxVars
     \/ Deliveries(OutboxNext) /\ UNCHANGED budgetVars

\* A step of the part that the behaviour is of.
ReservationsDo(A) == part = "reservations" /\ A /\ UNCHANGED <<part, outboxVars>>
WebhooksDo(A) == part # "reservations" /\ A /\ UNCHANGED <<part, budgetVars>>

\* What each part asks for: Fairness and OutboxFairness.
ReapersFairness ==
  /\ \A c \in Call : WF_hostVars(ReservationsDo(Expire(c)))
  /\ \A p \in Reaper : WF_hostVars(ReservationsDo(ReaperStep(p)))
  /\ \A p \in Dispatcher : WF_hostVars(WebhooksDo(DispatcherStep(p)))
  /\ \A d \in Delivery :
       /\ WF_hostVars(WebhooksDo(BecomesDue(d)))
       /\ WF_hostVars(WebhooksDo(LockLapses(d)))

ReapersSpec == ReapersInit /\ [][ReapersNext]_hostVars /\ ReapersFairness

=============================================================================
