--------------------------- MODULE WebhookLedger ----------------------------
(***************************************************************************)
(* PostgresWebhookEffectLedger and applyWebhookEffectOnce of               *)
(* packages/commerce/src/webhook-ledger.ts: deliveries of provider events  *)
(* arrive at several replicas, and the first one claims the row of the     *)
(* logical effect and runs it.                                             *)
(*                                                                         *)
(* Rows of different effect keys never meet, so the module follows one     *)
(* key.  claim is up to three statements in no transaction (INSERT,        *)
(* SELECT, UPDATE) and every other method is one; each statement is an     *)
(* action.  Neither complete nor release says which claim it ends: they    *)
(* name the event, which all its deliveries share.                         *)
(***************************************************************************)
EXTENDS Naturals, FiniteSets

CONSTANTS
  Delivery,     \* calls of applyWebhookEffectOnce with this effect key
  Event,        \* provider event ids
  EventOf,      \* [Delivery -> Event]
  NoEvent

ASSUME DeliveriesAssumption ==
  /\ IsFiniteSet(Delivery)
  /\ EventOf \in [Delivery -> Event]
  /\ NoEvent \notin Event

VARIABLES
  row,        \* the row of the effect key
  pc,         \* pc[d]: where delivery d stands, or how it ended
  effects,    \* the deliveries that ran the business effect
  grants,     \* claims granted so far
  excuses     \* leases that lapsed and claims that were released so far

history == <<effects, grants, excuses>>
vars == <<row, pc, effects, grants, excuses>>

Pc == {"ready", "reading", "reclaiming", "running", "completing", "releasing",
       "applied", "duplicate", "conflict", "released", "failed"}

Row == [event  : Event \cup {NoEvent},
        status : {"absent", "processing", "completed"},
        lapsed : BOOLEAN]

NoRow == [event |-> NoEvent, status |-> "absent", lapsed |-> FALSE]

TypeOK ==
  /\ row \in Row
  /\ row.event = NoEvent <=> row.status = "absent"
  /\ pc \in [Delivery -> Pc]
  /\ effects \subseteq Delivery
  /\ grants \in Nat
  /\ excuses \in Nat

Init ==
  /\ row = NoRow
  /\ pc = [d \in Delivery |-> "ready"]
  /\ effects = {}
  /\ grants = 0
  /\ excuses = 0

-----------------------------------------------------------------------------
Goto(d, state) == pc' = [pc EXCEPT ![d] = state]

\* The row is this event's and its effect is not known to be complete.
InProcess(e) == row.event = e /\ row.status = "processing"

Granted(d) ==
  /\ Goto(d, "running")
  /\ grants' = grants + 1
  /\ UNCHANGED <<effects, excuses>>

-----------------------------------------------------------------------------
(* claim *)

\* INSERT ... ON CONFLICT DO NOTHING.
Insert(d) ==
  /\ pc[d] = "ready"
  /\ \/ /\ row = NoRow
        /\ row' = [event |-> EventOf[d], status |-> "processing", lapsed |-> FALSE]
        /\ Granted(d)
     \/ /\ row # NoRow
        /\ Goto(d, "reading")
        /\ UNCHANGED <<row, history>>

\* SELECT of the row that INSERT met, which may be gone by now.
Read(d) ==
  /\ pc[d] = "reading"
  /\ Goto(d, IF row.event # EventOf[d] THEN "conflict"
             ELSE IF row.status = "completed" THEN "duplicate"
             ELSE "reclaiming")
  /\ UNCHANGED <<row, history>>

\* Mutant: the UPDATE does not look at claimed_at.
Reclaim_Early(d) ==
  /\ pc[d] = "reclaiming"
  /\ \/ /\ InProcess(EventOf[d])
        /\ row' = [row EXCEPT !.lapsed = FALSE]
        /\ Granted(d)
     \/ /\ ~InProcess(EventOf[d])
        /\ Goto(d, "duplicate")
        /\ UNCHANGED <<row, history>>

\* UPDATE ... SET claimed_at = now() WHERE the lease has lapsed.
Reclaim(d) ==
  /\ pc[d] = "reclaiming"
  /\ \/ /\ InProcess(EventOf[d]) /\ row.lapsed
        /\ row' = [row EXCEPT !.lapsed = FALSE]
        /\ Granted(d)
     \/ /\ ~(InProcess(EventOf[d]) /\ row.lapsed)
        /\ Goto(d, "duplicate")
        /\ UNCHANGED <<row, history>>

-----------------------------------------------------------------------------
(* applyWebhookEffectOnce, once the claim is granted *)

RunEffect(d) ==
  /\ pc[d] = "running"
  /\ Goto(d, "completing")
  /\ effects' = effects \cup {d}
  /\ UNCHANGED <<row, grants, excuses>>

EffectThrows(d) ==
  /\ pc[d] = "running"
  /\ Goto(d, "releasing")
  /\ UNCHANGED <<row, history>>

\* Mutant: the row forgets whose it is.
Completed_Anonymous == row' = [NoRow EXCEPT !.status = "completed"]

Completed == row' = [row EXCEPT !.status = "completed", !.lapsed = FALSE]

Complete(d) ==
  /\ pc[d] = "completing"
  /\ IF InProcess(EventOf[d]) THEN Completed ELSE UNCHANGED row
  /\ Goto(d, "applied")
  /\ UNCHANGED history

\* complete throws, before or after its effect: the catch block takes over.
BreakComplete(d) ==
  /\ pc[d] = "completing"
  /\ (InProcess(EventOf[d]) /\ Completed) \/ UNCHANGED row
  /\ Goto(d, "releasing")
  /\ UNCHANGED history

\* Mutant: release deletes the row whatever its status.
Release_AnyStatus(d) ==
  /\ pc[d] = "releasing"
  /\ \/ /\ row.event = EventOf[d]
        /\ row' = NoRow /\ excuses' = excuses + 1
        /\ Goto(d, "released")
     \/ /\ row.event # EventOf[d]
        /\ UNCHANGED <<row, excuses>>
        /\ Goto(d, "failed")
  /\ UNCHANGED <<effects, grants>>

\* DELETE of the row while it is in process, whoever claimed it last; the call throws.
Release(d) ==
  /\ pc[d] = "releasing"
  /\ \/ /\ InProcess(EventOf[d])
        /\ row' = NoRow /\ excuses' = excuses + 1
        /\ Goto(d, "released")
     \/ /\ ~InProcess(EventOf[d])
        /\ UNCHANGED <<row, excuses>>
        /\ Goto(d, "failed")
  /\ UNCHANGED <<effects, grants>>

\* The replica dies, or a statement throws that nothing catches.
Crash(d) ==
  /\ pc[d] \in {"reading", "reclaiming", "running", "completing", "releasing"}
  /\ Goto(d, "failed")
  /\ UNCHANGED <<row, history>>

\* claimed_at falls lease_ms behind.
Lapse ==
  /\ row.status = "processing" /\ ~row.lapsed
  /\ row' = [row EXCEPT !.lapsed = TRUE]
  /\ excuses' = excuses + 1
  /\ UNCHANGED <<pc, effects, grants>>

-----------------------------------------------------------------------------
DeliveryStep(d) ==
  \/ Insert(d) \/ Read(d) \/ Reclaim(d)
  \/ RunEffect(d) \/ EffectThrows(d)
  \/ Complete(d) \/ BreakComplete(d) \/ Release(d) \/ Crash(d)

Next == Lapse \/ \E d \in Delivery : DeliveryStep(d)

Spec == Init /\ [][Next]_vars

-----------------------------------------------------------------------------
(* Properties *)

\* "Run a business effect only for the first delivery of a logical effect"
\* (webhook-ledger.ts): every claim but the first is paid for by a lease that
\* lapsed or a claim that was released, so that two deliveries which find one
\* lapsed lease do not both run the effect.
ClaimsAreEarned == grants <= 1 + excuses

\* Why that is so: a claim that stands in the table and has not lapsed, or an effect
\* that is complete, is the one claim that nothing has paid for yet.
PaidInv ==
  grants + (IF row.status = "processing" /\ row.lapsed THEN 1 ELSE 0)
    <= excuses + (IF row.status = "absent" THEN 0 ELSE 1)

\* So is every run of the effect but the first.
EffectsAreEarned == Cardinality(effects) <= 1 + excuses

\* Why: a delivery that is about to run the effect, or has run it, was granted a claim.
Claimants == effects \cup {d \in Delivery : pc[d] = "running"}

ClaimantInv == Cardinality(Claimants) <= grants

\* Until a release deletes a claim, all the effects run under the key are one event's, the
\* one in the row, though leases lapse and replicas die.
OneEventUntilReleased ==
  (\A d \in Delivery : pc[d] # "released") => \A d \in Claimants : row.event = EventOf[d]

\* The claims and the effects of a key are earned and one event's, and why.
ClaimSafety ==
  /\ TypeOK /\ PaidInv /\ ClaimsAreEarned
  /\ ClaimantInv /\ EffectsAreEarned /\ OneEventUntilReleased

\* A completion is final for the ledger: its row stays, and no delivery, late or repeated, of
\* this event or another, is granted a claim or comes to run the effect any more.  Only one
\* that was granted its claim before may run it still: a delivery that took over a lapsed
\* lease does so when the first holder has completed meanwhile.
CompletedIsFinal ==
  [][row.status = "completed" =>
       row' = row /\ grants' = grants /\ Claimants' \subseteq Claimants]_vars

\* The README of the package: the ledger rejects "reuse of one logical effect key
\* by a different event".  All the effects run under the key are one event's.
OneEventPerEffect ==
  \A d1, d2 \in effects : EventOf[d1] = EventOf[d2]

=============================================================================
