-------------------------- MODULE OutboundWebhooks --------------------------
(***************************************************************************)
(* PostgresWebhookQueue of packages/integrations/src/webhook.ts: the       *)
(* durable queue of outbound webhooks that several dispatchers drain with  *)
(* deliverDue.                                                             *)
(*                                                                         *)
(* A dispatcher claims a batch in one statement, which locks each row for  *)
(* five minutes and counts the attempt, and then sends the rows one after  *)
(* another.  What it writes back names the row only: neither the DELETE    *)
(* nor the two UPDATEs look at the lock, the attempt or the status, so a   *)
(* dispatcher that is slower than its lock writes over the next one.  A    *)
(* send that throws is recorded by an UPDATE of its own, which unlocks the *)
(* row before the attempt is accounted for.                                *)
(*                                                                         *)
(* Time is abstracted to what a claim tests: whether next_attempt_at has   *)
(* come ("due") and whether locked_until lies ahead ("locked").            *)
(***************************************************************************)
EXTENDS Naturals, FiniteSets

CONSTANTS
  Delivery,      \* ids of deliveries
  Dispatcher,    \* replicas that call deliverDue
  MaxSendAttempts,   \* MAX_ATTEMPTS
  BatchLimit,    \* limit
  MaxRequests,   \* bound: calls of enqueue that insert, per id
  MaxRedrives,   \* bound: dead letters put back, per id
  MaxLapses,     \* bound: locks that run out under a dispatcher at work
  MaxCrashes,    \* bound: dispatchers that die
  NoDelivery

ASSUME OutboxAssumption ==
  /\ MaxSendAttempts \in Nat \ {0} /\ BatchLimit \in Nat \ {0}
  /\ MaxRequests \in Nat /\ MaxRedrives \in Nat /\ MaxLapses \in Nat /\ MaxCrashes \in Nat
  /\ NoDelivery \notin Delivery
  /\ IsFiniteSet(Dispatcher)

VARIABLES
  outbox,       \* [Delivery -> row of aqa_webhook_deliveries]
  dispatchers,  \* [Dispatcher -> the state of its deliverDue]
  accepted,     \* deliveries that a receiver has answered with 2xx
  requests,     \* [Delivery -> inserts]
  redrives,     \* [Delivery -> redrives]
  lockLapses,   \* [Delivery -> locks that ran out under a dispatcher at work]
  failures,     \* [Delivery -> sends that threw and were recorded]
  crashes       \* [Delivery -> dispatchers that died while they had it]

outboxVars ==
  <<outbox, dispatchers, accepted, requests, redrives, lockLapses, failures, crashes>>

OutboxRow == [status : {"absent", "pending", "dead"}, attempts : Nat,
              due : BOOLEAN, locked : BOOLEAN]

AbsentRow == [status |-> "absent", attempts |-> 0, due |-> FALSE, locked |-> FALSE]

\* The columns that an insert and a redrive give a row.
FreshRow == [status |-> "pending", attempts |-> 0, due |-> TRUE, locked |-> FALSE]

\* The rows of the batch that are still to be sent, the attempts that the claim returned,
\* and the row that is being sent or whose answer is being written back.
DispatcherState ==
  [pc : {"idle", "next", "sending", "accepted", "threw", "refused"},
   batch : SUBSET Delivery, attempts : [Delivery -> Nat], now : Delivery \cup {NoDelivery}]

Idle == [pc |-> "idle", batch |-> {}, attempts |-> [d \in Delivery |-> 0], now |-> NoDelivery]

OutboxTypeOK ==
  /\ outbox \in [Delivery -> OutboxRow]
  /\ dispatchers \in [Dispatcher -> DispatcherState]
  /\ \A p \in Dispatcher :
       /\ dispatchers[p].now = NoDelivery <=> dispatchers[p].pc \in {"idle", "next"}
       /\ dispatchers[p].now \notin dispatchers[p].batch
       /\ dispatchers[p].pc = "idle" => dispatchers[p].batch = {}
  /\ accepted \subseteq Delivery
  /\ requests \in [Delivery -> Nat]
  /\ redrives \in [Delivery -> Nat]
  /\ lockLapses \in [Delivery -> Nat]
  /\ failures \in [Delivery -> Nat]
  /\ crashes \in [Delivery -> Nat]

OutboxInit ==
  /\ outbox = [d \in Delivery |-> AbsentRow]
  /\ dispatchers = [p \in Dispatcher |-> Idle]
  /\ accepted = {}
  /\ requests = [d \in Delivery |-> 0]
  /\ redrives = [d \in Delivery |-> 0]
  /\ lockLapses = [d \in Delivery |-> 0]
  /\ failures = [d \in Delivery |-> 0]
  /\ crashes = [d \in Delivery |-> 0]

NoCount == UNCHANGED <<requests, redrives, lockLapses, failures, crashes>>

-----------------------------------------------------------------------------
\* INSERT ... ON CONFLICT (id) DO NOTHING: an id that waits or is dead is not queued again.
EnqueueDelivery(d) ==
  /\ outbox[d].status = "absent"
  /\ requests[d] < MaxRequests
  /\ outbox' = [outbox EXCEPT ![d] = FreshRow]
  /\ requests' = [requests EXCEPT ![d] = @ + 1]
  /\ UNCHANGED <<dispatchers, accepted, redrives, lockLapses, failures, crashes>>

Redrive(d) ==
  /\ outbox[d].status = "dead"
  /\ redrives[d] < MaxRedrives
  /\ outbox' = [outbox EXCEPT ![d] = FreshRow]
  /\ redrives' = [redrives EXCEPT ![d] = @ + 1]
  /\ UNCHANGED <<dispatchers, accepted, requests, lockLapses, failures, crashes>>

-----------------------------------------------------------------------------
(* deliverDue *)

\* Mutant: a row that another dispatcher has locked is claimed as well.
Claimable_Locked(d) == outbox[d].status = "pending" /\ outbox[d].due

Claimable(d) == outbox[d].status = "pending" /\ outbox[d].due /\ ~outbox[d].locked

\* Mutant: the attempt is not counted.
ClaimedRow_Uncounted(row) == [row EXCEPT !.locked = TRUE]

ClaimedRow(row) == [row EXCEPT !.locked = TRUE, !.attempts = @ + 1]

\* The claim is one statement.  SKIP LOCKED may leave any due row to others.
Claim(p) ==
  /\ dispatchers[p].pc = "idle"
  /\ \E batch \in SUBSET {d \in Delivery : Claimable(d)} :
       /\ batch # {} /\ Cardinality(batch) <= BatchLimit
       /\ outbox' = [d \in Delivery |->
                       IF d \in batch THEN ClaimedRow(outbox[d]) ELSE outbox[d]]
       /\ dispatchers' = [dispatchers EXCEPT ![p] =
            [pc |-> "next", batch |-> batch, now |-> NoDelivery,
             attempts |-> [d \in Delivery |-> IF d \in batch THEN outbox'[d].attempts ELSE 0]]]
  /\ UNCHANGED accepted
  /\ NoCount

\* The rows come in the order in which the statement returns them.
Send(p, d) ==
  /\ dispatchers[p].pc = "next"
  /\ d \in dispatchers[p].batch
  /\ dispatchers' = [dispatchers EXCEPT ![p].pc = "sending", ![p].now = d,
                                        ![p].batch = @ \ {d}]
  /\ UNCHANGED <<outbox, accepted>>
  /\ NoCount

Finished(p) ==
  /\ dispatchers[p].pc = "next"
  /\ dispatchers[p].batch = {}
  /\ dispatchers' = [dispatchers EXCEPT ![p] = Idle]
  /\ UNCHANGED <<outbox, accepted>>
  /\ NoCount

\* The receiver answers: 2xx, another status, or not at all, and then the request may have
\* arrived.  A secret that cannot be resolved throws too.
Respond(p, pc) ==
  /\ dispatchers[p].pc = "sending"
  /\ dispatchers' = [dispatchers EXCEPT ![p].pc = pc]
  /\ accepted' = IF pc = "accepted" THEN accepted \cup {dispatchers[p].now} ELSE accepted
  /\ UNCHANGED outbox
  /\ NoCount

\* An UPDATE WHERE id = ... changes nothing when the row is gone.
Updated(d, row) == IF outbox[d].status = "absent" THEN outbox ELSE [outbox EXCEPT ![d] = row]

\* recordFailure: the row is unlocked and due, and the attempt goes on.
RecordFailure(p) ==
  LET d == dispatchers[p].now
  IN /\ dispatchers[p].pc = "threw"
     /\ outbox' = Updated(d, [outbox[d] EXCEPT !.locked = FALSE, !.due = TRUE])
     /\ dispatchers' = [dispatchers EXCEPT ![p].pc = "refused"]
     /\ failures' = [failures EXCEPT ![d] = @ + 1]
     /\ UNCHANGED <<accepted, requests, redrives, lockLapses, crashes>>

\* Mutant: the row stays in hand.
NextRow_Keeps(p) == dispatchers' = [dispatchers EXCEPT ![p].pc = "next"]

\* On to the next row of the batch.
NextRow(p) == dispatchers' = [dispatchers EXCEPT ![p].pc = "next", ![p].now = NoDelivery]

Delete(p) ==
  /\ dispatchers[p].pc = "accepted"
  /\ outbox' = [outbox EXCEPT ![dispatchers[p].now] = AbsentRow]
  /\ NextRow(p)
  /\ UNCHANGED accepted
  /\ NoCount

\* Mutant: the row is given up one attempt early.
Exhausted_Early(p, d) == dispatchers[p].attempts[d] + 1 >= MaxSendAttempts

\* Mutant: the row is given up one attempt late.
Exhausted_Late(p, d) == dispatchers[p].attempts[d] > MaxSendAttempts

Exhausted(p, d) == dispatchers[p].attempts[d] >= MaxSendAttempts

\* Mutant: an exhausted row is dropped.
DeadRow_Dropped(row) == AbsentRow

DeadRow(row) == [row EXCEPT !.status = "dead", !.locked = FALSE]

BackoffRow(row) == [row EXCEPT !.due = FALSE, !.locked = FALSE]

WriteBack(p) ==
  LET d == dispatchers[p].now
  IN /\ dispatchers[p].pc = "refused"
     /\ outbox' = Updated(d, IF Exhausted(p, d) THEN DeadRow(outbox[d]) ELSE BackoffRow(outbox[d]))
     /\ NextRow(p)
     /\ UNCHANGED accepted
     /\ NoCount

-----------------------------------------------------------------------------
\* The backoff, or the receiver's Retry-After, is over.
BecomesDue(d) ==
  /\ outbox[d].status = "pending" /\ ~outbox[d].due
  /\ outbox' = [outbox EXCEPT ![d].due = TRUE]
  /\ UNCHANGED <<dispatchers, accepted>>
  /\ NoCount

HasRow(p, d) == d \in dispatchers[p].batch \/ d = dispatchers[p].now

AtWork(d) == \E p \in Dispatcher : HasRow(p, d)

\* Five minutes have passed since the claim, whether its dispatcher is still at work or not.
LockLapses(d) ==
  /\ outbox[d].status = "pending" /\ outbox[d].locked
  /\ \/ ~AtWork(d) /\ UNCHANGED lockLapses
     \/ AtWork(d) /\ lockLapses[d] < MaxLapses /\ lockLapses' = [lockLapses EXCEPT ![d] = @ + 1]
  /\ outbox' = [outbox EXCEPT ![d].locked = FALSE]
  /\ UNCHANGED <<dispatchers, accepted, requests, redrives, failures, crashes>>

\* The dispatcher dies, or one of its statements throws out of deliverDue: the rest of the
\* batch stays locked.
DispatcherDies(p) ==
  /\ dispatchers[p].pc # "idle"
  /\ \A d \in Delivery : crashes[d] < MaxCrashes
  /\ crashes' = [d \in Delivery |-> crashes[d] + IF HasRow(p, d) THEN 1 ELSE 0]
  /\ dispatchers' = [dispatchers EXCEPT ![p] = Idle]
  /\ UNCHANGED <<outbox, accepted, requests, redrives, lockLapses, failures>>

DispatcherStep(p) ==
  \/ Claim(p)
  \/ \E d \in Delivery : Send(p, d)
  \/ Finished(p)
  \/ \E pc \in {"accepted", "threw", "refused"} : Respond(p, pc)
  \/ RecordFailure(p) \/ Delete(p) \/ WriteBack(p)

OutboxNext ==
  \/ \E p \in Dispatcher : DispatcherStep(p) \/ DispatcherDies(p)
  \/ \E d \in Delivery : EnqueueDelivery(d) \/ Redrive(d) \/ BecomesDue(d) \/ LockLapses(d)

\* Dispatchers go on calling deliverDue, sends are answered or time out, and time passes.
OutboxFairness ==
  /\ \A p \in Dispatcher : WF_outboxVars(DispatcherStep(p))
  /\ \A d \in Delivery : WF_outboxVars(BecomesDue(d)) /\ WF_outboxVars(LockLapses(d))

OutboxSpec == OutboxInit /\ [][OutboxNext]_outboxVars /\ OutboxFairness

-----------------------------------------------------------------------------
(* Properties *)

\* Delivery is at least once: a row leaves the table only after a receiver has accepted
\* the delivery, however many dispatchers had it, died with it or wrote over each other.
NothingIsLost ==
  \A d \in Delivery :
    requests[d] > 0 /\ outbox[d].status = "absent" => d \in accepted

\* "Multiple workers can scale horizontally without duplicate claims from the same queue
\* row": two dispatchers have a row only when a lock ran out under the first, or when a
\* send threw and recordFailure gave the row away before its attempt was accounted for.
ClaimsAreExclusive ==
  \A d \in Delivery, p, q \in Dispatcher :
    p # q /\ HasRow(p, d) /\ HasRow(q, d) => lockLapses[d] + failures[d] > 0

\* A row that no dispatcher has was locked by one that died, and a row that one has alone
\* stays locked until its attempt is written back: no third party unlocks it.
LocksAreHeld ==
  \A d \in Delivery :
    lockLapses[d] + failures[d] = 0 =>
      /\ outbox[d].locked /\ ~AtWork(d) => crashes[d] > 0
      /\ AtWork(d) => outbox[d].locked

\* Poison deliveries reach the dead letters after five attempts: each attempt beyond is
\* paid for by a lapse, a recorded failure or a crash.
AttemptsArePaidFor ==
  \A d \in Delivery :
    outbox[d].attempts <= MaxSendAttempts + lockLapses[d] + failures[d] + crashes[d]

\* Why this is so.  A row that waits can be claimed once more than it was taken from a
\* dispatcher at work: who has it, and the claim that is open, are paid for.  From the last
\* attempt on, every further one is paid for by a lapse, a recorded failure or a crash,
\* where dispatchers with an earlier attempt may still put the row back.
One(b) == IF b THEN 1 ELSE 0

PaidFor(row, who, early, taken, died) ==
  LET pending == row.status = "pending"
      free == pending /\ ~(row.locked /\ who # {})
  IN /\ Cardinality(who) + One(free) <= taken + One(pending)
     /\ row.locked => pending /\ (who # {} \/ died > 0)
     /\ row.attempts <= MaxSendAttempts + taken + died
     /\ pending /\ row.attempts + 1 >= MaxSendAttempts =>
          row.attempts + One(free) + Cardinality(early) <= MaxSendAttempts + taken + died

Holders(d) == {p \in Dispatcher : HasRow(p, d)}
EarlyHolders(d) == {p \in Holders(d) : dispatchers[p].attempts[d] < MaxSendAttempts}
Taken(d) == lockLapses[d] + failures[d]

\* And a dispatcher whose row was not taken from it has counted the attempt of the row.
OutboxInv ==
  /\ \A d \in Delivery :
       /\ PaidFor(outbox[d], Holders(d), EarlyHolders(d), Taken(d), crashes[d])
       /\ Taken(d) = 0 =>
            \A p \in Holders(d) : dispatchers[p].attempts[d] = outbox[d].attempts
  /\ \A p \in Dispatcher : dispatchers[p].pc = "accepted" => dispatchers[p].now \in accepted

\* Dispatchers lose no delivery, share none that was not taken from them, leave none locked
\* and give each up in time.
OutboxSafety ==
  /\ OutboxTypeOK /\ NothingIsLost /\ ClaimsAreExclusive /\ LocksAreHeld /\ AttemptsArePaidFor
  /\ OutboxInv

\* A delivery is given up only after it has been claimed five times since it was queued or
\* redriven, unless a dispatcher wrote over another.
DeadLettersAreEarned ==
  [][\A d \in Delivery :
       outbox[d].status = "pending" /\ outbox'[d].status = "dead"
         => outbox[d].attempts >= MaxSendAttempts \/ lockLapses[d] + failures[d] > 0]_outboxVars

\* Every delivery that is queued or redriven is delivered or given up.
DeliveriesSettle ==
  \A d \in Delivery : outbox[d].status = "pending" ~> outbox[d].status # "pending"

=============================================================================
