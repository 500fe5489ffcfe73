---------------------------- MODULE RunnerQueue -----------------------------
(***************************************************************************)
(* The in-memory RunnerQueue of packages/server/src/runner-queue.ts.  It   *)
(* has the interface of PostgresQueue but every method runs to completion  *)
(* without yielding, so each one, enqueue included, is one action.  What   *)
(* the two clear and keep differs: this queue's dequeue leaves leased_by   *)
(* behind when it takes an expired lease back, and writes it only for a    *)
(* caller that has an identity.  It also has two operator overrides,       *)
(* requeue and kill, that are not in RunnerQueueLike.                      *)
(***************************************************************************)
EXTENDS QueueContract, Integers

CONSTANTS
  PriorityOf,   \* [Job -> Int]  priority, 0 when absent
  ArrivalOf,    \* [Job -> Nat]  position in the order of (enqueued_at, id)
  MaxOverrides  \* bound of the model: times an operator overrides one of the jobs

ASSUME OrderAssumption ==
  /\ PriorityOf \in [Job -> Int]
  /\ ArrivalOf \in [Job -> Nat]
  /\ \A a, b \in Job : ArrivalOf[a] = ArrivalOf[b] => a = b
  /\ MaxOverrides \in Nat

VARIABLES
  jobs,         \* this.jobs: [Job -> Row]
  idempotency,  \* this.idempotency: the job a key is bound to
  enq,          \* enq[j]: what the enqueue call for j came to
  minted,       \* minted[j]: lease tokens drawn for j (randomUUID never repeats)
  leases,       \* every copy dequeue ever returned, stale ones included
  settledBy,    \* settledBy[j]: token whose holder settled j, 0 when none did
  overrides     \* overrides[j]: times an operator requeued or killed j

vars == <<jobs, idempotency, enq, minted, leases, settledBy, overrides>>

TypeOK ==
  /\ jobs \in [Job -> Row]
  /\ idempotency \in [Key -> Job \cup {NoJob}]
  /\ enq \in [Job -> {"idle", "accepted", "existing", "refused", "over_quota"}]
  /\ minted \in [Job -> Nat]
  /\ leases \subseteq Lease
  /\ settledBy \in [Job -> Nat]
  /\ overrides \in [Job -> 0..MaxOverrides]

Init ==
  /\ jobs = [j \in Job |-> NoRow]
  /\ idempotency = [k \in Key |-> NoJob]
  /\ enq = [j \in Job |-> "idle"]
  /\ minted = [j \in Job |-> 0]
  /\ leases = {}
  /\ settledBy = [j \in Job |-> 0]
  /\ overrides = [j \in Job |-> 0]

-----------------------------------------------------------------------------
\* The job the key of j is already bound to, if it has a key.
Bound(j) == IF KeyOf[j] = NoKey THEN NoJob ELSE idempotency[KeyOf[j]]

\* Mutant: the accepted job is not bound to its key.
Enqueue_Unbound(j) ==
  /\ enq[j] = "idle"
  /\ HasQuota => WithinQuota(jobs, j)
  /\ enq' = [enq EXCEPT ![j] = "accepted"]
  /\ jobs' = [jobs EXCEPT ![j] = NewRow]
  /\ UNCHANGED <<idempotency, minted, leases, settledBy, overrides>>

\* A bound key answers with its job or refuses another fingerprint; only then is
\* the quota asked.
Enqueue(j) ==
  LET prior == Bound(j)
  IN  /\ enq[j] = "idle"
      /\ \/ /\ prior # NoJob
            /\ enq' = [enq EXCEPT ![j] =
                         IF PrintOf[prior] = PrintOf[j] THEN "existing" ELSE "refused"]
            /\ UNCHANGED <<jobs, idempotency>>
         \/ /\ prior = NoJob
            /\ HasQuota /\ ~WithinQuota(jobs, j)
            /\ enq' = [enq EXCEPT ![j] = "over_quota"]
            /\ UNCHANGED <<jobs, idempotency>>
         \/ /\ prior = NoJob
            /\ HasQuota => WithinQuota(jobs, j)
            /\ enq' = [enq EXCEPT ![j] = "accepted"]
            /\ jobs' = [jobs EXCEPT ![j] = NewRow]
            /\ idempotency' = [k \in Key |-> IF k = KeyOf[j] THEN j ELSE idempotency[k]]
      /\ UNCHANGED <<minted, leases, settledBy, overrides>>

-----------------------------------------------------------------------------
Cleared(row, status) ==
  [row EXCEPT !.status = status, !.lease = "none", !.token = 0, !.by = NoRunner]

\* Mutant: one attempt more than the limit.
AfterExpiry_OneMore(row) == IF row.attempts > MaxAttempts THEN "failed" ELSE "queued"

AfterExpiry(row) == IF row.attempts >= MaxAttempts THEN "failed" ELSE "queued"

\* dequeue takes an expired lease back without forgetting who held it.
Promoted(row) ==
  IF HasLapsed(row)
  THEN [row EXCEPT !.status = AfterExpiry(row), !.lease = "none", !.token = 0]
  ELSE row

\* Mutant: attempts counts what is left.
Leased_CountsDown(row, token, r) ==
  [row EXCEPT !.status = "in_flight", !.attempts = @ - 1, !.lease = "live",
              !.token = token, !.by = IF r = NoRunner THEN @ ELSE r]

\* Mutant: a runner that is named stays named.
Leased_FirstRunner(row, token, r) ==
  [row EXCEPT !.status = "in_flight", !.attempts = @ + 1, !.lease = "live",
              !.token = token, !.by = IF @ = NoRunner THEN r ELSE @]

Leased(row, token, r) ==
  [row EXCEPT !.status = "in_flight", !.attempts = @ + 1, !.lease = "live",
              !.token = token, !.by = IF r = NoRunner THEN @ ELSE r]

\* The sort of dequeue: priority, then enqueued_at, then id.
Ahead(a, b) ==
  \/ PriorityOf[a] > PriorityOf[b]
  \/ PriorityOf[a] = PriorityOf[b] /\ ArrivalOf[a] < ArrivalOf[b]

Waiting(table, r) == {j \in Job : table[j].status = "queued" /\ InScope(j, r)}

\* Mutant: the job is chosen before expired leases are taken back.
Dequeue_LateExpiry(r) ==
  LET promoted == [j \in Job |-> Promoted(jobs[j])]
      waiting == Waiting(jobs, r)
  IN  /\ \/ /\ waiting = {}
            /\ jobs' = promoted
            /\ UNCHANGED <<minted, leases>>
         \/ \E t \in waiting :
              LET token == minted[t] + 1
              IN  /\ \A other \in waiting \ {t} : Ahead(t, other)
                  /\ jobs' = [promoted EXCEPT ![t] = Leased(@, token, r)]
                  /\ minted' = [minted EXCEPT ![t] = token]
                  /\ leases' = leases \cup {[job |-> t, token |-> token, runner |-> r]}
      /\ UNCHANGED <<idempotency, enq, settledBy, overrides>>

Dequeue(r) ==
  LET promoted == [j \in Job |-> Promoted(jobs[j])]
      waiting == Waiting(promoted, r)
  IN  /\ \/ /\ waiting = {}
            /\ jobs' = promoted
            /\ UNCHANGED <<minted, leases>>
         \/ \E t \in waiting :
              LET token == minted[t] + 1
              IN  /\ \A other \in waiting \ {t} : Ahead(t, other)
                  /\ jobs' = [promoted EXCEPT ![t] = Leased(@, token, r)]
                  /\ minted' = [minted EXCEPT ![t] = token]
                  /\ leases' = leases \cup {[job |-> t, token |-> token, runner |-> r]}
      /\ UNCHANGED <<idempotency, enq, settledBy, overrides>>

\* Mutant: the runner's identity is enough, the token is not compared.
Holds_AnyToken(l) ==
  /\ jobs[l.job].status = "in_flight"
  /\ jobs[l.job].by \in {NoRunner, l.runner}

\* The condition under which ack, fail and renew accept a copy.
Holds(l) ==
  /\ jobs[l.job].status = "in_flight"
  /\ jobs[l.job].token = l.token
  /\ jobs[l.job].by \in {NoRunner, l.runner}

Settled(l) ==
  /\ settledBy' = [settledBy EXCEPT ![l.job] = l.token]
  /\ UNCHANGED <<idempotency, enq, minted, leases, overrides>>

\* ack leaves leased_until as it was.
Ack(l) ==
  /\ Holds(l)
  /\ jobs' = [jobs EXCEPT ![l.job].status = "done", ![l.job].token = 0,
                          ![l.job].by = NoRunner]
  /\ Settled(l)

Fail(l) ==
  /\ Holds(l)
  /\ jobs' = [jobs EXCEPT ![l.job] = Cleared(@, "failed")]
  /\ Settled(l)

OnlyJobs == UNCHANGED <<idempotency, enq, minted, leases, settledBy, overrides>>

Renew(l) ==
  /\ Holds(l)
  /\ jobs' = [jobs EXCEPT ![l.job].lease = "live"]
  /\ OnlyJobs

ReapExpired ==
  /\ jobs' = [j \in Job |-> IF HasLapsed(jobs[j])
                            THEN Cleared(jobs[j], AfterExpiry(jobs[j]))
                            ELSE jobs[j]]
  /\ OnlyJobs

\* Mutant: cancel does not look at the status.
Cancel_AnyStatus(j) ==
  /\ jobs[j].status # "absent"
  /\ jobs' = [jobs EXCEPT ![j] = Cleared(@, "cancelled")]
  /\ OnlyJobs

Cancel(j) ==
  /\ IsActive(jobs[j])
  /\ jobs' = [jobs EXCEPT ![j] = Cleared(@, "cancelled")]
  /\ OnlyJobs

\* Time passes leased_until of j.
Lapse(j) ==
  /\ jobs[j].status = "in_flight"
  /\ jobs' = [jobs EXCEPT ![j].lease = "lapsed"]
  /\ OnlyJobs

-----------------------------------------------------------------------------
(* Operator overrides: neither looks at the status of the job. *)

Overridden(j) ==
  /\ jobs[j].status # "absent"
  /\ \A i \in Job : overrides[i] < MaxOverrides
  /\ overrides' = [overrides EXCEPT ![j] = @ + 1]
  /\ UNCHANGED <<idempotency, enq, minted, leases, settledBy>>

Requeue(j) ==
  /\ jobs' = [jobs EXCEPT ![j].status = "queued", ![j].lease = "none", ![j].token = 0]
  /\ Overridden(j)

Kill(j) ==
  /\ jobs' = [jobs EXCEPT ![j].status = "done", ![j].token = 0]
  /\ Overridden(j)

-----------------------------------------------------------------------------
Next ==
  \/ \E j \in Job : Enqueue(j) \/ Cancel(j) \/ Lapse(j) \/ Requeue(j) \/ Kill(j)
  \/ \E r \in Caller : Dequeue(r)
  \/ \E l \in leases : Ack(l) \/ Fail(l) \/ Renew(l)
  \/ ReapExpired

Spec == Init /\ [][Next]_vars

-----------------------------------------------------------------------------
(* Properties *)

\* Only the copy from the latest dequeue of a job still in flight is accepted by
\* ack, fail and renew, whatever expiry, reaping, requeue or kill came between.
StaleLeasesAreFenced ==
  \A l \in leases : Holds(l) => l.token = minted[l.job]

\* A job is handed out at most max_attempts times, and at most once more for each
\* time an operator overrides it: a poisonous job cannot run for ever.
AttemptsBounded ==
  \A j \in Job : /\ jobs[j].attempts = minted[j]
                 /\ minted[j] <= MaxAttempts + overrides[j]

\* The README of the server: "Higher priorities are leased first and equal
\* priorities remain FIFO".  A job is never leased past one that comes first and
\* could have been leased to the same caller, whether that one was waiting or
\* its lease had expired unnoticed.
FirstInOrderIsLeased ==
  [][\A l \in leases' \ leases, j \in Job :
       (/\ InScope(j, l.runner)
        /\ \/ jobs[j].status = "queued"
           \/ HasLapsed(jobs[j]) /\ jobs[j].attempts < MaxAttempts)
       => ~Ahead(j, l.job)]_vars

\* A key names one job for ever: whatever becomes of the job, its retries add no
\* second one, and a different payload never passes for a retry.
RetriesShareOneJob ==
  \A i, j \in Job :
    (KeyOf[i] = KeyOf[j] /\ KeyOf[i] # NoKey /\ enq[i] = "accepted") =>
      /\ enq[j] = "accepted" => i = j
      /\ enq[j] = "existing" => PrintOf[i] = PrintOf[j]

\* No sequence of submissions, expiries, reaps and cancellations admits more jobs
\* of a tenant scope than its limits allow; requeue alone asks no quota.
QuotaHolds ==
  HasQuota => \A s \in Scope :
    (\A j \in Job : ScopeOf[j] = s => overrides[j] = 0) =>
      /\ Cardinality(ActiveIn(jobs, s)) <= RunsMax
      /\ Units(ActiveIn(jobs, s)) <= UnitsMax

\* The latest caller of a job in flight can acknowledge what it was given.  The
\* test "rejects a stale worker ACK after the lease is fenced and reassigned"
\* asserts it of the reassigned lease.
HolderCanSettle ==
  \A l \in leases :
    (jobs[l.job].status = "in_flight" /\ l.token = minted[l.job]) => Holds(l)

\* It is true of callers with an identity.  Who is locked out has none, and is so by a
\* runner that had the job before and may be at work on it still.
LockedOut(l) ==
  /\ l.runner = NoRunner
  /\ \E former \in leases :
       /\ former.job = l.job /\ former.token < l.token
       /\ former.runner = jobs[l.job].by

IdentifiedCanSettle ==
  \A l \in leases :
    (jobs[l.job].status = "in_flight" /\ l.token = minted[l.job]) => Holds(l) \/ LockedOut(l)

\* Until an operator overrides one of them, the jobs move as the queue contract
\* says.
Contract == INSTANCE LeaseQueue WITH
  phase  <- [j \in Job |-> jobs[j].status],
  grants <- minted,
  result <- settledBy

ImplementsLeaseQueue ==
  /\ Contract!Init
  /\ [][(\A j \in Job : overrides'[j] = 0) => [Contract!Next]_(Contract!vars)]_vars

\* Why: the columns of a row agree with what was handed out and with each other, and a key is
\* bound to the one job that was accepted with it.
RowInv(j) ==
  LET row == jobs[j]
  IN  /\ row.status = "absent" <=> enq[j] # "accepted"
      /\ row.status = "absent" => minted[j] = 0
      /\ row.attempts = minted[j]
      /\ minted[j] <= MaxAttempts + overrides[j]
      /\ row.status = "queued" => minted[j] < MaxAttempts + overrides[j]
      /\ row.token = IF row.status = "in_flight" THEN minted[j] ELSE 0
      /\ settledBy[j] <= minted[j]

BindingInv ==
  /\ \A k \in Key : idempotency[k] # NoJob =>
       enq[idempotency[k]] = "accepted" /\ KeyOf[idempotency[k]] = k
  /\ \A j \in Job :
       /\ enq[j] = "accepted" /\ KeyOf[j] # NoKey => idempotency[KeyOf[j]] = j
       /\ enq[j] = "existing" => Bound(j) # NoJob /\ PrintOf[Bound(j)] = PrintOf[j]

\* A runner that is named by a row has had the job, and the latest to have it is named if it
\* has an identity.
HolderInv ==
  /\ \A l \in leases :
       /\ l.token <= minted[l.job]
       /\ (l.token = minted[l.job] /\ jobs[l.job].status = "in_flight") =>
            jobs[l.job].by = l.runner \/ LockedOut(l)
  /\ \A j \in Job : jobs[j].by # NoRunner =>
       \E former \in leases : former.job = j /\ former.runner = jobs[j].by

QueueInv == BindingInv /\ \A j \in Job : RowInv(j)

\* What clients of the queue rely on: stale copies are fenced, a runner with an identity is
\* not locked out of what it was given, jobs are handed out a bounded number of times, a key
\* names one job and no tenant exceeds its quota; with what makes it so.
QueueSafety ==
  /\ TypeOK /\ QueueInv /\ HolderInv
  /\ StaleLeasesAreFenced /\ IdentifiedCanSettle /\ AttemptsBounded
  /\ RetriesShareOneJob /\ QuotaHolds

=============================================================================
