--------------------------- MODULE PostgresQueue ----------------------------
(***************************************************************************)
(* PostgresRunnerQueue of packages/server/src/postgres-queue.ts: the table *)
(* aqa_runner_jobs shared by every API replica and worker.                 *)
(*                                                                         *)
(* Each operation but enqueue is one SQL statement, hence one action.      *)
(* enqueue is several: without a quota a SELECT by idempotency key and     *)
(* then an INSERT, in no transaction; with a quota a transaction that      *)
(* takes the advisory lock of the tenant scope, reads, and inserts.  The   *)
(* partial unique index on idempotency_key is what INSERT ... ON CONFLICT  *)
(* DO NOTHING meets.                                                       *)
(***************************************************************************)
EXTENDS QueueContract

VARIABLES
  jobs,       \* the table: [Job -> Row]
  enq,        \* enq[j]: where the enqueue call that submits j stands
  reply,      \* reply[j]: the id of the job that call answered with
  lock,       \* lock[s]: the submission whose transaction holds scope s
  minted,     \* minted[j]: lease tokens drawn for j (randomUUID never repeats)
  leases,     \* every copy dequeue ever returned, stale ones included
  settledBy   \* settledBy[j]: token whose holder settled j, 0 when none did

enqVars == <<enq, reply, lock>>
leaseVars == <<minted, leases, settledBy>>
vars == <<jobs, enq, reply, lock, minted, leases, settledBy>>

\* "refused" is an IdempotencyConflictError, "over_quota" a
\* ResourceQuotaExceededError, "broken" a lost connection or a dead replica.
EnqState == {"idle", "admit", "check", "insert",
             "accepted", "refused", "over_quota", "broken"}

TypeOK ==
  /\ jobs \in [Job -> Row]
  /\ enq \in [Job -> EnqState]
  /\ reply \in [Job -> Job \cup {NoJob}]
  /\ lock \in [Scope -> Job \cup {NoJob}]
  /\ minted \in [Job -> Nat]
  /\ leases \subseteq Lease
  /\ settledBy \in [Job -> Nat]

Init ==
  /\ jobs = [j \in Job |-> NoRow]
  /\ enq = [j \in Job |-> "idle"]
  /\ reply = [j \in Job |-> NoJob]
  /\ lock = [s \in Scope |-> NoJob]
  /\ minted = [j \in Job |-> 0]
  /\ leases = {}
  /\ settledBy = [j \in Job |-> 0]

-----------------------------------------------------------------------------
(* enqueue *)

\* The rows that carry the idempotency key of j.
Prior(j) == {p \in Job : /\ KeyOf[j] # NoKey
                         /\ KeyOf[p] = KeyOf[j]
                         /\ jobs[p].status # "absent"}

Unlocked == [s \in Scope |-> NoJob]

\* The end of the call: the transaction, if there is one, gives up its lock.
Finish(j, state, answer) ==
  /\ enq' = [enq EXCEPT ![j] = state]
  /\ reply' = [reply EXCEPT ![j] = answer]
  /\ lock' = [s \in Scope |-> IF lock[s] = j THEN NoJob ELSE lock[s]]

\* Mutant: a retry is answered without comparing fingerprints.
AnswerFrom_AnyPayload(j, p) == Finish(j, "accepted", p)

\* A row with the same key answers the call: the job it holds when the
\* fingerprints agree, IdempotencyConflictError when they differ.
AnswerFrom(j, p) ==
  IF PrintOf[p] = PrintOf[j] THEN Finish(j, "accepted", p)
                             ELSE Finish(j, "refused", NoJob)

\* The first SELECT of an enqueue without quota.
SelectPrior(j) ==
  /\ ~HasQuota
  /\ enq[j] = "idle"
  /\ \/ \E p \in Prior(j) : AnswerFrom(j, p)
     \/ /\ Prior(j) = {}
        /\ enq' = [enq EXCEPT ![j] = "insert"]
        /\ UNCHANGED <<reply, lock>>
  /\ UNCHANGED <<jobs, leaseVars>>

\* Mutant: the transaction begins without the advisory lock.
LockScope_NoWait(j) ==
  /\ HasQuota
  /\ enq[j] = "idle"
  /\ enq' = [enq EXCEPT ![j] = "admit"]
  /\ UNCHANGED <<jobs, reply, lock, leaseVars>>

\* enqueueWithQuota begins its transaction and waits for the scope's lock.
LockScope(j) ==
  /\ HasQuota
  /\ enq[j] = "idle"
  /\ \/ /\ ScopeOf[j] \in Scope
        /\ lock[ScopeOf[j]] = NoJob
        /\ lock' = [lock EXCEPT ![ScopeOf[j]] = j]
     \/ /\ ScopeOf[j] = NoScope
        /\ UNCHANGED lock
  /\ enq' = [enq EXCEPT ![j] = "admit"]
  /\ UNCHANGED <<jobs, reply, leaseVars>>

\* The transaction reads the row with the same key before anything else.
FindPrior(j) ==
  /\ enq[j] = "admit"
  /\ \/ \E p \in Prior(j) : AnswerFrom(j, p)
     \/ /\ Prior(j) = {}
        /\ enq' = [enq EXCEPT ![j] = "check"]
        /\ UNCHANGED <<reply, lock>>
  /\ UNCHANGED <<jobs, leaseVars>>

\* Then it reads the active rows and compares them with the quota.
CheckQuota(j) ==
  /\ enq[j] = "check"
  /\ \/ /\ ~WithinQuota(jobs, j)
        /\ Finish(j, "over_quota", NoJob)
     \/ /\ WithinQuota(jobs, j)
        /\ enq' = [enq EXCEPT ![j] = "insert"]
        /\ UNCHANGED <<reply, lock>>
  /\ UNCHANGED <<jobs, leaseVars>>

\* Mutant: the key has no unique index for the INSERT to meet.
Insert_NoIndex(j) ==
  /\ enq[j] = "insert"
  /\ jobs' = [jobs EXCEPT ![j] = NewRow]
  /\ Finish(j, "accepted", j)
  /\ UNCHANGED leaseVars

\* INSERT ... ON CONFLICT DO NOTHING.  When the unique index reports a row
\* with the same key, the code reads it back; rows are never deleted, so that
\* SELECT finds the row the INSERT met.
Insert(j) ==
  /\ enq[j] = "insert"
  /\ \/ \E p \in Prior(j) : AnswerFrom(j, p) /\ UNCHANGED jobs
     \/ /\ Prior(j) = {}
        /\ jobs' = [jobs EXCEPT ![j] = NewRow]
        /\ Finish(j, "accepted", j)
  /\ UNCHANGED leaseVars

\* The replica or its connection dies: an open transaction rolls back.
BreakEnqueue(j) ==
  /\ enq[j] \in {"admit", "check", "insert"}
  /\ Finish(j, "broken", NoJob)
  /\ UNCHANGED <<jobs, leaseVars>>

-----------------------------------------------------------------------------
(* Leases *)

\* The row with every lease column set to NULL.
Release(row, status) ==
  [row EXCEPT !.status = status, !.lease = "none", !.token = 0, !.by = NoRunner]

\* Mutant: one attempt more than the limit.
AtLimit_OneMore(row) == row.attempts > MaxAttempts

\* An expired lease at the limit is dead-lettered, below it the job waits again.
AtLimit(row) == row.attempts >= MaxAttempts

Dead == {j \in Job : HasLapsed(jobs[j]) /\ AtLimit(jobs[j])}

\* Mutant: only a reaper brings an expired lease back to the queue.
Candidates_QueuedOnly(r) ==
  {j \in Job : InScope(j, r) /\ jobs[j].status = "queued"}

Candidates(r) ==
  {j \in Job : /\ InScope(j, r)
               /\ \/ jobs[j].status = "queued"
                  \/ HasLapsed(jobs[j]) /\ ~AtLimit(jobs[j])}

\* Mutants: attempts counts what is left; an anonymous lease keeps leased_by.
Leased_CountsDown(row, token, r) ==
  [row EXCEPT !.status = "in_flight", !.attempts = @ - 1, !.lease = "live",
              !.token = token, !.by = r]

Leased_KeepsHolder(row, token, r) ==
  [row EXCEPT !.status = "in_flight", !.attempts = @ + 1, !.lease = "live",
              !.token = token, !.by = IF r = NoRunner THEN @ ELSE r]

Leased(row, token, r) ==
  [row EXCEPT !.status = "in_flight", !.attempts = @ + 1, !.lease = "live",
              !.token = token, !.by = r]

\* One statement retires every dead job and leases one candidate to r.  FOR
\* UPDATE SKIP LOCKED passes over rows another statement holds, whatever their
\* priority, so any candidate may be the one taken, or none.
Dequeue(r, t) ==
  LET token == minted[t] + 1
  IN  /\ t \in Candidates(r)
      /\ jobs' = [j \in Job |->
                    IF j = t THEN Leased(jobs[j], token, r)
                    ELSE IF j \in Dead THEN Release(jobs[j], "failed")
                    ELSE jobs[j]]
      /\ minted' = [minted EXCEPT ![t] = token]
      /\ leases' = leases \cup {[job |-> t, token |-> token, runner |-> r]}
      /\ UNCHANGED <<enqVars, settledBy>>

\* The same statement when every candidate is locked or there is none.
DequeueNothing ==
  /\ Dead # {}
  /\ jobs' = [j \in Job |-> IF j \in Dead THEN Release(jobs[j], "failed") ELSE jobs[j]]
  /\ UNCHANGED <<enqVars, leaseVars>>

\* Mutant: the runner's identity is enough, the token is not compared.
Holds_AnyToken(l) ==
  /\ jobs[l.job].status = "in_flight"
  /\ jobs[l.job].by \in {NoRunner, l.runner}

\* The WHERE clause of ack, fail and renew.
Holds(l) ==
  /\ jobs[l.job].status = "in_flight"
  /\ jobs[l.job].token = l.token
  /\ jobs[l.job].by \in {NoRunner, l.runner}

Settle(l, status) ==
  /\ Holds(l)
  /\ jobs' = [jobs EXCEPT ![l.job] = Release(@, status)]
  /\ settledBy' = [settledBy EXCEPT ![l.job] = l.token]
  /\ UNCHANGED <<enqVars, minted, leases>>

Ack(l) == Settle(l, "done")

Fail(l) == Settle(l, "failed")

Renew(l) ==
  /\ Holds(l)
  /\ jobs' = [jobs EXCEPT ![l.job].lease = "live"]
  /\ UNCHANGED <<enqVars, leaseVars>>

ReapExpired ==
  /\ \E j \in Job : HasLapsed(jobs[j])
  /\ jobs' = [j \in Job |->
                IF HasLapsed(jobs[j])
                THEN Release(jobs[j], IF AtLimit(jobs[j]) THEN "failed" ELSE "queued")
                ELSE jobs[j]]
  /\ UNCHANGED <<enqVars, leaseVars>>

\* Mutant: cancel does not look at the status.
Cancel_AnyStatus(j) ==
  /\ jobs[j].status # "absent"
  /\ jobs' = [jobs EXCEPT ![j] = Release(@, "cancelled")]
  /\ UNCHANGED <<enqVars, leaseVars>>

Cancel(j) ==
  /\ IsActive(jobs[j])
  /\ jobs' = [jobs EXCEPT ![j] = Release(@, "cancelled")]
  /\ UNCHANGED <<enqVars, leaseVars>>

\* Time passes leased_until of j.
Lapse(j) ==
  /\ jobs[j].status = "in_flight"
  /\ jobs[j].lease = "live"
  /\ jobs' = [jobs EXCEPT ![j].lease = "lapsed"]
  /\ UNCHANGED <<enqVars, leaseVars>>

-----------------------------------------------------------------------------
Enqueue(j) ==
  \/ SelectPrior(j) \/ Insert(j) \/ BreakEnqueue(j)
  \/ LockScope(j) \/ FindPrior(j) \/ CheckQuota(j)

\* A caller may present any copy it was ever handed, however old.
Next ==
  \/ \E j \in Job : Enqueue(j) \/ Cancel(j) \/ Lapse(j)
  \/ \E r \in Caller, t \in Job : Dequeue(r, t)
  \/ \E l \in leases : Ack(l) \/ Fail(l) \/ Renew(l)
  \/ DequeueNothing
  \/ ReapExpired

Spec == Init /\ [][Next]_vars

-----------------------------------------------------------------------------
(* Properties *)

\* ADR-100: "stale workers are stopped cooperatively and their tokens cannot
\* mutate the new owner's state": of all the copies handed out for a job, only
\* the one from the latest dequeue passes the WHERE clause of ack, fail, renew.
StaleLeasesAreFenced ==
  \A l \in leases : Holds(l) => l.token = minted[l.job]

\* The latest caller of a job in flight is never locked out of its own lease,
\* whoever held the job before: it can always acknowledge what it was given.
HolderCanSettle ==
  \A l \in leases :
    (jobs[l.job].status = "in_flight" /\ l.token = minted[l.job]) => Holds(l)

\* Crashing or hanging workers cannot run a job for ever: a job is handed out at
\* most max_attempts times, however its leases end.
AttemptsBounded ==
  \A j \in Job : minted[j] <= MaxAttempts /\ jobs[j].attempts = minted[j]

\* Why the three hold: what the columns of a row say to each other and to the
\* copies that were handed out.
RowInv(j) ==
  LET row == jobs[j]
  IN  /\ row.attempts = minted[j] /\ minted[j] <= MaxAttempts
      /\ row.status = "absent" => minted[j] = 0
      /\ row.status = "queued" => minted[j] < MaxAttempts
      /\ row.status = "in_flight" =>
           minted[j] > 0 /\ row.token = minted[j] /\ row.lease # "none"
      /\ row.status # "in_flight" =>
           row.token = 0 /\ row.by = NoRunner /\ row.lease = "none"
      /\ enq[j] \in {"idle", "admit", "check", "insert"} => row.status = "absent"

CopyInv(l) ==
  /\ l.token <= minted[l.job]
  /\ (jobs[l.job].status = "in_flight" /\ l.token = minted[l.job])
       => jobs[l.job].by = l.runner

LeaseInv ==
  /\ \A j \in Job : RowInv(j)
  /\ \A l \in leases : CopyInv(l)

\* What holders of leases rely on: stale copies are fenced, the latest holder is not, and a
\* job is handed out a bounded number of times; with the columns that make it so.
LeaseSafety ==
  TypeOK /\ LeaseInv /\ StaleLeasesAreFenced /\ HolderCanSettle /\ AttemptsBounded

\* ADR-039: concurrent queue clients never admit more runs of one tenant scope
\* than its limit, whatever lease recovery and cancellation do meanwhile.
RunsQuotaHolds ==
  HasQuota => \A s \in Scope : Cardinality(ActiveIn(jobs, s)) <= RunsMax

\* The same for the declared scenario units.
ScenarioQuotaHolds ==
  HasQuota => \A s \in Scope : Units(ActiveIn(jobs, s)) <= UnitsMax

\* Why the limits hold: a transaction that has begun holds its tenant's lock, and the
\* comparison that let it through still holds when it inserts its row.
LockInv ==
  \A j \in Job :
    (enq[j] \in {"admit", "check", "insert"} /\ ScopeOf[j] \in Scope)
      => lock[ScopeOf[j]] = j

RoomInv == \A j \in Job : enq[j] = "insert" => WithinQuota(jobs, j)

QuotaInv == HasQuota => LockInv /\ RoomInv

\* While a transaction holds its tenant's lock, no other inserts a row with its key: that
\* there was none is still true when the quota is compared.
PriorInv ==
  \A j \in Job :
    enq[j] \in {"admit", "check"} =>
      HasQuota /\ (enq[j] = "check" /\ ScopeOf[j] \in Scope => Prior(j) = {})

\* The limits of a tenant hold, with what makes them hold.
QuotaSafety == QuotaInv /\ PriorInv /\ RunsQuotaHolds /\ ScenarioQuotaHolds

\* ADR-030: an identical retry gets the original job, a changed payload is
\* refused.  Two accepted submissions with one key have one fingerprint and name
\* the same job, which is in the table.
RetriesShareOneJob ==
  \A i, j \in Job :
    /\ enq[i] = "accepted" => jobs[reply[i]].status # "absent"
    /\ (/\ KeyOf[i] = KeyOf[j]
        /\ KeyOf[i] # NoKey
        /\ enq[i] = "accepted"
        /\ enq[j] = "accepted")
       => reply[i] = reply[j] /\ PrintOf[i] = PrintOf[j]

\* Why: a key is in the table once, and what a call was answered with is its own job or
\* one of its key and fingerprint.
KeyInv ==
  /\ \A p, q \in Job :
       (/\ jobs[p].status # "absent" /\ jobs[q].status # "absent"
        /\ KeyOf[p] = KeyOf[q] /\ KeyOf[p] # NoKey)
       => p = q
  /\ \A j \in Job :
       enq[j] = "accepted" =>
         /\ reply[j] \in Job /\ jobs[reply[j]].status # "absent"
         /\ KeyOf[reply[j]] = KeyOf[j] /\ PrintOf[reply[j]] = PrintOf[j]

\* Retries share one job, with what makes them.
RetrySafety == KeyInv /\ RetriesShareOneJob

\* ADR-039: "idempotent retries resolve to the original job before quota
\* evaluation": at the moment a submission is turned away for lack of capacity
\* the table holds no job it could have been answered with, although it looked
\* for one in an earlier statement.
RetryPrecedesQuota ==
  [][\A j \in Job :
       (enq[j] # "over_quota" /\ enq'[j] = "over_quota") => Prior(j) = {}]_vars

\* Every step of the table is a step of the queue contract: LeaseQueue.
Contract == INSTANCE LeaseQueue WITH
  phase  <- [j \in Job |-> jobs[j].status],
  grants <- minted,
  result <- settledBy

ImplementsLeaseQueue == Contract!Spec

=============================================================================
