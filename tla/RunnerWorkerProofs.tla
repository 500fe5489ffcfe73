------------------------- MODULE RunnerWorkerProofs -------------------------
(***************************************************************************)
(* Theorems about RunnerWorker: that its workers, timers, crashes and lost *)
(* answers are nothing but uses of the queue, so that the lease invariant  *)
(* of PostgresQueue holds under them, and that what a run of runOnce       *)
(* reports stays true of the queue; and about RunExecution, the run that a *)
(* worker hands its job to, whatever the scenarios of it.                  *)
(***************************************************************************)
EXTENDS RunnerWorker, RunExecution, PostgresQueueProofs

-----------------------------------------------------------------------------
(* The workers use the queue *)

\* A run that reports has the copy of a job.
LEMMA CopyTypes ==
  ASSUME TypeOK, WorkerInv, NEW r \in Runner, Watching(r)
  PROVE  Copy(r) \in leases /\ Copy(r) \in Lease /\ Copy(r).job \in Job
BY DEF WorkerInv, TypeOK, Lease

\* Every await of a worker is a statement of the queue, made with a copy that was handed
\* out, or leaves the queue alone.
LEMMA QueueStep ==
  ASSUME TypeOK, WorkerTypeOK, WorkerInv, [WorkerNext]_allVars
  PROVE  [Next]_vars
<1>1. CASE Environment
  BY <1>1 DEF Environment, Next
<1>2. ASSUME NEW r \in Runner, Poll(r)
      PROVE  [Next]_vars
  BY <1>2 DEF Poll, Caller, Next
<1>3. ASSUME NEW r \in Runner, ProbeRenew(r)
      PROVE  [Next]_vars
  <2>1. PICK sent \in probe[r] : Renew(sent) \/ UNCHANGED vars
    BY <1>3 DEF ProbeRenew, Refused, queueVars
  <2>2. sent \in leases
    BY <2>1 DEF WorkerInv
  <2> QED
    BY <2>1, <2>2 DEF Next
<1>4. ASSUME NEW r \in Runner, SendAck(r) \/ SendFail(r) \/ BreakFail(r)
      PROVE  [Next]_vars
  <2>1. Copy(r) \in leases
    BY <1>4, CopyTypes DEF SendAck, SendFail, BreakFail, At, WorkerInv
  <2>2. Ack(Copy(r)) \/ Fail(Copy(r)) \/ UNCHANGED vars
    BY <1>4 DEF SendAck, SendFail, BreakFail, Refused, queueVars
  <2> QED
    BY <2>1, <2>2 DEF Next
<1>5. ASSUME NEW r \in Runner,
             \/ ProbeGet(r) \/ Return(r) \/ Throw(r) \/ LookThenAck(r) \/ LookThenFail(r)
             \/ Crash(r) \/ Restart(r)
      PROVE  UNCHANGED vars
  BY <1>5 DEF ProbeGet, Return, Throw, LookThenAck, LookThenFail, Crash, Restart, queueVars
<1>6. CASE UNCHANGED allVars
  BY <1>6 DEF allVars
<1> QED
  BY <1>1, <1>2, <1>3, <1>4, <1>5, <1>6 DEF WorkerNext, WorkerStep, MainStep

\* No copy is ever taken back.
LEMMA CopiesStay ==
  ASSUME TypeOK, [Next]_vars
  PROVE  leases \subseteq leases'
<1>1. ASSUME NEW j \in Job, Enqueue(j)
      PROVE  leases' = leases
  BY <1>1, EnqueueRows
<1> QED
  BY <1>1 DEF Next, Dequeue, Cancel, Lapse, Ack, Fail, Settle, Renew, DequeueNothing, ReapExpired,
              leaseVars, vars

\* A lease that is lost stays lost, whatever becomes of its job.
LEMMA LostForGood ==
  ASSUME TypeOK, LeaseInv, [Next]_vars, NEW l \in leases, ~Holds(l)
  PROVE  ~Holds(l)'
<1>1. l \in Lease /\ l.job \in Job /\ l.token <= minted[l.job] /\ jobs[l.job] \in Row
  BY DEF TypeOK, Lease, LeaseInv, CopyInv
<1>2. CASE Retires
  <2>1. jobs'[l.job].status = "in_flight" => jobs'[l.job] = jobs[l.job]
    BY <1>1, <1>2, ReleaseKeepsRow DEF Retires, Status
  <2> QED
    BY <2>1 DEF Holds
<1>3. ASSUME NEW j \in Job, Enqueue(j)
      PROVE  ~Holds(l)'
  <2>1. jobs'[l.job] \in {jobs[l.job], NewRow}
    BY <1>1, <1>3, EnqueueRows DEF TypeOK
  <2> QED
    BY <2>1 DEF Holds, NewRow, NoRow
<1>4. ASSUME NEW r \in Caller, NEW t \in Job, Dequeue(r, t)
      PROVE  ~Holds(l)'
  <2>1. CASE l.job = t
    <3>1. jobs'[t].token = minted[t] + 1
      BY <1>1, <1>4, <2>1, LeasedRow DEF Dequeue, TypeOK
    <3>2. l.token # minted[t] + 1
      BY <1>1, <2>1 DEF TypeOK, Lease
    <3> QED
      BY <2>1, <3>1, <3>2 DEF Holds
  <2>2. CASE l.job # t
    <3>1. jobs'[l.job] \in {jobs[l.job], Release(jobs[l.job], "failed")}
      BY <1>1, <1>4, <2>2 DEF Dequeue
    <3>2. Release(jobs[l.job], "failed").status = "failed"
      BY <1>1, ReleaseKeepsRow DEF Status
    <3> QED
      BY <3>1, <3>2 DEF Holds
  <2> QED
    BY <2>1, <2>2
<1>5. ASSUME NEW j \in Job, NEW lease, jobs' = [jobs EXCEPT ![j].lease = lease]
      PROVE  ~Holds(l)'
  BY <1>1, <1>5 DEF Holds, TypeOK, Row
<1>6. ASSUME NEW j \in Job, Lapse(j)
      PROVE  ~Holds(l)'
  BY <1>5, <1>6 DEF Lapse
<1>7. ASSUME NEW k \in leases, Renew(k)
      PROVE  ~Holds(l)'
  <2>1. k.job \in Job
    BY DEF TypeOK, Lease
  <2> QED
    BY <1>5, <1>7, <2>1 DEF Renew
<1>8. CASE UNCHANGED vars
  BY <1>8 DEF vars, Holds
<1> QED
  BY <1>2, <1>3, <1>4, <1>6, <1>7, <1>8, RetiringSteps DEF Next

\* A job that is done stays done, by the lease that settled it.
LEMMA DoneForGood ==
  ASSUME TypeOK, TypeOK', LeaseInv, [Next]_vars, NEW j \in Job, jobs[j].status = "done"
  PROVE  jobs'[j].status = "done" /\ settledBy'[j] = settledBy[j]
BY JobsMove DEF Contract!Move, Contract!Stays, Contract!Keeps, Contract!Goes, Contract!Submit,
                Contract!Grant, Contract!Expire, Contract!Settle, Contract!Cancel

-----------------------------------------------------------------------------
(* Type correctness *)

\* A worker between two runs.
LEMMA RestingState ==
  ASSUME NEW pc \in {"idle", "handling", "stopped"}
  PROVE  /\ Resting(pc) \in Local /\ Resting(pc).pc = pc
         /\ Resting(pc).job = NoJob /\ Resting(pc).aborts = {}
BY DEF Resting, Local, Pc

\* A worker that stands elsewhere, or whose handler is aborted once more, has its copy still.
LEMMA SameCopy ==
  ASSUME WorkerTypeOK, NEW r \in Runner, NEW pc \in Pc, NEW why \in Abortion,
         Goto(r, pc) \/ Abort(r, why)
  PROVE  /\ worker' \in [Runner -> Local]
         /\ \A q \in Runner : /\ worker'[q].job = worker[q].job
                              /\ worker'[q].token = worker[q].token
                              /\ Copy(q)' = Copy(q) /\ (Watching(q)' <=> Watching(q))
         /\ \A q \in Runner \ {r} : worker'[q] = worker[q]
<1>0. worker[r] \in Local
  BY DEF WorkerTypeOK
<1>1. CASE Goto(r, pc)
  <2>1. worker' \in [Runner -> Local]
    BY <1>0, <1>1 DEF Goto, WorkerTypeOK, Local
  <2>2. \A q \in Runner : worker'[q].job = worker[q].job /\ worker'[q].token = worker[q].token
    BY <1>0, <1>1 DEF Goto, WorkerTypeOK, Local
  <2> QED
    BY <1>1, <2>1, <2>2 DEF Goto, WorkerTypeOK, Copy, Watching
<1>2. CASE Abort(r, why)
  <2>1. worker[r].aborts \cup {why} \in SUBSET Abortion
    BY <1>0 DEF Local
  <2>2. ASSUME NEW aborts \in SUBSET Abortion, worker' = [worker EXCEPT ![r].aborts = aborts]
        PROVE  /\ worker' \in [Runner -> Local]
               /\ \A q \in Runner : worker'[q].job = worker[q].job
                                    /\ worker'[q].token = worker[q].token
               /\ \A q \in Runner \ {r} : worker'[q] = worker[q]
    BY <1>0, <2>2 DEF WorkerTypeOK, Local
  <2>3. worker' = [worker EXCEPT ![r].aborts = worker[r].aborts \cup {why}]
    BY <1>2 DEF Abort
  <2> QED
    BY <2>1, <2>2, <2>3 DEF Copy, Watching
<1> QED
  BY <1>1, <1>2

\* A run that is over leaves a worker at rest, and what it reports has its copy.
LEMMA AtRest ==
  ASSUME WorkerTypeOK, NEW r \in Runner, NEW pc \in {"idle", "stopped"},
         worker' = [worker EXCEPT ![r] = Resting(pc)]
  PROVE  /\ worker' \in [Runner -> Local]
         /\ ~Watching(r)' /\ worker'[r].pc = pc
         /\ \A q \in Runner \ {r} : worker'[q] = worker[q]
         /\ \A q \in Runner \ {r} : Copy(q)' = Copy(q) /\ (Watching(q)' <=> Watching(q))
BY RestingState DEF WorkerTypeOK, Watching, Copy

-----------------------------------------------------------------------------
(* What a step does to the worker itself *)

\* A step of worker r leases a job, goes on or aborts with the copy that it has, reports a
\* run with it, rests, or leaves its state alone.
Turn(r) ==
  \/ \E t \in Job :
       /\ [job |-> t, token |-> minted'[t], runner |-> r] \in leases'
       /\ worker' = [worker EXCEPT ![r] = [Resting("handling") EXCEPT
                       !.job = t, !.token = minted'[t]]]
       /\ UNCHANGED reports
  \/ \E pc \in Pc : Watching(r) /\ Goto(r, pc) /\ UNCHANGED reports
  \/ \E why \in Abortion :
       Watching(r) /\ Abort(r, why) /\ UNCHANGED reports /\ (why = "fenced" => ~Holds(Copy(r)))
  \/ \E status \in Outcome :
       /\ Watching(r) /\ Report(r, status)
       /\ status = "completed" => Ack(Copy(r))
       /\ status = "lease_lost" => ~Holds(Copy(r)) \/ "unreachable" \in worker[r].aborts
  \/ \E pc \in {"idle", "stopped"} :
       worker' = [worker EXCEPT ![r] = Resting(pc)] /\ UNCHANGED reports
  \/ UNCHANGED <<worker, reports>>

\* It asks for one renewal more, or one is answered.
Probes(r) ==
  \/ Watching(r) /\ probe' = [probe EXCEPT ![r] = @ \cup {Copy(r)}]
  \/ \E sent \in probe[r] : probe' = [probe EXCEPT ![r] = @ \ {sent}]
  \/ UNCHANGED probe

\* A run is given up as lost only if its handler was aborted for it.
LEMMA ConcludeTurns ==
  ASSUME WorkerTypeOK, LeaseLostIsReal, NEW r \in Runner, Watching(r),
         NEW next \in Pc, Conclude(r, next)
  PROVE  Turn(r)
<1>1. CASE Report(r, "cancelled")
  BY <1>1 DEF Turn, Outcome
<1>2. CASE ~IsCancelled(r) /\ Aborted(r) /\ Report(r, "lease_lost")
  <2>1. "fenced" \in worker[r].aborts \/ "unreachable" \in worker[r].aborts
    BY <1>2 DEF IsCancelled, Aborted, WorkerTypeOK, Local, Abortion
  <2>2. ~Holds(Copy(r)) \/ "unreachable" \in worker[r].aborts
    BY <2>1 DEF LeaseLostIsReal
  <2> QED
    BY <1>2, <2>2 DEF Turn, Outcome
<1>3. CASE Goto(r, next) /\ UNCHANGED reports
  BY <1>3 DEF Turn
<1> QED
  BY <1>1, <1>2, <1>3 DEF Conclude

\* Each action is one of these turns.
LEMMA StepTurns ==
  ASSUME TypeOK, WorkerTypeOK, WorkerInv, LeaseLostIsReal, NEW r \in Runner, WorkerStep(r)
  PROVE  Turn(r) /\ Probes(r)
<1>0. /\ {"idle", "handling", "returned", "acking", "caught", "failing"} \subseteq Pc
      /\ worker[r].pc \notin {"idle", "stopped"} => Watching(r)
      /\ Watching(r) => Copy(r) \in leases
  BY DEF Pc, WorkerInv
<1>1. CASE Poll(r)
  <2>1. ASSUME NEW t \in Job, Dequeue(r, t)
        PROVE  [job |-> t, token |-> minted'[t], runner |-> r] \in leases'
    BY <2>1 DEF Dequeue, TypeOK
  <2> QED
    BY <1>1, <2>1 DEF Poll, Turn, Stop, Probes
<1>2. CASE ProbeGet(r)
  <2>1. StatusOf(r) \notin {"cancelled", "in_flight"} => ~Holds(Copy(r))
    BY DEF StatusOf, Holds, Copy
  <2> QED
    BY <1>2, <2>1 DEF ProbeGet, Turn, Probes, Abortion
<1>3. CASE ProbeRenew(r)
  <2>1. PICK sent \in probe[r] :
          /\ probe' = [probe EXCEPT ![r] = @ \ {sent}]
          /\ UNCHANGED reports
          /\ \/ UNCHANGED worker
             \/ ~Holds(sent) /\ Copy(r) = sent /\ Abort(r, "fenced")
             \/ Copy(r) = sent /\ Abort(r, "unreachable")
    BY <1>3 DEF ProbeRenew, Refused
  <2>2. Copy(r) = sent => Watching(r)
    BY JobsAssumption DEF Copy, Watching, WorkerInv, TypeOK, Lease
  <2> QED
    BY <2>1, <2>2 DEF Turn, Probes, Abortion
<1>4. CASE Return(r) \/ Throw(r)
  BY <1>0, <1>4 DEF Return, Throw, At, Turn, Probes
<1>5. CASE LookThenAck(r) \/ LookThenFail(r)
  <2>1. Watching(r)
    BY <1>0, <1>5 DEF LookThenAck, LookThenFail, At
  <2>2. \/ Conclude(r, "acking") \/ Conclude(r, "failing")
        \/ Goto(r, "caught") /\ UNCHANGED reports
        \/ Stop(r) /\ UNCHANGED reports
    BY <1>5 DEF LookThenAck, LookThenFail
  <2>3. Turn(r)
    BY <1>0, <2>1, <2>2, ConcludeTurns DEF Turn, Stop
  <2> QED
    BY <1>5, <2>3 DEF LookThenAck, LookThenFail, Probes
<1>6. CASE SendAck(r)
  <2>1. Watching(r)
    BY <1>0, <1>6 DEF SendAck, At
  <2>2. \/ Ack(Copy(r)) /\ Report(r, "completed")
        \/ ~Holds(Copy(r)) /\ Report(r, "lease_lost")
        \/ Goto(r, "caught") /\ UNCHANGED reports
    BY <1>6 DEF SendAck, Refused
  <2> QED
    BY <1>0, <1>6, <2>1, <2>2 DEF SendAck, Turn, Outcome, Probes
<1>7. CASE SendFail(r) \/ BreakFail(r)
  <2>1. Watching(r)
    BY <1>0, <1>7 DEF SendFail, BreakFail, At
  <2> QED
    BY <1>7, <2>1 DEF SendFail, BreakFail, Stop, Turn, Outcome, Probes
<1>8. CASE Crash(r) \/ Restart(r)
  BY <1>8 DEF Crash, Restart, Stop, Turn, Probes
<1> QED
  BY <1>1, <1>2, <1>3, <1>4, <1>5, <1>6, <1>7, <1>8 DEF WorkerStep, MainStep

\* A turn keeps the types and the copies.
LEMMA TurnKeepsCopies ==
  ASSUME TypeOK, TypeOK', WorkerTypeOK, WorkerInv, leases \subseteq leases',
         NEW r \in Runner, Turn(r), Probes(r)
  PROVE  WorkerTypeOK' /\ WorkerInv'
<1>0. /\ worker[r] \in Local
      /\ Watching(r) => Copy(r) \in leases /\ Copy(r) \in Lease
      /\ leases' \subseteq Lease
  BY CopyTypes DEF WorkerTypeOK, TypeOK
<1>1. /\ probe' \in [Runner -> SUBSET Lease]
      /\ \A q \in Runner : probe'[q] \subseteq leases'
  BY <1>0 DEF Probes, WorkerTypeOK, WorkerInv
<1>2. /\ reports' \subseteq [lease : Lease, status : Outcome, aborts : SUBSET Abortion]
      /\ \A x \in reports' : x.lease \in leases'
  <2>1. CASE UNCHANGED reports
    BY <2>1 DEF WorkerTypeOK, WorkerInv
  <2>2. ASSUME NEW status \in Outcome, Watching(r), Report(r, status)
        PROVE  /\ reports' \subseteq [lease : Lease, status : Outcome, aborts : SUBSET Abortion]
               /\ \A x \in reports' : x.lease \in leases'
    <3>1. worker[r].aborts \in SUBSET Abortion
      BY <1>0 DEF Local
    <3> QED
      BY <1>0, <2>2, <3>1 DEF Report, WorkerTypeOK, WorkerInv
  <2> QED
    BY <2>1, <2>2 DEF Turn
<1>3. /\ worker' \in [Runner -> Local]
      /\ \A q \in Runner : /\ worker'[q].pc \notin {"idle", "stopped"} => Watching(q)'
                           /\ Watching(q)' => Copy(q)' \in leases'
  <2>1. ASSUME NEW pc \in Pc, NEW why \in Abortion, Watching(r), Goto(r, pc) \/ Abort(r, why)
        PROVE  /\ worker' \in [Runner -> Local]
               /\ \A q \in Runner : /\ worker'[q].pc \notin {"idle", "stopped"} => Watching(q)'
                                    /\ Watching(q)' => Copy(q)' \in leases'
    BY <2>1, SameCopy DEF WorkerInv
  <2>2. ASSUME NEW pc \in {"idle", "stopped"}, worker' = [worker EXCEPT ![r] = Resting(pc)]
        PROVE  /\ worker' \in [Runner -> Local]
               /\ \A q \in Runner : /\ worker'[q].pc \notin {"idle", "stopped"} => Watching(q)'
                                    /\ Watching(q)' => Copy(q)' \in leases'
    <3>1. ASSUME NEW q \in Runner, q # r
          PROVE  /\ worker'[q].pc \notin {"idle", "stopped"} => Watching(q)'
                 /\ Watching(q)' => Copy(q)' \in leases'
      BY <2>2, <3>1, AtRest DEF WorkerInv
    <3> QED
      BY <2>2, <3>1, AtRest
  <2>3. ASSUME NEW t \in Job, [job |-> t, token |-> minted'[t], runner |-> r] \in leases',
               worker' = [worker EXCEPT ![r] = [Resting("handling") EXCEPT
                            !.job = t, !.token = minted'[t]]]
        PROVE  /\ worker' \in [Runner -> Local]
               /\ \A q \in Runner : /\ worker'[q].pc \notin {"idle", "stopped"} => Watching(q)'
                                    /\ Watching(q)' => Copy(q)' \in leases'
    <3>1. minted'[t] \in Nat
      BY DEF TypeOK
    <3>2. ASSUME NEW n \in Nat
          PROVE  LET local == [Resting("handling") EXCEPT !.job = t, !.token = n]
                 IN  local \in Local /\ local.job = t /\ local.token = n
      BY DEF Resting, Local, Pc
    <3>3. /\ worker' \in [Runner -> Local]
          /\ worker'[r].job = t /\ worker'[r].token = minted'[t]
          /\ \A q \in Runner \ {r} : worker'[q] = worker[q]
      BY <2>3, <3>1, <3>2 DEF WorkerTypeOK
    <3>4. Watching(r)' /\ Copy(r)' \in leases'
      BY <2>3, <3>3, JobsAssumption DEF Watching, Copy
    <3> QED
      BY <3>3, <3>4 DEF WorkerInv, Watching, Copy
  <2>4. CASE UNCHANGED worker
    BY <2>4 DEF WorkerTypeOK, WorkerInv, Watching, Copy
  <2>5. "idle" \in Pc /\ "fenced" \in Abortion
    BY DEF Pc, Abortion
  <2> QED
    BY <2>1, <2>2, <2>3, <2>4, <2>5 DEF Turn, Report
<1> QED
  BY <1>1, <1>2, <1>3 DEF WorkerTypeOK, WorkerInv

\* What a run has reported stays true.
LEMMA ReportsStayTrue ==
  ASSUME TypeOK, TypeOK', LeaseInv, WorkerInv, [Next]_vars,
         CompletedIsAcked, LeaseLostIsReal, NEW x \in reports
  PROVE  /\ x.status = "completed" =>
              jobs'[x.lease.job].status = "done" /\ settledBy'[x.lease.job] = x.lease.token
         /\ x.status = "lease_lost" => ~Holds(x.lease)' \/ "unreachable" \in x.aborts
<1>1. ASSUME x.status = "completed"
      PROVE  jobs'[x.lease.job].status = "done" /\ settledBy'[x.lease.job] = x.lease.token
  <2>1. x.lease.job \in Job
    BY DEF WorkerInv, TypeOK, Lease
  <2> QED
    BY <1>1, <2>1, DoneForGood DEF CompletedIsAcked
<1>2. ASSUME x.status = "lease_lost"
      PROVE  ~Holds(x.lease)' \/ "unreachable" \in x.aborts
  <2>1. x.lease \in leases
    BY DEF WorkerInv
  <2> QED
    BY <1>2, <2>1, LostForGood DEF LeaseLostIsReal
<1> QED
  BY <1>1, <1>2

\* What a run reports is true when it does.
LEMMA TurnKeepsReports ==
  ASSUME TypeOK, TypeOK', LeaseInv, WorkerTypeOK, WorkerInv, [Next]_vars,
         CompletedIsAcked, LeaseLostIsReal, NEW r \in Runner, Turn(r)
  PROVE  CompletedIsAcked' /\ LeaseLostIsReal'
<1>3. ASSUME NEW x \in reports' \ reports
      PROVE  /\ x.status = "completed" =>
                  jobs'[x.lease.job].status = "done" /\ settledBy'[x.lease.job] = x.lease.token
             /\ x.status = "lease_lost" => ~Holds(x.lease)' \/ "unreachable" \in x.aborts
  <2>1. PICK status \in Outcome :
          /\ Watching(r) /\ Report(r, status)
          /\ status = "completed" => Ack(Copy(r))
          /\ status = "lease_lost" => ~Holds(Copy(r)) \/ "unreachable" \in worker[r].aborts
    BY <1>3 DEF Turn
  <2>2. PICK l \in leases : l = Copy(r)
    BY <2>1, CopyTypes
  <2>3. x = [lease |-> l, status |-> status, aborts |-> worker[r].aborts] /\ l.job \in Job
    BY <1>3, <2>1, <2>2 DEF Report, TypeOK, Lease
  <2>4. ASSUME status = "completed"
        PROVE  jobs'[l.job].status = "done" /\ settledBy'[l.job] = l.token
    BY <2>1, <2>2, <2>3, <2>4, ReleaseKeepsRow DEF Ack, Settle, TypeOK, Status
  <2>5. ASSUME status = "lease_lost"
        PROVE  ~Holds(l)' \/ "unreachable" \in worker[r].aborts
    BY <2>1, <2>2, <2>5, LostForGood
  <2> QED
    BY <2>3, <2>4, <2>5
<1>4. ASSUME NEW q \in Runner, Watching(q)', "fenced" \in worker'[q].aborts
      PROVE  ~Holds(Copy(q))'
  <2>1. CASE Watching(q) /\ Copy(q)' = Copy(q) /\ ~Holds(Copy(q))
    <3>1. PICK l \in leases : l = Copy(q)
      BY <2>1, CopyTypes
    <3>2. ~Holds(l)'
      BY <2>1, <3>1, LostForGood
    <3> QED
      BY <2>1, <3>1, <3>2 DEF Holds
  <2>2. CASE worker'[q] = worker[q]
    <3>1. Watching(q) /\ Copy(q)' = Copy(q) /\ ~Holds(Copy(q))
      BY <1>4, <2>2 DEF Watching, Copy, LeaseLostIsReal
    <3> QED
      BY <2>1, <3>1
  <2>3. CASE q # r
    <3>1. worker'[q] = worker[q]
      BY <2>3 DEF Turn, Goto, Abort, Report, WorkerTypeOK
    <3> QED
      BY <2>2, <3>1
  <2>4. CASE q = r /\ \E pc \in Pc : Watching(r) /\ Goto(r, pc)
    <3>1. Watching(q) /\ Copy(q)' = Copy(q)
      BY <2>4, SameCopy DEF Abortion
    <3>2. worker'[q].aborts = worker[q].aborts
      BY <2>4 DEF Goto, WorkerTypeOK, Local
    <3> QED
      BY <1>4, <2>1, <3>1, <3>2 DEF LeaseLostIsReal
  <2>5. ASSUME NEW why \in Abortion, q = r, Watching(r), Abort(r, why),
               why = "fenced" => ~Holds(Copy(r))
        PROVE  ~Holds(Copy(q))'
    <3>1. Watching(q) /\ Copy(q)' = Copy(q)
      BY <2>5, SameCopy DEF Pc
    <3>2. worker'[q].aborts = worker[q].aborts \cup {why}
      BY <2>5 DEF Abort, WorkerTypeOK, Local
    <3> QED
      BY <1>4, <2>1, <2>5, <3>1, <3>2 DEF LeaseLostIsReal
  <2>6. CASE /\ q = r
             /\ \/ \E pc \in {"idle", "stopped"} : worker' = [worker EXCEPT ![r] = Resting(pc)]
                \/ \E t \in Job : worker' = [worker EXCEPT ![r] = [Resting("handling") EXCEPT
                                     !.job = t, !.token = minted'[t]]]
    <3>1. ASSUME NEW t, NEW n
          PROVE  [Resting("handling") EXCEPT !.job = t, !.token = n].aborts = {}
      BY DEF Resting
    <3>2. \A pc : Resting(pc).aborts = {}
      BY DEF Resting
    <3>3. worker'[q].aborts = {}
      <4>1. ASSUME NEW pc, worker' = [worker EXCEPT ![r] = Resting(pc)]
            PROVE  worker'[r].aborts = {}
        BY <3>2, <4>1 DEF WorkerTypeOK
      <4>2. ASSUME NEW t, worker' = [worker EXCEPT ![r] = [Resting("handling") EXCEPT
                                       !.job = t, !.token = minted'[t]]]
            PROVE  worker'[r].aborts = {}
        <5>1. worker'[r] = [Resting("handling") EXCEPT !.job = t, !.token = minted'[t]]
          BY <4>2 DEF WorkerTypeOK
        <5> QED
          BY <3>1, <5>1
      <4> QED
        BY <2>6, <4>1, <4>2
    <3> QED
      BY <1>4, <3>3
  <2>7. CASE UNCHANGED worker
    BY <2>2, <2>7
  <2> QED
    BY <2>3, <2>4, <2>5, <2>6, <2>7 DEF Turn, Report
<1> QED
  BY <1>3, <1>4, ReportsStayTrue DEF CompletedIsAcked, LeaseLostIsReal

\* The queue moves while the workers stand still.
LEMMA QueueKeepsReports ==
  ASSUME TypeOK, TypeOK', LeaseInv, WorkerTypeOK, WorkerInv, [Next]_vars,
         CompletedIsAcked, LeaseLostIsReal, UNCHANGED workerVars
  PROVE  WorkerTypeOK' /\ WorkerInv' /\ CompletedIsAcked' /\ LeaseLostIsReal'
<1>0. UNCHANGED <<worker, probe, reports>>
  BY DEF workerVars
<1>1. WorkerTypeOK' /\ WorkerInv'
  BY <1>0, CopiesStay DEF WorkerTypeOK, WorkerInv, Watching, Copy
<1>2. ASSUME NEW q \in Runner, Watching(q)', "fenced" \in worker'[q].aborts
      PROVE  ~Holds(Copy(q))'
  <2>1. Watching(q) /\ Copy(q)' = Copy(q) /\ ~Holds(Copy(q))
    BY <1>0, <1>2 DEF Watching, Copy, LeaseLostIsReal
  <2>2. PICK l \in leases : l = Copy(q)
    BY <2>1, CopyTypes
  <2>3. ~Holds(l)'
    BY <2>1, <2>2, LostForGood
  <2> QED
    BY <2>1, <2>2, <2>3 DEF Holds
<1> QED
  BY <1>0, <1>1, <1>2, ReportsStayTrue DEF CompletedIsAcked, LeaseLostIsReal

-----------------------------------------------------------------------------
(* The theorems *)

WorkersInv == TypeOK /\ LeaseInv /\ ReportSafety

\* Every step keeps all of it, and is one of the queue or leaves it alone.
LEMMA WorkerNextInv ==
  ASSUME WorkersInv, [WorkerNext]_allVars
  PROVE  [Next]_vars /\ WorkersInv'
<1> USE DEF WorkersInv, ReportSafety
<1>1. [Next]_vars
  BY QueueStep
<1>2. TypeOK' /\ LeaseInv' /\ leases \subseteq leases'
  BY <1>1, NextTypes, NextKeepsLeases, CopiesStay
<1>3. ASSUME NEW r \in Runner, WorkerStep(r)
      PROVE  WorkerTypeOK' /\ WorkerInv' /\ CompletedIsAcked' /\ LeaseLostIsReal'
  <2>1. Turn(r) /\ Probes(r)
    BY <1>3, StepTurns
  <2> QED
    BY <1>1, <1>2, <2>1, TurnKeepsCopies, TurnKeepsReports
<1>4. CASE UNCHANGED workerVars
  BY <1>1, <1>2, <1>4, QueueKeepsReports
<1> QED
  BY <1>1, <1>2, <1>3, <1>4 DEF WorkerNext, Environment, allVars

LEMMA WorkerInitInv == WorkerInit => WorkersInv
<1> SUFFICES ASSUME WorkerInit
             PROVE  WorkersInv
  OBVIOUS
<1>1. TypeOK
  BY RowTypes DEF WorkerInit, TypeOK, EnqState
<1>2. LeaseInv
  BY LimitsAssumption DEF WorkerInit, LeaseInv, RowInv, CopyInv, NewRow, NoRow
<1>3. WorkerTypeOK /\ WorkerInv
  BY RestingState DEF WorkerInit, WorkerTypeOK, WorkerInv, Watching
<1>4. CompletedIsAcked /\ LeaseLostIsReal
  BY RestingState DEF WorkerInit, CompletedIsAcked, LeaseLostIsReal, Watching
<1> QED
  BY <1>1, <1>2, <1>3, <1>4 DEF WorkersInv, ReportSafety

\* Whatever the workers of one queue run, however they crash and answers get lost: a run
\* that reports completed has settled its job, one that gives its lease up has lost it.
THEOREM ReportsAreTrue == WorkerSpec => []ReportSafety
<1>1. WorkersInv => ReportSafety
  BY DEF WorkersInv
<1> QED
  BY <1>1, WorkerInitInv, WorkerNextInv, PTL DEF WorkerSpec

\* The workers do nothing to the queue that its own specification does not allow, so they
\* rely on its fences and keep them: no stale copy is accepted and no job is handed out
\* more often than its limit.
THEOREM WorkersKeepTheQueue == WorkerSpec => [][Next]_vars /\ []LeaseSafety
<1>1. WorkersInv => LeaseSafety
  BY LeaseInvSuffices DEF WorkersInv, LeaseSafety
<1>2. WorkersInv /\ [WorkerNext]_allVars => [Next]_vars
  BY WorkerNextInv
<1> QED
  BY <1>1, <1>2, WorkerInitInv, WorkerNextInv, PTL DEF WorkerSpec

-----------------------------------------------------------------------------
(* What a scenario collects *)

\* The results in a sequence, when one more is appended, and when there is none.
LEMMA ResultsOf ==
  /\ ToSet(<<>>) = {}
  /\ \A S : \A q \in Seq(S), o \in S :
       /\ Append(q, o) \in Seq(S) /\ Len(Append(q, o)) = Len(q) + 1 /\ Append(q, o) # <<>>
       /\ ToSet(Append(q, o)) = ToSet(q) \cup {o}
       /\ Len(q) \in Nat
<1>1. ToSet(<<>>) = {}
  BY DEF ToSet
<1>2. ASSUME NEW S, NEW q \in Seq(S), NEW o \in S
      PROVE  /\ Append(q, o) \in Seq(S) /\ Len(Append(q, o)) = Len(q) + 1 /\ Append(q, o) # <<>>
             /\ ToSet(Append(q, o)) = ToSet(q) \cup {o}
             /\ Len(q) \in Nat
  <2>1. /\ Append(q, o) \in Seq(S) /\ Len(Append(q, o)) = Len(q) + 1 /\ Len(q) \in Nat
        /\ Append(q, o) # <<>>
    OBVIOUS
  <2>2. DOMAIN Append(q, o) = 1..(Len(q) + 1) /\ DOMAIN q = 1..Len(q)
    OBVIOUS
  <2>3. Append(q, o)[Len(q) + 1] = o /\ \A i \in 1..Len(q) : Append(q, o)[i] = q[i]
    OBVIOUS
  <2>4. 1..(Len(q) + 1) = 1..Len(q) \cup {Len(q) + 1}
    BY <2>1
  <2>5. ToSet(Append(q, o)) = ToSet(q) \cup {o}
    BY <2>2, <2>3, <2>4 DEF ToSet
  <2> QED
    BY <2>1, <2>5
<1> QED
  BY <1>1, <1>2

\* One more passed result, and no results, all pass; a failed one is among them.
LEMMA PassesOf ==
  /\ AllPass(<<>>)
  /\ \A S : \A q \in Seq(S), o \in S : AllPass(Append(q, o)) <=> AllPass(q) /\ o = "pass"
BY ResultsOf DEF AllPass

\* ProgressIsTrue of the record r of one scenario, when the signal is signal.
TrueRecord(s, r, signal) ==
  /\ r.stage \in {"idle", "ended", "thrown"} =>
       r.checked = <<>> /\ r.ran = <<>> /\ r.seen = <<>> /\ r.cleaned = <<>>
  /\ r.stage \in {"idle", "checks", "steps", "observers"} =>
       r.stop = "none" /\ r.cleaned = <<>> /\ AllPass(r.checked)
  /\ r.stage = "checks" => r.ran = <<>>
  /\ r.stage \in {"checks", "steps"} => Len(r.ran) < Steps[s]
  /\ r.ran # <<>> => AllPass(r.checked)
  /\ s \notin Journey =>
       /\ r.seen = <<>> /\ r.stage # "observers"
       /\ r.stage = "cleanup" /\ r.stop = "none" => Len(r.ran) = Steps[s]
       /\ r.stage = "cleanup" /\ r.stop = "cancelled" =>
            r.ran = <<>> \/ "failed" \in ToSet(r.ran)
       /\ signal /\ r.stage = "cleanup" /\ Len(r.cleaned) = Cleanups[s] /\ r.stop = "none" =>
            "failed" \in ToSet(r.ran) \cup ToSet(r.cleaned)
  /\ s \in Journey =>
       /\ r.stage # "checks"
       /\ r.stage \in {"steps", "observers"} => AllPass(r.ran) /\ AllPass(r.seen)
       /\ r.stage = "steps" => Len(r.seen) = Observers[s] * Len(r.ran)
       /\ r.stage = "observers" => Len(r.ran) <= Steps[s]
       /\ r.stage = "cleanup" /\ r.stop = "none" =>
            /\ Len(r.ran) = Steps[s] /\ Len(r.seen) = Observers[s] * Len(r.ran)
            /\ AllPass(r.ran) /\ AllPass(r.seen)

LEMMA TrueRecords == ProgressIsTrue <=> \A s \in Scenario : TrueRecord(s, run[s], aborted)
BY DEF ProgressIsTrue, TrueRecord, Done, Failures

\* A scenario that has not begun, or is over, has collected nothing.
LEMMA EmptyRecords ==
  ASSUME NEW s \in Scenario, NEW signal \in BOOLEAN
  PROVE  /\ Fresh \in RunRecord /\ Fresh.stage = "idle" /\ TrueRecord(s, Fresh, signal)
         /\ \A stage \in {"ended", "thrown"} :
              /\ Over(stage) \in RunRecord /\ Over(stage).stage = stage
              /\ TrueRecord(s, Over(stage), signal)
<1>1. /\ Fresh \in RunRecord /\ Fresh.stage = "idle" /\ Fresh.stop = "none"
      /\ Fresh.checked = <<>> /\ Fresh.ran = <<>> /\ Fresh.seen = <<>> /\ Fresh.cleaned = <<>>
  BY DEF Fresh, RunRecord, Stage, Awaiting, StopReason
<1>2. ASSUME NEW stage \in {"ended", "thrown"}
      PROVE  /\ Over(stage) \in RunRecord /\ Over(stage).stage = stage /\ Over(stage).stop = "none"
             /\ Over(stage).checked = <<>> /\ Over(stage).ran = <<>> /\ Over(stage).seen = <<>>
             /\ Over(stage).cleaned = <<>>
  <2>1. stage \in Stage
    BY DEF Stage
  <2> QED
    BY <1>1, <2>1 DEF Over, RunRecord
<1>3. ASSUME NEW r, r.stage \in {"idle", "ended", "thrown"}, r.checked = <<>>, r.ran = <<>>,
             r.seen = <<>>, r.cleaned = <<>>, r.stop = "none"
      PROVE  TrueRecord(s, r, signal)
  BY <1>3, PassesOf DEF TrueRecord
<1> QED
  BY <1>1, <1>2, <1>3

\* A step of scenario s that makes r of its record keeps it true.
Moves(s, r) ==
  /\ r \in RunRecord /\ run' = [run EXCEPT ![s] = r]
  /\ TrueRecord(s, r, aborted)
  /\ run[s].stage \in {"idle"} \cup Awaiting

\* A scenario begins, or is cancelled or blocked before it does.
LEMMA BeginMoves ==
  ASSUME NEW s \in Scenario, run[s] \in RunRecord, TrueRecord(s, run[s], aborted),
         IF s \in Journey THEN BeginJourney(s) ELSE Begin(s)
  PROVE  \E r \in RunRecord : Moves(s, r) /\ r.stage # "idle"
<1> DEFINE x == run[s]
           Starts(stage) == [x EXCEPT !.stage = stage]
           Stops(stage, stop) == [x EXCEPT !.stage = stage, !.stop = stop]
<1>1. /\ x \in RunRecord /\ x.stage = "idle" /\ x.stop = "none"
      /\ x.checked = <<>> /\ x.ran = <<>> /\ x.seen = <<>> /\ x.cleaned = <<>>
  BY DEF Begin, BeginJourney, TrueRecord
<1>2. /\ Steps[s] \in Nat \ {0} /\ Len(<<>>) = 0 /\ AllPass(<<>>) /\ Observers[s] * 0 = 0
      /\ 0 < Steps[s]
  BY ScenarioAssumption, PassesOf
<1>3. ASSUME NEW stage \in {"checks", "steps"}, run' = [run EXCEPT ![s] = Starts(stage)],
             stage = "checks" => s \notin Journey
      PROVE  \E r \in RunRecord : Moves(s, r) /\ r.stage # "idle"
  <2> DEFINE r == Starts(stage)
  <2>1. stage \in Stage
    BY DEF Stage, Awaiting
  <2>2. /\ r \in RunRecord /\ r.stage = stage /\ r.stop = "none"
        /\ r.checked = <<>> /\ r.ran = <<>> /\ r.seen = <<>> /\ r.cleaned = <<>>
    BY <1>1, <2>1 DEF RunRecord
  <2> HIDE DEF r
  <2>3. TrueRecord(s, r, aborted)
    BY <1>2, <1>3, <2>2 DEF TrueRecord
  <2>4. run' = [run EXCEPT ![s] = r]
    BY <1>3 DEF r
  <2> QED
    BY <1>1, <1>3, <2>2, <2>3, <2>4 DEF Moves
<1>4. ASSUME NEW stage \in {"ended", "cleanup"}, NEW stop \in {"blocked", "cancelled"},
             run' = [run EXCEPT ![s] = Stops(stage, stop)]
      PROVE  \E r \in RunRecord : Moves(s, r) /\ r.stage # "idle"
  <2> DEFINE r == Stops(stage, stop)
  <2>1. stage \in Stage /\ stop \in StopReason
    BY DEF Stage, Awaiting, StopReason
  <2>2. /\ r \in RunRecord /\ r.stage = stage /\ r.stop = stop
        /\ r.checked = <<>> /\ r.ran = <<>> /\ r.seen = <<>> /\ r.cleaned = <<>>
    BY <1>1, <2>1 DEF RunRecord
  <2> HIDE DEF r
  <2>3. TrueRecord(s, r, aborted)
    BY <1>2, <2>2 DEF TrueRecord
  <2>4. run' = [run EXCEPT ![s] = r]
    BY <1>4 DEF r
  <2> QED
    BY <1>1, <2>2, <2>3, <2>4 DEF Moves
<1> HIDE DEF x, Starts, Stops
<1>5. CASE s \in Journey
  BY <1>3, <1>4, <1>5 DEF BeginJourney, Becomes, Starts, Stops, x
<1>6. CASE s \notin Journey
  <2>1. CASE s \in Special \/ (aborted /\ Checks[s] > 0)
    BY <1>3, <1>4, <1>6 DEF Begin, Becomes, Starts, Stops, x
  <2> QED
    BY <1>3, <1>4, <1>6 DEF Begin, Becomes, Starts, Stops, x
<1> QED
  BY <1>5, <1>6

\* What a driver answers is reported as one of three results.
LEMMA ReportedTypes ==
  ASSUME NEW o \in Result, aborted \in BOOLEAN
  PROVE  /\ Reported(o) \in Result
         /\ o \in {"pass", "failed"} => Reported(o) \in {"pass", "failed"}
         /\ aborted => Reported(o) = "failed"
BY DEF Reported, Result

\* The probe of a precondition is answered.
LEMMA CheckMoves ==
  ASSUME NEW s \in Scenario, run[s] \in RunRecord, TrueRecord(s, run[s], aborted),
         aborted \in BOOLEAN, NEW o \in {"pass", "failed"}, Check(s, o)
  PROVE  \E r \in RunRecord : Moves(s, r) /\ r.stage \in Awaiting
<1> DEFINE x == run[s]
           answer == Reported(o)
           y == [x EXCEPT !.checked = Append(@, answer)]
<1>1. /\ x \in RunRecord /\ x.stage = "checks" /\ x.stop = "none" /\ s \notin Journey
      /\ AllPass(x.checked) /\ x.ran = <<>> /\ x.seen = <<>> /\ x.cleaned = <<>>
      /\ Len(x.ran) < Steps[s] /\ x.checked \in Seq({"pass", "failed"})
  BY DEF Check, TrueRecord, RunRecord
<1>2. answer \in {"pass", "failed"}
  BY ReportedTypes DEF Result
<1> HIDE DEF answer, x
<1>3. /\ y \in RunRecord /\ y.stage = "checks" /\ y.stop = "none"
      /\ y.checked = Append(x.checked, answer)
      /\ y.ran = <<>> /\ y.seen = <<>> /\ y.cleaned = <<>>
  <2>1. Append(x.checked, answer) \in Seq({"pass", "failed"})
    BY <1>1, <1>2
  <2> QED
    BY <1>1, <2>1 DEF RunRecord
<1>4. AllPass(y.checked) <=> answer = "pass"
  BY <1>1, <1>2, <1>3, PassesOf
<1> HIDE DEF y
<1>5. CASE answer # "pass" /\ run' = [run EXCEPT ![s] = [y EXCEPT !.stage = "cleanup", !.stop = "blocked"]]
  <2> DEFINE r == [y EXCEPT !.stage = "cleanup", !.stop = "blocked"]
  <2>1. /\ r \in RunRecord /\ r.stage = "cleanup" /\ r.stop = "blocked"
        /\ r.checked = y.checked /\ r.ran = <<>> /\ r.seen = <<>> /\ r.cleaned = <<>>
    BY <1>3 DEF RunRecord, Stage, Awaiting, StopReason
  <2> HIDE DEF r
  <2>2. TrueRecord(s, r, aborted)
    BY <1>1, <2>1 DEF TrueRecord
  <2>3. run' = [run EXCEPT ![s] = r]
    BY <1>5 DEF r
  <2> QED
    BY <1>1, <2>1, <2>2, <2>3 DEF Moves, Awaiting, x
<1>6. ASSUME NEW stage \in {"checks", "steps"}, answer = "pass",
             run' = [run EXCEPT ![s] = [y EXCEPT !.stage = stage]]
      PROVE  \E r \in RunRecord : Moves(s, r) /\ r.stage \in Awaiting
  <2> DEFINE r == [y EXCEPT !.stage = stage]
  <2>1. stage \in Stage
    BY DEF Stage, Awaiting
  <2>2. /\ r \in RunRecord /\ r.stage = stage /\ r.stop = "none"
        /\ r.checked = y.checked /\ r.ran = <<>> /\ r.seen = <<>> /\ r.cleaned = <<>>
    BY <1>3, <2>1 DEF RunRecord
  <2> HIDE DEF r
  <2>3. TrueRecord(s, r, aborted)
    BY <1>1, <1>4, <1>6, <2>2 DEF TrueRecord
  <2>4. run' = [run EXCEPT ![s] = r]
    BY <1>6 DEF r
  <2> QED
    BY <1>1, <2>2, <2>3, <2>4 DEF Moves, Awaiting, x
<1> QED
  BY <1>5, <1>6 DEF Check, Becomes, x, y, answer

\* The probe of a step is answered.
LEMMA StepMoves ==
  ASSUME NEW s \in Scenario, run[s] \in RunRecord, TrueRecord(s, run[s], aborted),
         aborted \in BOOLEAN, NEW o \in Result, Step(s, o)
  PROVE  \E r \in RunRecord : Moves(s, r) /\ r.stage \in Awaiting
<1> DEFINE x == run[s]
           answer == Reported(o)
           y == [x EXCEPT !.ran = Append(@, answer)]
<1>1. /\ x \in RunRecord /\ x.stage = "steps" /\ x.stop = "none" /\ s \notin Journey
      /\ AllPass(x.checked) /\ x.seen = <<>> /\ x.cleaned = <<>>
      /\ Len(x.ran) < Steps[s] /\ x.ran \in Seq(Result)
  BY DEF Step, TrueRecord, RunRecord
<1>2. answer \in Result /\ (aborted => answer = "failed")
  BY ReportedTypes
<1> HIDE DEF answer, x
<1>3. /\ Append(x.ran, answer) \in Seq(Result) /\ Append(x.ran, answer) # <<>>
      /\ Len(Append(x.ran, answer)) = Len(x.ran) + 1 /\ Len(x.ran) \in Nat
      /\ ToSet(Append(x.ran, answer)) = ToSet(x.ran) \cup {answer}
      /\ Steps[s] \in Nat
  <2>1. Steps[s] \in Nat
    BY ScenarioAssumption
  <2> QED
    BY <1>1, <1>2, <2>1, ResultsOf
<1>4. /\ y \in RunRecord /\ y.stage = "steps" /\ y.stop = "none"
      /\ y.checked = x.checked /\ y.ran = Append(x.ran, answer)
      /\ y.seen = <<>> /\ y.cleaned = <<>>
  BY <1>1, <1>3 DEF RunRecord
<1> HIDE DEF y
<1>5. CASE aborted /\ run' = [run EXCEPT ![s] = [y EXCEPT !.stage = "cleanup", !.stop = "cancelled"]]
  <2> DEFINE r == [y EXCEPT !.stage = "cleanup", !.stop = "cancelled"]
  <2>1. /\ r \in RunRecord /\ r.stage = "cleanup" /\ r.stop = "cancelled"
        /\ r.checked = x.checked /\ r.ran = Append(x.ran, answer)
        /\ r.seen = <<>> /\ r.cleaned = <<>>
    BY <1>4 DEF RunRecord, Stage, Awaiting, StopReason
  <2> HIDE DEF r
  <2>2. TrueRecord(s, r, aborted)
    BY <1>1, <1>2, <1>3, <1>5, <2>1 DEF TrueRecord
  <2>3. run' = [run EXCEPT ![s] = r]
    BY <1>5 DEF r
  <2> QED
    BY <1>1, <2>1, <2>2, <2>3 DEF Moves, Awaiting, x
<1>6. ASSUME NEW stage \in {"steps", "cleanup"}, ~aborted,
             stage = IF Len(y.ran) < Steps[s] THEN "steps" ELSE "cleanup",
             run' = [run EXCEPT ![s] = [y EXCEPT !.stage = stage]]
      PROVE  \E r \in RunRecord : Moves(s, r) /\ r.stage \in Awaiting
  <2> DEFINE r == [y EXCEPT !.stage = stage]
  <2>1. stage \in Stage
    BY DEF Stage, Awaiting
  <2>2. /\ r \in RunRecord /\ r.stage = stage /\ r.stop = "none"
        /\ r.checked = x.checked /\ r.ran = Append(x.ran, answer)
        /\ r.seen = <<>> /\ r.cleaned = <<>>
    BY <1>4, <2>1 DEF RunRecord
  <2> HIDE DEF r
  <2>3. stage = "cleanup" => Len(r.ran) = Steps[s]
    BY <1>1, <1>3, <1>4, <1>6, <2>2
  <2>4. stage = "steps" => Len(r.ran) < Steps[s]
    BY <1>4, <1>6, <2>2
  <2>5. TrueRecord(s, r, aborted)
    BY <1>1, <1>6, <2>2, <2>3, <2>4 DEF TrueRecord
  <2>6. run' = [run EXCEPT ![s] = r]
    BY <1>6 DEF r
  <2> QED
    BY <1>1, <2>2, <2>5, <2>6 DEF Moves, Awaiting, x
<1> QED
  BY <1>5, <1>6 DEF Step, Becomes, x, y, answer

\* A cleanup probe is answered.
LEMMA CleanMoves ==
  ASSUME NEW s \in Scenario, run[s] \in RunRecord, TrueRecord(s, run[s], aborted),
         aborted \in BOOLEAN, NEW o \in {"pass", "failed"}, Clean(s, o)
  PROVE  \E r \in RunRecord : Moves(s, r) /\ r.stage \in Awaiting
<1> DEFINE x == run[s]
           answer == Reported(o)
           r == [x EXCEPT !.cleaned = Append(@, answer)]
<1>1. /\ x \in RunRecord /\ x.stage = "cleanup" /\ s \notin Journey
      /\ x.cleaned \in Seq({"pass", "failed"})
  BY DEF Clean, RunRecord
<1>2. answer \in {"pass", "failed"} /\ (aborted => answer = "failed")
  BY ReportedTypes DEF Result
<1>3. TrueRecord(s, x, aborted) /\ run' = [run EXCEPT ![s] = r]
  BY DEF Clean, Becomes
<1> HIDE DEF answer, x
<1>4. /\ Append(x.cleaned, answer) \in Seq({"pass", "failed"})
      /\ ToSet(Append(x.cleaned, answer)) = ToSet(x.cleaned) \cup {answer}
  BY <1>1, <1>2, ResultsOf
<1>5. /\ r \in RunRecord /\ r.stage = "cleanup" /\ r.stop = x.stop
      /\ r.checked = x.checked /\ r.ran = x.ran /\ r.seen = x.seen
      /\ r.cleaned = Append(x.cleaned, answer)
  BY <1>1, <1>4 DEF RunRecord
<1> HIDE DEF r
<1>6. TrueRecord(s, r, aborted)
  BY <1>1, <1>2, <1>3, <1>4, <1>5 DEF TrueRecord
<1> QED
  BY <1>1, <1>3, <1>5, <1>6 DEF Moves, Awaiting, x

\* The cleanup of a journey is answered, or its timer fires.
LEMMA JourneyEndMoves ==
  ASSUME NEW s \in Scenario, run[s] \in RunRecord, TrueRecord(s, run[s], aborted),
         (\E o \in {"pass", "failed"} : CleanJourney(s, o)) \/ TimerFires(s)
  PROVE  \E r \in RunRecord : Moves(s, r) /\ r.stage \in Awaiting
<1>1. ASSUME NEW o \in {"pass", "failed"}, CleanJourney(s, o)
      PROVE  \E r \in RunRecord : Moves(s, r) /\ r.stage \in Awaiting
  <2> DEFINE x == run[s]
             r == [x EXCEPT !.cleaned = <<o>>]
  <2>1. /\ x \in RunRecord /\ x.stage = "cleanup" /\ s \in Journey
        /\ TrueRecord(s, x, aborted) /\ run' = [run EXCEPT ![s] = r]
    BY <1>1 DEF CleanJourney, Becomes
  <2> HIDE DEF x
  <2>2. <<o>> \in Seq({"pass", "failed"})
    OBVIOUS
  <2>3. /\ r \in RunRecord /\ r.stage = "cleanup" /\ r.stop = x.stop
        /\ r.checked = x.checked /\ r.ran = x.ran /\ r.seen = x.seen /\ r.cleaned = <<o>>
    BY <2>1, <2>2 DEF RunRecord
  <2> HIDE DEF r
  <2>4. TrueRecord(s, r, aborted)
    BY <2>1, <2>3 DEF TrueRecord
  <2> QED
    BY <2>1, <2>3, <2>4 DEF Moves, Awaiting, x
<1>2. ASSUME TimerFires(s)
      PROVE  \E r \in RunRecord : Moves(s, r) /\ r.stage \in Awaiting
  <2> DEFINE x == run[s]
             r == [x EXCEPT !.lapsed = TRUE]
  <2>1. /\ x \in RunRecord /\ x.stage \in {"steps", "observers"} /\ s \in Journey
        /\ TrueRecord(s, x, aborted) /\ run' = [run EXCEPT ![s] = r]
    BY <1>2 DEF TimerFires, Becomes
  <2> HIDE DEF x
  <2>2. /\ r \in RunRecord /\ r.stage = x.stage /\ r.stop = x.stop
        /\ r.checked = x.checked /\ r.ran = x.ran /\ r.seen = x.seen /\ r.cleaned = x.cleaned
    BY <2>1 DEF RunRecord
  <2> HIDE DEF r
  <2>3. TrueRecord(s, r, aborted)
    BY <2>1, <2>2 DEF TrueRecord
  <2> QED
    BY <2>1, <2>2, <2>3 DEF Moves, Awaiting, x
<1> QED
  BY <1>1, <1>2

\* A journey goes on to its next transition, or to its cleanup.
LEMMA NextTransitionMoves ==
  ASSUME NEW s \in Scenario, s \in Journey, run[s].stage \in Awaiting,
         NEW y \in RunRecord, y.stop = "none", y.cleaned = <<>>, AllPass(y.checked),
         AllPass(y.ran), AllPass(y.seen), Len(y.seen) = Observers[s] * Len(y.ran),
         NextTransition(s, y)
  PROVE  \E r \in RunRecord : Moves(s, r) /\ r.stage \in Awaiting
<1>1. ASSUME NEW stage \in {"steps", "cleanup"}, run' = [run EXCEPT ![s] = [y EXCEPT !.stage = stage]],
             IF stage = "steps" THEN Len(y.ran) < Steps[s] ELSE Len(y.ran) = Steps[s]
      PROVE  \E r \in RunRecord : Moves(s, r) /\ r.stage \in Awaiting
  <2> DEFINE r == [y EXCEPT !.stage = stage]
  <2>1. stage \in Stage
    BY DEF Stage, Awaiting
  <2>2. /\ r \in RunRecord /\ r.stage = stage /\ r.stop = y.stop
        /\ r.checked = y.checked /\ r.ran = y.ran /\ r.seen = y.seen /\ r.cleaned = y.cleaned
    BY <2>1 DEF RunRecord
  <2> HIDE DEF r
  <2>3. TrueRecord(s, r, aborted)
    BY <1>1, <2>2 DEF TrueRecord
  <2>4. run' = [run EXCEPT ![s] = r]
    BY <1>1 DEF r
  <2> QED
    BY <1>1, <2>2, <2>3, <2>4 DEF Moves, Awaiting
<1>2. CASE run' = [run EXCEPT ![s] = [y EXCEPT !.stage = "cleanup", !.stop = "cancelled"]]
  <2> DEFINE r == [y EXCEPT !.stage = "cleanup", !.stop = "cancelled"]
  <2>1. /\ r \in RunRecord /\ r.stage = "cleanup" /\ r.stop = "cancelled"
        /\ r.checked = y.checked /\ r.ran = y.ran /\ r.seen = y.seen /\ r.cleaned = y.cleaned
    BY DEF RunRecord, Stage, Awaiting, StopReason
  <2> HIDE DEF r
  <2>2. TrueRecord(s, r, aborted)
    BY <2>1 DEF TrueRecord
  <2>3. run' = [run EXCEPT ![s] = r]
    BY <1>2 DEF r
  <2> QED
    BY <2>1, <2>2, <2>3 DEF Moves, Awaiting
<1> QED
  BY <1>1, <1>2 DEF NextTransition, Becomes

\* The action of a transition is answered.
LEMMA TransitionMoves ==
  ASSUME NEW s \in Scenario, run[s] \in RunRecord, TrueRecord(s, run[s], aborted),
         NEW o \in {"pass", "failed"}, Transition(s, o)
  PROVE  \E r \in RunRecord : Moves(s, r) /\ r.stage \in Awaiting
<1> DEFINE x == run[s]
           y == [x EXCEPT !.ran = Append(@, o)]
<1>1. /\ x \in RunRecord /\ x.stage = "steps" /\ x.stop = "none" /\ s \in Journey
      /\ AllPass(x.checked) /\ AllPass(x.ran) /\ AllPass(x.seen) /\ x.cleaned = <<>>
      /\ Len(x.ran) < Steps[s] /\ x.ran \in Seq(Result)
      /\ Len(x.seen) = Observers[s] * Len(x.ran)
  BY DEF Transition, TrueRecord, RunRecord
<1>2. o \in Result /\ Steps[s] \in Nat /\ Observers[s] \in Nat
  BY ScenarioAssumption DEF Result
<1> HIDE DEF x
<1>3. /\ Append(x.ran, o) \in Seq(Result) /\ Append(x.ran, o) # <<>>
      /\ Len(Append(x.ran, o)) = Len(x.ran) + 1 /\ Len(x.ran) \in Nat
      /\ AllPass(Append(x.ran, o)) <=> o = "pass"
  BY <1>1, <1>2, ResultsOf, PassesOf
<1>4. /\ y \in RunRecord /\ y.stage = "steps" /\ y.stop = "none"
      /\ y.checked = x.checked /\ y.ran = Append(x.ran, o)
      /\ y.seen = x.seen /\ y.cleaned = <<>>
  BY <1>1, <1>3 DEF RunRecord
<1> HIDE DEF y
<1>5. ASSUME NEW stop \in {"cancelled", "failed"},
             run' = [run EXCEPT ![s] = [y EXCEPT !.stage = "cleanup", !.stop = stop]]
      PROVE  \E r \in RunRecord : Moves(s, r) /\ r.stage \in Awaiting
  <2> DEFINE r == [y EXCEPT !.stage = "cleanup", !.stop = stop]
  <2>1. /\ r \in RunRecord /\ r.stage = "cleanup" /\ r.stop = stop /\ r.checked = x.checked
    BY <1>4 DEF RunRecord, Stage, Awaiting, StopReason
  <2> HIDE DEF r
  <2>2. TrueRecord(s, r, aborted)
    BY <1>1, <2>1 DEF TrueRecord
  <2>3. run' = [run EXCEPT ![s] = r]
    BY <1>5 DEF r
  <2> QED
    BY <1>1, <2>1, <2>2, <2>3 DEF Moves, Awaiting, x
<1>6. CASE o = "pass" /\ Observers[s] > 0 /\ run' = [run EXCEPT ![s] = [y EXCEPT !.stage = "observers"]]
  <2> DEFINE r == [y EXCEPT !.stage = "observers"]
  <2>1. /\ r \in RunRecord /\ r.stage = "observers" /\ r.stop = "none" /\ r.checked = x.checked
        /\ r.ran = Append(x.ran, o) /\ r.seen = x.seen /\ r.cleaned = <<>>
    BY <1>4 DEF RunRecord, Stage, Awaiting
  <2> HIDE DEF r
  <2>2. Len(r.ran) <= Steps[s]
    BY <1>1, <1>2, <1>3, <2>1
  <2>3. TrueRecord(s, r, aborted)
    BY <1>1, <1>3, <1>6, <2>1, <2>2 DEF TrueRecord
  <2>4. run' = [run EXCEPT ![s] = r]
    BY <1>6 DEF r
  <2> QED
    BY <1>1, <2>1, <2>3, <2>4 DEF Moves, Awaiting, x
<1>7. CASE o = "pass" /\ Observers[s] = 0 /\ NextTransition(s, y)
  <2>1. Len(y.seen) = 0 /\ 0 * Len(y.ran) = 0
    BY <1>1, <1>3, <1>4, <1>7
  <2>2. Len(y.seen) = Observers[s] * Len(y.ran)
    BY <1>7, <2>1
  <2>3. run[s].stage \in Awaiting
    BY <1>1 DEF Awaiting, x
  <2> QED
    BY <1>1, <1>3, <1>4, <1>7, <2>2, <2>3, NextTransitionMoves
<1> QED
  BY <1>5, <1>6, <1>7 DEF Transition, Becomes, x, y

\* An observer of the transition is answered.
LEMMA ObserveMoves ==
  ASSUME NEW s \in Scenario, run[s] \in RunRecord, TrueRecord(s, run[s], aborted),
         NEW o \in {"pass", "failed"}, Observe(s, o)
  PROVE  \E r \in RunRecord : Moves(s, r) /\ r.stage \in Awaiting
<1> DEFINE x == run[s]
           y == [x EXCEPT !.seen = Append(@, o)]
<1>1. /\ x \in RunRecord /\ x.stage = "observers" /\ x.stop = "none" /\ s \in Journey
      /\ AllPass(x.checked) /\ AllPass(x.ran) /\ AllPass(x.seen) /\ x.cleaned = <<>>
      /\ Len(x.ran) <= Steps[s] /\ x.seen \in Seq({"pass", "failed"})
  BY DEF Observe, TrueRecord, RunRecord
<1> HIDE DEF x
<1>2. /\ Append(x.seen, o) \in Seq({"pass", "failed"})
      /\ AllPass(Append(x.seen, o)) <=> o = "pass"
  BY <1>1, ResultsOf, PassesOf
<1>3. /\ y \in RunRecord /\ y.stage = "observers" /\ y.stop = "none"
      /\ y.checked = x.checked /\ y.ran = x.ran /\ y.seen = Append(x.seen, o) /\ y.cleaned = <<>>
  BY <1>1, <1>2 DEF RunRecord
<1>4. run[s].stage \in Awaiting
  BY <1>1 DEF Awaiting, x
<1> HIDE DEF y
<1>5. CASE run' = [run EXCEPT ![s] = [y EXCEPT !.stage = "cleanup", !.stop = "failed"]]
  <2> DEFINE r == [y EXCEPT !.stage = "cleanup", !.stop = "failed"]
  <2>1. /\ r \in RunRecord /\ r.stage = "cleanup" /\ r.stop = "failed" /\ r.checked = x.checked
    BY <1>3 DEF RunRecord, Stage, Awaiting, StopReason
  <2> HIDE DEF r
  <2>2. TrueRecord(s, r, aborted)
    BY <1>1, <2>1 DEF TrueRecord
  <2>3. run' = [run EXCEPT ![s] = r]
    BY <1>5 DEF r
  <2> QED
    BY <1>4, <2>1, <2>2, <2>3 DEF Moves, Awaiting
<1>6. CASE o = "pass" /\ run' = [run EXCEPT ![s] = y]
  <2>1. TrueRecord(s, y, aborted)
    BY <1>1, <1>2, <1>3, <1>6 DEF TrueRecord
  <2> QED
    BY <1>3, <1>4, <1>6, <2>1 DEF Moves, Awaiting
<1>7. CASE o = "pass" /\ Len(y.seen) = Observers[s] * Len(y.ran) /\ NextTransition(s, y)
  BY <1>1, <1>2, <1>3, <1>4, <1>7, NextTransitionMoves
<1> QED
  BY <1>5, <1>6, <1>7 DEF Observe, Becomes, x, y

\* A call that a scenario awaits is answered: the scenario goes on.
LEMMA AnswerMoves ==
  ASSUME NEW s \in Scenario, run[s] \in RunRecord, TrueRecord(s, run[s], aborted),
         aborted \in BOOLEAN, Answer(s) \/ TimerFires(s)
  PROVE  \E r \in RunRecord : Moves(s, r) /\ r.stage \in Awaiting
BY StepMoves, CheckMoves, CleanMoves, TransitionMoves, ObserveMoves, JourneyEndMoves DEF Answer

-----------------------------------------------------------------------------
(* Type correctness of a run *)

\* What is inductive of RunSafety: the rest follows from it.
RunInv ==
  /\ RunTypeOK /\ ManifestIsComplete
  /\ PoolIsKept /\ TurnsAreInOrder /\ ProgressIsTrue /\ ReasonsAreKept

\* The scenarios are numbered, and the cursor is one of them or past the last.
LEMMA ScenarioNumbers ==
  ASSUME RunTypeOK
  PROVE  /\ Scenario \subseteq Nat /\ cursor \in Nat
         /\ NoScenario \notin Scenario /\ Returned \notin Scenario /\ Threw \notin Scenario
         /\ cursor \in Scenario => cursor + 1 \in 1..(Cardinality(Scenario) + 1)
         /\ cursor \notin Scenario => \A s \in Scenario : s < cursor
         /\ \A s \in Scenario : s < cursor + 1 <=> s < cursor \/ s = cursor
         /\ \A s \in dispatched : s \in Scenario /\ s < cursor
<1>1. Cardinality(Scenario) \in Nat /\ Scenario = 1..Cardinality(Scenario)
  BY FS_CardinalityType, RunAssumption
<1>2. cursor \in 1..(Cardinality(Scenario) + 1) /\ dispatched \subseteq 1..(cursor - 1)
  BY DEF RunTypeOK
<1>3. NoScenario \notin Scenario /\ Returned \notin Scenario /\ Threw \notin Scenario
  BY RunAssumption
<1> DEFINE N == Cardinality(Scenario)
<1> HIDE DEF N
<1>4. N \in Nat /\ Scenario = 1..N /\ cursor \in 1..(N + 1) /\ cursor \in Nat
  BY <1>1, <1>2 DEF N
<1>5. /\ Scenario \subseteq Nat
      /\ cursor \in Scenario => cursor + 1 \in 1..(N + 1)
      /\ cursor \notin Scenario => \A s \in Scenario : s < cursor
      /\ \A s \in Scenario : s < cursor + 1 <=> s < cursor \/ s = cursor
      /\ \A s \in 1..(cursor - 1) : s \in Scenario /\ s < cursor
  BY <1>4
<1> QED
  BY <1>2, <1>3, <1>4, <1>5 DEF N

\* GiveUpTurn and Join keep the types of what they assign.
LEMMA TurnTypes ==
  ASSUME RunTypeOK, NEW s \in Scenario
  PROVE  /\ s \in dispatched /\ GiveUpTurn(s) =>
              /\ left' \subseteq dispatched
              /\ tail' \in [Group -> Scenario \cup {NoScenario}]
         /\ Join(s) =>
              /\ tail' \in [Group -> Scenario \cup {NoScenario}]
              /\ behind' \in [Scenario -> Scenario \cup {NoScenario}]
<1>1. /\ tail \in [Group -> Scenario \cup {NoScenario}] /\ left \subseteq dispatched
      /\ behind \in [Scenario -> Scenario \cup {NoScenario}]
  BY DEF RunTypeOK
<1>2. s \in dispatched /\ GiveUpTurn(s) =>
        left' \subseteq dispatched /\ tail' \in [Group -> Scenario \cup {NoScenario}]
  BY <1>1 DEF GiveUpTurn
<1>3. Join(s) => /\ tail' \in [Group -> Scenario \cup {NoScenario}]
                 /\ behind' \in [Scenario -> Scenario \cup {NoScenario}]
  <2>1. GroupOf[s] # NoGroup => GroupOf[s] \in Group
    BY RunAssumption
  <2> QED
    BY <1>1, <2>1 DEF Join
<1> QED
  BY <1>2, <1>3

\* What a scenario becomes is a record of one.
LEMMA OutcomeTypes ==
  ASSUME NEW s \in Scenario
  PROVE  /\ OutcomeOf(s) \in {"pass", "fail", "error", "blocked"}
         /\ OutcomeOf(s) \in {"error", "blocked"} => ExecutionFailed(s)
         /\ OutcomeOf(s) = "fail" => IF s \in Journey THEN ExecutionFailed(s) ELSE HasFinding(s)
<1>1. CASE s \in Journey
  BY <1>1 DEF OutcomeOf, ExecutionFailed
<1>2. CASE s \notin Journey
  <2>1. CASE run[s].stop # "none"
    BY <1>2, <2>1 DEF OutcomeOf, ExecutionFailed
  <2>2. CASE run[s].stop = "none" /\ Failures(s)
    BY <1>2, <2>2 DEF OutcomeOf, ExecutionFailed
  <2>3. CASE run[s].stop = "none" /\ ~Failures(s) /\ Misses(s)
    BY <1>2, <2>3 DEF OutcomeOf, HasFinding
  <2>4. CASE run[s].stop = "none" /\ ~Failures(s) /\ ~Misses(s)
    BY <1>2, <2>4 DEF OutcomeOf
  <2> QED
    BY <2>1, <2>2, <2>3, <2>4
<1> QED
  BY <1>1, <1>2

\* Where a worker's scenario stands in the other variables.
LEMMA WorkedOn ==
  ASSUME RunInv, NEW w \in Worker, pool[w] \in Scenario
  PROVE  /\ pool[w] \in dispatched /\ outcome[pool[w]] = "none" /\ finished[pool[w]] = 0
         /\ pool[w] < cursor /\ phase = "record" /\ verdict \in {"none", "rejected"}
         /\ \A v \in Worker : v # w => pool[v] # pool[w]
<1>1. InPool(pool[w])
  BY DEF InPool
<1>2. RunTypeOK /\ PoolIsKept /\ ReasonsAreKept
  BY DEF RunInv
<1>3. /\ pool[w] \in dispatched /\ outcome[pool[w]] = "none" /\ finished[pool[w]] = 0
  BY <1>1, <1>2 DEF PoolIsKept
<1>4. pool[w] # Returned
  BY <1>2, ScenarioNumbers
<1>5. phase = "record"
  BY <1>2, <1>4 DEF ReasonsAreKept
<1>6. verdict \in {"none", "rejected"}
  BY <1>2, <1>5 DEF ReasonsAreKept, RunTypeOK
<1>7. pool[w] < cursor
  BY <1>2, <1>3, ScenarioNumbers
<1> QED
  BY <1>2, <1>3, <1>5, <1>6, <1>7 DEF PoolIsKept

\* A worker that is not through works while the run is recorded.
LEMMA StillRecording ==
  ASSUME RunInv, NEW w \in Worker, pool[w] = NoScenario
  PROVE  phase = "record" /\ verdict \in {"none", "rejected"}
BY RunAssumption DEF RunInv, RunTypeOK, ReasonsAreKept

\* The flags, the end of a run and the state of a scenario have their types in every step
\* of a worker.
LEMMA WorkerTypes ==
  ASSUME RunInv, NEW w \in Worker, Continue(w) \/ Raise(w)
  PROVE  RunTypeOK'
<1> DEFINE PoolValues == Scenario \cup {NoScenario, Returned, Threw}
           Flags == {"budget", "cancelled", "runtime", "execution", "replay", "publication",
                     "finalization", "finding"}
           Outcomes == {"none", "pass", "fail", "error", "blocked", "not_run"}
<1>1. RunTypeOK
  BY DEF RunInv
<1>2. /\ run \in [Scenario -> RunRecord] /\ aborted \in BOOLEAN /\ overdue \in BOOLEAN
      /\ cursor \in 1..(Cardinality(Scenario) + 1) /\ cursor \in Nat
      /\ pool \in [Worker -> PoolValues]
      /\ tail \in [Group -> Scenario \cup {NoScenario}]
      /\ behind \in [Scenario -> Scenario \cup {NoScenario}]
      /\ left \subseteq dispatched /\ dispatched \subseteq 1..(cursor - 1)
      /\ outcome \in [Scenario -> Outcomes] /\ finished \in [Scenario -> 0..1]
      /\ flags \in SUBSET Flags
      /\ verdict \in {"none", "ok", "failed", "rejected"} /\ faults \in 0..MaxFaults
      /\ MaxFaults \in Nat
  BY <1>1, RunAssumption DEF RunTypeOK
<1>3. SignalSeen \in SUBSET Flags
  BY DEF SignalSeen
<1>4. ASSUME faults < MaxFaults, faults' = faults + 1
      PROVE  faults' \in 0..MaxFaults
  BY <1>2, <1>4
<1>5. ASSUME NEW s \in Scenario, finished[s] = 0, finished' = [finished EXCEPT ![s] = @ + 1]
      PROVE  finished' \in [Scenario -> 0..1]
  BY <1>2, <1>5
<1>6. ASSUME Dispatch(w)
      PROVE  RunTypeOK'
  <2>1. /\ cursor \in Scenario /\ cursor' = cursor + 1
        /\ cursor' \in 1..(Cardinality(Scenario) + 1)
    BY <1>1, <1>6, ScenarioNumbers DEF Dispatch
  <2>2. pool' \in [Worker -> PoolValues]
    BY <1>2, <1>6 DEF Dispatch
  <2>3. tail' \in [Group -> Scenario \cup {NoScenario}] /\ behind' \in [Scenario -> Scenario \cup {NoScenario}]
    BY <1>1, <1>6, <2>1, TurnTypes DEF Dispatch
  <2>4. left' \subseteq dispatched' /\ dispatched' \subseteq 1..(cursor' - 1)
    BY <1>2, <1>6, <2>1 DEF Dispatch
  <2> QED
    BY <1>1, <1>6, <2>1, <2>2, <2>3, <2>4 DEF Dispatch, RunTypeOK, scenarioVars, profileVars, endVars
<1>7. ASSUME Forgo(w)
      PROVE  RunTypeOK'
  <2>1. /\ cursor \in Scenario /\ cursor' = cursor + 1
        /\ cursor' \in 1..(Cardinality(Scenario) + 1) /\ finished[cursor] = 0
    BY <1>1, <1>7, ScenarioNumbers DEF Forgo, RunInv, PoolIsKept
  <2>2. pool' \in [Worker -> PoolValues]
    BY <1>2, <1>7 DEF Forgo, Reject
  <2>3. outcome' \in [Scenario -> Outcomes] /\ flags' \in SUBSET Flags
    BY <1>2, <1>7 DEF Forgo, Flag
  <2>4. finished' \in [Scenario -> 0..1]
    BY <1>2, <1>5, <1>7, <2>1 DEF Forgo
  <2>5. verdict' \in {"none", "ok", "failed", "rejected"} /\ faults' \in 0..MaxFaults
    BY <1>2, <1>4, <1>7 DEF Forgo, Reject
  <2>6. dispatched' \subseteq 1..(cursor' - 1) /\ left' \subseteq dispatched'
    BY <1>2, <1>7, <2>1 DEF Forgo
  <2> QED
    BY <1>1, <1>7, <2>1, <2>2, <2>3, <2>4, <2>5, <2>6
       DEF Forgo, RunTypeOK, scenarioVars, profileVars
<1>8. ASSUME NEW s \in Scenario, s = pool[w], pool' = [pool EXCEPT ![w] = NoScenario],
             NEW value \in Outcomes, outcome' = [outcome EXCEPT ![s] = value],
             finished' = [finished EXCEPT ![s] = @ + 1]
      PROVE  /\ pool' \in [Worker -> PoolValues]
             /\ outcome' \in [Scenario -> Outcomes] /\ finished' \in [Scenario -> 0..1]
  BY <1>2, <1>5, <1>8, WorkedOn
<1>9. ASSUME NEW stage \in {"ended", "thrown"}, NEW s \in Scenario, Becomes(s, Over(stage))
      PROVE  run' \in [Scenario -> RunRecord]
  BY <1>2, <1>9, EmptyRecords DEF Becomes
<1>10. ASSUME Enter(w)
       PROVE  RunTypeOK'
  <2> DEFINE s == pool[w]
  <2>1. s \in Scenario /\ s \in dispatched /\ cursor' = cursor /\ dispatched' = dispatched
    BY <1>10, WorkedOn DEF Enter
  <2>2. CASE overdue
    <3>1. /\ pool' \in [Worker -> PoolValues]
          /\ outcome' \in [Scenario -> Outcomes] /\ finished' \in [Scenario -> 0..1]
      BY <1>8, <1>10, <2>2 DEF Enter
    <3>2. run' \in [Scenario -> RunRecord] /\ flags' \in SUBSET Flags
      BY <1>2, <1>3, <1>9, <1>10, <2>2 DEF Enter, Flag
    <3>3. left' \subseteq dispatched' /\ tail' \in [Group -> Scenario \cup {NoScenario}]
      BY <1>1, <1>10, <2>1, <2>2, TurnTypes DEF Enter
    <3> QED
      BY <1>1, <1>10, <2>1, <3>1, <3>2, <3>3 DEF Enter, RunTypeOK, profileVars, endVars
  <2>3. CASE ~overdue
    <3>1. \E r \in RunRecord : Moves(s, r)
      BY <1>2, <1>10, <2>1, <2>3, BeginMoves, TrueRecords DEF Enter, RunInv
    <3>2. run' \in [Scenario -> RunRecord]
      BY <1>2, <2>1, <3>1 DEF Moves
    <3> QED
      BY <1>1, <1>10, <2>1, <2>3, <3>2 DEF Enter, RunTypeOK, profileVars, endVars
  <2> QED
    BY <1>2, <2>2, <2>3
<1>11. ASSUME Leave(w)
       PROVE  RunTypeOK'
  <2> DEFINE s == pool[w]
  <2>1. s \in Scenario /\ s \in dispatched /\ cursor' = cursor /\ dispatched' = dispatched
    BY <1>11, WorkedOn DEF Leave
  <2>2. /\ pool' \in [Worker -> PoolValues]
        /\ outcome' \in [Scenario -> Outcomes] /\ finished' \in [Scenario -> 0..1]
    BY <1>8, <1>11, <2>1, OutcomeTypes DEF Leave
  <2>3. run' \in [Scenario -> RunRecord] /\ flags' \in SUBSET Flags
    BY <1>2, <1>3, <1>9, <1>11 DEF Leave, Flag
  <2>4. left' \subseteq dispatched' /\ tail' \in [Group -> Scenario \cup {NoScenario}]
    BY <1>1, <1>11, <2>1, TurnTypes DEF Leave
  <2> QED
    BY <1>1, <1>11, <2>1, <2>2, <2>3, <2>4 DEF Leave, RunTypeOK, profileVars, endVars
<1>12. ASSUME Catch(w)
       PROVE  RunTypeOK'
  <2> DEFINE s == pool[w]
  <2>1. s \in Scenario /\ finished[s] = 0
    BY <1>12, WorkedOn DEF Catch
  <2>2. outcome' \in [Scenario -> Outcomes]
    BY <1>2, <1>12 DEF Catch
  <2>3. /\ pool' \in [Worker -> PoolValues] /\ finished' \in [Scenario -> 0..1]
        /\ flags' \in SUBSET Flags
    BY <1>2, <1>3, <1>5, <1>12, <2>1 DEF Catch, Reject, Flag
  <2>4. verdict' \in {"none", "ok", "failed", "rejected"} /\ faults' \in 0..MaxFaults
    BY <1>2, <1>4, <1>12 DEF Catch, Reject
  <2> QED
    BY <1>1, <1>12, <2>2, <2>3, <2>4 DEF Catch, RunTypeOK, scenarioVars, profileVars
<1>13. ASSUME Retire(w)
       PROVE  RunTypeOK'
  <2>1. pool' \in [Worker -> PoolValues]
    BY <1>2, <1>13 DEF Retire
  <2> QED
    BY <1>1, <1>13, <2>1 DEF Retire, RunTypeOK, scenarioVars, profileVars, endVars
<1>14. ASSUME Raise(w)
       PROVE  RunTypeOK'
  <2> DEFINE s == pool[w]
  <2>1. s \in Scenario /\ s \in dispatched /\ cursor' = cursor /\ dispatched' = dispatched
    BY <1>14, WorkedOn DEF Raise
  <2>2. run' \in [Scenario -> RunRecord] /\ flags' \in SUBSET Flags
    BY <1>2, <1>9, <1>14 DEF Raise, Flag
  <2>3. left' \subseteq dispatched' /\ tail' \in [Group -> Scenario \cup {NoScenario}]
    BY <1>1, <1>14, <2>1, TurnTypes DEF Raise
  <2>4. faults' \in 0..MaxFaults
    BY <1>4, <1>14 DEF Raise
  <2> QED
    BY <1>1, <1>14, <2>1, <2>2, <2>3, <2>4 DEF Raise, RunTypeOK, profileVars, endVars
<1> QED
  BY <1>6, <1>7, <1>10, <1>11, <1>12, <1>13, <1>14 DEF Continue

\* What becomes of a scenario while it is worked on keeps the types, and so does the end.
LEMMA RunTypes ==
  ASSUME RunInv, RunNext
  PROVE  RunTypeOK'
<1>1. RunTypeOK /\ ProgressIsTrue
  BY DEF RunInv
<1>2. ASSUME NEW s \in Scenario, Answer(s) \/ TimerFires(s), UNCHANGED <<aborted, Rest>>
      PROVE  RunTypeOK'
  <2>1. \E r \in RunRecord : Moves(s, r)
    BY <1>1, <1>2, AnswerMoves, TrueRecords DEF RunTypeOK
  <2>2. run' \in [Scenario -> RunRecord]
    BY <1>1, <2>1 DEF Moves, RunTypeOK
  <2> QED
    BY <1>1, <1>2, <2>2 DEF RunTypeOK, Rest, poolVars, profileVars, endVars
<1>3. ASSUME Record
      PROVE  RunTypeOK'
  <2>1. \A F : Derived(F) \in {"succeeded", "failed", "budget_exceeded"}
    BY DEF Derived
  <2>2. state' \in {"none", "succeeded", "failed", "budget_exceeded"}
    BY <1>1, <1>3, <2>1 DEF Record, RunTypeOK
  <2>3. faults' \in 0..MaxFaults
    BY <1>1, <1>3, RunAssumption DEF Record, RunTypeOK
  <2>4. flags' \subseteq {"budget", "cancelled", "runtime", "execution", "replay", "publication",
                          "finalization", "finding"}
    BY <1>1, <1>3 DEF Record, RunTypeOK
  <2> QED
    BY <1>1, <1>3, <2>2, <2>3, <2>4 DEF Record, RunTypeOK, scenarioVars, poolVars, profileVars
<1>4. ASSUME NEW artifacts \in SUBSET Artifacts, NEW next \in {"checkpoint", "manifest", "judge"},
             Publish(artifacts, next) \/ Skip(next)
      PROVE  RunTypeOK'
  BY <1>1, <1>4 DEF Publish, Skip, Flag, RunTypeOK, scenarioVars, poolVars, profileVars
<1>5. ASSUME PublishStreams \/ PublishCheckpoint \/ PublishManifest
      PROVE  RunTypeOK'
  BY <1>4, <1>5 DEF PublishStreams, PublishCheckpoint, PublishManifest, Artifacts
<1>6. ASSUME Judge
      PROVE  RunTypeOK'
  BY <1>1, <1>6 DEF Judge, RunTypeOK, scenarioVars, poolVars, profileVars
<1>7. ASSUME CancelRun
      PROVE  RunTypeOK'
  BY <1>1, <1>7 DEF CancelRun, RunTypeOK, Rest, poolVars, profileVars, endVars
<1>8. ASSUME Elapse
      PROVE  RunTypeOK'
  BY <1>1, <1>8 DEF Elapse, RunTypeOK, scenarioVars, poolVars, profileVars, endVars
<1> QED
  BY <1>2, <1>3, <1>5, <1>6, <1>7, <1>8, WorkerTypes DEF RunNext, Answered, EndRun

-----------------------------------------------------------------------------
(* What the scenarios have collected *)

\* Changing the record of one scenario to a true one keeps them all true.
LEMMA ProgressOf ==
  ASSUME RunTypeOK, ProgressIsTrue, aborted' = aborted,
         \/ run' = run
         \/ \E s \in Scenario : \E r \in RunRecord :
              run' = [run EXCEPT ![s] = r] /\ TrueRecord(s, r, aborted)
  PROVE  ProgressIsTrue'
<1>1. run \in [Scenario -> RunRecord] /\ \A t \in Scenario : TrueRecord(t, run[t], aborted)
  BY TrueRecords DEF RunTypeOK
<1>2. (\A t \in Scenario : TrueRecord(t, run'[t], aborted')) => ProgressIsTrue'
  BY DEF ProgressIsTrue, TrueRecord, Done, Failures
<1>3. CASE run' = run
  BY <1>1, <1>2, <1>3
<1>4. ASSUME NEW s \in Scenario, NEW r \in RunRecord, run' = [run EXCEPT ![s] = r],
             TrueRecord(s, r, aborted)
      PROVE  ProgressIsTrue'
  <2>1. ASSUME NEW t \in Scenario
        PROVE  TrueRecord(t, run'[t], aborted')
    <3>1. CASE t = s
      BY <1>1, <1>4, <3>1
    <3>2. CASE t # s
      <4>1. run'[t] = run[t]
        BY <1>1, <1>4, <3>2
      <4> QED
        BY <1>1, <4>1
    <3> QED
      BY <3>1, <3>2
  <2> QED
    BY <1>2, <2>1
<1> QED
  BY <1>3, <1>4

\* A scenario that awaits an answer is worked on.
LEMMA AwaitingIsWorkedOn ==
  ASSUME RunTypeOK, PoolIsKept, NEW s \in Scenario, run[s].stage \in Awaiting
  PROVE  InPool(s)
<1>1. run[s].stage \notin {"idle", "ended", "thrown"}
  BY DEF Awaiting
<1>2. s \in dispatched
  BY <1>1, EmptyRecords DEF PoolIsKept
<1>3. s < cursor
  BY <1>2, ScenarioNumbers
<1> QED
  BY <1>1, <1>2, <1>3 DEF PoolIsKept

\* When the signal comes no scenario has its result and has not been left yet.
LEMMA CancelKeepsProgress ==
  ASSUME RunInv, CancelRun
  PROVE  ProgressIsTrue'
<1>1. RunTypeOK /\ PoolIsKept /\ ProgressIsTrue
  BY DEF RunInv
<1>2. /\ run' = run /\ aborted' /\ ~aborted /\ Quiet
  BY DEF CancelRun
<1>3. (\A t \in Scenario : TrueRecord(t, run[t], aborted')) => ProgressIsTrue'
  BY <1>2 DEF ProgressIsTrue, TrueRecord, Done, Failures
<1>4. ASSUME NEW t \in Scenario
      PROVE  ~Done(t)
  <2>1. SUFFICES ASSUME Done(t) PROVE FALSE
    OBVIOUS
  <2>2. run[t].stage \in Awaiting /\ run[t].stage # "idle"
    BY <2>1 DEF Done, Awaiting
  <2>3. PICK w \in Worker : pool[w] = t
    BY <1>1, <2>2, AwaitingIsWorkedOn DEF InPool
  <2>4. pool[w] \notin {Returned, Threw}
    BY <1>1, <2>3, ScenarioNumbers
  <2> QED
    BY <1>2, <2>1, <2>2, <2>3, <2>4 DEF Quiet
<1>5. ASSUME NEW t \in Scenario
      PROVE  TrueRecord(t, run[t], aborted')
  <2>1. TrueRecord(t, run[t], aborted) /\ ~Done(t)
    BY <1>1, <1>4, TrueRecords
  <2> QED
    BY <2>1 DEF TrueRecord, Done
<1> QED
  BY <1>3, <1>5

\* What the scenarios have collected stays what it means.
LEMMA ProgressStays ==
  ASSUME RunInv, RunNext
  PROVE  ProgressIsTrue'
<1>1. /\ RunTypeOK /\ ProgressIsTrue /\ aborted \in BOOLEAN
      /\ run \in [Scenario -> RunRecord] /\ \A t \in Scenario : TrueRecord(t, run[t], aborted)
  BY TrueRecords DEF RunInv, RunTypeOK
<1>2. ASSUME NEW s \in Scenario, NEW stage \in {"ended", "thrown"}, Becomes(s, Over(stage)),
             aborted' = aborted
      PROVE  ProgressIsTrue'
  BY <1>1, <1>2, EmptyRecords, ProgressOf DEF Becomes
<1>3. ASSUME NEW s \in Scenario, \E r \in RunRecord : Moves(s, r), aborted' = aborted
      PROVE  ProgressIsTrue'
  BY <1>1, <1>3, ProgressOf DEF Moves
<1>4. ASSUME UNCHANGED scenarioVars
      PROVE  ProgressIsTrue'
  BY <1>1, <1>4, ProgressOf DEF scenarioVars
<1>5. ASSUME NEW w \in Worker, Continue(w) \/ Raise(w)
      PROVE  ProgressIsTrue'
  <2>1. CASE Enter(w)
    <3>1. pool[w] \in Scenario /\ aborted' = aborted
      BY <2>1 DEF Enter
    <3>2. CASE overdue
      BY <1>2, <2>1, <3>1, <3>2 DEF Enter
    <3>3. CASE ~overdue
      <4>1. \E r \in RunRecord : Moves(pool[w], r)
        BY <1>1, <2>1, <3>1, <3>3, BeginMoves DEF Enter
      <4> QED
        BY <1>3, <3>1, <4>1
    <3> QED
      BY <1>1, <3>2, <3>3 DEF RunTypeOK
  <2>2. CASE Leave(w)
    BY <1>2, <2>2 DEF Leave
  <2>3. CASE Raise(w)
    BY <1>2, <2>3 DEF Raise
  <2>4. CASE Dispatch(w) \/ Forgo(w) \/ Catch(w) \/ Retire(w)
    BY <1>4, <2>4 DEF Dispatch, Forgo, Catch, Retire
  <2> QED
    BY <1>5, <2>1, <2>2, <2>3, <2>4 DEF Continue
<1>6. ASSUME NEW s \in Scenario, Answer(s) \/ TimerFires(s), aborted' = aborted
      PROVE  ProgressIsTrue'
  <2>1. \E r \in RunRecord : Moves(s, r)
    BY <1>1, <1>6, AnswerMoves
  <2> QED
    BY <1>3, <1>6, <2>1
<1>7. ASSUME EndRun \/ Elapse
      PROVE  ProgressIsTrue'
  <2>1. CASE Record \/ Judge \/ Elapse
    BY <1>4, <2>1 DEF Record, Judge, Elapse
  <2>2. CASE PublishStreams \/ PublishCheckpoint \/ PublishManifest
    BY <1>4, <2>2 DEF PublishStreams, PublishCheckpoint, PublishManifest, Publish, Skip
  <2> QED
    BY <1>7, <2>1, <2>2 DEF EndRun
<1> QED
  BY <1>5, <1>6, <1>7, CancelKeepsProgress DEF RunNext, Answered

-----------------------------------------------------------------------------
(* The turns in a group *)

\* A scenario whose turn has come, or has been, has none before it that has not left.
LEMMA TurnHasCome ==
  ASSUME RunTypeOK, TurnsAreInOrder, NEW t \in dispatched, Ready(t) \/ run[t].stage # "idle",
         NEW s \in Scenario, Precedes(s, t)
  PROVE  s \in left
<1>1. CASE run[t].stage # "idle"
  BY <1>1 DEF TurnsAreInOrder
<1>2. CASE Ready(t) /\ behind[t] = NoScenario
  BY <1>2 DEF TurnsAreInOrder
<1>3. CASE Ready(t) /\ behind[t] # NoScenario
  <2> DEFINE b == behind[t]
  <2>1. b \in left /\ b \in dispatched /\ b \in Scenario
    BY <1>3, ScenarioNumbers DEF Ready, RunTypeOK
  <2>2. s <= b /\ Precedes(b, t)
    BY <1>3 DEF TurnsAreInOrder
  <2>3. CASE s = b
    BY <2>1, <2>3
  <2>4. CASE s # b
    <3>1. Precedes(s, b)
      <4>1. s \in Nat /\ b \in Nat
        BY <2>1, ScenarioNumbers
      <4>2. s < b
        BY <2>2, <2>4, <4>1
      <4> QED
        BY <2>2, <4>2 DEF Precedes
    <3> QED
      BY <2>1, <3>1 DEF TurnsAreInOrder
  <2> QED
    BY <2>3, <2>4
<1> QED
  BY <1>1, <1>2, <1>3 DEF Ready

\* A step that leaves the groups alone, and begins no scenario before its turn.
LEMMA TurnsKept ==
  ASSUME RunTypeOK, TurnsAreInOrder, UNCHANGED <<tail, behind, left, dispatched>>,
         \A t \in dispatched : run'[t].stage = "idle" \/ run[t].stage # "idle" \/ Ready(t)
  PROVE  TurnsAreInOrder'
<1>1. ASSUME NEW t \in dispatched, run'[t].stage # "idle", NEW s \in Scenario, Precedes(s, t)
      PROVE  s \in left
  <2>1. Ready(t) \/ run[t].stage # "idle"
    BY <1>1
  <2> QED
    BY <1>1, <2>1, TurnHasCome
<1>2. \A s, t : Precedes(s, t)' <=> Precedes(s, t)
  BY DEF Precedes
<1> QED
  BY <1>1, <1>2 DEF TurnsAreInOrder

\* A scenario gives up its turn when that has come.
LEMMA TurnGivenUp ==
  ASSUME RunTypeOK, TurnsAreInOrder, NEW s \in dispatched, Ready(s) \/ run[s].stage # "idle",
         GiveUpTurn(s), UNCHANGED <<behind, dispatched>>,
         NEW r, run' = [run EXCEPT ![s] = r]
  PROVE  TurnsAreInOrder'
<1>1. /\ left' = left \cup {s} /\ left \subseteq dispatched
      /\ tail' = [g \in Group |-> IF tail[g] = s THEN NoScenario ELSE tail[g]]
      /\ tail \in [Group -> Scenario \cup {NoScenario}]
      /\ run \in [Scenario -> RunRecord]
  BY DEF GiveUpTurn, RunTypeOK
<1>2. s \in Scenario /\ s \in Nat /\ \A t \in dispatched : t \in Scenario /\ t \in Nat
  BY ScenarioNumbers
<1>3. \A u \in Scenario : Precedes(u, s) => u \in left
  BY TurnHasCome
<1>4. \A u, t : Precedes(u, t)' <=> Precedes(u, t)
  BY DEF Precedes
<1>5. ASSUME NEW t \in dispatched, NEW u \in Scenario, Precedes(u, t)
      PROVE  /\ IF behind[t] = NoScenario THEN u \in left' ELSE u <= behind[t]
             /\ run'[t].stage # "idle" \/ t \in left' => u \in left'
  <2>1. IF behind[t] = NoScenario THEN u \in left' ELSE u <= behind[t]
    BY <1>1, <1>5 DEF TurnsAreInOrder
  <2>2. CASE t = s
    BY <1>1, <1>3, <1>5, <2>1, <2>2
  <2>3. CASE t # s
    <3>1. run'[t] = run[t] /\ (t \in left' <=> t \in left)
      BY <1>1, <1>2, <2>3
    <3> QED
      BY <1>1, <1>5, <2>1, <3>1 DEF TurnsAreInOrder
  <2> QED
    BY <2>2, <2>3
<1>6. ASSUME NEW g \in Group
      PROVE  /\ tail'[g] # NoScenario => tail'[g] \in dispatched /\ GroupOf[tail'[g]] = g
             /\ \A u \in dispatched : GroupOf[u] = g =>
                  IF tail'[g] = NoScenario THEN u \in left' ELSE u <= tail'[g]
  <2>1. /\ tail[g] # NoScenario => tail[g] \in dispatched /\ GroupOf[tail[g]] = g
        /\ \A u \in dispatched : GroupOf[u] = g =>
             IF tail[g] = NoScenario THEN u \in left ELSE u <= tail[g]
    BY DEF TurnsAreInOrder
  <2>2. CASE tail[g] # s
    <3>1. tail'[g] = tail[g]
      BY <1>1, <2>2
    <3> QED
      BY <1>1, <2>1, <3>1
  <2>3. CASE tail[g] = s
    <3>1. tail'[g] = NoScenario /\ s # NoScenario
      BY <1>1, <1>2, <2>3, ScenarioNumbers
    <3>2. ASSUME NEW u \in dispatched, GroupOf[u] = g
          PROVE  u \in left'
      <4>1. u <= s /\ GroupOf[s] = g
        BY <2>1, <2>3, <3>1, <3>2
      <4>2. u = s \/ Precedes(u, s)
        <5>1. g # NoGroup
          BY RunAssumption
        <5>2. u = s \/ u < s
          BY <1>2, <4>1
        <5> QED
          BY <3>2, <4>1, <5>1, <5>2 DEF Precedes
      <4> QED
        BY <1>1, <1>2, <1>3, <4>2
    <3> QED
      BY <3>1, <3>2
  <2> QED
    BY <2>2, <2>3
<1>7. \A t \in Scenario \ dispatched : behind[t] = NoScenario
  BY DEF TurnsAreInOrder
<1>8. \A t \in dispatched : behind[t] # NoScenario => Precedes(behind[t], t)
  BY DEF TurnsAreInOrder
<1> QED
  BY <1>4, <1>5, <1>6, <1>7, <1>8 DEF TurnsAreInOrder

\* The next scenario joins the end of its group.
LEMMA TurnTaken ==
  ASSUME RunTypeOK, TurnsAreInOrder, NEW w \in Worker, Dispatch(w), run[cursor].stage = "idle"
  PROVE  TurnsAreInOrder'
<1> DEFINE s == cursor
           g0 == GroupOf[cursor]
<1>1. /\ s \in Scenario /\ s \in Nat /\ s # NoScenario
      /\ \A t \in dispatched : t \in Scenario /\ t \in Nat /\ t < s
  BY ScenarioNumbers DEF Dispatch
<1>2. /\ dispatched' = dispatched \cup {s} /\ left' = left /\ run' = run /\ Join(s)
      /\ left \subseteq dispatched
      /\ tail \in [Group -> Scenario \cup {NoScenario}]
      /\ behind \in [Scenario -> Scenario \cup {NoScenario}]
  BY DEF Dispatch, RunTypeOK, scenarioVars
<1>3. s \notin dispatched /\ s \notin left /\ behind[s] = NoScenario /\ run'[s].stage = "idle"
  <2>1. s \notin dispatched
    BY <1>1
  <2> QED
    BY <1>1, <1>2, <2>1 DEF TurnsAreInOrder
<1>4. /\ \A t \in Scenario : t # s => behind'[t] = behind[t]
      /\ \A g \in Group : g # g0 => tail'[g] = tail[g]
      /\ g0 = NoGroup => behind'[s] = NoScenario
      /\ g0 # NoGroup => g0 \in Group /\ behind'[s] = tail[g0] /\ tail'[g0] = s
  <2>1. g0 # NoGroup => g0 \in Group
    BY <1>1, RunAssumption
  <2>2. CASE g0 = NoGroup
    BY <1>2, <1>3, <2>1, <2>2 DEF Join
  <2>3. CASE g0 # NoGroup
    BY <1>1, <1>2, <1>3, <2>1, <2>3 DEF Join
  <2> QED
    BY <2>2, <2>3
<1> HIDE DEF s, g0
<1>5. \A g \in Group :
        /\ tail[g] # NoScenario => tail[g] \in dispatched /\ GroupOf[tail[g]] = g
        /\ \A u \in dispatched : GroupOf[u] = g =>
             IF tail[g] = NoScenario THEN u \in left ELSE u <= tail[g]
  BY DEF TurnsAreInOrder
<1>6. g0 = GroupOf[s]
  BY DEF g0, s
<1>7. \A u, t : Precedes(u, t)' <=> Precedes(u, t) \/ (u = s /\ s < t /\ GroupOf[s] = GroupOf[t] /\ GroupOf[s] # NoGroup)
  BY <1>2 DEF Precedes
<1>8. ASSUME NEW t \in dispatched'
      PROVE  /\ behind'[t] # NoScenario => Precedes(behind'[t], t)
             /\ \A u \in Scenario : Precedes(u, t)' =>
                  /\ IF behind'[t] = NoScenario THEN u \in left' ELSE u <= behind'[t]
                  /\ run'[t].stage # "idle" \/ t \in left' => u \in left'
  <2>1. CASE t \in dispatched
    <3>1. t # s /\ behind'[t] = behind[t] /\ ~(s < t) /\ run'[t] = run[t]
      BY <1>1, <1>2, <1>3, <1>4, <2>1
    <3> QED
      BY <1>2, <1>7, <2>1, <3>1 DEF TurnsAreInOrder
  <2>2. CASE t = s /\ g0 = NoGroup
    BY <1>3, <1>4, <1>6, <2>2 DEF Precedes
  <2>3. CASE t = s /\ g0 # NoGroup
    <3>1. behind'[t] = tail[g0] /\ g0 \in Group
      BY <1>4, <2>3
    <3>2. tail[g0] # NoScenario => Precedes(tail[g0], s)
      BY <1>1, <1>5, <1>6, <2>3, <3>1 DEF Precedes
    <3>3. ASSUME NEW u \in Scenario, Precedes(u, t)'
          PROVE  u \in dispatched /\ GroupOf[u] = g0
      <4>1. Precedes(u, t)
        BY <1>1, <1>7, <2>3, <3>3
      <4> QED
        BY <1>6, <2>3, <4>1 DEF Precedes
    <3>4. t \notin left' /\ run'[t].stage = "idle"
      BY <1>2, <1>3, <2>3
    <3>6. ASSUME NEW u \in Scenario, Precedes(u, t)'
          PROVE  IF behind'[t] = NoScenario THEN u \in left' ELSE u <= behind'[t]
      BY <1>2, <1>5, <3>1, <3>3, <3>6
    <3>7. behind'[t] # NoScenario => Precedes(behind'[t], t)
      BY <2>3, <3>1, <3>2
    <3> QED
      BY <3>4, <3>6, <3>7
  <2> QED
    BY <1>2, <2>1, <2>2, <2>3
<1>9. ASSUME NEW g \in Group
      PROVE  /\ tail'[g] # NoScenario => tail'[g] \in dispatched' /\ GroupOf[tail'[g]] = g
             /\ \A u \in dispatched' : GroupOf[u] = g =>
                  IF tail'[g] = NoScenario THEN u \in left' ELSE u <= tail'[g]
  <2>1. CASE g # g0
    <3>1. tail'[g] = tail[g] /\ GroupOf[s] # g
      BY <1>4, <1>6, <2>1
    <3> QED
      BY <1>2, <1>5, <3>1
  <2>2. CASE g = g0
    <3>1. g0 # NoGroup
      BY <2>2, RunAssumption
    <3>2. tail'[g] = s /\ GroupOf[s] = g
      BY <1>4, <1>6, <2>2, <3>1
    <3> QED
      BY <1>1, <1>2, <3>2
  <2> QED
    BY <2>1, <2>2
<1>10. \A t \in Scenario \ dispatched' : behind'[t] = NoScenario
  BY <1>2, <1>3, <1>4 DEF TurnsAreInOrder
<1>11. \A u, t : Precedes(u, t) => Precedes(u, t)'
  BY <1>7
<1> QED
  BY <1>8, <1>9, <1>10, <1>11 DEF TurnsAreInOrder

\* Only a scenario that awaits something is answered, and its timer only fires then.
LEMMA AnswersAreAwaited ==
  ASSUME NEW s \in Scenario, Answer(s) \/ TimerFires(s)
  PROVE  run[s].stage \in Awaiting
BY DEF Answer, TimerFires, Step, Check, Clean, Transition, Observe, CleanJourney, Awaiting

\* Two scenarios of a group are kept apart, and in their order.
LEMMA TurnsStay ==
  ASSUME RunInv, RunNext
  PROVE  TurnsAreInOrder'
<1>1. /\ RunTypeOK /\ TurnsAreInOrder /\ PoolIsKept
      /\ run \in [Scenario -> RunRecord] /\ \A t \in dispatched : t \in Scenario
  BY ScenarioNumbers DEF RunInv, RunTypeOK
<1>2. ASSUME NEW s \in Scenario, NEW r, run' = [run EXCEPT ![s] = r],
             run[s].stage # "idle" \/ Ready(s), UNCHANGED <<tail, behind, left, dispatched>>
      PROVE  TurnsAreInOrder'
  <2>1. \A t \in Scenario : t # s => run'[t] = run[t]
    BY <1>1, <1>2
  <2> QED
    BY <1>1, <1>2, <2>1, TurnsKept
<1>3. ASSUME UNCHANGED <<run, tail, behind, left, dispatched>>
      PROVE  TurnsAreInOrder'
  BY <1>1, <1>3, TurnsKept
<1>4. ASSUME NEW w \in Worker, Continue(w)
      PROVE  TurnsAreInOrder'
  <2>1. CASE Dispatch(w)
    <3>1. cursor \in Scenario /\ cursor \notin dispatched
      BY <1>1, <2>1, ScenarioNumbers DEF Dispatch
    <3>2. run[cursor].stage = "idle"
      BY <1>1, <3>1, EmptyRecords DEF PoolIsKept
    <3> QED
      BY <1>1, <2>1, <3>2, TurnTaken
  <2>2. CASE Enter(w)
    <3>1. pool[w] \in Scenario /\ pool[w] \in dispatched /\ Ready(pool[w])
      BY <2>2, WorkedOn DEF Enter
    <3>2. CASE overdue
      BY <1>1, <2>2, <3>1, <3>2, TurnGivenUp DEF Enter, Becomes
    <3>3. CASE ~overdue
      <4>1. \E r \in RunRecord : Moves(pool[w], r)
        BY <1>1, <2>2, <3>1, <3>3, BeginMoves, TrueRecords DEF Enter, RunInv
      <4> QED
        BY <1>2, <2>2, <3>1, <3>3, <4>1 DEF Enter, Moves
    <3> QED
      BY <1>1, <3>2, <3>3 DEF RunTypeOK
  <2>3. CASE Leave(w)
    <3>1. pool[w] \in Scenario /\ pool[w] \in dispatched
      BY <2>3, WorkedOn DEF Leave
    <3>2. run[pool[w]].stage # "idle"
      BY <2>3 DEF Leave, Done
    <3> QED
      BY <1>1, <2>3, <3>1, <3>2, TurnGivenUp DEF Leave, Becomes
  <2>4. CASE Forgo(w) \/ Catch(w) \/ Retire(w)
    BY <1>3, <2>4 DEF Forgo, Catch, Retire, scenarioVars
  <2> QED
    BY <1>4, <2>1, <2>2, <2>3, <2>4 DEF Continue
<1>5. ASSUME NEW w \in Worker, Raise(w)
      PROVE  TurnsAreInOrder'
  <2>1. pool[w] \in Scenario /\ pool[w] \in dispatched
    BY <1>5, WorkedOn DEF Raise
  <2>2. Ready(pool[w]) \/ run[pool[w]].stage # "idle"
    BY <1>5 DEF Raise, CanRaise, Done, Awaiting
  <2> QED
    BY <1>1, <1>5, <2>1, <2>2, TurnGivenUp DEF Raise, Becomes
<1>6. ASSUME NEW s \in Scenario, Answer(s) \/ TimerFires(s), UNCHANGED <<aborted, Rest>>
      PROVE  TurnsAreInOrder'
  <2>1. \E r \in RunRecord : Moves(s, r)
    BY <1>1, <1>6, AnswerMoves, TrueRecords DEF RunInv, RunTypeOK
  <2>2. run[s].stage # "idle"
    BY <1>6, AnswersAreAwaited DEF Awaiting
  <2> QED
    BY <1>2, <1>6, <2>1, <2>2 DEF Moves, Rest, poolVars
<1>7. ASSUME EndRun \/ CancelRun \/ Elapse
      PROVE  TurnsAreInOrder'
  <2>1. CASE Record \/ Judge \/ Elapse \/ CancelRun
    BY <1>3, <2>1 DEF Record, Judge, Elapse, CancelRun, Rest, scenarioVars, poolVars
  <2>2. CASE PublishStreams \/ PublishCheckpoint \/ PublishManifest
    BY <1>3, <2>2 DEF PublishStreams, PublishCheckpoint, PublishManifest, Publish, Skip,
                      scenarioVars, poolVars
  <2> QED
    BY <1>7, <2>1, <2>2 DEF EndRun
<1> QED
  BY <1>4, <1>5, <1>6, <1>7 DEF RunNext, Answered

-----------------------------------------------------------------------------
(* The pool *)

\* A step that neither takes a scenario nor gives one up.
LEMMA PoolUntouched ==
  ASSUME RunTypeOK, PoolIsKept, UNCHANGED <<cursor, pool, dispatched, outcome, finished>>,
         left \subseteq left', verdict = "rejected" => verdict' = "rejected",
         \A s \in Scenario :
           \/ run'[s] = run[s]
           \/ InPool(s) /\ (run'[s].stage = "thrown" => s \in left')
  PROVE  PoolIsKept'
<1>1. \A s : InPool(s)' <=> InPool(s)
  BY DEF InPool
<1>2. /\ \A v, w \in Worker : v # w /\ pool[v] \in Scenario => pool[v] # pool[w]
      /\ \A w \in Worker : pool[w] = Returned => cursor \notin Scenario
  BY DEF PoolIsKept
<1>3. ASSUME NEW s \in Scenario
      PROVE  /\ InPool(s)' => s \in dispatched' /\ outcome'[s] = "none" /\ finished'[s] = 0
             /\ ~InPool(s)' /\ s < cursor' =>
                  /\ outcome'[s] # "none" /\ (finished'[s] = 1 \/ verdict' = "rejected")
                  /\ s \in dispatched' => s \in left' /\ run'[s].stage \in {"ended", "thrown"}
             /\ s >= cursor' => outcome'[s] = "none" /\ finished'[s] = 0
             /\ s \notin dispatched' => run'[s] = Fresh
             /\ run'[s].stage = "thrown" => s \in left'
  <2>1. CASE run'[s] = run[s]
    BY <1>1, <2>1 DEF PoolIsKept
  <2>2. CASE InPool(s) /\ (run'[s].stage = "thrown" => s \in left')
    BY <1>1, <2>2 DEF PoolIsKept
  <2> QED
    BY <2>1, <2>2
<1> QED
  BY <1>2, <1>3 DEF PoolIsKept

\* A worker gives up the scenario it works on, which has an outcome then.
LEMMA PoolSettled ==
  ASSUME RunTypeOK, PoolIsKept, NEW w \in Worker, NEW s \in Scenario, pool[w] = s,
         UNCHANGED <<cursor, dispatched>>, left \subseteq left', s \in left',
         NEW value \in {NoScenario, Threw}, pool' = [pool EXCEPT ![w] = value],
         NEW o, o # "none", outcome' = [outcome EXCEPT ![s] = o],
         \/ finished' = [finished EXCEPT ![s] = @ + 1]
         \/ finished' = finished /\ verdict' = "rejected",
         verdict = "rejected" => verdict' = "rejected",
         \A t \in Scenario : t # s => run'[t] = run[t],
         run'[s].stage \in {"ended", "thrown"}
  PROVE  PoolIsKept'
<1>1. /\ pool \in [Worker -> Scenario \cup {NoScenario, Returned, Threw}]
      /\ outcome \in [Scenario -> {"none", "pass", "fail", "error", "blocked", "not_run"}]
      /\ finished \in [Scenario -> 0..1]
  BY DEF RunTypeOK
<1>2. value \notin Scenario /\ value # Returned
  BY RunAssumption, ScenarioNumbers
<1>3. /\ pool'[w] = value /\ \A v \in Worker : v # w => pool'[v] = pool[v]
      /\ \A v \in Worker : v # w => pool[v] # s
  BY <1>1 DEF PoolIsKept
<1>4. ~InPool(s)'
  BY <1>2, <1>3 DEF InPool
<1>5. \A t \in Scenario : t # s => (InPool(t)' <=> InPool(t))
  BY <1>2, <1>3 DEF InPool
<1>6. /\ InPool(s) /\ s \in dispatched /\ finished[s] = 0
      /\ s < cursor /\ s \in Nat /\ cursor \in Nat
  <2>1. InPool(s)
    BY DEF InPool
  <2>2. s \in dispatched /\ finished[s] = 0
    BY <2>1 DEF PoolIsKept
  <2> QED
    BY <2>1, <2>2, ScenarioNumbers
<1>7. /\ outcome'[s] # "none" /\ (finished'[s] = 1 \/ verdict' = "rejected")
  BY <1>1, <1>6
<1>8. \A t \in Scenario : t # s => outcome'[t] = outcome[t] /\ finished'[t] = finished[t]
  BY <1>1
<1>9. ASSUME NEW t \in Scenario
      PROVE  /\ InPool(t)' => t \in dispatched' /\ outcome'[t] = "none" /\ finished'[t] = 0
             /\ ~InPool(t)' /\ t < cursor' =>
                  /\ outcome'[t] # "none" /\ (finished'[t] = 1 \/ verdict' = "rejected")
                  /\ t \in dispatched' => t \in left' /\ run'[t].stage \in {"ended", "thrown"}
             /\ t >= cursor' => outcome'[t] = "none" /\ finished'[t] = 0
             /\ t \notin dispatched' => run'[t] = Fresh
             /\ run'[t].stage = "thrown" => t \in left'
  <2>1. CASE t = s
    BY <1>4, <1>6, <1>7, <2>1
  <2>2. CASE t # s
    <3>1. /\ run'[t] = run[t] /\ outcome'[t] = outcome[t] /\ finished'[t] = finished[t]
          /\ (InPool(t)' <=> InPool(t))
      BY <1>5, <1>8, <2>2
    <3> QED
      BY <3>1 DEF PoolIsKept
  <2> QED
    BY <2>1, <2>2
<1>10. \A u, v \in Worker : u # v /\ pool'[u] \in Scenario => pool'[u] # pool'[v]
  BY <1>2, <1>3 DEF PoolIsKept
<1>11. \A v \in Worker : pool'[v] = Returned => cursor' \notin Scenario
  BY <1>2, <1>3 DEF PoolIsKept
<1> QED
  BY <1>9, <1>10, <1>11 DEF PoolIsKept

\* A worker takes the next scenario, gives one up without it, or is through.
LEMMA PoolTaken ==
  ASSUME RunTypeOK, PoolIsKept, NEW w \in Worker, Dispatch(w) \/ Forgo(w) \/ Retire(w)
  PROVE  PoolIsKept'
<1>1. /\ pool \in [Worker -> Scenario \cup {NoScenario, Returned, Threw}]
      /\ outcome \in [Scenario -> {"none", "pass", "fail", "error", "blocked", "not_run"}]
      /\ finished \in [Scenario -> 0..1]
      /\ pool[w] = NoScenario /\ run' = run /\ left' = left
      /\ cursor \in Nat /\ Scenario \subseteq Nat
      /\ NoScenario \notin Scenario /\ Returned \notin Scenario /\ Threw \notin Scenario
      /\ NoScenario # Returned /\ Threw # Returned
  BY ScenarioNumbers, RunAssumption DEF RunTypeOK, Dispatch, Forgo, Retire, scenarioVars
<1>2. \A s \in Scenario : s < cursor + 1 <=> s < cursor \/ s = cursor
  BY ScenarioNumbers
<1>3. cursor \in Scenario => /\ outcome[cursor] = "none" /\ finished[cursor] = 0
                             /\ ~InPool(cursor) /\ cursor \notin dispatched
  <2>1. cursor \notin dispatched
    BY <1>1, ScenarioNumbers
  <2> QED
    BY <1>1, <2>1 DEF PoolIsKept
<1>4. ASSUME NEW value, value \notin Scenario, pool' = pool \/ pool' = [pool EXCEPT ![w] = value]
      PROVE  \A s \in Scenario : InPool(s)' <=> InPool(s)
  BY <1>1, <1>4 DEF InPool
<1>5. CASE Dispatch(w)
  <2>1. /\ cursor \in Scenario /\ cursor' = cursor + 1 /\ pool' = [pool EXCEPT ![w] = cursor]
        /\ dispatched' = dispatched \cup {cursor} /\ outcome' = outcome /\ finished' = finished
        /\ verdict' = verdict
    BY <1>5 DEF Dispatch, endVars
  <2>2. /\ pool'[w] = cursor /\ \A v \in Worker : v # w => pool'[v] = pool[v]
        /\ \A v \in Worker : pool[v] # cursor
    BY <1>1, <1>3, <2>1 DEF InPool
  <2>3. \A s \in Scenario : IF s = cursor THEN InPool(s)' ELSE InPool(s)' <=> InPool(s)
    BY <1>1, <2>2 DEF InPool
  <2>4. ASSUME NEW s \in Scenario
        PROVE  /\ InPool(s)' => s \in dispatched' /\ outcome'[s] = "none" /\ finished'[s] = 0
               /\ ~InPool(s)' /\ s < cursor' =>
                    /\ outcome'[s] # "none" /\ (finished'[s] = 1 \/ verdict' = "rejected")
                    /\ s \in dispatched' => s \in left' /\ run'[s].stage \in {"ended", "thrown"}
               /\ s >= cursor' => outcome'[s] = "none" /\ finished'[s] = 0
               /\ s \notin dispatched' => run'[s] = Fresh
               /\ run'[s].stage = "thrown" => s \in left'
    <3>1. CASE s = cursor
      BY <1>1, <1>3, <2>1, <2>3, <3>1 DEF PoolIsKept
    <3>2. CASE s # cursor
      <4>1. (s < cursor' <=> s < cursor) /\ (s >= cursor' => s >= cursor)
        BY <1>1, <1>2, <2>1, <3>2
      <4> QED
        BY <1>1, <2>1, <2>3, <3>2, <4>1 DEF PoolIsKept
    <3> QED
      BY <3>1, <3>2
  <2>5. \A u, v \in Worker : u # v /\ pool'[u] \in Scenario => pool'[u] # pool'[v]
    BY <2>2 DEF PoolIsKept
  <2>6. \A v \in Worker : pool'[v] = Returned => cursor' \notin Scenario
    BY <1>1, <2>1, <2>2 DEF PoolIsKept
  <2> QED
    BY <2>4, <2>5, <2>6 DEF PoolIsKept
<1>6. CASE Forgo(w)
  <2>1. /\ cursor \in Scenario /\ cursor' = cursor + 1
        /\ pool' = pool \/ pool' = [pool EXCEPT ![w] = Threw]
        /\ dispatched' = dispatched /\ outcome' = [outcome EXCEPT ![cursor] = "not_run"]
        /\ \/ finished' = [finished EXCEPT ![cursor] = @ + 1] /\ verdict' = verdict
           \/ finished' = finished /\ verdict' = "rejected"
    BY <1>6 DEF Forgo, Reject
  <2>2. \A s \in Scenario : InPool(s)' <=> InPool(s)
    BY <1>1, <1>4, <2>1
  <2>3. /\ outcome'[cursor] # "none" /\ (finished'[cursor] = 1 \/ verdict' = "rejected")
        /\ \A s \in Scenario : s # cursor => outcome'[s] = outcome[s] /\ finished'[s] = finished[s]
        /\ verdict = "rejected" => verdict' = "rejected"
    BY <1>1, <1>3, <2>1
  <2>4. ASSUME NEW s \in Scenario
        PROVE  /\ InPool(s)' => s \in dispatched' /\ outcome'[s] = "none" /\ finished'[s] = 0
               /\ ~InPool(s)' /\ s < cursor' =>
                    /\ outcome'[s] # "none" /\ (finished'[s] = 1 \/ verdict' = "rejected")
                    /\ s \in dispatched' => s \in left' /\ run'[s].stage \in {"ended", "thrown"}
               /\ s >= cursor' => outcome'[s] = "none" /\ finished'[s] = 0
               /\ s \notin dispatched' => run'[s] = Fresh
               /\ run'[s].stage = "thrown" => s \in left'
    <3>1. CASE s = cursor
      <4>1. ~InPool(s)' /\ s \notin dispatched' /\ ~(s >= cursor')
        BY <1>1, <1>3, <2>1, <2>2, <3>1
      <4> QED
        BY <1>1, <2>1, <2>3, <3>1, <4>1 DEF PoolIsKept
    <3>2. CASE s # cursor
      <4>1. (s < cursor' <=> s < cursor) /\ (s >= cursor' => s >= cursor)
        BY <1>1, <1>2, <2>1, <3>2
      <4> QED
        BY <1>1, <2>1, <2>2, <2>3, <3>2, <4>1 DEF PoolIsKept
    <3> QED
      BY <3>1, <3>2
  <2>5. \A v \in Worker : pool'[v] = pool[v] \/ (pool'[v] = Threw /\ v = w)
    BY <1>1, <2>1
  <2>6. \A u, v \in Worker : u # v /\ pool'[u] \in Scenario => pool'[u] # pool'[v]
    BY <1>1, <2>5 DEF PoolIsKept
  <2>7. \A v \in Worker : pool'[v] = Returned => cursor' \notin Scenario
    BY <1>1, <2>1, <2>5 DEF PoolIsKept
  <2> QED
    BY <2>4, <2>6, <2>7 DEF PoolIsKept
<1>7. CASE Retire(w)
  <2>1. /\ cursor \notin Scenario /\ cursor' = cursor /\ pool' = [pool EXCEPT ![w] = Returned]
        /\ dispatched' = dispatched /\ outcome' = outcome /\ finished' = finished
        /\ verdict' = verdict
    BY <1>7 DEF Retire, endVars
  <2>2. \A s \in Scenario : InPool(s)' <=> InPool(s)
    BY <1>1, <1>4, <2>1
  <2>3. \A v \in Worker : pool'[v] = pool[v] \/ pool'[v] = Returned
    BY <1>1, <2>1
  <2>4. \A u, v \in Worker : u # v /\ pool'[u] \in Scenario => pool'[u] # pool'[v]
    BY <1>1, <2>3 DEF PoolIsKept
  <2> QED
    BY <1>1, <2>1, <2>2, <2>4 DEF PoolIsKept
<1> QED
  BY <1>5, <1>6, <1>7

\* Each scenario has one worker, and an outcome when it has left it.
LEMMA PoolStays ==
  ASSUME RunInv, RunNext
  PROVE  PoolIsKept'
<1>1. /\ RunTypeOK /\ PoolIsKept /\ ReasonsAreKept
      /\ run \in [Scenario -> RunRecord]
  BY DEF RunInv, RunTypeOK
<1>2. ASSUME NEW s \in Scenario, NEW r, run' = [run EXCEPT ![s] = r], InPool(s),
             r.stage = "thrown" => s \in left', left \subseteq left',
             UNCHANGED <<cursor, pool, dispatched, outcome, finished, verdict>>
      PROVE  PoolIsKept'
  <2>1. run'[s] = r /\ \A t \in Scenario : t # s => run'[t] = run[t]
    BY <1>1, <1>2
  <2>2. \A t \in Scenario : run'[t] = run[t] \/ (InPool(t) /\ (run'[t].stage = "thrown" => t \in left'))
    BY <1>2, <2>1
  <2> QED
    BY <1>1, <1>2, <2>2, PoolUntouched
<1>3. ASSUME UNCHANGED <<run, cursor, pool, dispatched, outcome, finished, left>>,
             verdict = "rejected" => verdict' = "rejected"
      PROVE  PoolIsKept'
  BY <1>1, <1>3, PoolUntouched
<1>4. ASSUME NEW w \in Worker, Continue(w) \/ Raise(w)
      PROVE  PoolIsKept'
  <2> DEFINE s == pool[w]
  <2>1. s \in Scenario => InPool(s)
    BY DEF InPool
  <2>2. ASSUME s \in Scenario, NEW stage \in {"ended", "thrown"}, Becomes(s, Over(stage))
        PROVE  run'[s].stage \in {"ended", "thrown"} /\ \A t \in Scenario : t # s => run'[t] = run[t]
    BY <1>1, <2>2, EmptyRecords DEF Becomes
  <2>3. CASE Dispatch(w) \/ Forgo(w) \/ Retire(w)
    BY <1>1, <2>3, PoolTaken
  <2>4. CASE Enter(w)
    <3>1. CASE overdue
      BY <1>1, <2>2, <2>4, <3>1, PoolSettled DEF Enter, GiveUpTurn, endVars
    <3>2. CASE ~overdue
      <4>1. \E r \in RunRecord : Moves(s, r) /\ r.stage \in Stage
        BY <1>1, <2>4, <3>2, BeginMoves, TrueRecords DEF Enter, RunInv, RunTypeOK, RunRecord
      <4>2. run'[s].stage # "thrown"
        BY <1>1, <2>4, <3>2 DEF Enter, BeginJourney, Begin, Becomes, RunRecord
      <4>3. PICK r \in RunRecord : run' = [run EXCEPT ![s] = r]
        BY <4>1 DEF Moves
      <4>4. s \in Scenario /\ r.stage # "thrown" /\ InPool(s)
        BY <1>1, <2>1, <2>4, <4>2, <4>3 DEF Enter
      <4> QED
        BY <1>2, <2>4, <3>2, <4>3, <4>4 DEF Enter, endVars
    <3> QED
      BY <1>1, <3>1, <3>2 DEF RunTypeOK
  <2>5. CASE Leave(w)
    <3>1. s \in Scenario /\ OutcomeOf(s) # "none"
      BY <2>5, OutcomeTypes DEF Leave
    <3> QED
      BY <1>1, <2>2, <2>5, <3>1, PoolSettled DEF Leave, GiveUpTurn, endVars
  <2>6. CASE Catch(w)
    <3>1. s \in Scenario /\ s \in left /\ run'[s].stage \in {"ended", "thrown"}
      BY <1>1, <2>6 DEF Catch, PoolIsKept, scenarioVars
    <3> QED
      BY <1>1, <2>6, <3>1, PoolSettled DEF Catch, Reject, scenarioVars
  <2>7. CASE Raise(w)
    <3>1. s \in Scenario /\ run' = [run EXCEPT ![s] = Over("thrown")]
      BY <2>7 DEF Raise, Becomes
    <3> QED
      BY <1>2, <2>1, <2>7, <3>1 DEF Raise, GiveUpTurn, endVars
  <2> QED
    BY <1>4, <2>3, <2>4, <2>5, <2>6, <2>7 DEF Continue
<1>5. ASSUME NEW s \in Scenario, Answer(s) \/ TimerFires(s), UNCHANGED <<aborted, Rest>>
      PROVE  PoolIsKept'
  <2>1. PICK r \in RunRecord : Moves(s, r) /\ r.stage \in Awaiting
    BY <1>1, <1>5, AnswerMoves, TrueRecords DEF RunInv, RunTypeOK
  <2>2. InPool(s) /\ r.stage # "thrown"
    BY <1>1, <1>5, <2>1, AnswersAreAwaited, AwaitingIsWorkedOn DEF Awaiting
  <2> QED
    BY <1>2, <1>5, <2>1, <2>2 DEF Moves, Rest, poolVars, endVars
<1>6. ASSUME EndRun \/ CancelRun \/ Elapse
      PROVE  PoolIsKept'
  <2>1. CASE Record \/ Elapse \/ CancelRun
    BY <1>3, <2>1 DEF Record, Elapse, CancelRun, Rest, scenarioVars, poolVars, endVars
  <2>2. CASE PublishStreams \/ PublishCheckpoint \/ PublishManifest
    BY <1>3, <2>2 DEF PublishStreams, PublishCheckpoint, PublishManifest, Publish, Skip,
                      scenarioVars, poolVars
  <2>3. CASE Judge
    <3>1. verdict # "rejected"
      BY <1>1, <2>3 DEF Judge, ReasonsAreKept
    <3> QED
      BY <1>3, <2>3, <3>1 DEF Judge, scenarioVars, poolVars
  <2> QED
    BY <1>6, <2>1, <2>2, <2>3 DEF EndRun
<1> QED
  BY <1>4, <1>5, <1>6 DEF RunNext, Answered

-----------------------------------------------------------------------------
(* The reasons of the verdict *)

\* The reasons that ReasonsAreKept asks of one outcome, among F or in the verdict v.
HasReason(s, value, F, v) ==
  /\ value = "not_run" => F \cap {"cancelled", "budget"} # {}
  /\ value = "error" => F \cap {"runtime", "execution"} # {} \/ v = "rejected"
  /\ value = "blocked" => "execution" \in F
  /\ value = "fail" => IF s \in Journey THEN "execution" \in F ELSE "finding" \in F

\* A step of a worker adds reasons, and ends nothing but by rejecting the run.
LEMMA ReasonsAdded ==
  ASSUME RunTypeOK, ReasonsAreKept, NEW w \in Worker, pool[w] \in Scenario \cup {NoScenario},
         flags \subseteq flags', UNCHANGED <<phase, published, state>>,
         verdict' = verdict \/ verdict' = "rejected",
         \A v \in Worker : v # w => pool'[v] = pool[v],
         pool'[w] = Threw => verdict' = "rejected",
         \A s \in Scenario : outcome'[s] = outcome[s] \/ HasReason(s, outcome'[s], flags', verdict')
  PROVE  ReasonsAreKept'
<1>1. pool[w] # Returned /\ pool[w] # Threw
  BY ScenarioNumbers, RunAssumption
<1>2. phase = "record" /\ verdict \in {"none", "rejected"} /\ published = {}
  BY <1>1 DEF ReasonsAreKept, RunTypeOK
<1>3. ASSUME NEW s \in Scenario
      PROVE  HasReason(s, outcome'[s], flags', verdict')
  <2>1. HasReason(s, outcome[s], flags, verdict)
    BY DEF HasReason, ReasonsAreKept
  <2>2. CASE outcome'[s] = outcome[s]
    BY <2>1, <2>2 DEF HasReason
  <2> QED
    BY <2>2
<1>4. \A v \in Worker : pool'[v] = Threw => verdict' = "rejected"
  <2>1. ASSUME NEW v \in Worker, pool'[v] = Threw
        PROVE  verdict' = "rejected"
    <3>1. CASE v = w
      BY <2>1, <3>1
    <3>2. CASE v # w
      BY <2>1, <3>2 DEF ReasonsAreKept
    <3> QED
      BY <3>1, <3>2
  <2> QED
    BY <2>1
<1>5. phase' = "record" /\ verdict' \in {"none", "rejected"} /\ published' = {}
  BY <1>2
<1> QED
  BY <1>3, <1>4, <1>5 DEF ReasonsAreKept, HasReason

\* No reason is lost while the scenarios are worked on.
LEMMA WorkersKeepReasons ==
  ASSUME RunInv, NEW w \in Worker, Continue(w) \/ Raise(w)
  PROVE  ReasonsAreKept'
<1>1. /\ RunTypeOK /\ ReasonsAreKept
      /\ pool \in [Worker -> Scenario \cup {NoScenario, Returned, Threw}]
      /\ outcome \in [Scenario -> {"none", "pass", "fail", "error", "blocked", "not_run"}]
      /\ NoScenario # Threw /\ Threw # Returned /\ Threw \notin Scenario
  BY RunAssumption, ScenarioNumbers DEF RunInv, RunTypeOK
<1>2. ASSUME NEW value, pool' = [pool EXCEPT ![w] = value]
      PROVE  pool'[w] = value /\ \A v \in Worker : v # w => pool'[v] = pool[v]
  BY <1>1, <1>2
<1>4. CASE Dispatch(w)
  <2>1. pool[w] = NoScenario /\ pool'[w] = cursor /\ cursor \in Scenario
    BY <1>2, <1>4 DEF Dispatch
  <2> QED
    BY <1>1, <1>2, <1>4, <2>1, ReasonsAdded DEF Dispatch, endVars
<1>5. CASE Forgo(w)
  <2>2. \A t \in Scenario : outcome'[t] = outcome[t] \/ HasReason(t, outcome'[t], flags', verdict')
    BY <1>1, <1>5 DEF Forgo, Flag, HasReason
  <2>3. /\ \A v \in Worker : v # w => pool'[v] = pool[v]
        /\ pool'[w] = Threw => verdict' = "rejected"
        /\ verdict' = verdict \/ verdict' = "rejected"
    BY <1>1, <1>2, <1>5 DEF Forgo, Reject
  <2> QED
    BY <1>1, <1>5, <2>2, <2>3, ReasonsAdded DEF Forgo, Flag
<1>6. CASE Enter(w)
  <2>1. pool[w] \in Scenario
    BY <1>6 DEF Enter
  <2>2. CASE overdue
    <3>2. \A t \in Scenario : outcome'[t] = outcome[t] \/ HasReason(t, outcome'[t], flags', verdict')
      BY <1>1, <1>6, <2>2 DEF Enter, Flag, HasReason
    <3>3. pool'[w] = NoScenario /\ \A v \in Worker : v # w => pool'[v] = pool[v]
      BY <1>2, <1>6, <2>2 DEF Enter
    <3> QED
      BY <1>1, <1>6, <2>1, <2>2, <3>2, <3>3, ReasonsAdded DEF Enter, Flag, endVars
  <2>3. CASE ~overdue
    BY <1>1, <1>6, <2>1, <2>3, ReasonsAdded DEF Enter, endVars
  <2> QED
    BY <1>1, <2>2, <2>3 DEF RunTypeOK
<1>7. CASE Leave(w)
  <2> DEFINE s == pool[w]
             o == OutcomeOf(s)
  <2>1. s \in Scenario /\ outcome' = [outcome EXCEPT ![s] = o]
    BY <1>7 DEF Leave
  <2>2. /\ o \in {"pass", "fail", "error", "blocked"}
        /\ o \in {"error", "blocked"} => "execution" \in flags'
        /\ o = "fail" => IF s \in Journey THEN "execution" \in flags' ELSE "finding" \in flags'
    BY <1>7, <2>1, OutcomeTypes DEF Leave, Flag
  <2> HIDE DEF o
  <2>3. \A t \in Scenario : t # s => outcome'[t] = outcome[t]
    BY <1>1, <2>1
  <2>4. HasReason(s, outcome'[s], flags', verdict')
    BY <1>1, <2>1, <2>2 DEF HasReason
  <2>5. pool'[w] = NoScenario /\ \A v \in Worker : v # w => pool'[v] = pool[v]
    BY <1>2, <1>7 DEF Leave
  <2> QED
    BY <1>1, <1>7, <2>1, <2>3, <2>4, <2>5, ReasonsAdded DEF Leave, Flag, endVars
<1>8. CASE Catch(w)
  <2>1. pool[w] \in Scenario
    BY <1>8 DEF Catch
  <2>2. \A t \in Scenario : outcome'[t] = outcome[t] \/ HasReason(t, outcome'[t], flags', verdict')
    BY <1>1, <1>8 DEF Catch, Reject, Flag, HasReason
  <2>3. /\ \A v \in Worker : v # w => pool'[v] = pool[v]
        /\ pool'[w] = Threw => verdict' = "rejected"
        /\ verdict' = verdict \/ verdict' = "rejected"
    BY <1>1, <1>2, <1>8 DEF Catch, Reject
  <2> QED
    BY <1>1, <1>8, <2>1, <2>2, <2>3, ReasonsAdded DEF Catch, Flag
<1>9. CASE Retire(w)
  <2>1. pool'[w] = Returned /\ \A v \in Worker : v # w => pool'[v] = pool[v]
    BY <1>2, <1>9 DEF Retire
  <2> QED
    BY <1>1, <1>9, <2>1, ReasonsAdded DEF Retire, endVars
<1>10. CASE Raise(w)
  <2>1. pool[w] \in Scenario /\ flags \subseteq flags'
    BY <1>10 DEF Raise, Flag
  <2> QED
    BY <1>1, <1>10, <2>1, ReasonsAdded DEF Raise, endVars
<1> QED
  BY <1>4, <1>5, <1>6, <1>7, <1>8, <1>9, <1>10 DEF Continue

\* No reason is lost between the pool and the verdict.
LEMMA ReasonsStay ==
  ASSUME RunInv, RunNext
  PROVE  ReasonsAreKept'
<1>1. RunTypeOK /\ PoolIsKept /\ ReasonsAreKept
  BY DEF RunInv
<1>2. ASSUME flags \subseteq flags', outcome' = outcome,
             verdict' = verdict \/ (verdict = "none" /\ verdict' # "rejected")
      PROVE  \A s \in Scenario : HasReason(s, outcome[s], flags', verdict')
  <2>1. \A s \in Scenario : HasReason(s, outcome[s], flags, verdict)
    BY <1>1 DEF ReasonsAreKept, HasReason
  <2> QED
    BY <1>2, <2>1 DEF HasReason
<1>3. ASSUME UNCHANGED Rest
      PROVE  ReasonsAreKept'
  BY <1>1, <1>3 DEF Rest, poolVars, profileVars, endVars, ReasonsAreKept, Reasons
<1>4. CASE CancelRun
  BY <1>3, <1>4 DEF CancelRun
<1>5. CASE Elapse
  BY <1>1, <1>5 DEF Elapse, poolVars, profileVars, endVars, ReasonsAreKept, Reasons
<1>6. CASE Record
  <2>1. \A F : Derived(F) # "none"
    BY DEF Derived
  <2>2. /\ flags \subseteq flags' /\ phase' = "streams" /\ phase = "record"
        /\ verdict = "none" /\ verdict' = "none" /\ published' = published
        /\ pool' = pool /\ cursor' = cursor /\ outcome' = outcome
        /\ \A w \in Worker : pool[w] = Returned
        /\ state' # "none" \/ "finalization" \in flags'
    BY <1>6, <2>1 DEF Record, poolVars
  <2>3. cursor \notin Scenario
    <3>1. CASE Scenario = {}
      BY <3>1
    <3>2. CASE Scenario # {}
      BY <1>1, <2>2, <3>2, RunAssumption DEF PoolIsKept
    <3> QED
      BY <3>1, <3>2
  <2>4. \A s \in Scenario : HasReason(s, outcome[s], flags', verdict')
    BY <1>2, <2>2
  <2>5. Threw # Returned /\ published = {}
    BY <1>1, <2>2, RunAssumption DEF ReasonsAreKept
  <2> QED
    BY <2>2, <2>3, <2>4, <2>5 DEF ReasonsAreKept, HasReason
<1>7. CASE PublishStreams \/ PublishCheckpoint \/ PublishManifest
  <2>1. /\ flags \subseteq flags' /\ phase # "record" /\ phase # "over"
        /\ phase' \in {"checkpoint", "manifest", "judge"}
        /\ verdict' = verdict /\ state' = state
        /\ pool' = pool /\ cursor' = cursor /\ outcome' = outcome
    BY <1>7 DEF PublishStreams, PublishCheckpoint, PublishManifest, Publish, Skip, Flag, poolVars
  <2>2. \A s \in Scenario : HasReason(s, outcome[s], flags', verdict')
    BY <1>2, <2>1
  <2>3. /\ verdict = "none" /\ \A w \in Worker : pool[w] = Returned
        /\ cursor \notin Scenario
        /\ state # "none" \/ "finalization" \in flags
    BY <1>1, <2>1 DEF ReasonsAreKept, RunTypeOK
  <2>4. /\ phase' = "checkpoint" =>
             published' \subseteq Streams /\ ("publication" \in flags' \/ Streams \subseteq published')
        /\ phase' = "manifest" =>
             /\ "manifest" \notin published'
             /\ "publication" \in flags' \/ Artifacts \ {"manifest"} \subseteq published'
        /\ phase' = "judge" => "publication" \in flags' \/ Artifacts \subseteq published'
    <3>1. CASE PublishStreams
      <4>1. published = {} /\ phase' = "checkpoint"
        BY <1>1, <3>1 DEF ReasonsAreKept, PublishStreams, Publish
      <4> QED
        BY <3>1, <4>1 DEF PublishStreams, Publish, Flag
    <3>2. CASE PublishCheckpoint
      <4>1. /\ published \subseteq Streams /\ phase' = "manifest"
            /\ "publication" \in flags \/ Streams \subseteq published
        BY <1>1, <3>2 DEF ReasonsAreKept, PublishCheckpoint, Publish, Skip
      <4> QED
        BY <3>2, <4>1 DEF PublishCheckpoint, Publish, Skip, Flag, Artifacts, Streams
    <3>3. CASE PublishManifest
      <4>1. /\ phase' = "judge"
            /\ "publication" \in flags \/ Artifacts \ {"manifest"} \subseteq published
        BY <1>1, <3>3 DEF ReasonsAreKept, PublishManifest, Publish, Skip
      <4> QED
        BY <3>3, <4>1 DEF PublishManifest, Publish, Skip, Flag, Artifacts
    <3> QED
      BY <1>7, <3>1, <3>2, <3>3
  <2>5. Threw # Returned
    BY RunAssumption
  <2> QED
    BY <2>1, <2>2, <2>3, <2>4, <2>5 DEF ReasonsAreKept, HasReason
<1>8. CASE Judge
  <2>1. /\ flags' = flags /\ phase = "judge" /\ phase' = "over" /\ outcome' = outcome
        /\ pool' = pool /\ cursor' = cursor /\ state' = state /\ published' = published
        /\ (Reasons' <=> Reasons) /\ verdict' = IF Reasons THEN "failed" ELSE "ok"
    BY <1>8 DEF Judge, poolVars, profileVars, Reasons
  <2>2. /\ verdict = "none" /\ \A w \in Worker : pool[w] = Returned
        /\ cursor \notin Scenario
        /\ state # "none" \/ "finalization" \in flags
        /\ "publication" \in flags \/ Artifacts \subseteq published
    BY <1>1, <2>1 DEF ReasonsAreKept, RunTypeOK
  <2>3. \A s \in Scenario : HasReason(s, outcome[s], flags', verdict')
    BY <1>2, <2>1, <2>2
  <2>4. Threw # Returned
    BY RunAssumption
  <2> QED
    BY <2>1, <2>2, <2>3, <2>4 DEF ReasonsAreKept, HasReason
<1> QED
  BY <1>3, <1>4, <1>5, <1>6, <1>7, <1>8, WorkersKeepReasons DEF RunNext, EndRun, Answered

\* What is published stays complete: each artifact is only stored after those it names.
LEMMA ManifestStays ==
  ASSUME RunInv, RunNext
  PROVE  ManifestIsComplete'
<1>1. RunTypeOK /\ ReasonsAreKept /\ ManifestIsComplete
  BY DEF RunInv
<1>2. ASSUME published' = published
      PROVE  ManifestIsComplete'
  BY <1>1, <1>2 DEF ManifestIsComplete
<1>3. CASE PublishStreams
  <2>1. published' \subseteq Streams
    BY <1>1, <1>3 DEF PublishStreams, Publish, ReasonsAreKept
  <2> QED
    BY <2>1 DEF ManifestIsComplete, Streams
<1>4. CASE PublishCheckpoint
  <2>1. published \subseteq Streams /\ ("publication" \in flags \/ Streams \subseteq published)
    BY <1>1, <1>4 DEF PublishCheckpoint, ReasonsAreKept
  <2>2. CASE "publication" \in flags
    BY <1>2, <1>4, <2>2 DEF PublishCheckpoint, Skip
  <2>3. CASE "publication" \notin flags
    <3>1. /\ Streams \subseteq published' /\ published' \subseteq Streams \cup {"checkpoint", "external"}
          /\ "checkpoint" \in published' \/ "external" \notin published'
      BY <1>4, <2>1, <2>3 DEF PublishCheckpoint, Publish
    <3> QED
      BY <3>1 DEF ManifestIsComplete, Streams
  <2> QED
    BY <2>2, <2>3
<1>5. CASE PublishManifest
  <2>1. "publication" \in flags \/ Artifacts \ {"manifest"} \subseteq published
    BY <1>1, <1>5 DEF PublishManifest, ReasonsAreKept
  <2>2. CASE "publication" \in flags
    BY <1>2, <1>5, <2>2 DEF PublishManifest, Skip
  <2>3. CASE "publication" \notin flags
    <3>1. Artifacts \ {"manifest"} \subseteq published' /\ published' \subseteq published \cup {"manifest"}
      BY <1>5, <2>1, <2>3 DEF PublishManifest, Publish
    <3> QED
      BY <3>1 DEF ManifestIsComplete, Artifacts, Streams
  <2> QED
    BY <2>2, <2>3
<1>6. CASE Record \/ Judge \/ CancelRun \/ Elapse
  BY <1>2, <1>6 DEF Record, Judge, CancelRun, Elapse, Rest, endVars
<1>7. ASSUME NEW w \in Worker, Continue(w) \/ Raise(w)
      PROVE  ManifestIsComplete'
  <2>1. CASE Dispatch(w) \/ Forgo(w) \/ Catch(w) \/ Retire(w)
    BY <1>2, <2>1 DEF Dispatch, Forgo, Catch, Retire, endVars
  <2>2. CASE Enter(w) \/ Leave(w) \/ Raise(w)
    BY <1>2, <2>2 DEF Enter, Leave, Raise, endVars
  <2> QED
    BY <1>7, <2>1, <2>2 DEF Continue
<1>8. ASSUME UNCHANGED Rest
      PROVE  ManifestIsComplete'
  BY <1>2, <1>8 DEF Rest, endVars
<1> QED
  BY <1>3, <1>4, <1>5, <1>6, <1>7, <1>8 DEF RunNext, EndRun, Answered

-----------------------------------------------------------------------------
(* A run is safe *)

\* The results of two sequences that follow one another are those of both.
LEMMA ResultsOfBoth ==
  ASSUME NEW S, NEW T, NEW p \in Seq(S), NEW q \in Seq(T)
  PROVE  ToSet(p \o q) = ToSet(p) \cup ToSet(q)
<1>1. /\ Len(p \o q) = Len(p) + Len(q) /\ DOMAIN (p \o q) = 1..(Len(p) + Len(q))
      /\ DOMAIN p = 1..Len(p) /\ DOMAIN q = 1..Len(q) /\ Len(p) \in Nat /\ Len(q) \in Nat
      /\ \A i \in 1..(Len(p) + Len(q)) :
           (p \o q)[i] = IF i <= Len(p) THEN p[i] ELSE q[i - Len(p)]
  OBVIOUS
<1>2. ToSet(p \o q) \subseteq ToSet(p) \cup ToSet(q)
  <2>1. ASSUME NEW i \in 1..(Len(p) + Len(q))
        PROVE  (p \o q)[i] \in ToSet(p) \cup ToSet(q)
    <3>1. CASE i <= Len(p)
      BY <1>1, <3>1 DEF ToSet
    <3>2. CASE ~(i <= Len(p))
      <4>1. i - Len(p) \in 1..Len(q)
        BY <1>1, <3>2
      <4> QED
        BY <1>1, <3>2, <4>1 DEF ToSet
    <3> QED
      BY <3>1, <3>2
  <2> QED
    BY <1>1, <2>1 DEF ToSet
<1>3. ToSet(p) \subseteq ToSet(p \o q)
  <2>1. ASSUME NEW i \in 1..Len(p)
        PROVE  p[i] \in ToSet(p \o q)
    BY <1>1 DEF ToSet
  <2> QED
    BY <1>1, <2>1 DEF ToSet
<1>4. ToSet(q) \subseteq ToSet(p \o q)
  <2>1. ASSUME NEW i \in 1..Len(q)
        PROVE  q[i] \in ToSet(p \o q)
    <3>1. i + Len(p) \in 1..(Len(p) + Len(q)) /\ (p \o q)[i + Len(p)] = q[i]
      BY <1>1
    <3> QED
      BY <1>1, <3>1 DEF ToSet
  <2> QED
    BY <1>1, <2>1 DEF ToSet
<1> QED
  BY <1>2, <1>3, <1>4

\* A finding and a passed scenario are backed by what was executed.
LEMMA BackedByProgress ==
  ASSUME RunTypeOK, ProgressIsTrue
  PROVE  CleanupIsRun /\ ResultsAreBacked
<1>1. SUFFICES ASSUME NEW s \in Scenario
               PROVE  /\ /\ run[s].stage = "ended" /\ run[s].checked \o run[s].ran # <<>>
                              => Len(run[s].cleaned) = Cleanups[s]
                         /\ run[s].ran # <<>> => \A o \in ToSet(run[s].checked) : o = "pass"
                      /\ Done(s) /\ HasFinding(s) /\ run[s].ran # <<>> =>
                           /\ Len(run[s].ran) = Steps[s]
                           /\ "failed" \notin ToSet(run[s].ran \o run[s].cleaned)
                           /\ "miss" \in ToSet(run[s].ran)
                           /\ ~aborted
                      /\ Done(s) /\ OutcomeOf(s) = "pass" =>
                           /\ Len(run[s].ran) = Steps[s]
                           /\ \A o \in ToSet(run[s].ran \o run[s].seen) : o = "pass"
                           /\ IF s \in Journey THEN Len(run[s].seen) = Observers[s] * Steps[s]
                                               ELSE ~aborted
  BY DEF CleanupIsRun, ResultsAreBacked
<1> DEFINE r == run[s]
<1>2. TrueRecord(s, r, aborted) /\ r \in RunRecord
  BY TrueRecords DEF RunTypeOK
<1>3. /\ r.ran \in Seq(Result) /\ r.seen \in Seq({"pass", "failed"})
      /\ r.cleaned \in Seq({"pass", "failed"}) /\ Steps[s] \in Nat
      /\ ToSet(r.ran) \subseteq Result
  <2>1. r.ran \in Seq(Result) /\ r.seen \in Seq({"pass", "failed"}) /\ r.cleaned \in Seq({"pass", "failed"})
    BY <1>2 DEF RunRecord
  <2>2. ToSet(r.ran) \subseteq Result
    BY <2>1 DEF ToSet
  <2> QED
    BY <2>1, <2>2, ScenarioAssumption
<1>4. /\ ToSet(r.ran \o r.cleaned) = ToSet(r.ran) \cup ToSet(r.cleaned)
      /\ ToSet(r.ran \o r.seen) = ToSet(r.ran) \cup ToSet(r.seen)
  BY <1>3, ResultsOfBoth
<1>5. r.stage = "ended" /\ r.checked \o r.ran # <<>> => Len(r.cleaned) = Cleanups[s]
  BY <1>2 DEF TrueRecord
<1>6. r.ran # <<>> => \A o \in ToSet(r.checked) : o = "pass"
  BY <1>2 DEF TrueRecord, AllPass
<1>7. ASSUME Done(s), HasFinding(s), r.ran # <<>>
      PROVE  /\ Len(r.ran) = Steps[s] /\ "failed" \notin ToSet(r.ran \o r.cleaned)
             /\ "miss" \in ToSet(r.ran) /\ ~aborted
  <2>1. /\ s \notin Journey /\ r.stop \in {"none", "cancelled"} /\ r.stage = "cleanup"
        /\ Len(r.cleaned) = Cleanups[s]
        /\ "failed" \notin ToSet(r.ran) \cup ToSet(r.cleaned)
        /\ Len(r.ran) < Steps[s] \/ "miss" \in ToSet(r.ran)
    BY <1>7 DEF Done, HasFinding, Misses, Failures
  <2>2. r.stop = "none"
    BY <1>2, <1>7, <2>1 DEF TrueRecord
  <2>3. Len(r.ran) = Steps[s] /\ ~aborted
    BY <1>2, <2>1, <2>2 DEF TrueRecord
  <2>4. ~(Len(r.ran) < Steps[s])
    BY <1>3, <2>3
  <2> QED
    BY <1>4, <2>1, <2>3, <2>4
<1>8. ASSUME Done(s), OutcomeOf(s) = "pass"
      PROVE  /\ Len(r.ran) = Steps[s]
             /\ \A o \in ToSet(r.ran \o r.seen) : o = "pass"
             /\ IF s \in Journey THEN Len(r.seen) = Observers[s] * Steps[s] ELSE ~aborted
  <2>1. r.stage = "cleanup" /\ Len(r.cleaned) = Cleanups[s]
    BY <1>8 DEF Done
  <2>2. CASE s \in Journey
    <3>1. r.stop = "none"
      BY <1>8, <2>2 DEF OutcomeOf
    <3> QED
      BY <1>2, <1>4, <2>1, <2>2, <3>1 DEF TrueRecord, AllPass
  <2>3. CASE s \notin Journey
    <3>1. r.stop = "none"
      <4>1. r.stop # "none" => OutcomeOf(s) = "blocked"
        BY <2>3 DEF OutcomeOf
      <4> QED
        BY <1>8, <4>1
    <3>2. ~Failures(s)
      <4>1. Failures(s) => OutcomeOf(s) = "error"
        BY <2>3, <3>1 DEF OutcomeOf
      <4> QED
        BY <1>8, <4>1
    <3>3. ~Misses(s)
      <4>1. Misses(s) => OutcomeOf(s) = "fail"
        BY <2>3, <3>1, <3>2 DEF OutcomeOf
      <4> QED
        BY <1>8, <4>1
    <3>4. r.seen = <<>> /\ Len(r.ran) = Steps[s] /\ ~aborted
      BY <1>2, <2>1, <2>3, <3>1, <3>2 DEF TrueRecord, Failures
    <3>5. \A o \in ToSet(r.ran) : o = "pass"
      BY <1>3, <3>2, <3>3 DEF Failures, Misses, Result
    <3>6. ToSet(r.seen) = {}
      BY <3>4, ResultsOf
    <3> QED
      BY <1>4, <2>3, <3>4, <3>5, <3>6
  <2> QED
    BY <2>2, <2>3
<1> QED
  BY <1>5, <1>6, <1>7, <1>8

\* The rest of RunSafety follows from what is inductive of it.
LEMMA InvIsSafe ==
  ASSUME RunInv
  PROVE  RunSafety
<1>1. RunTypeOK /\ PoolIsKept /\ TurnsAreInOrder /\ ProgressIsTrue /\ ReasonsAreKept
  BY DEF RunInv
<1>2. GroupsAreIsolated
  <2>1. ASSUME NEW s \in Scenario, NEW t \in Scenario, Precedes(s, t), Executing(t)
        PROVE  s \in left
    <3>1. t \in dispatched
      BY <1>1, <2>1, EmptyRecords DEF Executing, PoolIsKept
    <3> QED
      BY <1>1, <2>1, <3>1 DEF Executing, TurnsAreInOrder
  <2> QED
    BY <2>1 DEF GroupsAreIsolated, Precedes
<1>3. ASSUME verdict \in {"ok", "failed"}, NEW s \in Scenario
      PROVE  outcome[s] # "none" /\ finished[s] = 1 /\ ~Executing(s)
  <2>1. /\ cursor \notin Scenario /\ verdict # "rejected"
        /\ \A w \in Worker : pool[w] = Returned
    BY <1>1, <1>3 DEF ReasonsAreKept
  <2>2. s < cursor /\ ~InPool(s)
    BY <1>1, <2>1, ScenarioNumbers DEF InPool
  <2>3. s \notin dispatched => run[s].stage = "idle"
    BY <1>1, EmptyRecords DEF PoolIsKept
  <2> QED
    BY <1>1, <2>1, <2>2, <2>3 DEF PoolIsKept, Executing
<1>4. EveryScenarioIsAccounted
  BY <1>3 DEF EveryScenarioIsAccounted
<1>5. ASSUME verdict = "ok"
      PROVE  /\ \A s \in Scenario :
                  /\ outcome[s] \in {"pass", "fail"}
                  /\ s \in Journey \/ gated => outcome[s] = "pass"
             /\ state # "none"
             /\ Artifacts \subseteq published
  <2>1. phase = "over" /\ ~Reasons
    BY <1>1, <1>5 DEF ReasonsAreKept
  <2>2. /\ "budget" \notin flags /\ "cancelled" \notin flags /\ "runtime" \notin flags
        /\ "execution" \notin flags /\ "publication" \notin flags /\ "finalization" \notin flags
        /\ gated => "finding" \notin flags
    BY <2>1 DEF Reasons
  <2>3. state # "none" /\ Artifacts \subseteq published
    BY <1>1, <2>1, <2>2 DEF ReasonsAreKept
  <2>4. ASSUME NEW s \in Scenario
        PROVE  /\ outcome[s] \in {"pass", "fail"}
               /\ s \in Journey \/ gated => outcome[s] = "pass"
    <3>1. outcome[s] \in {"pass", "fail", "error", "blocked", "not_run"}
      BY <1>1, <1>3, <1>5 DEF RunTypeOK
    <3> QED
      BY <1>1, <1>5, <2>2, <3>1 DEF ReasonsAreKept
  <2> QED
    BY <2>3, <2>4
<1>6. OkIsEarned
  BY <1>5 DEF OkIsEarned
<1> QED
  BY <1>1, <1>2, <1>4, <1>6, BackedByProgress DEF RunInv, RunSafety

\* A run starts in the invariant.
LEMMA RunStarts ==
  ASSUME RunInit
  PROVE  RunInv
<1>1. /\ run = [s \in Scenario |-> Fresh] /\ aborted = FALSE /\ cursor = 1
      /\ pool = [w \in Worker |-> NoScenario] /\ tail = [g \in Group |-> NoScenario]
      /\ behind = [s \in Scenario |-> NoScenario] /\ left = {} /\ dispatched = {}
      /\ outcome = [s \in Scenario |-> "none"] /\ finished = [s \in Scenario |-> 0]
      /\ overdue = FALSE /\ flags = {} /\ gated \in BOOLEAN /\ coverage \in Coverage
      /\ faults = 0 /\ phase = "record" /\ published = {} /\ state = "none" /\ verdict = "none"
  BY DEF RunInit, ScenarioInit
<1>2. Cardinality(Scenario) \in Nat /\ Scenario = 1..Cardinality(Scenario)
  BY FS_CardinalityType, RunAssumption
<1>3. /\ NoScenario \notin Scenario /\ Returned \notin Scenario /\ Threw \notin Scenario
      /\ NoScenario # Returned /\ NoScenario # Threw /\ MaxFaults \in Nat
  BY RunAssumption
<1> DEFINE N == Cardinality(Scenario)
<1> HIDE DEF N
<1>4. N \in Nat /\ Scenario = 1..N
  BY <1>2 DEF N
<1>5. \A s \in Scenario : s >= 1 /\ ~(s < 1) /\ s \in Nat
  BY <1>4
<1>6. RunTypeOK
  <2>1. cursor \in 1..(N + 1) /\ faults \in 0..MaxFaults
    BY <1>1, <1>3, <1>4
  <2>2. run \in [Scenario -> RunRecord]
    BY <1>1, EmptyRecords
  <2>3. /\ pool \in [Worker -> Scenario \cup {NoScenario, Returned, Threw}]
        /\ tail \in [Group -> Scenario \cup {NoScenario}]
        /\ behind \in [Scenario -> Scenario \cup {NoScenario}]
        /\ outcome \in [Scenario -> {"none", "pass", "fail", "error", "blocked", "not_run"}]
        /\ finished \in [Scenario -> 0..1]
    BY <1>1
  <2>4. cursor \in 1..(Cardinality(Scenario) + 1)
    BY <2>1 DEF N
  <2> QED
    BY <1>1, <2>1, <2>2, <2>3, <2>4 DEF RunTypeOK
<1>7. PoolIsKept
  <2>1. \A s \in Scenario : ~InPool(s)
    BY <1>1, <1>3 DEF InPool
  <2>2. \A s \in Scenario : run[s] = Fresh /\ run[s].stage # "thrown"
    BY <1>1, EmptyRecords
  <2> QED
    BY <1>1, <1>3, <1>5, <2>1, <2>2 DEF PoolIsKept
<1>8. TurnsAreInOrder
  BY <1>1 DEF TurnsAreInOrder
<1>9. ProgressIsTrue
  BY <1>1, EmptyRecords, TrueRecords
<1>10. ReasonsAreKept
  BY <1>1, <1>3 DEF ReasonsAreKept
<1>11. ManifestIsComplete
  BY <1>1 DEF ManifestIsComplete
<1> QED
  BY <1>6, <1>7, <1>8, <1>9, <1>10, <1>11 DEF RunInv

\* RunInv is inductive.
LEMMA RunInvStays ==
  ASSUME RunInv, [RunNext]_runVars
  PROVE  RunInv'
<1>1. CASE RunNext
  BY <1>1, RunTypes, PoolStays, TurnsStay, ProgressStays, ReasonsStay, ManifestStays DEF RunInv
<1>2. CASE UNCHANGED runVars
  <2>1. /\ UNCHANGED <<run, aborted, overdue, flags, gated, coverage, faults>>
        /\ UNCHANGED <<cursor, pool, tail, behind, left, dispatched, outcome, finished>>
        /\ UNCHANGED <<phase, published, state, verdict>>
    BY <1>2 DEF runVars, scenarioVars, poolVars, profileVars, endVars
  <2>2. RunTypeOK /\ PoolIsKept /\ TurnsAreInOrder /\ ProgressIsTrue /\ ReasonsAreKept /\ ManifestIsComplete
    BY DEF RunInv
  <2>3. RunTypeOK' /\ ManifestIsComplete'
    BY <2>1, <2>2 DEF RunTypeOK, ManifestIsComplete
  <2>4. PoolIsKept'
    BY <2>1, <2>2, PoolUntouched
  <2>5. TurnsAreInOrder'
    BY <2>1, <2>2, TurnsKept
  <2>6. ProgressIsTrue'
    BY <2>1, <2>2, ProgressOf
  <2>7. ReasonsAreKept'
    BY <2>1, <2>2 DEF ReasonsAreKept, Reasons
  <2> QED
    BY <2>3, <2>4, <2>5, <2>6, <2>7 DEF RunInv
<1> QED
  BY <1>1, <1>2

\* Whatever the scenarios, their groups and the workers: no two scenarios of a group are
\* executed together, cleanups are run, results are backed, and a run that ends accounts
\* for every scenario, is only ok when it earned that and leaves no incomplete manifest.
THEOREM RunIsSafe == RunSpec => []RunSafety
<1>1. RunInit => RunInv
  BY RunStarts
<1>2. RunInv /\ [RunNext]_runVars => RunInv'
  BY RunInvStays
<1>3. RunInv => RunSafety
  BY InvIsSafe
<1> QED
  BY <1>1, <1>2, <1>3, PTL DEF RunSpec

=============================================================================
