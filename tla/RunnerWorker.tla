---------------------------- MODULE RunnerWorker ----------------------------
(***************************************************************************)
(* RunnerWorker of packages/server/src/worker.ts: every identity of Runner *)
(* is one worker process that takes jobs from the shared PostgresQueue,    *)
(* runs a handler, and keeps its lease alive with an interval timer.       *)
(*                                                                         *)
(* The main path of runOnce awaits the queue three times (get, then ack or *)
(* fail), the timer's refreshLease twice (get, then renew), and the two    *)
(* interleave with each other, with other workers, with operators who      *)
(* cancel jobs and with time.  Each await is one action: what the queue    *)
(* does and what the worker concludes from the answer.  (An answer that    *)
(* arrives late is not told apart: a lease that is lost or a job that is   *)
(* cancelled stays so.)                                                    *)
(*                                                                         *)
(* With Faults a call may throw before it had its effect or after, which   *)
(* is what HttpRunnerQueue does on a lost connection.                      *)
(***************************************************************************)
EXTENDS PostgresQueue

CONSTANT Faults   \* whether calls of the queue may throw

ASSUME FaultsAssumption == Faults \in BOOLEAN

VARIABLES
  worker,     \* worker[r]: the local state of runOnce in process r
  probe,      \* probe[r]: the renewals that calls of refreshLease have under way
  reports     \* what the runs of runOnce returned

workerVars == <<worker, probe, reports>>
queueVars == vars
allVars == <<vars, workerVars>>

\* "stopped" is a process that ended, with or without a run under way.
Pc == {"idle", "handling", "returned", "acking", "caught", "failing", "stopped"}

\* Why the handler was aborted.  The code has one flag for the last two: leaseLost
\* is set when the queue refuses the lease and when a probe of it throws.
Abortion == {"cancelled", "fenced", "unreachable"}

Local == [pc : Pc, job : Job \cup {NoJob}, token : Nat, aborts : SUBSET Abortion]

Resting(pc) == [pc |-> pc, job |-> NoJob, token |-> 0, aborts |-> {}]

Outcome == {"completed", "failed", "cancelled", "lease_lost"}

WorkerTypeOK ==
  /\ worker \in [Runner -> Local]
  /\ probe \in [Runner -> SUBSET Lease]
  /\ reports \subseteq [lease : Lease, status : Outcome, aborts : SUBSET Abortion]

\* The jobs were accepted before the workers start.
WorkerInit ==
  /\ jobs = [j \in Job |-> NewRow]
  /\ enq = [j \in Job |-> "accepted"]
  /\ reply = [j \in Job |-> j]
  /\ lock = [s \in Scope |-> NoJob]
  /\ minted = [j \in Job |-> 0]
  /\ leases = {}
  /\ settledBy = [j \in Job |-> 0]
  /\ worker = [r \in Runner |-> Resting("idle")]
  /\ probe = [r \in Runner |-> {}]
  /\ reports = {}

-----------------------------------------------------------------------------
(* The local state *)

At(r, pc) == worker[r].pc = pc

\* The copy of the job that dequeue returned to this run.
Copy(r) == [job |-> worker[r].job, token |-> worker[r].token, runner |-> r]

StatusOf(r) == jobs[worker[r].job].status

\* watcherActive: from the lease until runOnce returns or throws.
Watching(r) == worker[r].job # NoJob

Aborted(r) == worker[r].aborts # {}

IsCancelled(r) == "cancelled" \in worker[r].aborts \/ StatusOf(r) = "cancelled"

\* The queue answers false to ack, fail or renew.
Refused(l) == ~Holds(l) /\ UNCHANGED queueVars

Goto(r, pc) == worker' = [worker EXCEPT ![r].pc = pc]

\* Mutant: the report is made after the local state was reset.
Report_AfterReset(r, status) ==
  /\ worker' = [worker EXCEPT ![r] = Resting("idle")]
  /\ reports' = reports \cup
       {[lease |-> [job |-> NoJob, token |-> 0, runner |-> r],
         status |-> status, aborts |-> {}]}

Report(r, status) ==
  /\ worker' = [worker EXCEPT ![r] = Resting("idle")]
  /\ reports' = reports \cup
       {[lease |-> Copy(r), status |-> status, aborts |-> worker[r].aborts]}

\* An exception that escapes runOnce ends runUntilStopped and the process.
Stop(r) == worker' = [worker EXCEPT ![r] = Resting("stopped")]

-----------------------------------------------------------------------------
(* Taking a job *)

Poll(r) ==
  /\ At(r, "idle")
  /\ \/ \E t \in Job :
          /\ Dequeue(r, t)
          /\ \/ worker' = [worker EXCEPT ![r] = [Resting("handling") EXCEPT
                             !.job = t, !.token = minted'[t]]]
             \/ Faults /\ Stop(r)     \* leased, but the answer never came
     \/ DequeueNothing /\ UNCHANGED worker
  /\ UNCHANGED <<probe, reports>>

-----------------------------------------------------------------------------
(* refreshLease: the timer's callback *)

Abort(r, why) == worker' = [worker EXCEPT ![r].aborts = @ \cup {why}]

\* Mutant: only a renewal that is refused aborts the handler.
ProbeGet_RenewOnly(r) ==
  /\ Watching(r)
  /\ StatusOf(r) = "in_flight"
  /\ probe' = [probe EXCEPT ![r] = @ \cup {Copy(r)}]
  /\ UNCHANGED <<queueVars, worker, reports>>

\* The first await: how does the job stand?
ProbeGet(r) ==
  /\ Watching(r)
  /\ \/ /\ StatusOf(r) = "cancelled"
        /\ Abort(r, "cancelled")
        /\ UNCHANGED probe
     \/ /\ StatusOf(r) \notin {"cancelled", "in_flight"}
        /\ Abort(r, "fenced")
        /\ UNCHANGED probe
     \/ /\ StatusOf(r) = "in_flight"
        /\ probe' = [probe EXCEPT ![r] = @ \cup {Copy(r)}]
        /\ UNCHANGED worker
     \/ /\ Faults
        /\ Abort(r, "unreachable")
        /\ UNCHANGED probe
  /\ UNCHANGED <<queueVars, reports>>

\* Mutant: the flags outlive the run, so an old answer aborts the next run.
ProbeRenew_SharedFlags(r) ==
  \E sent \in probe[r] :
    /\ probe' = [probe EXCEPT ![r] = @ \ {sent}]
    /\ \/ Renew(sent) /\ UNCHANGED worker
       \/ Refused(sent) /\ Abort(r, "fenced")
    /\ UNCHANGED reports

\* The second await: renew.  The timer fires again without waiting for it, and
\* the run that sent it may be over by the time it takes effect; then nobody
\* reads the answer.
ProbeRenew(r) ==
  \E sent \in probe[r] :
    LET AbortSender(why) == IF Copy(r) = sent THEN Abort(r, why) ELSE UNCHANGED worker
    IN  /\ probe' = [probe EXCEPT ![r] = @ \ {sent}]
        /\ \/ Renew(sent) /\ UNCHANGED worker
           \/ Refused(sent) /\ AbortSender("fenced")
           \/ /\ Faults
              /\ AbortSender("unreachable")
              /\ Renew(sent) \/ UNCHANGED queueVars
        /\ UNCHANGED reports

-----------------------------------------------------------------------------
(* The main path of runOnce *)

\* The handler returns or throws, aborted or not.
Return(r) ==
  /\ At(r, "handling")
  /\ Goto(r, "returned")
  /\ UNCHANGED <<queueVars, probe, reports>>

Throw(r) ==
  /\ At(r, "handling")
  /\ Goto(r, "caught")
  /\ UNCHANGED <<queueVars, probe, reports>>

\* What both paths conclude from get before they write.
Conclude(r, next) ==
  \/ IsCancelled(r) /\ Report(r, "cancelled")
  \/ ~IsCancelled(r) /\ Aborted(r) /\ Report(r, "lease_lost")
  \/ ~IsCancelled(r) /\ ~Aborted(r) /\ Goto(r, next) /\ UNCHANGED reports

\* get after the handler returned; if it throws, the catch block takes over.
LookThenAck(r) ==
  /\ At(r, "returned")
  /\ \/ Conclude(r, "acking")
     \/ Faults /\ Goto(r, "caught") /\ UNCHANGED reports
  /\ UNCHANGED <<queueVars, probe>>

\* Mutant: the run completes whatever ack answers.
SendAck_Unread(r) ==
  LET copy == Copy(r)
  IN  /\ At(r, "acking")
      /\ Report(r, "completed")
      /\ Ack(copy) \/ Refused(copy)
      /\ UNCHANGED probe

SendAck(r) ==
  LET copy == Copy(r)
  IN  /\ At(r, "acking")
      /\ \/ Ack(copy) /\ Report(r, "completed")
         \/ Refused(copy) /\ Report(r, "lease_lost")
         \/ /\ Faults
            /\ Ack(copy) \/ UNCHANGED queueVars
            /\ Goto(r, "caught") /\ UNCHANGED reports
      /\ UNCHANGED probe

\* get in the catch block; nothing catches it when it throws.
LookThenFail(r) ==
  /\ At(r, "caught")
  /\ \/ Conclude(r, "failing")
     \/ Faults /\ Stop(r) /\ UNCHANGED reports
  /\ UNCHANGED <<queueVars, probe>>

\* The answer of fail is not looked at.
SendFail(r) ==
  LET copy == Copy(r)
  IN  /\ At(r, "failing")
      /\ Fail(copy) \/ Refused(copy)
      /\ Report(r, "failed")
      /\ UNCHANGED probe

\* fail throws, before or after its effect.
BreakFail(r) ==
  /\ Faults
  /\ At(r, "failing")
  /\ Fail(Copy(r)) \/ UNCHANGED queueVars
  /\ Stop(r)
  /\ UNCHANGED <<probe, reports>>

-----------------------------------------------------------------------------
(* The process.  A process that dies without a run loses nothing. *)

Crash(r) ==
  /\ Watching(r)
  /\ Stop(r)
  /\ UNCHANGED <<queueVars, probe, reports>>

Restart(r) ==
  /\ At(r, "stopped")
  /\ worker' = [worker EXCEPT ![r] = Resting("idle")]
  /\ UNCHANGED <<queueVars, probe, reports>>

MainStep(r) == LookThenAck(r) \/ SendAck(r) \/ LookThenFail(r) \/ SendFail(r)

WorkerStep(r) ==
  \/ Poll(r) \/ ProbeGet(r) \/ ProbeRenew(r)
  \/ Return(r) \/ Throw(r)
  \/ MainStep(r) \/ BreakFail(r)
  \/ Crash(r) \/ Restart(r)

\* Operators cancel, the server's reaper sweeps, and time passes.
Environment ==
  /\ \/ \E j \in Job : Cancel(j) \/ Lapse(j)
     \/ ReapExpired
  /\ UNCHANGED workerVars

WorkerNext == Environment \/ \E r \in Runner : WorkerStep(r)

WorkerSpec == WorkerInit /\ [][WorkerNext]_allVars

-----------------------------------------------------------------------------
(* Fairness: time passes, a supervisor restarts dead workers, idle workers *)
(* poll, runOnce runs on, setInterval keeps firing and the queue answers   *)
(* its probes.  Nothing is asked of handlers, of the server's reaper or of *)
(* operators.                                                              *)
LiveSpec ==
  /\ WorkerSpec
  /\ \A j \in Job : WF_allVars(Lapse(j) /\ UNCHANGED workerVars)
  /\ \A r \in Runner : /\ WF_allVars(Restart(r))
                       /\ WF_allVars(Poll(r))
                       /\ WF_allVars(MainStep(r) \/ BreakFail(r))
                       /\ WF_allVars(ProbeGet(r))
                       /\ WF_allVars(ProbeRenew(r))

HandlersEnd == \A r \in Runner : WF_allVars(Return(r) \/ Throw(r))

-----------------------------------------------------------------------------
(* Properties *)

\* A run that reports completed owns the outcome: the job is done, by its lease
\* and no other, whatever crashed, expired, retried or was cancelled meanwhile.
CompletedIsAcked ==
  \A x \in reports :
    x.status = "completed" =>
      /\ jobs[x.lease.job].status = "done"
      /\ settledBy[x.lease.job] = x.lease.token

\* ADR-100: a worker abandons a run as lease_lost, and a refusal by the queue
\* aborts its handler, only if the lease is really gone and stays gone, or if it
\* could not reach the queue to find out.
LeaseLostIsReal ==
  /\ \A x \in reports :
       x.status = "lease_lost" => ~Holds(x.lease) \/ "unreachable" \in x.aborts
  /\ \A r \in Runner :
       (Watching(r) /\ "fenced" \in worker[r].aborts) => ~Holds(Copy(r))

\* Why both hold: a run under way, a renewal under way and a report carry copies that
\* dequeue handed out, to this process, so each call of a worker is one that the queue
\* expects of the holder of a lease.
WorkerInv ==
  /\ \A r \in Runner :
       /\ worker[r].pc \notin {"idle", "stopped"} => Watching(r)
       /\ Watching(r) => Copy(r) \in leases
       /\ probe[r] \subseteq leases
  /\ \A x \in reports : x.lease \in leases

\* What a run reports is true of the queue: completed is acknowledged, lease_lost is lost.
ReportSafety == WorkerTypeOK /\ WorkerInv /\ CompletedIsAcked /\ LeaseLostIsReal

\* "A cancelled job aborts the handler" (worker.ts): once the job of a running
\* handler is cancelled, the handler is aborted or over.
CancelReachesHandler ==
  \A r \in Runner, j \in Job :
    (At(r, "handling") /\ worker[r].job = j /\ jobs[j].status = "cancelled")
      ~> (Aborted(r) \/ ~At(r, "handling"))

\* If handlers end one way or another, every accepted job is done, failed or
\* cancelled at last, although workers crash in the middle of it and answers of
\* the queue are lost.
EveryJobSettles ==
  HandlersEnd =>
    \A j \in Job : enq[j] = "accepted" ~> jobs[j].status \in {"done", "failed", "cancelled"}

\* Work comes to an end: of a job that is accepted, and of a handler whose job is cancelled.
WorkEnds == EveryJobSettles /\ CancelReachesHandler

=============================================================================
