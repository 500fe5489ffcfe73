----------------------------- MODULE LeaseQueue -----------------------------
(***************************************************************************)
(* What every runner queue of the control plane promises about one job,    *)
(* whatever stores it: the contract RunnerQueueLike of                     *)
(* packages/server/src/runner-queue.ts.  A job is submitted once, leased   *)
(* at most MaxAttempts times, and leaves the queue once: settled by the    *)
(* holder of the LATEST lease, failed because its last lease expired, or   *)
(* cancelled.  RunnerQueue (in memory) and PostgresQueue (durable)         *)
(* implement this specification.                                           *)
(*                                                                         *)
(* One statement of an implementation may move several jobs (a dequeue     *)
(* retires every expired job and leases one), so Next lets each job make   *)
(* a move of its own.                                                      *)
(***************************************************************************)
EXTENDS Naturals

CONSTANTS
  Job,          \* job identifiers
  MaxAttempts   \* leases a job may be granted, a positive number

VARIABLES
  phase,        \* phase[j]: where job j stands
  grants,       \* grants[j]: how many leases of j were granted
  result        \* result[j]: which lease settled j, 0 when none did

vars == <<phase, grants, result>>

Terminal == {"done", "failed", "cancelled"}
Phase == {"absent", "queued", "in_flight"} \cup Terminal

TypeOK ==
  /\ phase  \in [Job -> Phase]
  /\ grants \in [Job -> 0..MaxAttempts]
  /\ result \in [Job -> 0..MaxAttempts]

Init ==
  /\ phase  = [j \in Job |-> "absent"]
  /\ grants = [j \in Job |-> 0]
  /\ result = [j \in Job |-> 0]

-----------------------------------------------------------------------------
(* The moves of one job. *)

Goes(j, from, to) == phase[j] \in from /\ phase'[j] = to

Keeps(j) == grants'[j] = grants[j] /\ result'[j] = result[j]

Submit(j) == Goes(j, {"absent"}, "queued") /\ Keeps(j)

\* A waiting job is leased, or a job whose lease has lapsed is leased anew.
Grant(j) ==
  /\ Goes(j, {"queued", "in_flight"}, "in_flight")
  /\ grants[j] < MaxAttempts
  /\ grants'[j] = grants[j] + 1
  /\ result'[j] = result[j]

\* The holder of the latest lease reports success or failure.
Settle(j) ==
  /\ \E outcome \in {"done", "failed"} : Goes(j, {"in_flight"}, outcome)
  /\ grants'[j] = grants[j]
  /\ result'[j] = grants[j]

\* The lease lapsed: the job waits again, or is dead-lettered at the limit.
Expire(j) ==
  /\ Goes(j, {"in_flight"}, IF grants[j] < MaxAttempts THEN "queued" ELSE "failed")
  /\ Keeps(j)

Cancel(j) == Goes(j, {"queued", "in_flight"}, "cancelled") /\ Keeps(j)

Stays(j) == phase'[j] = phase[j] /\ Keeps(j)

Move(j) ==
  Submit(j) \/ Grant(j) \/ Settle(j) \/ Expire(j) \/ Cancel(j) \/ Stays(j)

Next ==
  /\ phase'  \in [Job -> Phase]
  /\ grants' \in [Job -> 0..MaxAttempts]
  /\ result' \in [Job -> 0..MaxAttempts]
  /\ \A j \in Job : Move(j)

Spec == Init /\ [][Next]_vars

=============================================================================
