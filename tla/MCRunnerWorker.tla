--------------------------- MODULE MCRunnerWorker ---------------------------
(***************************************************************************)
(* Small instances, for one TLC run, of the two halves of executing a run: *)
(* the workers that take a job from the queue, and the run itself, which   *)
(* is what their handler does.  The handler of RunnerWorker only returns   *)
(* or throws, and the worker only reaches into the run through its signal, *)
(* so the two share no state: a behaviour is one of "part" while the other *)
(* stays where it began.                                                   *)
(***************************************************************************)
EXTENDS RunnerWorker, RunExecution, TLC

CONSTANTS j1, j2, r1, r2, s1, s2

\* Workers: one job, two workers of which r2 serves only one tenant.
NoKeys == [j \in Job |-> NoKey]
OnePrint == [j \in Job |-> "a"]
Scopes == [j \in Job |-> IF j = j1 THEN s1 ELSE s2]
OneUnit == [j \in Job |-> 1]
RunnerScopes == [r \in Runner |-> IF r = r1 THEN {s1, s2} ELSE {s1}]

\* Run: 1, 2 and 3 are one isolation group, of which 1 has a precondition and a cleanup
\* and 2 has two steps; 4 is a journey with an observer.
Scenarios == 1..4
Groups == <<"group", "group", "group", "none">>
CheckCounts == <<1, 0, 0, 0>>
StepCounts == <<1, 2, 1, 1>>
ObserverCounts == <<0, 0, 0, 1>>
CleanupCounts == <<1, 0, 0, 1>>

VARIABLE part

hostVars == <<part, allVars, runVars>>

ExecutionInit ==
  \/ /\ part = "workers"
     /\ WorkerInit
     /\ RunInit /\ gated = FALSE /\ coverage = "full"
  \/ /\ part = "run"
     /\ Init /\ worker = [r \in Runner |-> Resting("idle")]
     /\ probe = [r \in Runner |-> {}] /\ reports = {}
     /\ RunInit /\ (gated => coverage = "full")

\* Bound: of two events that cannot be written, the signal, the end of the minutes and the
\* timer of a journey, at most two befall a run.  A run that is gated, or whose packs are not
\* all there, is left alone.
Calm ==
  LET befell == [signal |-> aborted, minutes |-> overdue,
                 timer |-> \E s \in Journey : run[s].lapsed]
  IN faults + Cardinality({e \in DOMAIN befell : befell[e]})
       <= IF coverage # "full" \/ gated THEN 0 ELSE 2

ExecutionNext ==
  /\ UNCHANGED part
  /\ \/ part = "workers" /\ WorkerNext /\ UNCHANGED runVars
     \/ part = "run" /\ RunNext /\ Calm' /\ UNCHANGED allVars

\* A step of the part that the behaviour is of.
WorkersDo(A) == part = "workers" /\ A /\ UNCHANGED <<part, runVars>>
RunDoes(A) == part = "run" /\ A /\ UNCHANGED <<part, allVars>>

\* What each part asks for: LiveSpec and RunFairness.
ExecutionFairness ==
  /\ \A j \in Job : WF_hostVars(WorkersDo(Lapse(j) /\ UNCHANGED workerVars))
  /\ \A r \in Runner : /\ WF_hostVars(WorkersDo(Restart(r)))
                       /\ WF_hostVars(WorkersDo(Poll(r)))
                       /\ WF_hostVars(WorkersDo(MainStep(r) \/ BreakFail(r)))
                       /\ WF_hostVars(WorkersDo(ProbeGet(r)))
                       /\ WF_hostVars(WorkersDo(ProbeRenew(r)))
  /\ \A w \in Worker : WF_hostVars(RunDoes(Continue(w)))
  /\ \A s \in Scenario : WF_hostVars(RunDoes(Answered(s)))
  /\ WF_hostVars(RunDoes(EndRun))

ExecutionSpec == ExecutionInit /\ [][ExecutionNext]_hostVars /\ ExecutionFairness

=============================================================================
