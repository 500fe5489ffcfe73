---------------------------- MODULE ScenarioRun -----------------------------
(***************************************************************************)
(* The execution of the scenarios of a run, one by one: runScenario of     *)
(* packages/runner/src/run.ts, and executeStatefulJourney of               *)
(* packages/methodology/src/stateful-journey.ts for the scenarios that are *)
(* bound to a journey.                                                     *)
(*                                                                         *)
(* The code runs to completion between two awaits, and what it awaits are  *)
(* the calls of a probe driver (of an action, an observer or the cleanup   *)
(* of a journey): an action is the answer of one of them with everything   *)
(* the code does before the next.  An answer is "pass" when the call       *)
(* completes and what it says satisfies the assertions on it, "miss" when  *)
(* it completes and does not, and "failed" when the driver reports an      *)
(* error, throws or overruns the probe's timeout, which end alike.         *)
(* An assertion is an oracle that names the step it reads.                 *)
(***************************************************************************)
EXTENDS Naturals, Sequences, SequencesExt

CONSTANTS
  Scenario,     \* the scenarios of the run
  Journey,      \* those of them that opts.statefulJourneys binds to a journey
  Special,      \* those with a probe of a kind that not every driver supports
  Checks,       \* [Scenario -> Nat] their structured preconditions
  Steps,        \* [Scenario -> Nat] their steps, or the transitions of the journey
  Observers,    \* [Scenario -> Nat] the observers after each transition of the journey
  Cleanups      \* [Scenario -> Nat] their cleanup probes; a journey has one callback

ASSUME ScenarioAssumption ==
  /\ Journey \subseteq Scenario /\ Special \subseteq Scenario \ Journey
  /\ Checks \in [Scenario -> Nat] /\ Cleanups \in [Scenario -> Nat]
  /\ Steps \in [Scenario -> Nat \ {0}] /\ Observers \in [Scenario -> Nat]
  /\ \A s \in Journey : Checks[s] = 0 /\ Cleanups[s] = 1

VARIABLES
  run,      \* run[s]: where scenario s stands, and what it has collected until it ends
  aborted   \* the AbortSignal of the run

scenarioVars == <<run, aborted>>

Result == {"pass", "miss", "failed"}

\* Where a scenario stands: the call it awaits, or how it ended.
Awaiting == {"checks", "steps", "observers", "cleanup"}
Stage == Awaiting \cup {"idle", "ended", "thrown"}

\* Why the steps were left before they were all done.
StopReason == {"none", "blocked", "cancelled", "failed"}

\* Its results so far, and whether the timer of a journey has fired.
Fresh ==
  [stage |-> "idle", stop |-> "none", checked |-> <<>>, ran |-> <<>>, seen |-> <<>>,
   cleaned |-> <<>>, lapsed |-> FALSE]

\* A scenario that is over keeps nothing of it.
Over(stage) == [Fresh EXCEPT !.stage = stage]

RunRecord ==
  [stage : Stage, stop : StopReason, checked : Seq({"pass", "failed"}), ran : Seq(Result),
   seen : Seq({"pass", "failed"}), cleaned : Seq({"pass", "failed"}), lapsed : BOOLEAN]

ScenarioInit ==
  /\ run = [s \in Scenario |-> Fresh]
  /\ aborted = FALSE

Becomes(s, r) == run' = [run EXCEPT ![s] = r]

\* execute turns the answer to a probe of an aborted run into a failure.
Reported(o) == IF aborted THEN "failed" ELSE o

\* The signal a journey hands on is aborted by its timer as well.
Signalled(s) == aborted \/ run[s].lapsed

-----------------------------------------------------------------------------
(* runScenario *)

\* The scenario begins, with its preflight (which finds that the driver supports its
\* probes, or does not) and the first look at the signal.
Begin(s) ==
  /\ run[s].stage = "idle"
  /\ \/ /\ s \in Special \/ (aborted /\ Checks[s] > 0)
        /\ Becomes(s, [run[s] EXCEPT !.stage = "ended", !.stop = "blocked"])
     \/ /\ ~aborted
        /\ Becomes(s, [run[s] EXCEPT !.stage = IF Checks[s] > 0 THEN "checks" ELSE "steps"])
     \/ /\ aborted /\ Checks[s] = 0
        /\ Becomes(s, [run[s] EXCEPT !.stage = "cleanup", !.stop = "cancelled"])

\* Mutant: a failed precondition ends the scenario at once.
Check_NoCleanup(s, o) ==
  LET r == [run[s] EXCEPT !.checked = Append(@, Reported(o))]
  IN  /\ run[s].stage = "checks"
      /\ \/ /\ Reported(o) # "pass"
            /\ Becomes(s, [r EXCEPT !.stage = "ended", !.stop = "blocked"])
         \/ /\ Reported(o) = "pass"
            /\ Becomes(s, [r EXCEPT !.stage =
                             IF Len(r.checked) < Checks[s] THEN "checks" ELSE "steps"])

\* The probe of a precondition is answered: unless it passes, the steps are skipped.
Check(s, o) ==
  LET r == [run[s] EXCEPT !.checked = Append(@, Reported(o))]
  IN  /\ run[s].stage = "checks"
      /\ \/ /\ Reported(o) # "pass"
            /\ Becomes(s, [r EXCEPT !.stage = "cleanup", !.stop = "blocked"])
         \/ /\ Reported(o) = "pass"
            /\ Becomes(s, [r EXCEPT !.stage =
                             IF Len(r.checked) < Checks[s] THEN "checks" ELSE "steps"])

\* Mutant: an answer to a step of an aborted run is taken for what it says.
Step_AsAnswered(s, o) ==
  LET r == [run[s] EXCEPT !.ran = Append(@, o)]
  IN  /\ run[s].stage = "steps" /\ s \notin Journey
      /\ Becomes(s, [r EXCEPT !.stage = IF Len(r.ran) < Steps[s] THEN "steps" ELSE "cleanup"])

\* The probe of a step is answered.  Only the signal keeps the next step from running:
\* a step that failed does not.
Step(s, o) ==
  LET r == [run[s] EXCEPT !.ran = Append(@, Reported(o))]
  IN  /\ run[s].stage = "steps" /\ s \notin Journey
      /\ \/ /\ aborted
            /\ Becomes(s, [r EXCEPT !.stage = "cleanup", !.stop = "cancelled"])
         \/ /\ ~aborted
            /\ Becomes(s, [r EXCEPT !.stage =
                             IF Len(r.ran) < Steps[s] THEN "steps" ELSE "cleanup"])

\* The next cleanup probe is answered; an aborted signal fails it but does not skip it.
Clean(s, o) ==
  /\ run[s].stage = "cleanup" /\ s \notin Journey
  /\ Len(run[s].cleaned) < Cleanups[s]
  /\ Becomes(s, [run[s] EXCEPT !.cleaned = Append(@, Reported(o))])

-----------------------------------------------------------------------------
(* executeStatefulJourney *)

BeginJourney(s) ==
  /\ run[s].stage = "idle"
  /\ \/ /\ aborted
        /\ Becomes(s, [run[s] EXCEPT !.stage = "cleanup", !.stop = "cancelled"])
     \/ /\ ~aborted
        /\ Becomes(s, [run[s] EXCEPT !.stage = "steps"])

\* The loop of the transitions goes on, or it is left at its end or for the signal.
NextTransition(s, r) ==
  \/ /\ Len(r.ran) = Steps[s]
     /\ Becomes(s, [r EXCEPT !.stage = "cleanup"])
  \/ /\ Len(r.ran) < Steps[s] /\ ~Signalled(s)
     /\ Becomes(s, [r EXCEPT !.stage = "steps"])
  \/ /\ Len(r.ran) < Steps[s] /\ Signalled(s)
     /\ Becomes(s, [r EXCEPT !.stage = "cleanup", !.stop = "cancelled"])

\* The action of a transition is answered; it fails as well when the
\* state it observes is not the planned one.
Transition(s, o) ==
  LET r == [run[s] EXCEPT !.ran = Append(@, o)]
  IN  /\ run[s].stage = "steps" /\ s \in Journey
      /\ \/ /\ Signalled(s)
            /\ Becomes(s, [r EXCEPT !.stage = "cleanup", !.stop = "cancelled"])
         \/ /\ ~Signalled(s) /\ o # "pass"
            /\ Becomes(s, [r EXCEPT !.stage = "cleanup", !.stop = "failed"])
         \/ /\ ~Signalled(s) /\ o = "pass" /\ Observers[s] > 0
            /\ Becomes(s, [r EXCEPT !.stage = "observers"])
         \/ /\ ~Signalled(s) /\ o = "pass" /\ Observers[s] = 0
            /\ NextTransition(s, r)

\* Mutant: what an observer says is recorded and nothing more.
Observe_Unheeded(s, o) ==
  LET r == [run[s] EXCEPT !.seen = Append(@, o)]
  IN  /\ run[s].stage = "observers"
      /\ \/ /\ Len(r.seen) < Observers[s] * Len(r.ran)
            /\ Becomes(s, r)
         \/ /\ Len(r.seen) = Observers[s] * Len(r.ran)
            /\ NextTransition(s, r)

\* An observer of the transition is answered.  The signal is not looked at before the
\* next transition.
Observe(s, o) ==
  LET r == [run[s] EXCEPT !.seen = Append(@, o)]
  IN  /\ run[s].stage = "observers"
      /\ \/ /\ o # "pass"
            /\ Becomes(s, [r EXCEPT !.stage = "cleanup", !.stop = "failed"])
         \/ /\ o = "pass" /\ Len(r.seen) < Observers[s] * Len(r.ran)
            /\ Becomes(s, r)
         \/ /\ o = "pass" /\ Len(r.seen) = Observers[s] * Len(r.ran)
            /\ NextTransition(s, r)

\* The cleanup callback is answered; it always runs, and its timer is cleared by then.
CleanJourney(s, o) ==
  /\ run[s].stage = "cleanup" /\ s \in Journey
  /\ run[s].cleaned = <<>>
  /\ Becomes(s, [run[s] EXCEPT !.cleaned = <<o>>])

\* max_duration_ms has passed.
TimerFires(s) ==
  /\ s \in Journey /\ run[s].stage \in {"steps", "observers"}
  /\ ~run[s].lapsed
  /\ Becomes(s, [run[s] EXCEPT !.lapsed = TRUE])

-----------------------------------------------------------------------------
(* The result *)

\* A scenario whose cleanup is done has nothing left to await.
Done(s) == run[s].stage = "cleanup" /\ Len(run[s].cleaned) = Cleanups[s]

\* executionFailures
Failures(s) == "failed" \in ToSet(run[s].ran) \cup ToSet(run[s].cleaned)

\* An oracle fails when its step was not run or does not satisfy it.
Misses(s) == Len(run[s].ran) < Steps[s] \/ "miss" \in ToSet(run[s].ran)

OutcomeOf(s) ==
  IF s \in Journey
    THEN IF run[s].stop = "none" /\ run[s].cleaned = <<"pass">> THEN "pass" ELSE "fail"
  ELSE CASE run[s].stop # "none" -> "blocked"
         [] run[s].stop = "none" /\ Failures(s) -> "error"
         [] run[s].stop = "none" /\ ~Failures(s) /\ Misses(s) -> "fail"
         [] OTHER -> "pass"

\* Mutant: an oracle that fails is a finding whatever became of the execution.
HasFinding_Always(s) ==
  s \notin Journey /\ run[s].stop \in {"none", "cancelled"} /\ Misses(s)

\* runScenario emits a finding; a blocked scenario returns before it comes to that.
HasFinding(s) ==
  s \notin Journey /\ run[s].stop \in {"none", "cancelled"} /\ Misses(s) /\ ~Failures(s)

\* execution_status: a journey that does not succeed is a failed execution as well.
ExecutionFailed(s) ==
  IF s \in Journey THEN OutcomeOf(s) # "pass" ELSE run[s].stop # "none" \/ Failures(s)

\* A driver, or a callback of a journey, answers.  Only for a step does it matter whether
\* the call itself or the assertion fails.
Answer(s) ==
  \/ \E o \in Result : Step(s, o)
  \/ \E o \in {"pass", "failed"} :
       Check(s, o) \/ Clean(s, o) \/ Transition(s, o) \/ Observe(s, o) \/ CleanJourney(s, o)
=============================================================================
