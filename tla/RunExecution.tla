---------------------------- MODULE RunExecution ----------------------------
(***************************************************************************)
(* One run of a profile: runRun of packages/kit/src/commands/run.ts after  *)
(* the packs are loaded.  A pool of workers takes the scenarios in the     *)
(* order they were discovered, an isolation group is executed one scenario *)
(* at a time, and when the pool is done the run is recorded, published and *)
(* judged.                                                                 *)
(*                                                                         *)
(* One thread runs all of it, so nothing that comes from outside (an       *)
(* answer of a driver, the signal of a cancellation, the clock) can happen *)
(* while a continuation is ready.  Writing an event fails when the disk    *)
(* does: the append throws and leaves no line behind.                      *)
(***************************************************************************)
EXTENDS ScenarioRun, FiniteSets

CONSTANTS
  Worker,         \* the calls of executeNextScenario in the pool
  Group,          \* keys of isolationTails
  NoGroup,        \* a scenario of a parallel profile
  GroupOf,        \* [Scenario -> Group \cup {NoGroup}]  isolationKey
  NoScenario,
  Returned, Threw, \* a worker that is through, one whose loop has thrown
  MaxFaults       \* bound: events that cannot be written

\* The scenarios are numbered in the order of their discovery.
ASSUME RunAssumption ==
  /\ IsFiniteSet(Scenario) /\ Scenario = 1..Cardinality(Scenario)
  /\ {NoScenario, Returned, Threw} \cap Scenario = {}
  /\ NoScenario # Returned /\ NoScenario # Threw /\ Returned # Threw
  /\ Scenario # {} => Worker # {}
  /\ GroupOf \in [Scenario -> Group \cup {NoGroup}]
  /\ NoGroup \notin Group
  /\ MaxFaults \in Nat

VARIABLES
  cursor,     \* nextScenario
  pool,       \* pool[w]: the scenario it works on, NoScenario, Returned or Threw
  tail,       \* tail[g]: the scenario whose promise is the tail of group g
  behind,     \* behind[s]: the scenario whose release s awaits
  left,       \* the scenarios that have given their turn up
  dispatched, \* executedScenarios
  outcome,    \* scenarioOutcomesByOrder
  finished,   \* finished[s]: the scenario_finished events of s
  overdue,    \* the clock has reached budgetDeadline
  flags,      \* which of the reasons of a failed run have come up
  gated,      \* profile.require_deterministic_replay
  coverage,   \* what became of the packs: see Coverage
  faults,     \* events that could not be written
  phase,      \* what runRun does next once the pool is done
  published,  \* the canonical artifacts in the store
  state,      \* run_state of the run_finished event
  verdict     \* what runRun returns

poolVars == <<cursor, pool, tail, behind, left, dispatched, outcome, finished>>
profileVars == <<gated, coverage>>
endVars == <<phase, published, state, verdict>>
runVars == <<scenarioVars, poolVars, overdue, flags, profileVars, faults, endVars>>

\* How the packs of the profile were found: all of them; all, and a broken one that the
\* profile does not select; a selected one is not there; a scenario does not parse.
Coverage == {"full", "brokenElsewhere", "packMissing", "scenarioError"}

\* The order of publication.
Streams == {"events", "findings"}
Artifacts == Streams \cup {"checkpoint", "external", "manifest"}

RunInit ==
  /\ ScenarioInit
  /\ cursor = 1
  /\ pool = [w \in Worker |-> NoScenario]
  /\ tail = [g \in Group |-> NoScenario]
  /\ behind = [s \in Scenario |-> NoScenario]
  /\ left = {} /\ dispatched = {}
  /\ outcome = [s \in Scenario |-> "none"]
  /\ finished = [s \in Scenario |-> 0]
  /\ overdue = FALSE
  /\ flags = {}
  /\ gated \in BOOLEAN
  /\ coverage \in Coverage
  /\ faults = 0
  /\ phase = "record" /\ published = {} /\ state = "none" /\ verdict = "none"

Flag(F) == flags' = flags \cup F

\* Between the turns of its loop a worker looks at the signal.
SignalSeen == IF aborted THEN {"cancelled"} ELSE {}

-----------------------------------------------------------------------------
(* executeNextScenario *)

\* Mutant: a scenario of a group that is in use joins without waiting.
Join_NoWait(s) ==
  /\ behind' = behind
  /\ tail' = IF GroupOf[s] = NoGroup THEN tail ELSE [tail EXCEPT ![GroupOf[s]] = s]

\* withIsolation: the scenario queues behind the tail of its group and becomes the tail.
Join(s) ==
  \/ /\ GroupOf[s] = NoGroup
     /\ UNCHANGED <<behind, tail>>
  \/ /\ GroupOf[s] # NoGroup
     /\ behind' = [behind EXCEPT ![s] = tail[GroupOf[s]]]
     /\ tail' = [tail EXCEPT ![GroupOf[s]] = s]

\* The loop of worker w is left by an exception, and Promise.all rejects at once.
Reject(w) ==
  /\ faults < MaxFaults
  /\ faults' = faults + 1
  /\ pool' = [pool EXCEPT ![w] = Threw]
  /\ verdict' = "rejected"

\* A worker takes the next scenario.
Dispatch(w) ==
  /\ pool[w] = NoScenario
  /\ cursor \in Scenario /\ ~aborted
  /\ cursor' = cursor + 1
  /\ pool' = [pool EXCEPT ![w] = cursor]
  /\ dispatched' = dispatched \cup {cursor}
  /\ Join(cursor)
  /\ UNCHANGED <<scenarioVars, left, outcome, finished, overdue, flags, profileVars, faults,
                 endVars>>

\* The run is cancelled before the next scenario is taken; nothing catches it when that
\* cannot be written.
Forgo(w) ==
  /\ pool[w] = NoScenario
  /\ cursor \in Scenario /\ aborted
  /\ cursor' = cursor + 1
  /\ Flag({"cancelled"})
  /\ outcome' = [outcome EXCEPT ![cursor] = "not_run"]
  /\ \/ /\ finished' = [finished EXCEPT ![cursor] = @ + 1]
        /\ UNCHANGED <<pool, faults, verdict>>
     \/ /\ Reject(w)
        /\ UNCHANGED finished
  /\ UNCHANGED <<scenarioVars, tail, behind, left, dispatched, overdue, profileVars, phase,
                 published, state>>

\* Mutant: a scenario that leaves clears the tail of its group whoever holds it.
GiveUpTurn_AnyTail(s) ==
  /\ left' = left \cup {s}
  /\ tail' = [g \in Group |-> IF g = GroupOf[s] THEN NoScenario ELSE tail[g]]

\* The finally of withIsolation.
GiveUpTurn(s) ==
  /\ left' = left \cup {s}
  /\ tail' = [g \in Group |-> IF tail[g] = s THEN NoScenario ELSE tail[g]]

\* The turn of s in its group has come.
Ready(s) == run[s].stage = "idle" /\ (behind[s] \in left \/ behind[s] = NoScenario)

\* The scenario starts, unless the minutes of the profile are used up.
Enter(w) ==
  LET s == pool[w]
  IN  /\ s \in Scenario /\ Ready(s)
      /\ \/ /\ overdue
            /\ Flag({"budget"} \cup SignalSeen)
            /\ outcome' = [outcome EXCEPT ![s] = "not_run"]
            /\ finished' = [finished EXCEPT ![s] = @ + 1]
            /\ GiveUpTurn(s)
            /\ pool' = [pool EXCEPT ![w] = NoScenario]
            /\ Becomes(s, Over("ended"))
         \/ /\ ~overdue
            /\ IF s \in Journey THEN BeginJourney(s) ELSE Begin(s)
            /\ UNCHANGED <<outcome, finished, left, tail, pool, flags>>
      /\ UNCHANGED <<aborted, cursor, behind, dispatched, overdue, profileVars,
                     faults, endVars>>

\* The scenario has its result: it is recorded and the group goes on.
Leave(w) ==
  LET s == pool[w]
  IN  /\ s \in Scenario
      /\ Done(s) \/ run[s].stage = "ended"
      /\ outcome' = [outcome EXCEPT ![s] = OutcomeOf(s)]
      /\ finished' = [finished EXCEPT ![s] = @ + 1]
      /\ Flag(SignalSeen \cup (IF ExecutionFailed(s) THEN {"execution"} ELSE {})
                         \cup (IF HasFinding(s) THEN {"finding"} ELSE {}))
      /\ GiveUpTurn(s)
      /\ pool' = [pool EXCEPT ![w] = NoScenario]
      /\ Becomes(s, Over("ended"))
      /\ UNCHANGED <<aborted, cursor, behind, dispatched, overdue, profileVars,
                     faults, endVars>>

\* No worker has a continuation to run.
Quiet ==
  \A w \in Worker :
    \/ pool[w] \in {Returned, Threw}
    \/ /\ pool[w] \in Scenario
       /\ \/ run[pool[w]].stage \in Awaiting /\ ~Done(pool[w])
          \/ run[pool[w]].stage = "idle" /\ ~Ready(pool[w])

\* The code of s writes an event: when it starts, after the answer to a probe and at its
\* end; a journey writes its events when it is done.
CanRaise(s) ==
  \/ Ready(s) \/ run[s].stage = "ended" \/ Done(s)
  \/ Quiet /\ run[s].stage \in Awaiting /\ s \notin Journey

\* Mutant: an exception leaves the group without the release.
Raise_NoRelease(w) ==
  LET s == pool[w]
  IN  /\ s \in Scenario
      /\ faults < MaxFaults
      /\ faults' = faults + 1
      /\ CanRaise(s)
      /\ Becomes(s, Over("thrown"))
      /\ UNCHANGED <<aborted, poolVars, overdue, flags, profileVars, endVars>>

\* An event of the scenario cannot be written: the exception leaves it where it stands,
\* without what is left of its steps and its cleanup.  A finding is written before its
\* event is.
Raise(w) ==
  LET s == pool[w]
  IN  /\ s \in Scenario
      /\ faults < MaxFaults
      /\ faults' = faults + 1
      /\ CanRaise(s)
      /\ Becomes(s, Over("thrown"))
      /\ \/ UNCHANGED flags
         \/ Ready(s) /\ overdue /\ Flag({"budget"})
         \/ Done(s) /\ HasFinding(s) /\ Flag({"finding"})
      /\ GiveUpTurn(s)
      /\ UNCHANGED <<aborted, cursor, pool, behind, dispatched, outcome, finished,
                     overdue, profileVars, endVars>>

\* The catch block records the error, unless that event cannot be written either.
Catch(w) ==
  LET s == pool[w]
  IN  /\ s \in Scenario /\ run[s].stage = "thrown"
      /\ outcome' = [outcome EXCEPT ![s] = "error"]
      /\ \/ /\ finished' = [finished EXCEPT ![s] = @ + 1]
            /\ Flag({"runtime"} \cup SignalSeen)
            /\ pool' = [pool EXCEPT ![w] = NoScenario]
            /\ UNCHANGED <<faults, verdict>>
         \/ /\ Reject(w)
            /\ UNCHANGED <<finished, flags>>
      /\ UNCHANGED <<scenarioVars, cursor, tail, behind, left, dispatched, overdue,
                     profileVars, phase, published, state>>

\* The cursor is past the last scenario.
Retire(w) ==
  /\ pool[w] = NoScenario
  /\ cursor \notin Scenario
  /\ pool' = [pool EXCEPT ![w] = Returned]
  /\ UNCHANGED <<scenarioVars, cursor, tail, behind, left, dispatched, outcome, finished,
                 overdue, flags, profileVars, faults, endVars>>

-----------------------------------------------------------------------------
(* The end of runRun *)

\* Run.deriveStateFromCompletion of the counters in the run_finished event.
Derived(F) ==
  CASE "budget" \in F -> "budget_exceeded"
    [] "budget" \notin F /\ (\/ F \cap {"runtime", "execution", "replay"} # {}
                             \/ coverage \in {"brokenElsewhere", "scenarioError"}
                             \/ gated /\ "finding" \in F
                             \/ dispatched = {}) -> "failed"
    [] OTHER -> "succeeded"

\* The drivers are closed and replay artifacts written, either of which may fail, and
\* run_finished ends the events unless that cannot be written.
Record ==
  /\ phase = "record" /\ verdict = "none"
  /\ \A w \in Worker : pool[w] = Returned
  /\ \E failed \in SUBSET {"runtime", "replay"} :
       LET F == flags \cup failed
       IN  /\ "replay" \in failed => "finding" \in flags
           /\ \/ /\ state' = Derived(F)
                 /\ flags' = F
                 /\ UNCHANGED faults
              \/ /\ faults < MaxFaults
                 /\ faults' = faults + 1
                 /\ flags' = F \cup {"finalization"}
                 /\ UNCHANGED state
  /\ phase' = "streams"
  /\ UNCHANGED <<scenarioVars, poolVars, overdue, profileVars, published, verdict>>

\* What the phase is to publish is stored, or some of it is not and that is remembered.
Publish(artifacts, next) ==
  /\ \E stored \in SUBSET artifacts :
       /\ published' = published \cup stored
       /\ Flag(IF stored = artifacts THEN {} ELSE {"publication"})
  /\ phase' = next
  /\ UNCHANGED <<scenarioVars, poolVars, overdue, profileVars, faults, state, verdict>>

Skip(next) ==
  /\ phase' = next
  /\ UNCHANGED <<scenarioVars, poolVars, overdue, flags, profileVars, faults, published, state,
                 verdict>>

\* Both streams are tried.
PublishStreams ==
  /\ phase = "streams"
  /\ Publish(Streams, "checkpoint")

\* The checkpoint, and a copy of it in the independent store.
PublishCheckpoint ==
  /\ phase = "checkpoint"
  /\ \/ /\ "publication" \notin flags
        /\ Publish({"checkpoint", "external"}, "manifest")
        /\ "checkpoint" \in published' \/ "external" \notin published'
     \/ /\ "publication" \in flags
        /\ Skip("manifest")

\* Mutant: the manifest is written whatever could be published.
PublishManifest_Always ==
  /\ phase = "manifest"
  /\ Publish({"manifest"}, "judge")

\* The manifest names the other artifacts, so it is only written when they are there.
PublishManifest ==
  /\ phase = "manifest"
  /\ \/ /\ "publication" \notin flags
        /\ Publish({"manifest"}, "judge")
     \/ /\ "publication" \in flags
        /\ Skip("judge")

\* Mutant: what could not be published is not a reason.
Reasons_NotPublished ==
  \/ flags \cap {"budget", "cancelled", "runtime", "execution", "replay", "finalization"} # {}
  \/ coverage \in {"packMissing", "scenarioError"}
  \/ gated /\ "finding" \in flags
  \/ dispatched = {}

\* The reasons of a run that is not ok.
Reasons ==
  \/ flags \cap {"budget", "cancelled", "runtime", "execution", "replay", "publication",
                 "finalization"} # {}
  \/ coverage \in {"packMissing", "scenarioError"}
  \/ gated /\ "finding" \in flags
  \/ dispatched = {}

Judge ==
  /\ phase = "judge"
  /\ phase' = "over"
  /\ verdict' = IF Reasons THEN "failed" ELSE "ok"
  /\ UNCHANGED <<scenarioVars, poolVars, overdue, flags, profileVars, faults, published, state>>

-----------------------------------------------------------------------------
\* The code of worker w goes on.
Continue(w) == Dispatch(w) \/ Forgo(w) \/ Enter(w) \/ Leave(w) \/ Catch(w) \/ Retire(w)

EndRun == Record \/ PublishStreams \/ PublishCheckpoint \/ PublishManifest \/ Judge

Rest == <<poolVars, overdue, flags, profileVars, faults, endVars>>

\* A call that a scenario awaits is answered.
Answered(s) == Quiet /\ Answer(s) /\ UNCHANGED <<aborted, Rest>>

\* The signal of the worker that holds the job, or of the operator.
CancelRun ==
  /\ Quiet
  /\ ~aborted
  /\ aborted' = TRUE
  /\ UNCHANGED <<run, Rest>>

\* The clock reaches budgetDeadline.
Elapse ==
  /\ Quiet
  /\ ~overdue
  /\ overdue' = TRUE
  /\ UNCHANGED <<scenarioVars, poolVars, flags, profileVars, faults, endVars>>

RunNext ==
  \/ \E w \in Worker : Continue(w) \/ Raise(w)
  \/ \E s \in Scenario : Answered(s) \/ (Quiet /\ TimerFires(s) /\ UNCHANGED <<aborted, Rest>>)
  \/ EndRun
  \/ CancelRun \/ Elapse

\* Node runs what is ready, and every driver and callback answers in the end: they are
\* handed the signal, and their own timeouts, for that.
RunFairness ==
  /\ \A w \in Worker : WF_runVars(Continue(w))
  /\ \A s \in Scenario : WF_runVars(Answered(s))
  /\ WF_runVars(EndRun)

RunSpec == RunInit /\ [][RunNext]_runVars /\ RunFairness

-----------------------------------------------------------------------------
(* Properties *)

RunTypeOK ==
  /\ run \in [Scenario -> RunRecord] /\ aborted \in BOOLEAN /\ overdue \in BOOLEAN
  /\ cursor \in 1..(Cardinality(Scenario) + 1)
  /\ pool \in [Worker -> Scenario \cup {NoScenario, Returned, Threw}]
  /\ tail \in [Group -> Scenario \cup {NoScenario}]
  /\ behind \in [Scenario -> Scenario \cup {NoScenario}]
  /\ left \subseteq dispatched /\ dispatched \subseteq 1..(cursor - 1)
  /\ outcome \in [Scenario -> {"none", "pass", "fail", "error", "blocked", "not_run"}]
  /\ finished \in [Scenario -> 0..1]
  /\ flags \subseteq {"budget", "cancelled", "runtime", "execution", "replay", "publication",
                      "finalization", "finding"}
  /\ gated \in BOOLEAN /\ coverage \in Coverage /\ faults \in 0..MaxFaults
  /\ phase \in {"record", "streams", "checkpoint", "manifest", "judge", "over"}
  /\ published \subseteq Artifacts
  /\ state \in {"none", "succeeded", "failed", "budget_exceeded"}
  /\ verdict \in {"none", "ok", "failed", "rejected"}

\* s has had its turn in the group and has not given it up.
Executing(s) == run[s].stage # "idle" /\ s \notin left

\* Two scenarios of one isolation group are never executed at the same time, and a group
\* executes its scenarios in the order of their discovery: the chain of promises in
\* withIsolation is not broken by a scenario that throws, that comes when the tail has
\* just been released, or that leaves while others queue behind it.
GroupsAreIsolated ==
  \A s, t \in Scenario :
    s < t /\ GroupOf[s] = GroupOf[t] /\ GroupOf[s] # NoGroup /\ s \in dispatched /\ Executing(t)
      => s \in left

\* A scenario that has called a probe ends only when every cleanup probe it declares was
\* called as well, whether its preconditions or steps passed, failed or were cancelled; a
\* failed precondition keeps every step from running.  (An event that cannot be written
\* leaves a scenario where it stands.)
CleanupIsRun ==
  \A s \in Scenario :
    /\ run[s].stage = "ended" /\ run[s].checked \o run[s].ran # <<>>
         => Len(run[s].cleaned) = Cleanups[s]
    /\ run[s].ran # <<>> => \A o \in ToSet(run[s].checked) : o = "pass"

\* A finding is backed by a complete execution: every step ran, none of its calls failed,
\* and an assertion does not hold.  (A scenario that was cancelled before its first step
\* is the exception: see FindingsFollowExecution.)  What answers after the signal makes no
\* result: it neither passes a scenario nor adds a finding.  A passed journey has had
\* every transition confirmed and every observer satisfied.
ResultsAreBacked ==
  \A s \in Scenario :
    /\ Done(s) /\ HasFinding(s) /\ run[s].ran # <<>> =>
         /\ Len(run[s].ran) = Steps[s]
         /\ "failed" \notin ToSet(run[s].ran \o run[s].cleaned)
         /\ "miss" \in ToSet(run[s].ran)
         /\ ~aborted
    /\ Done(s) /\ OutcomeOf(s) = "pass" =>
         /\ Len(run[s].ran) = Steps[s]
         /\ \A o \in ToSet(run[s].ran \o run[s].seen) : o = "pass"
         /\ IF s \in Journey THEN Len(run[s].seen) = Observers[s] * Steps[s] ELSE ~aborted

\* When runRun returns, every scenario it discovered has exactly one outcome and one
\* scenario_finished event, and none of them is still executing.
EveryScenarioIsAccounted ==
  verdict \in {"ok", "failed"} =>
    \A s \in Scenario : outcome[s] # "none" /\ finished[s] = 1 /\ ~Executing(s)

\* A run that is ok has executed every scenario it found to an outcome that says something
\* about the product, was not cancelled under way, and is recorded and published with
\* its manifest.
OkIsEarned ==
  verdict = "ok" =>
    /\ \A s \in Scenario :
         /\ outcome[s] \in {"pass", "fail"}
         /\ s \in Journey \/ gated => outcome[s] = "pass"
    /\ state # "none"
    /\ Artifacts \subseteq published

\* At any moment, and so after a crash, a manifest in the store names artifacts that are
\* there, and the independent checkpoint has its original.
ManifestIsComplete ==
  /\ "manifest" \in published => Artifacts \subseteq published
  /\ "external" \in published => Streams \cup {"checkpoint"} \subseteq published

InPool(s) == \E w \in Worker : pool[w] = s

\* A scenario is taken by one worker and given up when it has an outcome; a worker returns
\* when all are taken, and one that throws has rejected the run.
PoolIsKept ==
  /\ \A v, w \in Worker : v # w /\ pool[v] \in Scenario => pool[v] # pool[w]
  /\ \A w \in Worker : pool[w] = Returned => cursor \notin Scenario
  /\ \A s \in Scenario :
       /\ InPool(s) => s \in dispatched /\ outcome[s] = "none" /\ finished[s] = 0
       /\ ~InPool(s) /\ s < cursor =>
            /\ outcome[s] # "none" /\ (finished[s] = 1 \/ verdict = "rejected")
            /\ s \in dispatched => s \in left /\ run[s].stage \in {"ended", "thrown"}
       /\ s >= cursor => outcome[s] = "none" /\ finished[s] = 0
       /\ s \notin dispatched => run[s] = Fresh
       /\ run[s].stage = "thrown" => s \in left

\* s was taken before t, for the same group.
Precedes(s, t) ==
  s < t /\ GroupOf[s] = GroupOf[t] /\ GroupOf[s] # NoGroup /\ s \in dispatched

\* Each scenario waits for the last one before it, or for none when all before it have left;
\* the tail is the last of its group in the same sense.
TurnsAreInOrder ==
  /\ \A t \in Scenario \ dispatched : behind[t] = NoScenario
  /\ \A t \in dispatched :
       /\ behind[t] # NoScenario => Precedes(behind[t], t)
       /\ \A s \in Scenario : Precedes(s, t) =>
            /\ IF behind[t] = NoScenario THEN s \in left ELSE s <= behind[t]
            /\ run[t].stage # "idle" \/ t \in left => s \in left
  /\ \A g \in Group :
       /\ tail[g] # NoScenario => tail[g] \in dispatched /\ GroupOf[tail[g]] = g
       /\ \A s \in dispatched : GroupOf[s] = g =>
            IF tail[g] = NoScenario THEN s \in left ELSE s <= tail[g]

AllPass(q) == \A o \in ToSet(q) : o = "pass"

\* What a scenario has collected goes with the call it awaits.
ProgressIsTrue ==
  \A s \in Scenario :
    LET r == run[s]
    IN  /\ r.stage \in {"idle", "ended", "thrown"} =>
             r.checked = <<>> /\ r.ran = <<>> /\ r.seen = <<>> /\ r.cleaned = <<>>
        /\ r.stage \in {"idle", "checks", "steps", "observers"} =>
             r.stop = "none" /\ r.cleaned = <<>> /\ AllPass(r.checked)
        /\ r.stage = "checks" => r.ran = <<>>
        /\ r.stage \in {"checks", "steps"} => Len(r.ran) < Steps[s]
        /\ r.ran # <<>> => AllPass(r.checked)
        /\ s \notin Journey =>
             /\ r.seen = <<>> /\ r.stage # "observers"
             /\ r.stage = "cleanup" /\ r.stop = "none" => Len(r.ran) = Steps[s]
             /\ r.stage = "cleanup" /\ r.stop = "cancelled" =>
                  r.ran = <<>> \/ "failed" \in ToSet(r.ran)
             /\ aborted /\ Done(s) /\ r.stop = "none" => Failures(s)
        /\ s \in Journey =>
             /\ r.stage # "checks"
             /\ r.stage \in {"steps", "observers"} => AllPass(r.ran) /\ AllPass(r.seen)
             /\ r.stage = "steps" => Len(r.seen) = Observers[s] * Len(r.ran)
             /\ r.stage = "observers" => Len(r.ran) <= Steps[s]
             /\ r.stage = "cleanup" /\ r.stop = "none" =>
                  /\ Len(r.ran) = Steps[s] /\ Len(r.seen) = Observers[s] * Len(r.ran)
                  /\ AllPass(r.ran) /\ AllPass(r.seen)

\* No reason of a failed run is lost between the scenario that gives it and the verdict.
ReasonsAreKept ==
  /\ \A s \in Scenario :
       /\ outcome[s] = "not_run" => flags \cap {"cancelled", "budget"} # {}
       /\ outcome[s] = "error" => flags \cap {"runtime", "execution"} # {} \/ verdict = "rejected"
       /\ outcome[s] = "blocked" => "execution" \in flags
       /\ outcome[s] = "fail" => IF s \in Journey THEN "execution" \in flags ELSE "finding" \in flags
  /\ \A w \in Worker : pool[w] = Threw => verdict = "rejected"
  /\ phase = "over" <=> verdict \in {"ok", "failed"}
  /\ phase # "record" =>
       /\ \A w \in Worker : pool[w] = Returned
       /\ cursor \notin Scenario /\ verdict # "rejected"
       /\ state # "none" \/ "finalization" \in flags
  /\ phase \in {"record", "streams"} => published = {}
  /\ phase = "checkpoint" =>
       published \subseteq Streams /\ ("publication" \in flags \/ Streams \subseteq published)
  /\ phase = "manifest" =>
       "manifest" \notin published /\ ("publication" \in flags \/ Artifacts \ {"manifest"} \subseteq published)
  /\ phase \in {"judge", "over"} => "publication" \in flags \/ Artifacts \subseteq published
  /\ verdict = "ok" => ~Reasons

\* What the other properties say of one run, together.
RunSafety ==
  /\ RunTypeOK /\ GroupsAreIsolated /\ CleanupIsRun /\ ResultsAreBacked
  /\ EveryScenarioIsAccounted /\ OkIsEarned /\ ManifestIsComplete
  /\ PoolIsKept /\ TurnsAreInOrder /\ ProgressIsTrue /\ ReasonsAreKept

\* A run that has taken its first scenario returns or throws, however its scenarios wait
\* for one another: a scenario that throws or is not run frees its group like one that ends.
RunIsAnswered == cursor > 1 ~> verdict # "none"

\* ADR-098 and ADR-072: "an aborted operation cannot create a security finding", findings
\* are emitted only when the execution completed.
FindingsFollowExecution ==
  \A s \in Scenario : Done(s) /\ HasFinding(s) => Len(run[s].ran) = Steps[s]
=============================================================================
