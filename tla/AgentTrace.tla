----------------------------- MODULE AgentTrace -----------------------------
(***************************************************************************)
(* The evidence of an agent's work in a run: the directory of the run,     *)
(* which the processes that were given the same seed all want (runRun of   *)
(* run.ts), AgentToolGuard (agent.ts), AgentTrajectoryRecorder and         *)
(* verifyAgentTrajectory (trajectory.ts), the writer of the event chain    *)
(* they share (EventChainWriter, events.ts), and what readers make of the  *)
(* file (report.ts, compliance/src/audit-verify.ts).                       *)
(*                                                                         *)
(* Tools are called concurrently; what runs between two awaits, an append  *)
(* to the file included, is one action.  An append may fail, with nothing  *)
(* written, with a part of the line, or with all of it but its end; and    *)
(* the process may die at any time, which leaves the directory behind.     *)
(*                                                                         *)
(* A hash is what it was made of: the bodies of all events up to its own.  *)
(***************************************************************************)
EXTENDS Naturals, FiniteSets, SequencesExt

CONSTANTS
  Entrant,       \* processes that run the same project with the same seed
  Call,          \* calls of the guard
  MaxCalls,      \* max_calls
  MaxSteps,      \* max_steps of the recorder
  MaxFailures,   \* bound of the model: appends that fail
  Torn,          \* a line that cannot be read
  NoIndex

ASSUME TraceAssumption ==
  /\ MaxCalls \in Nat \ {0} /\ MaxSteps \in Nat \ {0}
  /\ MaxFailures \in Nat
  /\ NoIndex \notin Nat
  /\ {"run", "recorder"} \cap Call = {}

VARIABLES
  entrants,        \* [Entrant -> where the process stands]
  seq, prevHash,   \* this.seq and this.prevHash of the writer
  memory,          \* this.events
  file,            \* the lines of events.jsonl
  openLine,        \* whether the last of them lacks its end
  callCount,       \* this.calls of the guard
  calls,           \* [Call -> the state of the call]
  aborted,         \* the signal, as the length of "memory" when it came, or NoIndex
  steps,           \* this.steps of the recorder
  failures         \* how many appends have failed

chainVars == <<seq, prevHash, memory, file, openLine, failures>>
traceVars == <<entrants, chainVars, callCount, calls, aborted, steps>>

-----------------------------------------------------------------------------
ZERO_HASH == <<>>

Statuses == {"completed", "failed", "denied"}

\* "index" is call_index of a guarded call, and the seq of a step of the recorder.
EventAt(n, prev, source, index, status) ==
  LET body == [seq |-> n, source |-> source, index |-> index, status |-> status]
  IN [prev |-> prev, body |-> body, hash |-> Append(prev, body)]

Event(source, index, status) == EventAt(seq, prevHash, source, index, status)

CallState ==
  [pc : {"idle", "running", "catch", "answered", "thrown"}, index : Nat \cup {NoIndex},
   ok : BOOLEAN, ran : BOOLEAN]

NewCall == [pc |-> "idle", index |-> NoIndex, ok |-> FALSE, ran |-> FALSE]

TraceInit ==
  /\ entrants = [p \in Entrant |-> "idle"]
  /\ seq = 0 /\ prevHash = ZERO_HASH
  /\ memory = <<>> /\ file = <<>> /\ openLine = FALSE
  /\ callCount = 0
  /\ calls = [c \in Call |-> NewCall]
  /\ aborted = NoIndex
  /\ steps = <<>>
  /\ failures = 0

-----------------------------------------------------------------------------
(* EventChainWriter.append *)

\* A line that lacks its end swallows the next one.
Written(line) ==
  IF openLine THEN Front(file) \o <<Torn>> ELSE Append(file, line)

\* Mutant: the chain goes on before the line is in the file.
AppendFails_Linked(event) ==
  /\ failures < MaxFailures
  /\ failures' = failures + 1
  /\ memory' = Append(memory, event)
  /\ seq' = event.body.seq + 1 /\ prevHash' = event.hash
  /\ UNCHANGED <<file, openLine>>

\* The event is remembered, but the writer does not go on from it.
AppendFails(event) ==
  /\ failures < MaxFailures
  /\ failures' = failures + 1
  /\ memory' = Append(memory, event)
  /\ \/ UNCHANGED <<file, openLine>>
     \/ \E line \in {event, Torn} : file' = Written(line) /\ openLine' = TRUE
  /\ seq' = event.body.seq /\ prevHash' = event.prev

Appends(event) ==
  /\ memory' = Append(memory, event)
  /\ file' = Written(event) /\ openLine' = FALSE
  /\ seq' = event.body.seq + 1 /\ prevHash' = event.hash
  /\ UNCHANGED failures

-----------------------------------------------------------------------------
(* The directory of the run *)

\* Mutant: what a run that has ended left behind is used again.
DirectoryExists_InUse == \E p \in Entrant : entrants[p] = "writes"

\* Nobody removes it.
DirectoryExists == \E p \in Entrant : entrants[p] \in {"writes", "ended"}

\* mkdirSync(runDir) succeeds for one process only; a new writer appends run_started.
EnterRun(p) ==
  LET first == EventAt(0, ZERO_HASH, "run", NoIndex, "completed")
  IN /\ entrants[p] = "idle" /\ ~DirectoryExists
     /\ \/ Appends(first) /\ entrants' = [entrants EXCEPT ![p] = "writes"]
        \/ AppendFails(first) /\ entrants' = [entrants EXCEPT ![p] = "ended"]
     /\ UNCHANGED <<callCount, calls, aborted, steps>>

RefuseRun(p) ==
  /\ entrants[p] = "idle" /\ DirectoryExists
  /\ entrants' = [entrants EXCEPT ![p] = "refused"]
  /\ UNCHANGED <<chainVars, callCount, calls, aborted, steps>>

\* The process ends or dies.
EndProcess(p) ==
  /\ entrants[p] = "writes"
  /\ entrants' = [entrants EXCEPT ![p] = "ended"]
  /\ UNCHANGED <<chainVars, callCount, calls, aborted, steps>>

Writing == \E p \in Entrant : entrants[p] = "writes"

-----------------------------------------------------------------------------
(* AgentToolGuard.call *)

Answers(c, ok, ran, index) ==
  calls' = [calls EXCEPT ![c] = [pc |-> "answered", index |-> index, ok |-> ok, ran |-> ran]]

Throws(c) == calls' = [calls EXCEPT ![c].pc = "thrown"]

\* A refusal, or a failure, is recorded before it is answered.
Records(c, ran, index, status) ==
  LET event == Event(c, index, status)
  IN \/ Appends(event) /\ Answers(c, status = "completed", ran, index)
     \/ AppendFails(event) /\ Throws(c)

\* Mutant: the budget counts what has ended.
BudgetIsSpent_Ended ==
  Cardinality({c \in Call : calls[c].pc = "answered" /\ calls[c].ran}) >= MaxCalls

BudgetIsSpent == callCount >= MaxCalls

\* Nothing else in the process comes between a try block that throws and its catch block.
Quiet == Writing /\ \A c \in Call : calls[c].pc # "catch"

\* Denied: by the list of tools, by the budget, or by the signal.
CallDenied(c) ==
  /\ Quiet /\ calls[c].pc = "idle"
  /\ Records(c, FALSE, callCount, "denied")
  /\ UNCHANGED <<entrants, callCount, aborted, steps>>

CallStarts(c) ==
  /\ Quiet /\ calls[c].pc = "idle"
  /\ ~BudgetIsSpent /\ aborted = NoIndex
  /\ callCount' = callCount + 1
  /\ calls' = [calls EXCEPT ![c] = [pc |-> "running", index |-> callCount, ok |-> FALSE,
                                    ran |-> TRUE]]
  /\ UNCHANGED <<entrants, chainVars, aborted, steps>>

\* The catch block: the tool threw, or what became of it could not be written.
CallThrew(c) ==
  /\ (Writing /\ calls[c].pc = "catch") \/ (Quiet /\ calls[c].pc = "running")
  /\ Records(c, TRUE, calls[c].index, "failed")
  /\ UNCHANGED <<entrants, callCount, aborted, steps>>

\* An outcome of the try block.
Concludes(c, status) ==
  LET event == Event(c, calls[c].index, status)
  IN \/ Appends(event) /\ Answers(c, status = "completed", TRUE, calls[c].index)
     \/ AppendFails(event) /\ calls' = [calls EXCEPT ![c].pc = "catch"]

\* The signal came, or the output is too large.
CallFails(c) ==
  /\ Quiet /\ calls[c].pc = "running"
  /\ Concludes(c, "failed")
  /\ UNCHANGED <<entrants, callCount, aborted, steps>>

\* Mutant: the signal is not looked at again.
MayComplete_Unsignalled == TRUE

\* The signal is read again after the tool has run.
MayComplete == aborted = NoIndex

CallCompletes(c) ==
  /\ Quiet /\ calls[c].pc = "running" /\ MayComplete
  /\ Concludes(c, "completed")
  /\ UNCHANGED <<entrants, callCount, aborted, steps>>

-----------------------------------------------------------------------------
(* AgentTrajectoryRecorder.record, and the cancellation of the run *)

\* The step is kept before its event is appended; when that throws, it stays.
RecordStep(status) ==
  LET event == Event("recorder", Len(steps), status)
  IN /\ Quiet /\ Len(steps) < MaxSteps
     /\ steps' = Append(steps, [seq |-> Len(steps), status |-> status])
     /\ Appends(event) \/ AppendFails(event)
     /\ UNCHANGED <<entrants, callCount, calls, aborted>>

Abort ==
  /\ Quiet /\ aborted = NoIndex
  /\ aborted' = Len(memory)
  /\ UNCHANGED <<entrants, chainVars, callCount, calls, steps>>

TraceNext ==
  \/ \E c \in Call : CallDenied(c) \/ CallStarts(c) \/ CallThrew(c) \/ CallFails(c) \/ CallCompletes(c)
  \/ \E status \in Statuses : RecordStep(status)
  \/ Abort
  \/ \E p \in Entrant : EnterRun(p) \/ RefuseRun(p) \/ EndProcess(p)

TraceSpec == TraceInit /\ [][TraceNext]_traceVars

-----------------------------------------------------------------------------
(* What is made of the evidence *)

\* parseEventLines: every line is an event.
Parses(lines) == \A i \in DOMAIN lines : lines[i] # Torn

\* verifyEventChain.
VerifyChain(events) ==
  \A i \in DOMAIN events :
    LET expected == IF i = 1 THEN ZERO_HASH ELSE events[i - 1].hash
    IN /\ events[i].prev = expected
       /\ events[i].hash = Append(expected, events[i].body)

\* Mutant: the calls of the guard are passed over.
IsAgents_Recorder(event) == event.body.source = "recorder"

IsAgents(event) == event.body.source # "run"

\* The positions of the agent's events, of which the one that follows n others in the
\* filtered list is at index n.
Matching(events) == {i \in DOMAIN events : IsAgents(events[i])}
Rank(i, positions) == Cardinality({j \in positions : j <= i})

\* verifyAgentTrajectory, with the events of the run.
VerifyTrajectory(events) ==
  LET matching == Matching(events)
  IN \/ events = <<>>
     \/ /\ Cardinality(matching) = Len(steps)
        /\ \A i \in matching :
             LET step == steps[Rank(i, matching)]
             IN /\ events[i].body.source = "recorder"
                /\ events[i].body.index = step.seq
                /\ events[i].body.status = step.status

-----------------------------------------------------------------------------
(* Properties *)

TraceTypeOK ==
  /\ entrants \in [Entrant -> {"idle", "writes", "refused", "ended"}]
  /\ seq \in Nat /\ callCount \in 0..MaxCalls
  /\ openLine \in BOOLEAN
  /\ calls \in [Call -> CallState]
  /\ aborted \in Nat \cup {NoIndex}
  /\ failures \in 0..MaxFailures

\* Whatever appends have failed and whoever else wanted the directory, a file whose lines
\* can be read verifies as a chain, at any time; and one that ends well holds every event
\* that its writer counts.
FileVerifies ==
  Parses(file) =>
    /\ VerifyChain(file)
    /\ ~openLine => seq = Len(file) /\ \A i \in DOMAIN file : file[i].body.seq = i - 1

\* "Every attempt emits a tool_call event": in a file without damage a call that was
\* answered has one event, with its index and its outcome, and no other call has one.
AnswersAreBacked ==
  Parses(file) /\ ~openLine =>
    \A c \in Call :
      LET mine == {i \in DOMAIN file : file[i].body.source = c}
      IN IF calls[c].pc = "answered"
         THEN \E i \in mine :
                /\ mine = {i}
                /\ file[i].body.index = calls[c].index
                /\ file[i].body.status = IF ~calls[c].ran THEN "denied"
                                         ELSE IF calls[c].ok THEN "completed" ELSE "failed"
         ELSE mine = {}

\* However calls overlap, the budget bounds the tools that run, and each has an index.
LimitIsKept ==
  LET started == {c \in Call : calls[c].ran}
  IN /\ Cardinality(started) <= MaxCalls
     /\ \A c, d \in started : calls[c].index = calls[d].index => c = d

\* After the signal no tool call is recorded as completed, though its tool may run on.
AbortEndsCalls ==
  aborted # NoIndex =>
    \A i \in DOMAIN memory :
      i > aborted /\ memory[i].body.source \in Call => memory[i].body.status # "completed"

\* The file is sound, and says what happened.
TraceSafety ==
  TraceTypeOK /\ FileVerifies /\ AnswersAreBacked /\ LimitIsKept /\ AbortEndsCalls

\* The trajectory of an agent that records its own steps verifies against the events of
\* its run, at any time; it does not once a call of the guard is among them.
TrajectoryVerifies ==
  failures = 0 /\ file # <<>> =>
    (VerifyTrajectory(file) <=> \A i \in DOMAIN file : file[i].body.source \notin Call)

=============================================================================
