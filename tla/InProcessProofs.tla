-------------------------- MODULE InProcessProofs ---------------------------
(***************************************************************************)
(* Theorems about what single processes keep to themselves, which share no *)
(* state: the evidence of an agent's work (AgentTrace), the runner queue   *)
(* in memory (RunnerQueue) and the exporter of spans (SpanExporter), for   *)
(* any values of their constants.                                          *)
(***************************************************************************)
EXTENDS AgentTrace, RunnerQueue, SpanExporter, Sums, SequenceTheorems

-----------------------------------------------------------------------------
(* Evidence: types and the invariant *)

Source == {"run", "recorder"} \cup Call
Index == Nat \cup {NoIndex}
Body == [seq : Nat, source : Source, index : Index, status : Statuses]
Events == [prev : Seq(Body), body : Body, hash : Seq(Body)]
Line == Events \cup {Torn}

EvidenceTypes ==
  /\ TraceTypeOK
  /\ file \in Seq(Line) /\ memory \in Seq(Events) /\ prevHash \in Seq(Body)
  /\ steps \in Seq([seq : Nat, status : Statuses])

\* Nothing is written before the directory is there.
FreshInv == ~DirectoryExists => file = <<>> /\ ~openLine

\* What the writer goes on from is the end of the file, unless that lacks its end: then
\* nothing that can be read will come after it.
WriterInv ==
  /\ openLine => file # <<>>
  /\ Parses(file) => VerifyChain(file)
  /\ Parses(file) /\ ~openLine =>
       /\ seq = Len(file)
       /\ \A i \in DOMAIN file : file[i].body.seq = i - 1
       /\ prevHash = IF file = <<>> THEN ZERO_HASH ELSE file[Len(file)].hash

Started == {c \in Call : calls[c].ran}

\* The budget has been taken for each tool that runs or ran, at an index of its own.
BudgetInv ==
  /\ \A c \in Call :
       /\ calls[c].pc = "idle" => ~calls[c].ran
       /\ calls[c].pc \in {"running", "catch"} => calls[c].ran
  /\ IsFiniteSet(Started) /\ Cardinality(Started) = callCount
  /\ \A c \in Started : calls[c].index \in Nat /\ calls[c].index < callCount
  /\ \A c, d \in Started : calls[c].index = calls[d].index => c = d

EvidenceInv ==
  /\ EvidenceTypes /\ FreshInv /\ WriterInv /\ BudgetInv
  /\ AnswersAreBacked /\ AbortEndsCalls

-----------------------------------------------------------------------------
(* Evidence: the writer *)

Writes(event) == Appends(event) \/ AppendFails(event)

\* An event that follows the last one.
IsNext(event) ==
  /\ event \in Events
  /\ event.prev = prevHash /\ event.hash = Append(prevHash, event.body)
  /\ event.body.seq = seq

LEMMA AppendOrNot ==
  ASSUME EvidenceTypes, NEW event
  PROVE  ~(Appends(event) /\ AppendFails(event))
BY DEF Appends, AppendFails, EvidenceTypes, TraceTypeOK

LEMMA EventIsNext ==
  ASSUME EvidenceTypes, NEW source \in Source, NEW index \in Index, NEW status \in Statuses
  PROVE  /\ IsNext(Event(source, index, status))
         /\ Event(source, index, status).body =
              [seq |-> seq, source |-> source, index |-> index, status |-> status]
<1> DEFINE body == [seq |-> seq, source |-> source, index |-> index, status |-> status]
<1>1. body \in Body
  BY DEF EvidenceTypes, TraceTypeOK, Body
<1>2. prevHash \in Seq(Body) /\ Append(prevHash, body) \in Seq(Body)
  BY <1>1 DEF EvidenceTypes
<1>3. Event(source, index, status) =
        [prev |-> prevHash, body |-> body, hash |-> Append(prevHash, body)]
  BY DEF Event, EventAt
<1> HIDE DEF body
<1>4. /\ Event(source, index, status) \in Events
      /\ Event(source, index, status).prev = prevHash
      /\ Event(source, index, status).hash = Append(prevHash, body)
      /\ Event(source, index, status).body = body
  BY <1>1, <1>2, <1>3 DEF Events
<1>5. body.seq = seq
  BY DEF body
<1> QED
  BY <1>4, <1>5 DEF IsNext, body

LEMMA FileIsLines ==
  ASSUME EvidenceTypes
  PROVE  /\ file \in Seq(Line) /\ Len(file) \in Nat /\ DOMAIN file = 1..Len(file)
         /\ \A i \in DOMAIN file : file[i] \in Line
         /\ file = <<>> <=> Len(file) = 0
<1>1. file \in Seq(Line)
  BY DEF EvidenceTypes
<1>2. file # <<>> => Len(file) \in Nat \ {0}
  BY <1>1, EmptySeq
<1>3. file = <<>> => Len(file) = 0
  BY EmptySeq
<1> QED
  BY <1>1, <1>2, <1>3, LenProperties, ElementOfSeq

\* A line lost in one that lacks its end leaves a file that cannot be read.
LEMMA OpenLineSwallows ==
  ASSUME EvidenceTypes, openLine, file # <<>>, NEW line
  PROVE  /\ Written(line) \in Seq(Line) /\ Written(line) # <<>>
         /\ ~Parses(Written(line))
<1>1. Front(file) \in Seq(Line) /\ Len(Front(file)) = Len(file) - 1 /\ Len(file) \in Nat \ {0}
  <2>1. /\ Len(file) \in Nat \ {0} /\ Len(file) - 1 \in Nat
        /\ \A i \in 1..(Len(file) - 1) : file[i] \in Line
    BY FileIsLines
  <2>2. /\ SubSeq(file, 1, Len(file) - 1) \in Seq(Line)
        /\ Len(SubSeq(file, 1, Len(file) - 1)) =
             IF 1 <= Len(file) - 1 THEN (Len(file) - 1) - 1 + 1 ELSE 0
    <3> DEFINE n == Len(file) - 1
    <3>1. n \in Int /\ 1 \in Int /\ \A i \in 1..n : file[i] \in Line
      BY <2>1
    <3> HIDE DEF n
    <3>2. /\ SubSeq(file, 1, n) \in Seq(Line)
          /\ Len(SubSeq(file, 1, n)) = IF 1 <= n THEN n - 1 + 1 ELSE 0
      BY <3>1, SubSeqProperties
    <3> QED
      BY <3>2 DEF n
  <2>3. Len(SubSeq(file, 1, Len(file) - 1)) = Len(file) - 1
    BY <2>1, <2>2
  <2> QED
    BY <2>1, <2>2, <2>3 DEF Front
<1>2. Torn \in Line /\ <<Torn>> \in Seq(Line) /\ Len(<<Torn>>) = 1 /\ <<Torn>>[1] = Torn
  BY DEF Line
<1>3. Written(line) = Front(file) \o <<Torn>>
  BY DEF Written
<1>4. /\ Written(line) \in Seq(Line) /\ Len(Written(line)) = Len(file)
      /\ Written(line)[Len(file)] = Torn
  BY <1>1, <1>2, <1>3, ConcatProperties
<1>5. Written(line) # <<>> /\ Len(file) \in DOMAIN Written(line)
  BY <1>1, <1>4, EmptySeq, LenProperties
<1> QED
  BY <1>4, <1>5 DEF Parses

LEMMA ClosedLineGrows ==
  ASSUME EvidenceTypes, ~openLine, NEW line \in Line
  PROVE  /\ Written(line) \in Seq(Line) /\ Written(line) # <<>>
         /\ Len(Written(line)) = Len(file) + 1
         /\ DOMAIN Written(line) = DOMAIN file \cup {Len(file) + 1}
         /\ \A i \in DOMAIN file : Written(line)[i] = file[i]
         /\ Written(line)[Len(file) + 1] = line
         /\ Parses(Written(line)) => Parses(file)
<1>1. Written(line) = Append(file, line)
  BY DEF Written
<1>2. /\ Written(line) \in Seq(Line) /\ Written(line) # <<>>
      /\ Len(Written(line)) = Len(file) + 1
      /\ \A i \in 1..Len(file) : Written(line)[i] = file[i]
      /\ Written(line)[Len(file) + 1] = line
  BY <1>1, FileIsLines, AppendProperties
<1>3. /\ DOMAIN Written(line) = 1..(Len(file) + 1)
      /\ DOMAIN file = 1..Len(file) /\ Len(file) \in Nat
  BY <1>2, FileIsLines, LenProperties
<1>4. DOMAIN Written(line) = DOMAIN file \cup {Len(file) + 1}
  BY <1>3
<1>5. Parses(Written(line)) => Parses(file)
  BY <1>2, <1>3, <1>4 DEF Parses
<1> QED
  BY <1>2, <1>3, <1>4, <1>5

\* A file that can be read, and ends well, after an append was one before: it has grown by
\* the event, or the append has failed before anything was written.
LEMMA GoodFileWasGood ==
  ASSUME EvidenceTypes, WriterInv, NEW event, IsNext(event), Writes(event),
         Parses(file'), ~openLine'
  PROVE  /\ Parses(file) /\ ~openLine
         /\ Appends(event) => file' = Written(event)
         /\ AppendFails(event) => file' = file
<1>1. event \in Line /\ (openLine => file # <<>>)
  BY DEF IsNext, Line, WriterInv
<1>2. CASE Appends(event)
  <2>1. file' = Written(event)
    BY <1>2 DEF Appends
  <2>2. Parses(Written(event))
    BY <2>1 DEF Parses
  <2>3. Parses(file) /\ ~openLine
    BY <1>1, <2>2, OpenLineSwallows, ClosedLineGrows
  <2> QED
    BY <1>2, <2>1, <2>3, AppendOrNot
<1>3. CASE AppendFails(event)
  <2>1. file' = file /\ openLine' = openLine
    BY <1>3 DEF AppendFails
  <2> QED
    BY <1>3, <2>1, AppendOrNot DEF Parses
<1> QED
  BY <1>2, <1>3 DEF Writes

LEMMA ChainGrows ==
  ASSUME EvidenceTypes, WriterInv, ~openLine, NEW event, IsNext(event), Parses(Written(event))
  PROVE  /\ VerifyChain(Written(event))
         /\ seq = Len(file)
         /\ \A i \in DOMAIN Written(event) : Written(event)[i].body.seq = i - 1
<1>1. event \in Line
  BY DEF IsNext, Line
<1>2. /\ Parses(file) /\ VerifyChain(file) /\ seq = Len(file) /\ Len(file) \in Nat
      /\ DOMAIN file = 1..Len(file)
      /\ prevHash = IF file = <<>> THEN ZERO_HASH ELSE file[Len(file)].hash
      /\ \A i \in DOMAIN file : file[i].body.seq = i - 1
  BY <1>1, ClosedLineGrows, FileIsLines DEF WriterInv
<1>3. ASSUME NEW i \in DOMAIN Written(event)
      PROVE  LET expected == IF i = 1 THEN ZERO_HASH ELSE Written(event)[i - 1].hash
             IN /\ Written(event)[i].prev = expected
                /\ Written(event)[i].hash = Append(expected, Written(event)[i].body)
                /\ Written(event)[i].body.seq = i - 1
  <2>1. CASE i \in DOMAIN file
    <3>1. i = 1 \/ i - 1 \in DOMAIN file
      BY <1>2, <2>1
    <3>2. Written(event)[i] = file[i] /\ (i # 1 => Written(event)[i - 1] = file[i - 1])
      BY <1>1, <2>1, <3>1, ClosedLineGrows
    <3>3. LET expected == IF i = 1 THEN ZERO_HASH ELSE file[i - 1].hash
          IN file[i].prev = expected /\ file[i].hash = Append(expected, file[i].body)
      BY <1>2, <2>1 DEF VerifyChain
    <3>4. file[i].body.seq = i - 1
      BY <1>2, <2>1
    <3> QED
      BY <3>2, <3>3, <3>4
  <2>2. CASE i = Len(file) + 1
    <3>1. file = <<>> <=> Len(file) = 0
      BY FileIsLines
    <3>2. i = 1 <=> file = <<>>
      BY <1>2, <2>2, <3>1
    <3>3. file # <<>> => i - 1 = Len(file) /\ i - 1 \in DOMAIN file
      BY <1>2, <2>2, <3>1
    <3>4. Written(event)[i] = event
      BY <1>1, <2>2, ClosedLineGrows
    <3>5. file # <<>> => Written(event)[i - 1].hash = prevHash
      <4>1. file # <<>> => Written(event)[i - 1] = file[i - 1]
        BY <1>1, <3>3, ClosedLineGrows
      <4> QED
        BY <1>2, <3>3, <4>1
    <3>6. i - 1 = seq
      BY <1>2, <2>2
    <3> QED
      BY <1>2, <3>2, <3>4, <3>5, <3>6 DEF IsNext
  <2> QED
    BY <1>1, <2>1, <2>2, ClosedLineGrows
<1> QED
  BY <1>2, <1>3 DEF VerifyChain

LEMMA WriterGoesOn ==
  ASSUME EvidenceTypes, WriterInv, NEW event, IsNext(event), Writes(event)
  PROVE  /\ WriterInv'
         /\ file' \in Seq(Line) /\ prevHash' \in Seq(Body) /\ seq' \in Nat
         /\ memory' = Append(memory, event) /\ memory' \in Seq(Events)
         /\ failures' \in 0..MaxFailures /\ openLine' \in BOOLEAN
<1>1. event \in Line /\ Torn \in Line
  BY DEF IsNext, Line
<1>2. /\ memory' = Append(memory, event) /\ memory' \in Seq(Events)
      /\ prevHash' \in Seq(Body) /\ seq' \in Nat
  <2>1. memory \in Seq(Events) /\ event \in Events
    BY DEF EvidenceTypes, IsNext
  <2>2. memory' = Append(memory, event)
    BY DEF Writes, Appends, AppendFails
  <2>3. event.prev \in Seq(Body) /\ event.hash \in Seq(Body) /\ event.body.seq \in Nat
    BY <2>1 DEF Events, Body
  <2>4. /\ prevHash' \in {event.prev, event.hash}
        /\ seq' \in {event.body.seq, event.body.seq + 1}
    BY DEF Writes, Appends, AppendFails
  <2> QED
    BY <2>1, <2>2, <2>3, <2>4, AppendProperties
<1>3. failures' \in 0..MaxFailures /\ openLine' \in BOOLEAN
  <2>1. failures \in 0..MaxFailures /\ openLine \in BOOLEAN /\ MaxFailures \in Nat
    BY TraceAssumption DEF EvidenceTypes, TraceTypeOK
  <2>2. \/ failures' = failures
        \/ failures < MaxFailures /\ failures' = failures + 1
    BY DEF Writes, Appends, AppendFails
  <2>3. openLine' \in BOOLEAN
    BY <2>1 DEF Writes, Appends, AppendFails
  <2>4. failures' \in 0..MaxFailures
    BY <2>1, <2>2
  <2> QED
    BY <2>3, <2>4
<1>4. ASSUME Appends(event)
      PROVE  WriterInv' /\ file' \in Seq(Line)
  <2>1. CASE openLine
    <3>1. file # <<>> /\ file' = Written(event) /\ ~openLine'
      BY <1>4, <2>1 DEF Appends, WriterInv
    <3>2. file' \in Seq(Line) /\ ~Parses(file)'
      BY <2>1, <3>1, OpenLineSwallows DEF Parses
    <3> QED
      BY <3>1, <3>2 DEF WriterInv, Parses
  <2>2. CASE ~openLine
    <3>1. /\ file' = Written(event) /\ ~openLine' /\ seq' = event.body.seq + 1
          /\ prevHash' = event.hash
      BY <1>4 DEF Appends
    <3>2. file' \in Seq(Line) /\ file' # <<>> /\ Len(file') = Len(file) + 1
          /\ file'[Len(file) + 1] = event
      BY <1>1, <2>2, <3>1, ClosedLineGrows
    <3>3. ASSUME Parses(file)'
          PROVE  /\ VerifyChain(file)' /\ seq' = Len(file')
                 /\ \A i \in DOMAIN file' : file'[i].body.seq = i - 1
                 /\ prevHash' = file'[Len(file')].hash
      <4>1. Parses(Written(event))
        BY <3>1, <3>3 DEF Parses
      <4>2. /\ VerifyChain(Written(event)) /\ seq = Len(file)
            /\ \A i \in DOMAIN Written(event) : Written(event)[i].body.seq = i - 1
        BY <2>2, <4>1, ChainGrows
      <4>3. VerifyChain(file)'
        BY <3>1, <4>2 DEF VerifyChain
      <4> QED
        BY <3>1, <3>2, <4>2, <4>3 DEF IsNext
    <3> QED
      BY <3>1, <3>2, <3>3 DEF WriterInv, Parses, VerifyChain
  <2> QED
    BY <2>1, <2>2 DEF EvidenceTypes, TraceTypeOK
<1>5. ASSUME AppendFails(event), UNCHANGED <<file, openLine>>
      PROVE  WriterInv' /\ file' \in Seq(Line)
  <2>1. seq' = seq /\ prevHash' = prevHash /\ file' = file /\ openLine' = openLine
    BY <1>5 DEF AppendFails, IsNext
  <2> QED
    BY <1>5, <2>1 DEF WriterInv, EvidenceTypes, Parses, VerifyChain
<1>6. ASSUME NEW line \in {event, Torn}, file' = Written(line), openLine' = TRUE
      PROVE  WriterInv' /\ file' \in Seq(Line)
  <2>1. CASE openLine
    <3>1. file # <<>>
      BY <2>1 DEF WriterInv
    <3>2. file' \in Seq(Line) /\ file' # <<>> /\ ~Parses(file)'
      BY <1>6, <2>1, <3>1, OpenLineSwallows DEF Parses
    <3> QED
      BY <1>6, <3>2 DEF WriterInv
  <2>2. CASE ~openLine
    <3>1. /\ file' \in Seq(Line) /\ file' # <<>> /\ Len(file) + 1 \in DOMAIN file'
          /\ file'[Len(file) + 1] = line
      BY <1>1, <1>6, <2>2, ClosedLineGrows
    <3>2. CASE line = Torn
      BY <1>6, <3>1, <3>2 DEF WriterInv, Parses
    <3>3. CASE line = event
      <4>1. Parses(file)' => VerifyChain(file)'
        BY <1>6, <2>2, <3>3, ChainGrows DEF Parses, VerifyChain
      <4> QED
        BY <1>6, <3>1, <4>1 DEF WriterInv
    <3> QED
      BY <3>2, <3>3
  <2> QED
    BY <2>1, <2>2 DEF EvidenceTypes, TraceTypeOK
<1> QED
  BY <1>2, <1>3, <1>4, <1>5, <1>6 DEF Writes, AppendFails, WriterInv

-----------------------------------------------------------------------------
(* Evidence: steps *)

\* The end of an attempt to call: an event of it, with the answer that the event backs, or
\* without one when the event cannot be written.
Ends(c, index, status) ==
  \/ /\ Appends(Event(c, index, status))
     /\ Answers(c, status = "completed", status # "denied", index)
  \/ /\ AppendFails(Event(c, index, status))
     /\ \E pc \in {"catch", "thrown"} :
          /\ pc = "catch" => calls[c].ran
          /\ calls' = [calls EXCEPT ![c].pc = pc]

CallEnds(c) ==
  \E index \in Index, status \in Statuses :
    /\ calls[c].pc # "answered"
    /\ calls[c].ran => status # "denied"
    /\ ~calls[c].ran => status = "denied"
    /\ calls[c].ran => index = calls[c].index
    /\ aborted # NoIndex => status # "completed"
    /\ Ends(c, index, status)

LEMMA CallsEnd ==
  ASSUME EvidenceTypes, BudgetInv, NEW c \in Call,
         CallDenied(c) \/ CallThrew(c) \/ CallFails(c) \/ CallCompletes(c)
  PROVE  CallEnds(c) /\ UNCHANGED <<entrants, callCount, aborted, steps>>
<1>1. /\ calls[c].index \in Index /\ callCount \in Index
      /\ calls[c].pc = "idle" => ~calls[c].ran
      /\ calls[c].pc \in {"running", "catch"} => calls[c].ran
  BY TraceAssumption DEF EvidenceTypes, TraceTypeOK, CallState, BudgetInv, Index
<1>2. CASE CallDenied(c)
  BY <1>1, <1>2 DEF CallDenied, Records, CallEnds, Ends, Statuses, Throws
<1>3. CASE CallThrew(c)
  BY <1>1, <1>3 DEF CallThrew, Records, CallEnds, Ends, Statuses, Throws
<1>4. CASE CallFails(c)
  BY <1>1, <1>4 DEF CallFails, Concludes, CallEnds, Ends, Statuses
<1>5. CASE CallCompletes(c)
  BY <1>1, <1>5 DEF CallCompletes, Concludes, CallEnds, Ends, Statuses, MayComplete
<1> QED
  BY <1>2, <1>3, <1>4, <1>5

\* What a run does with its file beside the calls.
OtherWrites ==
  \E source \in {"run", "recorder"}, index \in Index, status \in Statuses :
    Writes(Event(source, index, status))

LEMMA OthersWrite ==
  ASSUME EvidenceTypes, FreshInv, WriterInv,
         \/ \E status \in Statuses : RecordStep(status)
         \/ \E p \in Entrant : EnterRun(p)
  PROVE  OtherWrites /\ UNCHANGED <<callCount, calls, aborted>>
<1>1. ASSUME NEW status \in Statuses, RecordStep(status)
      PROVE  OtherWrites /\ UNCHANGED <<callCount, calls, aborted>>
  BY <1>1 DEF RecordStep, OtherWrites, Writes, Index, EvidenceTypes
<1>2. ASSUME NEW p \in Entrant, EnterRun(p)
      PROVE  OtherWrites /\ UNCHANGED <<callCount, calls, aborted>>
  <2>1. seq = 0 /\ prevHash = ZERO_HASH
    BY <1>2 DEF EnterRun, FreshInv, WriterInv, Parses
  <2>2. Event("run", NoIndex, "completed") = EventAt(0, ZERO_HASH, "run", NoIndex, "completed")
    BY <2>1 DEF Event
  <2> QED
    BY <1>2, <2>2 DEF EnterRun, OtherWrites, Writes, Index, Statuses
<1> QED
  BY <1>1, <1>2

LEMMA StepCases ==
  ASSUME EvidenceTypes, FreshInv, WriterInv, BudgetInv, TraceNext
  PROVE  \/ \E c \in Call : CallEnds(c) /\ UNCHANGED <<callCount, aborted>>
         \/ \E c \in Call : CallStarts(c)
         \/ OtherWrites /\ UNCHANGED <<callCount, calls, aborted>>
         \/ Abort
         \/ UNCHANGED <<chainVars, callCount, calls, aborted>>
<1>1. ASSUME NEW c \in Call,
             CallDenied(c) \/ CallThrew(c) \/ CallFails(c) \/ CallCompletes(c)
      PROVE  CallEnds(c) /\ UNCHANGED <<callCount, aborted>>
  BY <1>1, CallsEnd
<1>2. ASSUME NEW p \in Entrant, RefuseRun(p) \/ EndProcess(p)
      PROVE  UNCHANGED <<chainVars, callCount, calls, aborted>>
  BY <1>2 DEF RefuseRun, EndProcess
<1> QED
  BY <1>1, <1>2, OthersWrite DEF TraceNext

\* No step is taken, and none ends, without the directory.
LEMMA DirectoryStays ==
  ASSUME EvidenceTypes, TraceNext
  PROVE  DirectoryExists'
<1>1. entrants \in [Entrant -> {"idle", "writes", "refused", "ended"}]
  BY DEF EvidenceTypes, TraceTypeOK
<1>2. ASSUME Writing, UNCHANGED entrants
      PROVE  DirectoryExists'
  BY <1>2 DEF Writing, DirectoryExists
<1>3. ASSUME NEW p \in Entrant, EnterRun(p) \/ RefuseRun(p) \/ EndProcess(p)
      PROVE  DirectoryExists'
  BY <1>1, <1>3 DEF EnterRun, RefuseRun, EndProcess, DirectoryExists
<1>4. ASSUME NEW c \in Call,
             \/ CallDenied(c) \/ CallStarts(c) \/ CallThrew(c)
             \/ CallFails(c) \/ CallCompletes(c)
      PROVE  Writing /\ UNCHANGED entrants
  BY <1>4 DEF CallDenied, CallStarts, CallThrew, CallFails, CallCompletes, Quiet
<1>5. ASSUME \/ \E status \in Statuses : RecordStep(status)
             \/ Abort
      PROVE  Writing /\ UNCHANGED entrants
  BY <1>5 DEF RecordStep, Abort, Quiet
<1> QED
  BY <1>2, <1>3, <1>4, <1>5 DEF TraceNext

LEMMA WritesKeepWriter ==
  ASSUME EvidenceTypes, FreshInv, WriterInv, BudgetInv, TraceNext
  PROVE  /\ WriterInv'
         /\ file' \in Seq(Line) /\ prevHash' \in Seq(Body) /\ seq' \in Nat
         /\ memory' \in Seq(Events)
         /\ failures' \in 0..MaxFailures /\ openLine' \in BOOLEAN
<1>1. ASSUME NEW source \in Source, NEW index \in Index, NEW status \in Statuses,
             Writes(Event(source, index, status))
      PROVE  /\ WriterInv'
             /\ file' \in Seq(Line) /\ prevHash' \in Seq(Body) /\ seq' \in Nat
             /\ memory' \in Seq(Events)
             /\ failures' \in 0..MaxFailures /\ openLine' \in BOOLEAN
  BY <1>1, EventIsNext, WriterGoesOn
<1>2. ASSUME UNCHANGED chainVars
      PROVE  /\ WriterInv'
             /\ file' \in Seq(Line) /\ prevHash' \in Seq(Body) /\ seq' \in Nat
             /\ memory' \in Seq(Events)
             /\ failures' \in 0..MaxFailures /\ openLine' \in BOOLEAN
  BY <1>2 DEF chainVars, WriterInv, EvidenceTypes, TraceTypeOK, Parses, VerifyChain
<1>3. ASSUME NEW c \in Call, CallEnds(c)
      PROVE  \E index \in Index, status \in Statuses : Writes(Event(c, index, status))
  BY <1>3 DEF CallEnds, Ends, Writes
<1>4. ASSUME NEW c \in Call, CallStarts(c)
      PROVE  UNCHANGED chainVars
  BY <1>4 DEF CallStarts
<1>5. Abort => UNCHANGED chainVars
  BY DEF Abort
<1>6. CASE \E c \in Call : CallEnds(c)
  BY <1>1, <1>3, <1>6 DEF Source
<1>7. CASE OtherWrites
  BY <1>1, <1>7 DEF OtherWrites, Source
<1> QED
  BY <1>2, <1>4, <1>5, <1>6, <1>7, StepCases DEF chainVars

LEMMA TypesStay ==
  ASSUME EvidenceTypes, FreshInv, WriterInv, BudgetInv, TraceNext
  PROVE  EvidenceTypes'
<1>1. entrants' \in [Entrant -> {"idle", "writes", "refused", "ended"}]
  <2>1. entrants \in [Entrant -> {"idle", "writes", "refused", "ended"}]
    BY DEF EvidenceTypes, TraceTypeOK
  <2>2. ASSUME NEW p \in Entrant, EnterRun(p) \/ RefuseRun(p) \/ EndProcess(p)
        PROVE  entrants' \in [Entrant -> {"idle", "writes", "refused", "ended"}]
    BY <2>1, <2>2 DEF EnterRun, RefuseRun, EndProcess
  <2>3. ASSUME NEW c \in Call,
               \/ CallDenied(c) \/ CallStarts(c) \/ CallThrew(c)
               \/ CallFails(c) \/ CallCompletes(c)
        PROVE  UNCHANGED entrants
    BY <2>3 DEF CallDenied, CallStarts, CallThrew, CallFails, CallCompletes
  <2>4. ASSUME \/ \E status \in Statuses : RecordStep(status)
               \/ Abort
        PROVE  UNCHANGED entrants
    BY <2>4 DEF RecordStep, Abort
  <2> QED
    BY <2>1, <2>2, <2>3, <2>4 DEF TraceNext
<1>2. steps' \in Seq([seq : Nat, status : Statuses])
  <2>1. steps \in Seq([seq : Nat, status : Statuses])
    BY DEF EvidenceTypes
  <2>2. ASSUME NEW status \in Statuses, RecordStep(status)
        PROVE  steps' \in Seq([seq : Nat, status : Statuses])
    BY <2>1, <2>2 DEF RecordStep
  <2>3. ASSUME NEW p \in Entrant, EnterRun(p) \/ RefuseRun(p) \/ EndProcess(p)
        PROVE  UNCHANGED steps
    BY <2>3 DEF EnterRun, RefuseRun, EndProcess
  <2>4. ASSUME NEW c \in Call,
               \/ CallDenied(c) \/ CallStarts(c) \/ CallThrew(c)
               \/ CallFails(c) \/ CallCompletes(c)
        PROVE  UNCHANGED steps
    BY <2>4 DEF CallDenied, CallStarts, CallThrew, CallFails, CallCompletes
  <2>5. Abort => UNCHANGED steps
    BY DEF Abort
  <2> QED
    BY <2>1, <2>2, <2>3, <2>4, <2>5 DEF TraceNext
<1>3. callCount' \in 0..MaxCalls /\ calls' \in [Call -> CallState] /\ aborted' \in Index
  <2>1. /\ callCount \in 0..MaxCalls /\ calls \in [Call -> CallState] /\ aborted \in Index
        /\ Len(memory) \in Nat
    BY DEF EvidenceTypes, TraceTypeOK, Index
  <2>2. ASSUME NEW c \in Call, CallEnds(c)
        PROVE  calls' \in [Call -> CallState]
    <3>1. PICK index \in Index, status \in Statuses : Ends(c, index, status)
      BY <2>2 DEF CallEnds
    <3>2. CASE Answers(c, status = "completed", status # "denied", index)
      <4>1. [pc |-> "answered", index |-> index, ok |-> status = "completed",
             ran |-> status # "denied"] \in CallState
        BY DEF CallState, Index
      <4> QED
        BY <2>1, <3>2, <4>1 DEF Answers
    <3>3. ASSUME NEW pc \in {"catch", "thrown"}, calls' = [calls EXCEPT ![c].pc = pc]
          PROVE  calls' \in [Call -> CallState]
      BY <2>1, <3>3 DEF CallState
    <3> QED
      BY <3>1, <3>2, <3>3 DEF Ends
  <2>3. ASSUME NEW c \in Call, CallStarts(c)
        PROVE  /\ callCount' \in 0..MaxCalls /\ calls' \in [Call -> CallState]
               /\ aborted' = aborted
    BY <2>1, <2>3, TraceAssumption DEF CallStarts, BudgetIsSpent, CallState
  <2>4. Abort => aborted' \in Index /\ UNCHANGED <<callCount, calls>>
    BY <2>1 DEF Abort, Index
  <2> QED
    BY <2>1, <2>2, <2>3, <2>4, StepCases
<1> QED
  BY <1>1, <1>2, <1>3, WritesKeepWriter DEF EvidenceTypes, TraceTypeOK, Index

-----------------------------------------------------------------------------
(* Evidence: the budget *)

LEMMA BudgetIsKept ==
  ASSUME EvidenceTypes, FreshInv, WriterInv, BudgetInv, TraceNext
  PROVE  BudgetInv'
<1> USE DEF Started
<1>1. calls \in [Call -> CallState] /\ callCount \in Nat
  BY DEF EvidenceTypes, TraceTypeOK
<1>2. ASSUME NEW c \in Call, CallEnds(c), UNCHANGED callCount
      PROVE  BudgetInv'
  <2>1. PICK index \in Index, status \in Statuses :
          /\ calls[c].ran => status # "denied"
          /\ ~calls[c].ran => status = "denied"
          /\ calls[c].ran => index = calls[c].index
          /\ Ends(c, index, status)
    BY <1>2 DEF CallEnds
  <2>2. /\ calls'[c].pc \notin {"idle", "running"}
        /\ calls'[c].ran <=> calls[c].ran
        /\ calls[c].ran => calls'[c].index = calls[c].index
        /\ \A d \in Call \ {c} : calls'[d] = calls[d]
        /\ calls'[c].pc = "catch" => calls[c].ran
    <3>1. CASE Answers(c, status = "completed", status # "denied", index)
      <4>1. /\ calls'[c].pc = "answered" /\ calls'[c].index = index
            /\ calls'[c].ran <=> status # "denied"
        BY <1>1, <3>1 DEF Answers
      <4>2. \A d \in Call \ {c} : calls'[d] = calls[d]
        BY <1>1, <3>1 DEF Answers
      <4> QED
        BY <2>1, <4>1, <4>2
    <3>2. ASSUME NEW pc \in {"catch", "thrown"}, calls' = [calls EXCEPT ![c].pc = pc]
          PROVE  /\ calls'[c].pc = pc /\ calls'[c].ran = calls[c].ran
                 /\ calls'[c].index = calls[c].index
                 /\ \A d \in Call \ {c} : calls'[d] = calls[d]
      BY <1>1, <3>2 DEF CallState
    <3> QED
      BY <2>1, <3>1, <3>2 DEF Ends
  <2>3. Started' = Started
    BY <2>2
  <2>4. \A d \in Call :
          /\ calls'[d].pc = "idle" => ~calls'[d].ran
          /\ calls'[d].pc \in {"running", "catch"} => calls'[d].ran
    BY <2>2 DEF BudgetInv
  <2>5. \A d \in Started : calls'[d].index = calls[d].index
    BY <2>2
  <2> QED
    BY <1>2, <2>3, <2>4, <2>5 DEF BudgetInv
<1>3. ASSUME NEW c \in Call, CallStarts(c)
      PROVE  BudgetInv'
  <2>1. /\ calls'[c] = [pc |-> "running", index |-> callCount, ok |-> FALSE, ran |-> TRUE]
        /\ \A d \in Call \ {c} : calls'[d] = calls[d]
        /\ calls[c].pc = "idle" /\ callCount' = callCount + 1
    BY <1>1, <1>3 DEF CallStarts
  <2>2. c \notin Started
    BY <2>1 DEF BudgetInv
  <2>3. Started' = Started \cup {c}
    BY <2>1
  <2>4. IsFiniteSet(Started') /\ Cardinality(Started') = callCount'
    <3> HIDE DEF Started
    <3>1. IsFiniteSet(Started) /\ Cardinality(Started) = callCount
      BY DEF BudgetInv
    <3>2. /\ IsFiniteSet(Started \cup {c})
          /\ Cardinality(Started \cup {c}) = Cardinality(Started) + 1
      BY <2>2, <3>1, FS_AddElement
    <3> QED
      BY <2>1, <2>3, <3>1, <3>2
  <2>5. \A d \in Started' :
          /\ calls'[d].index \in Nat /\ calls'[d].index < callCount'
          /\ d # c => d \in Started /\ calls'[d] = calls[d] /\ calls'[d].index # callCount
    BY <1>1, <2>1, <2>3 DEF BudgetInv
  <2>6. \A d, e \in Started' : calls'[d].index = calls'[e].index => d = e
    BY <2>1, <2>5 DEF BudgetInv
  <2> QED
    BY <2>1, <2>4, <2>5, <2>6 DEF BudgetInv
<1>4. ASSUME UNCHANGED <<callCount, calls>>
      PROVE  BudgetInv'
  BY <1>4 DEF BudgetInv
<1> QED
  BY <1>2, <1>3, <1>4, StepCases DEF Abort

LEMMA BudgetBounds ==
  ASSUME EvidenceTypes, BudgetInv
  PROVE  LimitIsKept
BY TraceAssumption DEF EvidenceTypes, TraceTypeOK, BudgetInv, LimitIsKept, Started

-----------------------------------------------------------------------------
(* Evidence: what the file says of a call *)

EventsOf(c) == {i \in DOMAIN file : file[i].body.source = c}

Backed(c) ==
  IF calls[c].pc = "answered"
  THEN \E i \in EventsOf(c) :
         /\ EventsOf(c) = {i}
         /\ file[i].body.index = calls[c].index
         /\ file[i].body.status = IF ~calls[c].ran THEN "denied"
                                  ELSE IF calls[c].ok THEN "completed" ELSE "failed"
  ELSE EventsOf(c) = {}

LEMMA BackedByFile ==
  AnswersAreBacked <=> (Parses(file) /\ ~openLine => \A c \in Call : Backed(c))
BY DEF AnswersAreBacked, Backed, EventsOf

\* An event is of its source only.
LEMMA EventsGrow ==
  ASSUME EvidenceTypes, WriterInv, NEW source \in Source, NEW index \in Index,
         NEW status \in Statuses, Writes(Event(source, index, status)),
         Parses(file'), ~openLine'
  PROVE  /\ Parses(file) /\ ~openLine
         /\ \A c \in Call : c # source => EventsOf(c)' = EventsOf(c)
         /\ \A i \in DOMAIN file : i \in DOMAIN file' /\ file'[i] = file[i]
         /\ Appends(Event(source, index, status)) =>
              /\ EventsOf(source)' = EventsOf(source) \cup {Len(file) + 1}
              /\ file'[Len(file) + 1].body.index = index
              /\ file'[Len(file) + 1].body.status = status
         /\ AppendFails(Event(source, index, status)) => file' = file
<1> DEFINE event == Event(source, index, status)
<1>1. /\ IsNext(event) /\ event \in Line
      /\ event.body = [seq |-> seq, source |-> source, index |-> index, status |-> status]
  BY EventIsNext DEF IsNext, Line
<1>2. event.body.source = source /\ event.body.index = index /\ event.body.status = status
  BY <1>1
<1> HIDE DEF event
<1>3. /\ Parses(file) /\ ~openLine
      /\ Appends(event) => file' = Written(event)
      /\ AppendFails(event) => file' = file
  BY <1>1, GoodFileWasGood DEF event
<1>4. CASE Appends(event)
  <2>1. /\ DOMAIN file' = DOMAIN file \cup {Len(file) + 1}
        /\ \A i \in DOMAIN file : file'[i] = file[i]
        /\ file'[Len(file) + 1] = event
    <3>1. file' = Written(event) /\ ~openLine
      BY <1>3, <1>4
    <3>2. /\ DOMAIN Written(event) = DOMAIN file \cup {Len(file) + 1}
          /\ \A i \in DOMAIN file : Written(event)[i] = file[i]
          /\ Written(event)[Len(file) + 1] = event
      BY <1>1, <3>1, ClosedLineGrows
    <3> QED
      BY <3>1, <3>2
  <2>2. /\ \A c \in Call : c # source => EventsOf(c)' = EventsOf(c)
        /\ EventsOf(source)' = EventsOf(source) \cup {Len(file) + 1}
    BY <1>2, <2>1 DEF EventsOf
  <2> QED
    BY <1>2, <1>3, <1>4, <2>1, <2>2, AppendOrNot DEF event
<1>5. CASE ~Appends(event)
  BY <1>3, <1>5 DEF EventsOf, event, Writes
<1> QED
  BY <1>4, <1>5

LEMMA AnswersStayBacked ==
  ASSUME EvidenceTypes, FreshInv, WriterInv, BudgetInv, AnswersAreBacked, TraceNext
  PROVE  AnswersAreBacked'
<1> SUFFICES ASSUME Parses(file'), ~openLine', NEW d \in Call
             PROVE  Backed(d)'
  BY DEF AnswersAreBacked, Backed, EventsOf
<1>1. calls \in [Call -> CallState] /\ file \in Seq(Line)
  BY DEF EvidenceTypes, TraceTypeOK
<1>2. ASSUME NEW c \in Call, CallEnds(c)
      PROVE  Backed(d)'
  <2>1. PICK index \in Index, status \in Statuses :
          /\ calls[c].pc # "answered"
          /\ Ends(c, index, status)
    BY <1>2 DEF CallEnds
  <2>2. Writes(Event(c, index, status)) /\ c \in Source
    BY <2>1 DEF Ends, Writes, Source
  <2>3. Parses(file) /\ ~openLine /\ Backed(d) /\ Backed(c)
    BY <2>2, EventsGrow, BackedByFile
  <2>4. CASE d # c
    <3>1. calls'[d] = calls[d] /\ EventsOf(d)' = EventsOf(d)
      BY <1>1, <2>1, <2>2, <2>4, EventsGrow DEF Ends, Answers
    <3>2. \A i \in EventsOf(d) : file'[i] = file[i]
      BY <2>2, EventsGrow DEF EventsOf
    <3> QED
      BY <2>3, <3>1, <3>2 DEF Backed
  <2>5. CASE d = c
    <3>1. EventsOf(c) = {}
      BY <2>1, <2>3 DEF Backed
    <3>2. CASE Appends(Event(c, index, status))
      <4>1. Answers(c, status = "completed", status # "denied", index)
        BY <2>1, <3>2, AppendOrNot DEF Ends
      <4>2. /\ calls'[c].pc = "answered" /\ calls'[c].index = index
            /\ calls'[c].ok <=> status = "completed"
            /\ calls'[c].ran <=> status # "denied"
        BY <1>1, <4>1 DEF Answers
      <4>3. /\ EventsOf(c)' = {Len(file) + 1}
            /\ file'[Len(file) + 1].body.index = index
            /\ file'[Len(file) + 1].body.status = status
        BY <2>2, <3>1, <3>2, EventsGrow
      <4>4. status = IF ~calls'[c].ran THEN "denied"
                     ELSE IF calls'[c].ok THEN "completed" ELSE "failed"
        BY <4>2 DEF Statuses
      <4> QED
        BY <2>5, <4>2, <4>3, <4>4 DEF Backed
    <3>3. CASE AppendFails(Event(c, index, status))
      <4>1. \E pc \in {"catch", "thrown"} : calls' = [calls EXCEPT ![c].pc = pc]
        BY <2>1, <3>3, AppendOrNot DEF Ends
      <4>2. calls'[c].pc # "answered"
        BY <1>1, <4>1 DEF CallState
      <4>3. file' = file
        BY <2>2, <3>3, EventsGrow
      <4> QED
        BY <2>5, <3>1, <4>2, <4>3 DEF Backed, EventsOf
    <3> QED
      BY <2>2, <3>2, <3>3 DEF Writes
  <2> QED
    BY <2>4, <2>5
<1>3. ASSUME OtherWrites, UNCHANGED calls
      PROVE  Backed(d)'
  <2>1. PICK source \in {"run", "recorder"}, index \in Index, status \in Statuses :
          Writes(Event(source, index, status))
    BY <1>3 DEF OtherWrites
  <2>2. source \in Source /\ d # source
    BY TraceAssumption DEF Source
  <2>3. /\ Parses(file) /\ ~openLine /\ Backed(d) /\ EventsOf(d)' = EventsOf(d)
        /\ \A i \in EventsOf(d) : file'[i] = file[i]
    BY <2>1, <2>2, EventsGrow, BackedByFile DEF EventsOf
  <2> QED
    BY <1>3, <2>3 DEF Backed
<1>4. ASSUME NEW c \in Call, CallStarts(c)
      PROVE  Backed(d)'
  <2>1. /\ file' = file /\ openLine' = openLine
        /\ calls[c].pc = "idle" /\ calls'[c].pc = "running"
        /\ d # c => calls'[d] = calls[d]
    BY <1>1, <1>4 DEF CallStarts, chainVars
  <2>2. Backed(d)
    BY <2>1, BackedByFile DEF Parses
  <2> QED
    BY <2>1, <2>2 DEF Backed, EventsOf
<1>5. ASSUME UNCHANGED <<chainVars, calls>>
      PROVE  Backed(d)'
  BY <1>5, BackedByFile DEF chainVars, Parses, Backed, EventsOf
<1> QED
  BY <1>2, <1>3, <1>4, <1>5, StepCases DEF Abort

-----------------------------------------------------------------------------
(* Evidence: the signal *)

LEMMA AbortStaysTheEnd ==
  ASSUME EvidenceTypes, FreshInv, WriterInv, BudgetInv, AbortEndsCalls, TraceNext
  PROVE  AbortEndsCalls'
<1>1. memory \in Seq(Events) /\ aborted \in Index
  BY DEF EvidenceTypes, TraceTypeOK, Index
<1>2. ASSUME NEW source \in Source, NEW index \in Index, NEW status \in Statuses,
             Writes(Event(source, index, status)), UNCHANGED aborted,
             source \in Call /\ aborted # NoIndex => status # "completed"
      PROVE  AbortEndsCalls'
  <2>1. /\ Event(source, index, status) \in Events
        /\ Event(source, index, status).body.source = source
        /\ Event(source, index, status).body.status = status
    <3>1. /\ Event(source, index, status) \in Events
          /\ Event(source, index, status).body =
               [seq |-> seq, source |-> source, index |-> index, status |-> status]
      BY EventIsNext DEF IsNext
    <3> QED
      BY <3>1
  <2>2. memory' = Append(memory, Event(source, index, status))
    BY <1>2 DEF Writes, Appends, AppendFails
  <2>3. \A i \in DOMAIN memory' :
          \/ i \in DOMAIN memory /\ memory'[i] = memory[i]
          \/ memory'[i] = Event(source, index, status)
    BY <1>1, <2>1, <2>2
  <2> QED
    BY <1>2, <2>1, <2>3 DEF AbortEndsCalls
<1>3. ASSUME NEW c \in Call, CallEnds(c), UNCHANGED aborted
      PROVE  AbortEndsCalls'
  BY <1>2, <1>3 DEF CallEnds, Ends, Writes, Source
<1>4. ASSUME OtherWrites, UNCHANGED aborted
      PROVE  AbortEndsCalls'
  BY <1>2, <1>4, TraceAssumption DEF OtherWrites, Source
<1>5. ASSUME Abort
      PROVE  AbortEndsCalls'
  BY <1>1, <1>5 DEF Abort, chainVars, AbortEndsCalls
<1>6. ASSUME UNCHANGED <<chainVars, aborted>>
      PROVE  AbortEndsCalls'
  BY <1>6 DEF chainVars, AbortEndsCalls
<1> QED
  BY <1>3, <1>4, <1>5, <1>6, StepCases DEF CallStarts

-----------------------------------------------------------------------------
(* Evidence: theorems *)

LEMMA EvidenceBegins ==
  ASSUME TraceInit
  PROVE  EvidenceInv
<1> USE DEF TraceInit
<1>1. EvidenceTypes
  <2>1. NewCall \in CallState
    BY DEF NewCall, CallState
  <2>2. calls \in [Call -> CallState]
    BY <2>1
  <2>3. entrants \in [Entrant -> {"idle", "writes", "refused", "ended"}]
    OBVIOUS
  <2>4. /\ seq \in Nat /\ callCount \in 0..MaxCalls /\ failures \in 0..MaxFailures
        /\ aborted \in Nat \cup {NoIndex}
    BY TraceAssumption
  <2>5. openLine \in BOOLEAN
    OBVIOUS
  <2>6. TraceTypeOK
    BY <2>2, <2>3, <2>4, <2>5, Zenon DEF TraceTypeOK
  <2> QED
    BY <2>6, EmptySeq DEF EvidenceTypes, ZERO_HASH
<1>2. FreshInv /\ WriterInv
  BY DEF FreshInv, WriterInv, VerifyChain, ZERO_HASH
<1>3. Started = {}
  BY DEF Started, NewCall
<1>4. BudgetInv
  BY <1>3, FS_EmptySet DEF BudgetInv, NewCall
<1>5. AnswersAreBacked /\ AbortEndsCalls
  BY DEF AnswersAreBacked, AbortEndsCalls, NewCall
<1> QED
  BY <1>1, <1>2, <1>4, <1>5 DEF EvidenceInv

LEMMA EvidenceIsKept ==
  ASSUME EvidenceInv, [TraceNext]_traceVars
  PROVE  EvidenceInv'
<1>1. CASE TraceNext
  <2>1. EvidenceTypes' /\ WriterInv' /\ BudgetInv' /\ AnswersAreBacked' /\ AbortEndsCalls'
    BY <1>1, TypesStay, WritesKeepWriter, BudgetIsKept, AnswersStayBacked, AbortStaysTheEnd
       DEF EvidenceInv
  <2>2. FreshInv'
    BY <1>1, DirectoryStays DEF EvidenceInv, FreshInv
  <2> QED
    BY <2>1, <2>2 DEF EvidenceInv
<1>2. CASE UNCHANGED traceVars
  <2>1. /\ entrants' = entrants /\ seq' = seq /\ prevHash' = prevHash /\ memory' = memory
        /\ file' = file /\ openLine' = openLine /\ failures' = failures
        /\ callCount' = callCount /\ calls' = calls /\ aborted' = aborted /\ steps' = steps
    BY <1>2 DEF traceVars, chainVars
  <2>2. EvidenceTypes' /\ FreshInv'
    BY <2>1 DEF EvidenceInv, EvidenceTypes, TraceTypeOK, FreshInv, DirectoryExists
  <2>3. WriterInv'
    BY <2>1 DEF EvidenceInv, WriterInv, Parses, VerifyChain
  <2>4. BudgetInv'
    BY <2>1 DEF EvidenceInv, BudgetInv, Started
  <2>5. AnswersAreBacked' /\ AbortEndsCalls'
    BY <2>1 DEF EvidenceInv, AnswersAreBacked, AbortEndsCalls, Parses
  <2> QED
    BY <2>2, <2>3, <2>4, <2>5 DEF EvidenceInv
<1> QED
  BY <1>1, <1>2

\* The evidence holds together, as the invariant that is kept by every step.
THEOREM EvidenceInvariant == TraceSpec => []EvidenceInv
BY EvidenceBegins, EvidenceIsKept, PTL DEF TraceSpec

\* A file that can be read verifies, backs the answers of all calls, and says what happened
\* within the budget and after the signal, whichever appends fail (agent.ts, events.ts).
THEOREM EvidenceIsSound == TraceSpec => []TraceSafety
<1>1. ASSUME EvidenceInv
      PROVE  TraceSafety
  <2>1. FileVerifies
    BY <1>1 DEF EvidenceInv, WriterInv, FileVerifies
  <2> QED
    BY <1>1, <2>1, BudgetBounds DEF EvidenceInv, EvidenceTypes, TraceSafety
<1> QED
  BY <1>1, EvidenceInvariant, PTL

-----------------------------------------------------------------------------
(* Evidence: the trajectory *)

\* The event is the one that was appended for the step.
TellsOf(event, step) ==
  /\ event.body.source = "recorder"
  /\ event.body.index = step.seq
  /\ event.body.status = step.status

NoCallIn(lines) == \A i \in DOMAIN lines : lines[i].body.source \notin Call

\* While nothing has failed, the file is run_started and what came after it; unless a call
\* is among that, it is one event for each step, in order.
TrajectoryInv ==
  failures = 0 =>
    /\ ~openLine
    /\ Writing => file # <<>>
    /\ file = <<>> => steps = <<>>
    /\ \A i \in DOMAIN file : (i = 1) <=> (file[i].body.source = "run")
    /\ NoCallIn(file) /\ file # <<>> =>
         /\ Len(file) = Len(steps) + 1
         /\ \A i \in DOMAIN steps : TellsOf(file[i + 1], steps[i])

\* Without a failure a write has appended its event to the end of a file that ends well.
LEMMA FaultlessWrite ==
  ASSUME EvidenceTypes, TrajectoryInv, NEW source \in Source, NEW index \in Index,
         NEW status \in Statuses, Writes(Event(source, index, status)), failures' = 0
  PROVE  /\ failures = 0 /\ ~openLine'
         /\ file' # <<>> /\ Len(file') = Len(file) + 1
         /\ DOMAIN file' = DOMAIN file \cup {Len(file) + 1}
         /\ \A i \in DOMAIN file : file'[i] = file[i]
         /\ file'[Len(file) + 1].body.source = source
         /\ file'[Len(file) + 1].body.index = index
         /\ file'[Len(file) + 1].body.status = status
<1> DEFINE event == Event(source, index, status)
<1>1. /\ event \in Line
      /\ event.body = [seq |-> seq, source |-> source, index |-> index, status |-> status]
  BY EventIsNext DEF IsNext, Line
<1>2. event.body.source = source /\ event.body.index = index /\ event.body.status = status
  BY <1>1
<1> HIDE DEF event
<1>3. failures \in Nat
  BY TraceAssumption DEF EvidenceTypes, TraceTypeOK
<1>4. failures = 0 /\ Appends(event)
  BY <1>3 DEF Writes, AppendFails, Appends, event
<1>5. file' = Written(event) /\ ~openLine /\ ~openLine'
  BY <1>4 DEF Appends, TrajectoryInv
<1>6. /\ Written(event) # <<>> /\ Len(Written(event)) = Len(file) + 1
      /\ DOMAIN Written(event) = DOMAIN file \cup {Len(file) + 1}
      /\ \A i \in DOMAIN file : Written(event)[i] = file[i]
      /\ Written(event)[Len(file) + 1] = event
  BY <1>1, <1>5, ClosedLineGrows
<1> QED
  BY <1>2, <1>4, <1>5, <1>6

\* With an event of a call the file is no longer the recorder's alone.
LEMMA CallKeepsTrajectory ==
  ASSUME EvidenceTypes, TrajectoryInv, NEW source \in Call, NEW index \in Index,
         NEW status \in Statuses, Writes(Event(source, index, status)),
         UNCHANGED <<entrants, steps>>, Writing
  PROVE  TrajectoryInv'
<1> SUFFICES ASSUME failures' = 0
             PROVE  TrajectoryInv'
  BY DEF TrajectoryInv
<1>1. source \in Source /\ source # "run"
  BY TraceAssumption DEF Source
<1>2. /\ failures = 0 /\ ~openLine' /\ file' # <<>>
      /\ DOMAIN file' = DOMAIN file \cup {Len(file) + 1}
      /\ \A i \in DOMAIN file : file'[i] = file[i]
      /\ file'[Len(file) + 1].body.source = source
  BY <1>1, FaultlessWrite
<1>3. file # <<>>
  BY <1>2 DEF TrajectoryInv
<1>4. Len(file) \in Nat /\ Len(file) + 1 # 1 /\ 1 \in DOMAIN file
  BY <1>3, FileIsLines
<1>5. \A i \in DOMAIN file' : (i = 1) <=> (file'[i].body.source = "run")
  BY <1>1, <1>2, <1>4 DEF TrajectoryInv
<1>6. ~NoCallIn(file)'
  BY <1>2 DEF NoCallIn
<1> QED
  BY <1>2, <1>5, <1>6 DEF TrajectoryInv

\* A step comes with its event.
LEMMA StepKeepsTrajectory ==
  ASSUME EvidenceTypes, TrajectoryInv, NEW status \in Statuses, RecordStep(status)
  PROVE  TrajectoryInv'
<1> SUFFICES ASSUME failures' = 0
             PROVE  TrajectoryInv'
  BY DEF TrajectoryInv
<1>1. /\ steps \in Seq([seq : Nat, status : Statuses])
      /\ Len(steps) \in Nat /\ DOMAIN steps = 1..Len(steps)
  BY LenProperties DEF EvidenceTypes
<1>2. /\ "recorder" \in Source /\ "recorder" \notin Call /\ Len(steps) \in Index
      /\ Writes(Event("recorder", Len(steps), status)) /\ Writing
  BY <1>1, TraceAssumption DEF Source, Index, RecordStep, Writes, Quiet
<1>3. /\ failures = 0 /\ ~openLine' /\ file' # <<>> /\ Len(file') = Len(file) + 1
      /\ DOMAIN file' = DOMAIN file \cup {Len(file) + 1}
      /\ \A i \in DOMAIN file : file'[i] = file[i]
      /\ TellsOf(file'[Len(file) + 1], [seq |-> Len(steps), status |-> status])
  BY <1>2, FaultlessWrite DEF TellsOf
<1>4. file # <<>>
  BY <1>2, <1>3 DEF TrajectoryInv
<1>5. Len(file) \in Nat \ {0} /\ Len(file) + 1 # 1 /\ DOMAIN file = 1..Len(file)
  BY <1>4, FileIsLines
<1>6. \A i \in DOMAIN file' : (i = 1) <=> (file'[i].body.source = "run")
  BY <1>3, <1>5 DEF TrajectoryInv, TellsOf
<1> DEFINE new == [seq |-> Len(steps), status |-> status]
<1>7. /\ steps' = Append(steps, new) /\ new \in [seq : Nat, status : Statuses]
      /\ UNCHANGED entrants
  BY <1>1 DEF RecordStep
<1> HIDE DEF new
<1>8. /\ Len(steps') = Len(steps) + 1 /\ DOMAIN steps' = 1..(Len(steps) + 1)
      /\ \A i \in 1..Len(steps) : steps'[i] = steps[i]
      /\ steps'[Len(steps) + 1] = new
  BY <1>1, <1>7, AppendProperties, LenProperties
<1>9. ASSUME NoCallIn(file)'
      PROVE  /\ Len(file') = Len(steps') + 1
             /\ \A i \in DOMAIN steps' : TellsOf(file'[i + 1], steps'[i])
  <2>1. NoCallIn(file)
    BY <1>3, <1>9 DEF NoCallIn
  <2>2. /\ Len(file) = Len(steps) + 1
        /\ \A i \in DOMAIN steps : TellsOf(file[i + 1], steps[i])
    BY <1>3, <1>4, <2>1 DEF TrajectoryInv
  <2>3. ASSUME NEW i \in 1..Len(steps)
        PROVE  TellsOf(file'[i + 1], steps'[i])
    <3>1. i + 1 \in DOMAIN file
      BY <1>1, <1>5, <2>2
    <3> QED
      BY <1>1, <1>3, <1>8, <2>2, <3>1
  <2>4. TellsOf(file'[Len(steps) + 1 + 1], steps'[Len(steps) + 1])
    BY <1>3, <1>8, <2>2 DEF new
  <2>5. \A i \in 1..(Len(steps) + 1) : i \in 1..Len(steps) \/ i = Len(steps) + 1
    BY <1>1
  <2> QED
    BY <1>3, <1>8, <2>2, <2>3, <2>4, <2>5
<1> QED
  BY <1>3, <1>6, <1>9 DEF TrajectoryInv

\* The writer of a new directory begins with run_started.
LEMMA EntryKeepsTrajectory ==
  ASSUME EvidenceTypes, FreshInv, WriterInv, TrajectoryInv, NEW p \in Entrant, EnterRun(p)
  PROVE  TrajectoryInv'
<1> SUFFICES ASSUME failures' = 0
             PROVE  TrajectoryInv'
  BY DEF TrajectoryInv
<1>1. file = <<>> /\ seq = 0 /\ prevHash = ZERO_HASH
  BY DEF EnterRun, FreshInv, WriterInv, Parses
<1>2. Event("run", NoIndex, "completed") = EventAt(0, ZERO_HASH, "run", NoIndex, "completed")
  BY <1>1 DEF Event
<1>3. /\ Writes(Event("run", NoIndex, "completed")) /\ UNCHANGED steps
      /\ "run" \in Source /\ NoIndex \in Index /\ "completed" \in Statuses
  BY <1>2 DEF EnterRun, Writes, Source, Index, Statuses
<1>4. /\ failures = 0 /\ ~openLine' /\ file' # <<>> /\ Len(file') = Len(file) + 1
      /\ DOMAIN file' = DOMAIN file \cup {Len(file) + 1}
      /\ file'[Len(file) + 1].body.source = "run"
  BY <1>3, FaultlessWrite
<1>5. Len(file) = 0 /\ DOMAIN file = 1..0
  BY <1>1, FileIsLines
<1>6. \A i \in DOMAIN file' : i = 1 /\ file'[i].body.source = "run"
  BY <1>4, <1>5
<1>7. steps' = <<>> /\ Len(steps') = 0 /\ DOMAIN steps' = {}
  BY <1>1, <1>3, <1>4, EmptySeq DEF TrajectoryInv
<1> QED
  BY <1>4, <1>5, <1>6, <1>7 DEF TrajectoryInv

LEMMA RestKeepsTrajectory ==
  ASSUME TrajectoryInv, UNCHANGED <<chainVars, steps>>, Writing' => Writing
  PROVE  TrajectoryInv'
BY DEF TrajectoryInv, chainVars, NoCallIn, TellsOf

LEMMA TrajectoryIsKept ==
  ASSUME EvidenceInv, TrajectoryInv, [TraceNext]_traceVars
  PROVE  TrajectoryInv'
<1>1. EvidenceTypes /\ FreshInv /\ WriterInv /\ BudgetInv
  BY DEF EvidenceInv
<1>2. ASSUME NEW c \in Call,
             CallDenied(c) \/ CallThrew(c) \/ CallFails(c) \/ CallCompletes(c)
      PROVE  TrajectoryInv'
  <2>1. CallEnds(c) /\ UNCHANGED <<entrants, steps>> /\ Writing
    BY <1>1, <1>2, CallsEnd
       DEF CallDenied, CallThrew, CallFails, CallCompletes, Quiet
  <2>2. PICK index \in Index, status \in Statuses : Writes(Event(c, index, status))
    BY <2>1 DEF CallEnds, Ends, Writes
  <2> QED
    BY <1>1, <2>1, <2>2, CallKeepsTrajectory
<1>3. ASSUME NEW c \in Call, CallStarts(c)
      PROVE  TrajectoryInv'
  BY <1>3, RestKeepsTrajectory DEF CallStarts, Writing
<1>4. ASSUME Abort
      PROVE  TrajectoryInv'
  BY <1>4, RestKeepsTrajectory DEF Abort, Writing
<1>5. ASSUME NEW p \in Entrant, RefuseRun(p) \/ EndProcess(p)
      PROVE  TrajectoryInv'
  <2>1. entrants \in [Entrant -> {"idle", "writes", "refused", "ended"}]
    BY <1>1 DEF EvidenceTypes, TraceTypeOK
  <2>2. Writing' => Writing
    BY <1>5, <2>1 DEF RefuseRun, EndProcess, Writing
  <2> QED
    BY <1>5, <2>2, RestKeepsTrajectory DEF RefuseRun, EndProcess
<1>6. CASE UNCHANGED traceVars
  BY <1>6, RestKeepsTrajectory DEF traceVars, chainVars, Writing
<1> QED
  BY <1>1, <1>2, <1>3, <1>4, <1>5, <1>6, StepKeepsTrajectory, EntryKeepsTrajectory
     DEF TraceNext

\* The positions behind the first one, and the rank of each.
LEMMA RanksBehindFirst ==
  ASSUME NEW n \in Nat \ {0}
  PROVE  /\ Cardinality(2..n) = n - 1
         /\ \A i \in 2..n : Rank(i, 2..n) = i - 1
<1>1. \A k \in Nat \ {0} : Cardinality(2..k) = k - 1
  BY FS_Interval
<1>2. ASSUME NEW i \in 2..n
      PROVE  Rank(i, 2..n) = i - 1
  <2>1. {j \in 2..n : j <= i} = 2..i
    OBVIOUS
  <2>2. i \in Nat \ {0}
    OBVIOUS
  <2>3. Cardinality(2..i) = i - 1
    BY <1>1, <2>2
  <2> QED
    BY <2>1, <2>3 DEF Rank
<1> QED
  BY <1>1, <1>2

LEMMA TrajectoryInvSuffices ==
  ASSUME EvidenceInv, TrajectoryInv
  PROVE  TrajectoryVerifies
<1> SUFFICES ASSUME failures = 0, file # <<>>
             PROVE  VerifyTrajectory(file) <=> NoCallIn(file)
  BY DEF TrajectoryVerifies, NoCallIn
<1>1. DOMAIN file = 1..Len(file) /\ Len(file) \in Nat \ {0}
  BY FileIsLines DEF EvidenceInv
<1>2. \A i \in DOMAIN file : (i = 1) <=> (file[i].body.source = "run")
  BY DEF TrajectoryInv
<1>3. Matching(file) = 2..Len(file)
  BY <1>1, <1>2 DEF Matching, IsAgents
<1>4. /\ Cardinality(Matching(file)) = Len(file) - 1
      /\ \A i \in Matching(file) : Rank(i, Matching(file)) = i - 1
  BY <1>1, <1>3, RanksBehindFirst
<1>5. VerifyTrajectory(file) <=>
        /\ Len(file) - 1 = Len(steps)
        /\ \A i \in 2..Len(file) : TellsOf(file[i], steps[i - 1])
  BY <1>3, <1>4 DEF VerifyTrajectory, TellsOf
<1>6. Len(steps) \in Nat /\ DOMAIN steps = 1..Len(steps)
  BY LenProperties DEF EvidenceInv, EvidenceTypes
<1>7. ASSUME NoCallIn(file)
      PROVE  VerifyTrajectory(file)
  <2>1. /\ Len(file) = Len(steps) + 1
        /\ \A i \in DOMAIN steps : TellsOf(file[i + 1], steps[i])
    BY <1>7 DEF TrajectoryInv
  <2>2. ASSUME NEW i \in 2..Len(file)
        PROVE  TellsOf(file[i], steps[i - 1])
    <3>1. i - 1 \in DOMAIN steps /\ (i - 1) + 1 = i
      BY <1>1, <1>6, <2>1
    <3> QED
      BY <2>1, <3>1
  <2> QED
    BY <1>1, <1>5, <1>6, <2>1, <2>2
<1>8. ASSUME VerifyTrajectory(file)
      PROVE  NoCallIn(file)
  <2>1. \A i \in 2..Len(file) : file[i].body.source = "recorder"
    BY <1>5, <1>8 DEF TellsOf
  <2>2. file[1].body.source = "run"
    BY <1>1, <1>2
  <2> QED
    BY <1>1, <2>1, <2>2, TraceAssumption DEF NoCallIn
<1> QED
  BY <1>7, <1>8

\* While no append has failed, the file of a run verifies against the recorder's steps just
\* when no call of the guard has written to it (verifyAgentTrajectory of trajectory.ts).
THEOREM TrajectoryIsVerified == TraceSpec => []TrajectoryVerifies
<1>1. TraceInit => TrajectoryInv
  BY EmptySeq DEF TraceInit, TrajectoryInv, NoCallIn, Writing
<1>2. TraceSpec => []TrajectoryInv
  BY <1>1, TrajectoryIsKept, EvidenceInvariant, PTL DEF TraceSpec
<1> QED
  BY <1>2, TrajectoryInvSuffices, EvidenceInvariant, PTL

-----------------------------------------------------------------------------
(* The runner queue in memory: rows *)

\* What the methods write over a row: the type of a row, with these fields.
LEMMA ClearedRow ==
  ASSUME NEW row \in Row, NEW status \in Status
  PROVE  /\ Cleared(row, status) \in Row
         /\ Cleared(row, status).status = status
         /\ Cleared(row, status).attempts = row.attempts
         /\ Cleared(row, status).token = 0
         /\ Cleared(row, status).by = NoRunner
BY DEF Row, Cleared, Caller

LEMMA PromotedRow ==
  ASSUME NEW row \in Row
  PROVE  /\ Promoted(row) \in Row
         /\ Promoted(row).attempts = row.attempts
         /\ ~HasLapsed(row) => Promoted(row) = row
         /\ HasLapsed(row) => /\ Promoted(row).status = AfterExpiry(row)
                              /\ Promoted(row).token = 0
BY DEF Row, Promoted, AfterExpiry, HasLapsed, Status

LEMMA LeasedRow ==
  ASSUME NEW row \in Row, NEW token \in Nat, NEW r \in Caller
  PROVE  /\ Leased(row, token, r) \in Row
         /\ Leased(row, token, r).status = "in_flight"
         /\ Leased(row, token, r).attempts = row.attempts + 1
         /\ Leased(row, token, r).token = token
<1>1. \A n \in Nat, b \in Caller :
        [row EXCEPT !.status = "in_flight", !.attempts = n, !.lease = "live",
                    !.token = token, !.by = b] \in Row
  BY DEF Row, Status
<1>2. /\ row.attempts + 1 \in Nat
      /\ (IF r = NoRunner THEN row.by ELSE r) \in Caller
  BY DEF Row
<1>3. Leased(row, token, r) \in Row
  BY <1>1, <1>2 DEF Leased
<1> QED
  BY <1>3 DEF Row, Leased

LEMMA EmptyRows ==
  /\ NoRow \in Row /\ NewRow \in Row
  /\ NewRow.status = "queued" /\ NewRow.attempts = 0 /\ NewRow.token = 0
  /\ NoRow.status = "absent" /\ NoRow.attempts = 0 /\ NoRow.token = 0
<1>1. NoRow \in Row
  BY DEF NoRow, Row, Status, Caller
<1>2. NewRow \in Row
  BY <1>1 DEF NewRow, Row, Status
<1> QED
  BY <1>1, <1>2 DEF NewRow, NoRow

-----------------------------------------------------------------------------
(* The runner queue in memory: steps *)

\* What a step may make of a job.
RowKept(j) ==
  /\ minted'[j] = minted[j] /\ overrides'[j] = overrides[j]
  /\ jobs'[j].attempts = jobs[j].attempts
  /\ enq'[j] = "accepted" <=> enq[j] = "accepted"

Leaves(j, status) == jobs'[j].status = status /\ jobs'[j].token = 0

Stays(j) ==
  /\ RowKept(j) /\ settledBy'[j] = settledBy[j]
  /\ jobs'[j].status = jobs[j].status /\ jobs'[j].token = jobs[j].token

Submitted(j) ==
  /\ jobs[j].status = "absent" /\ enq[j] = "idle" /\ enq'[j] = "accepted"
  /\ jobs'[j].attempts = 0 /\ Leaves(j, "queued")
  /\ minted'[j] = minted[j] /\ overrides'[j] = overrides[j] /\ settledBy'[j] = settledBy[j]

Granted(j) ==
  /\ \/ jobs[j].status = "queued"
     \/ HasLapsed(jobs[j]) /\ jobs[j].attempts < MaxAttempts
  /\ jobs'[j].status = "in_flight" /\ jobs'[j].token = minted[j] + 1
  /\ jobs'[j].attempts = jobs[j].attempts + 1 /\ minted'[j] = minted[j] + 1
  /\ overrides'[j] = overrides[j] /\ settledBy'[j] = settledBy[j] /\ enq'[j] = enq[j]

Settles(j) ==
  /\ jobs[j].status = "in_flight" /\ settledBy'[j] = jobs[j].token
  /\ Leaves(j, "done") \/ Leaves(j, "failed")
  /\ RowKept(j)

Expires(j) ==
  /\ HasLapsed(jobs[j]) /\ Leaves(j, AfterExpiry(jobs[j]))
  /\ RowKept(j) /\ settledBy'[j] = settledBy[j]

Cancelled(j) ==
  /\ IsActive(jobs[j]) /\ Leaves(j, "cancelled")
  /\ RowKept(j) /\ settledBy'[j] = settledBy[j]

Overruled(j) ==
  /\ jobs[j].status # "absent"
  /\ Leaves(j, "queued") \/ Leaves(j, "done")
  /\ jobs'[j].attempts = jobs[j].attempts
  /\ minted'[j] = minted[j] /\ settledBy'[j] = settledBy[j] /\ enq'[j] = enq[j]
  /\ overrides'[j] = overrides[j] + 1

\* Only overrides touch a job that is settled.
Moves(j) ==
  \/ Stays(j) \/ Submitted(j) \/ Granted(j) \/ Settles(j) \/ Expires(j) \/ Cancelled(j)
  \/ Overruled(j)

\* Every step keeps the types and makes of each job one of these.
LEMMA EnqueueMoves ==
  ASSUME TypeOK, QueueInv, NEW j \in Job, Enqueue(j)
  PROVE  TypeOK' /\ \A i \in Job : Moves(i)
<1>1. CASE /\ enq' = [enq EXCEPT ![j] = "accepted"]
           /\ jobs' = [jobs EXCEPT ![j] = NewRow]
           /\ idempotency' = [k \in Key |-> IF k = KeyOf[j] THEN j ELSE idempotency[k]]
  <2>1. TypeOK'
    BY <1>1, EmptyRows DEF Enqueue, TypeOK
  <2>2. ASSUME NEW i \in Job
        PROVE  Stays(i) \/ Submitted(i)
    <3>1. CASE i = j
      BY <1>1, <3>1, EmptyRows
      DEF Enqueue, TypeOK, Submitted, Leaves, QueueInv, RowInv
    <3>2. CASE i # j
      BY <1>1, <3>2 DEF Enqueue, TypeOK, Stays, RowKept
    <3> QED
      BY <3>1, <3>2
  <2> QED
    BY <2>1, <2>2 DEF Moves
<1>2. ASSUME NEW answer \in {"existing", "refused", "over_quota"},
             enq' = [enq EXCEPT ![j] = answer], UNCHANGED <<jobs, idempotency>>
      PROVE  TypeOK' /\ \A i \in Job : Moves(i)
  BY <1>2 DEF Enqueue, TypeOK, Moves, Stays, RowKept
<1>3. \/ enq' = [enq EXCEPT ![j] = "existing"] /\ UNCHANGED <<jobs, idempotency>>
      \/ enq' = [enq EXCEPT ![j] = "refused"] /\ UNCHANGED <<jobs, idempotency>>
      \/ enq' = [enq EXCEPT ![j] = "over_quota"] /\ UNCHANGED <<jobs, idempotency>>
      \/ /\ enq' = [enq EXCEPT ![j] = "accepted"]
         /\ jobs' = [jobs EXCEPT ![j] = NewRow]
         /\ idempotency' = [k \in Key |-> IF k = KeyOf[j] THEN j ELSE idempotency[k]]
  BY DEF Enqueue
<1> QED
  BY <1>1, <1>2, <1>3

LEMMA DequeueMoves ==
  ASSUME TypeOK, NEW r \in Caller, Dequeue(r)
  PROVE  TypeOK' /\ \A i \in Job : Moves(i)
<1> DEFINE promoted == [j \in Job |-> Promoted(jobs[j])]
<1>1. /\ promoted \in [Job -> Row]
      /\ \A j \in Job : jobs[j] \in Row
  BY PromotedRow DEF TypeOK
<1>2. ASSUME NEW i \in Job, jobs'[i] = promoted[i], minted'[i] = minted[i],
             UNCHANGED <<idempotency, enq, settledBy, overrides>>
      PROVE  Moves(i)
  <2>1. CASE HasLapsed(jobs[i])
    <3>1. Expires(i)
      BY <1>1, <1>2, <2>1, PromotedRow DEF Expires, Leaves, RowKept
    <3> QED
      BY <3>1 DEF Moves
  <2>2. CASE ~HasLapsed(jobs[i])
    <3>1. Stays(i)
      BY <1>1, <1>2, <2>2, PromotedRow DEF Stays, RowKept
    <3> QED
      BY <3>1 DEF Moves
  <2> QED
    BY <2>1, <2>2
<1>3. CASE jobs' = promoted /\ UNCHANGED <<minted, leases>>
  BY <1>1, <1>2, <1>3 DEF Dequeue, TypeOK
<1>4. ASSUME NEW t \in Waiting(promoted, r),
             jobs' = [promoted EXCEPT ![t] = Leased(@, minted[t] + 1, r)],
             minted' = [minted EXCEPT ![t] = minted[t] + 1],
             leases' = leases \cup {[job |-> t, token |-> minted[t] + 1, runner |-> r]}
      PROVE  TypeOK' /\ \A i \in Job : Moves(i)
  <2>1. t \in Job /\ promoted[t].status = "queued"
    BY <1>4 DEF Waiting
  <2>2. minted[t] + 1 \in Nat \ {0}
    BY <2>1 DEF TypeOK
  <2>3. /\ promoted[t] \in Row
        /\ jobs'[t] = Leased(promoted[t], minted[t] + 1, r)
        /\ \A i \in Job \ {t} : jobs'[i] = promoted[i]
    BY <1>1, <1>4, <2>1
  <2> HIDE DEF promoted
  <2>4. TypeOK'
    <3>1. Leased(promoted[t], minted[t] + 1, r) \in Row
      BY <2>2, <2>3, LeasedRow
    <3>2. jobs' \in [Job -> Row]
      BY <1>1, <1>4, <2>1, <3>1
    <3>3. leases' \subseteq Lease
      BY <1>4, <2>1, <2>2 DEF TypeOK, Lease
    <3> QED
      BY <1>4, <2>1, <2>2, <3>2, <3>3 DEF Dequeue, TypeOK
  <2>5. promoted[t] = Promoted(jobs[t])
    BY <2>1 DEF promoted
  <2>6. Granted(t)
    <3>1. /\ jobs'[t].status = "in_flight" /\ jobs'[t].token = minted[t] + 1
          /\ jobs'[t].attempts = jobs[t].attempts + 1
      BY <1>1, <2>1, <2>2, <2>3, <2>5, LeasedRow, PromotedRow
    <3>2. \/ jobs[t].status = "queued"
          \/ HasLapsed(jobs[t]) /\ jobs[t].attempts < MaxAttempts
      <4>1. CASE HasLapsed(jobs[t])
        BY <1>1, <2>1, <2>5, <4>1, PromotedRow, LimitsAssumption DEF AfterExpiry, Row
      <4>2. CASE ~HasLapsed(jobs[t])
        BY <1>1, <2>1, <2>5, <4>2, PromotedRow
      <4> QED
        BY <4>1, <4>2
    <3> QED
      BY <1>4, <2>1, <3>1, <3>2 DEF Dequeue, TypeOK, Granted
  <2>7. ASSUME NEW i \in Job, i # t
        PROVE  Moves(i)
    BY <1>2, <1>4, <2>3, <2>7 DEF Dequeue, TypeOK
  <2> QED
    BY <2>4, <2>6, <2>7 DEF Moves
<1> QED
  BY <1>3, <1>4 DEF Dequeue

LEMMA OtherMoves ==
  ASSUME TypeOK
  PROVE  /\ \A l \in leases : Ack(l) \/ Fail(l) \/ Renew(l) =>
              TypeOK' /\ \A i \in Job : Moves(i)
         /\ ReapExpired => TypeOK' /\ \A i \in Job : Moves(i)
         /\ \A j \in Job : Cancel(j) \/ Lapse(j) \/ Requeue(j) \/ Kill(j) =>
              TypeOK' /\ \A i \in Job : Moves(i)
<1>0. \A j \in Job : jobs[j] \in Row
  BY DEF TypeOK
<1>1. ASSUME NEW l \in leases, Ack(l)
      PROVE  TypeOK' /\ \A i \in Job : Moves(i)
  <2>1. l.job \in Job /\ l.token \in Nat
    BY DEF TypeOK, Lease
  <2>2. jobs' \in [Job -> Row]
    <3>1. \A row \in Row : [row EXCEPT !.status = "done", !.token = 0, !.by = NoRunner] \in Row
      BY DEF Row, Status, Caller
    <3>2. jobs' = [jobs EXCEPT ![l.job] =
                    [jobs[l.job] EXCEPT !.status = "done", !.token = 0, !.by = NoRunner]]
      BY <1>1, <2>1 DEF Ack, TypeOK
    <3> QED
      BY <1>0, <2>1, <3>1, <3>2 DEF TypeOK
  <2>3. Settles(l.job)
    BY <1>0, <1>1, <2>1 DEF Ack, Settled, Holds, TypeOK, Settles, Leaves, RowKept, Row
  <2>4. \A i \in Job \ {l.job} : Stays(i)
    BY <1>1, <2>1 DEF Ack, Settled, TypeOK, Stays, RowKept
  <2> QED
    BY <1>1, <2>1, <2>2, <2>3, <2>4 DEF Ack, Settled, TypeOK, Moves
<1>2. ASSUME NEW l \in leases, Fail(l)
      PROVE  TypeOK' /\ \A i \in Job : Moves(i)
  <2>1. l.job \in Job /\ l.token \in Nat /\ "failed" \in Status
    BY DEF TypeOK, Lease, Status
  <2>2. jobs' \in [Job -> Row] /\ jobs'[l.job] = Cleared(jobs[l.job], "failed")
    BY <1>2, <2>1, ClearedRow DEF Fail, TypeOK
  <2>3. Settles(l.job)
    BY <1>0, <1>2, <2>1, <2>2, ClearedRow DEF Fail, Settled, Holds, TypeOK, Settles, Leaves, RowKept
  <2>4. \A i \in Job \ {l.job} : Stays(i)
    BY <1>2, <2>1 DEF Fail, Settled, TypeOK, Stays, RowKept
  <2> QED
    BY <1>2, <2>1, <2>2, <2>3, <2>4 DEF Fail, Settled, TypeOK, Moves
<1>3. ASSUME NEW l \in leases, Renew(l)
      PROVE  TypeOK' /\ \A i \in Job : Moves(i)
  <2>1. l.job \in Job
    BY DEF TypeOK, Lease
  <2>2. jobs' \in [Job -> Row]
    BY <1>3, <2>1 DEF Renew, TypeOK, Row
  <2>3. \A i \in Job : Stays(i)
    BY <1>0, <1>3, <2>1 DEF Renew, OnlyJobs, TypeOK, Stays, RowKept, Row
  <2> QED
    BY <1>3, <2>2, <2>3 DEF Renew, OnlyJobs, TypeOK, Moves
<1>4. ASSUME ReapExpired
      PROVE  TypeOK' /\ \A i \in Job : Moves(i)
  <2>1. \A j \in Job : AfterExpiry(jobs[j]) \in Status
    BY DEF AfterExpiry, Status
  <2>2. jobs' \in [Job -> Row]
    BY <1>0, <1>4, <2>1, ClearedRow DEF ReapExpired
  <2>3. \A i \in Job : Stays(i) \/ Expires(i)
    BY <1>0, <1>4, <2>1, ClearedRow DEF ReapExpired, OnlyJobs, Stays, Expires, Leaves, RowKept
  <2> QED
    BY <1>4, <2>2, <2>3 DEF ReapExpired, OnlyJobs, TypeOK, Moves
<1>5. ASSUME NEW j \in Job, Cancel(j)
      PROVE  TypeOK' /\ \A i \in Job : Moves(i)
  <2>1. "cancelled" \in Status
    BY DEF Status
  <2>2. jobs' \in [Job -> Row] /\ jobs'[j] = Cleared(jobs[j], "cancelled")
    BY <1>0, <1>5, <2>1, ClearedRow DEF Cancel, TypeOK
  <2>3. Cancelled(j)
    BY <1>0, <1>5, <2>1, <2>2, ClearedRow DEF Cancel, OnlyJobs, Cancelled, Leaves, RowKept
  <2>4. \A i \in Job \ {j} : Stays(i)
    BY <1>5 DEF Cancel, OnlyJobs, TypeOK, Stays, RowKept
  <2> QED
    BY <1>5, <2>2, <2>3, <2>4 DEF Cancel, OnlyJobs, TypeOK, Moves
<1>6. ASSUME NEW j \in Job, Lapse(j)
      PROVE  TypeOK' /\ \A i \in Job : Moves(i)
  <2>1. jobs' \in [Job -> Row]
    BY <1>6 DEF Lapse, TypeOK, Row
  <2>2. \A i \in Job : Stays(i)
    BY <1>0, <1>6 DEF Lapse, OnlyJobs, TypeOK, Stays, RowKept, Row
  <2> QED
    BY <1>6, <2>1, <2>2 DEF Lapse, OnlyJobs, TypeOK, Moves
<1>7. ASSUME NEW j \in Job, Requeue(j) \/ Kill(j)
      PROVE  TypeOK' /\ \A i \in Job : Moves(i)
  <2>1. jobs' \in [Job -> Row]
    BY <1>7 DEF Requeue, Kill, TypeOK, Row, Status
  <2>2. overrides[j] \in Nat /\ overrides[j] < MaxOverrides /\ overrides[j] + 1 \in 0..MaxOverrides
    BY <1>7, OrderAssumption DEF Requeue, Kill, Overridden, TypeOK
  <2>3. Overruled(j)
    BY <1>0, <1>7, <2>2 DEF Requeue, Kill, Overridden, TypeOK, Overruled, Leaves, Row
  <2>4. \A i \in Job \ {j} : Stays(i)
    BY <1>7 DEF Requeue, Kill, Overridden, TypeOK, Stays, RowKept
  <2>5. overrides' \in [Job -> 0..MaxOverrides]
    BY <1>7, <2>2 DEF Requeue, Kill, Overridden, TypeOK
  <2> QED
    BY <1>7, <2>1, <2>3, <2>4, <2>5 DEF Requeue, Kill, Overridden, TypeOK, Moves
<1> QED
  BY <1>1, <1>2, <1>3, <1>4, <1>5, <1>6, <1>7

LEMMA StepMoves ==
  ASSUME TypeOK, QueueInv, [Next]_vars
  PROVE  TypeOK' /\ \A i \in Job : Moves(i)
<1>1. CASE Next
  BY <1>1, EnqueueMoves, DequeueMoves, OtherMoves DEF Next
<1>2. CASE UNCHANGED vars
  BY <1>2 DEF vars, TypeOK, Moves, Stays, RowKept
<1> QED
  BY <1>1, <1>2

-----------------------------------------------------------------------------
(* The runner queue in memory: who holds a job *)

\* The runner that a row names goes only with the lease, or when it is leased again.
NameKept(j) ==
  /\ jobs'[j].by \in {NoRunner, jobs[j].by}
  /\ jobs'[j].status = "in_flight" =>
       jobs[j].status = "in_flight" /\ jobs'[j].by = jobs[j].by

NamesKept == UNCHANGED <<leases, minted>> /\ \A j \in Job : NameKept(j)

LEMMA NamedRows ==
  ASSUME NEW row \in Row
  PROVE  /\ Promoted(row).by = row.by
         /\ Promoted(row).status = "in_flight" => row.status = "in_flight"
         /\ \A token \in Nat, r \in Caller :
              Leased(row, token, r).by = IF r = NoRunner THEN row.by ELSE r
<1>1. /\ Promoted(row).by = row.by
      /\ Promoted(row).status = "in_flight" => row.status = "in_flight"
  BY DEF Row, Promoted, AfterExpiry, HasLapsed
<1>2. ASSUME NEW token \in Nat, NEW r \in Caller
      PROVE  Leased(row, token, r).by = IF r = NoRunner THEN row.by ELSE r
  BY DEF Row, Leased
<1> QED
  BY <1>1, <1>2

\* No method but dequeue names a runner.
LEMMA OthersKeepNames ==
  ASSUME TypeOK
  PROVE  /\ \A j \in Job :
              Enqueue(j) \/ Cancel(j) \/ Lapse(j) \/ Requeue(j) \/ Kill(j) => NamesKept
         /\ \A l \in leases : Ack(l) \/ Fail(l) \/ Renew(l) => NamesKept
         /\ ReapExpired => NamesKept
<1>1. /\ \A i \in Job : jobs[i] \in Row
      /\ \A l \in leases : l.job \in Job
      /\ {"cancelled", "failed", "queued"} \subseteq Status
  BY DEF TypeOK, Lease, Status
<1>2. ASSUME NEW j \in Job, Enqueue(j)
      PROVE  NamesKept
  <2>1. CASE jobs' = [jobs EXCEPT ![j] = NewRow]
    BY <1>1, <1>2, <2>1 DEF Enqueue, TypeOK, NamesKept, NameKept, NewRow, NoRow
  <2>2. CASE jobs' = jobs
    BY <1>2, <2>2 DEF Enqueue, NamesKept, NameKept
  <2> QED
    BY <1>2, <2>1, <2>2 DEF Enqueue
<1>3. ASSUME NEW j \in Job, Cancel(j)
      PROVE  NamesKept
  <2>1. jobs' = [jobs EXCEPT ![j] = Cleared(jobs[j], "cancelled")]
    BY <1>3 DEF Cancel
  <2>2. /\ Cleared(jobs[j], "cancelled").by = NoRunner
        /\ Cleared(jobs[j], "cancelled").status = "cancelled"
    BY <1>1, ClearedRow
  <2> QED
    BY <1>3, <2>1, <2>2 DEF Cancel, OnlyJobs, TypeOK, NamesKept, NameKept
<1>4. ASSUME NEW j \in Job, Lapse(j)
      PROVE  NamesKept
  BY <1>1, <1>4 DEF Lapse, OnlyJobs, TypeOK, NamesKept, NameKept, Row
<1>5. ASSUME NEW j \in Job, Requeue(j) \/ Kill(j)
      PROVE  NamesKept
  <2>1. \A i \in Job \ {j} : jobs'[i] = jobs[i]
    BY <1>5 DEF Requeue, Kill, TypeOK
  <2>2. jobs'[j].by = jobs[j].by /\ jobs'[j].status # "in_flight"
    BY <1>1, <1>5 DEF Requeue, Kill, TypeOK, Row
  <2> QED
    BY <1>5, <2>1, <2>2 DEF Requeue, Kill, Overridden, NamesKept, NameKept
<1>6. ASSUME NEW l \in leases, Ack(l)
      PROVE  NamesKept
  <2>1. jobs' = [jobs EXCEPT ![l.job] =
                  [jobs[l.job] EXCEPT !.status = "done", !.token = 0, !.by = NoRunner]]
    BY <1>1, <1>6 DEF Ack, TypeOK
  <2>2. /\ [jobs[l.job] EXCEPT !.status = "done", !.token = 0, !.by = NoRunner].by = NoRunner
        /\ [jobs[l.job] EXCEPT !.status = "done", !.token = 0, !.by = NoRunner].status = "done"
    BY <1>1 DEF Row
  <2> QED
    BY <1>1, <1>6, <2>1, <2>2 DEF Ack, Settled, TypeOK, NamesKept, NameKept
<1>7. ASSUME NEW l \in leases, Fail(l)
      PROVE  NamesKept
  <2>1. jobs' = [jobs EXCEPT ![l.job] = Cleared(jobs[l.job], "failed")]
    BY <1>7 DEF Fail
  <2>2. /\ Cleared(jobs[l.job], "failed").by = NoRunner
        /\ Cleared(jobs[l.job], "failed").status = "failed"
    BY <1>1, ClearedRow
  <2> QED
    BY <1>1, <1>7, <2>1, <2>2 DEF Fail, Settled, TypeOK, NamesKept, NameKept
<1>8. ASSUME NEW l \in leases, Renew(l)
      PROVE  NamesKept
  BY <1>1, <1>8 DEF Renew, OnlyJobs, TypeOK, NamesKept, NameKept, Row
<1>9. ASSUME ReapExpired
      PROVE  NamesKept
  <2>1. ASSUME NEW i \in Job, HasLapsed(jobs[i])
        PROVE  NameKept(i)
    <3>1. jobs'[i] = Cleared(jobs[i], AfterExpiry(jobs[i]))
      BY <1>9, <2>1 DEF ReapExpired
    <3>2. AfterExpiry(jobs[i]) \in Status /\ AfterExpiry(jobs[i]) # "in_flight"
      BY DEF AfterExpiry, Status
    <3>3. /\ Cleared(jobs[i], AfterExpiry(jobs[i])).by = NoRunner
          /\ Cleared(jobs[i], AfterExpiry(jobs[i])).status # "in_flight"
      BY <1>1, <3>2, ClearedRow
    <3> QED
      BY <3>1, <3>3 DEF NameKept
  <2>2. \A i \in Job : ~HasLapsed(jobs[i]) => NameKept(i)
    BY <1>9 DEF ReapExpired, NameKept
  <2> QED
    BY <1>9, <2>1, <2>2 DEF ReapExpired, OnlyJobs, NamesKept
<1> QED
  BY <1>2, <1>3, <1>4, <1>5, <1>6, <1>7, <1>8, <1>9

LEMMA NamesKeepHolders ==
  ASSUME TypeOK, HolderInv, NamesKept
  PROVE  HolderInv'
<1>1. ASSUME NEW l \in leases
      PROVE  /\ l.token <= minted'[l.job]
             /\ (l.token = minted'[l.job] /\ jobs'[l.job].status = "in_flight") =>
                  jobs'[l.job].by = l.runner \/ LockedOut(l)'
  <2>1. l.job \in Job
    BY DEF TypeOK, Lease
  <2> QED
    BY <2>1 DEF HolderInv, NamesKept, NameKept, LockedOut
<1>2. \A j \in Job : jobs'[j].by # NoRunner =>
        \E former \in leases' : former.job = j /\ former.runner = jobs'[j].by
  BY DEF HolderInv, NamesKept, NameKept
<1> QED
  BY <1>1, <1>2 DEF HolderInv, NamesKept

\* dequeue names its caller, or leaves the name of a runner that has had the job.
LEMMA DequeueKeepsHolders ==
  ASSUME TypeOK, HolderInv, NEW r \in Caller, Dequeue(r)
  PROVE  HolderInv'
<1> DEFINE promoted == [j \in Job |-> Promoted(jobs[j])]
<1>0. /\ \A j \in Job : jobs[j] \in Row /\ minted[j] \in Nat
      /\ \A l \in leases : l.job \in Job /\ l.token \in Nat
      /\ "queued" \in Status
  BY DEF TypeOK, Lease, Status
<1>1. \A j \in Job : /\ promoted[j] \in Row /\ promoted[j].by = jobs[j].by
                     /\ promoted[j].status = "in_flight" => jobs[j].status = "in_flight"
  BY <1>0, NamedRows, PromotedRow
<1>2. CASE jobs' = promoted /\ UNCHANGED <<minted, leases>>
  <2>1. NamesKept
    BY <1>1, <1>2 DEF NamesKept, NameKept
  <2> QED
    BY <2>1, NamesKeepHolders
<1>3. ASSUME NEW t \in Waiting(promoted, r),
             jobs' = [promoted EXCEPT ![t] = Leased(@, minted[t] + 1, r)],
             minted' = [minted EXCEPT ![t] = minted[t] + 1],
             leases' = leases \cup {[job |-> t, token |-> minted[t] + 1, runner |-> r]}
      PROVE  HolderInv'
  <2>1. t \in Job
    BY <1>3 DEF Waiting
  <2>2. /\ jobs'[t] = Leased(promoted[t], minted[t] + 1, r)
        /\ \A j \in Job \ {t} : jobs'[j] = promoted[j]
    BY <1>3, <2>1
  <2>3. minted'[t] = minted[t] + 1 /\ \A j \in Job \ {t} : minted'[j] = minted[j]
    BY <1>3, <2>1 DEF TypeOK
  <2>4. jobs'[t].by = IF r = NoRunner THEN jobs[t].by ELSE r
    BY <1>0, <1>1, <2>1, <2>2, NamedRows
  <2>5. \A j \in Job \ {t} : NameKept(j)
    BY <1>1, <2>2 DEF NameKept
  <2> HIDE DEF promoted
  <2>6. PICK new : new = [job |-> t, token |-> minted[t] + 1, runner |-> r]
    OBVIOUS
  <2>7. leases' = leases \cup {new}
    BY <1>3, <2>6
  <2>8. new.job = t /\ new.token = minted[t] + 1 /\ new.runner = r
    BY <2>6
  <2>9. ASSUME jobs[t].by # NoRunner
        PROVE  \E former \in leases : /\ former.job = t /\ former.token < minted[t] + 1
                                      /\ former.runner = jobs[t].by
    <3>1. PICK former \in leases : former.job = t /\ former.runner = jobs[t].by
      BY <2>1, <2>9 DEF HolderInv
    <3>2. former.token <= minted[t] /\ former.token \in Nat
      BY <1>0, <3>1 DEF HolderInv
    <3> QED
      BY <1>0, <2>1, <3>1, <3>2
  <2>10. jobs'[t].by = r \/ LockedOut(new)'
    <3>1. CASE jobs'[t].by # r
      <4>1. r = NoRunner /\ jobs'[t].by = jobs[t].by /\ jobs[t].by # NoRunner
        BY <2>4, <3>1
      <4>2. PICK former \in leases : /\ former.job = t /\ former.token < minted[t] + 1
                                     /\ former.runner = jobs[t].by
        BY <2>9, <4>1
      <4>3. former \in leases'
        BY <2>7
      <4> QED
        BY <2>8, <4>1, <4>2, <4>3 DEF LockedOut
    <3> QED
      BY <3>1
  <2>11. ASSUME NEW l \in leases
         PROVE  /\ l.token <= minted'[l.job]
                /\ (l.token = minted'[l.job] /\ jobs'[l.job].status = "in_flight") =>
                     jobs'[l.job].by = l.runner \/ LockedOut(l)'
    <3>1. l.token <= minted[l.job] /\ l.token \in Nat /\ minted[l.job] \in Nat
      BY <1>0 DEF HolderInv
    <3>2. CASE l.job = t
      BY <2>3, <3>1, <3>2
    <3>3. CASE l.job # t
      <4>1. NameKept(l.job) /\ minted'[l.job] = minted[l.job]
        BY <1>0, <2>3, <2>5, <3>3
      <4>2. LockedOut(l) /\ jobs'[l.job].by = jobs[l.job].by => LockedOut(l)'
        BY <2>7 DEF LockedOut
      <4> QED
        BY <3>1, <4>1, <4>2 DEF HolderInv, NameKept
    <3> QED
      BY <3>2, <3>3
  <2>12. ASSUME NEW j \in Job, jobs'[j].by # NoRunner
         PROVE  \E former \in leases' : former.job = j /\ former.runner = jobs'[j].by
    <3>1. CASE jobs'[j].by = jobs[j].by
      BY <2>7, <2>12, <3>1 DEF HolderInv
    <3>2. CASE jobs'[j].by # jobs[j].by
      <4>1. j = t /\ jobs'[j].by = r
        BY <2>4, <2>5, <2>12, <3>2 DEF NameKept
      <4> QED
        BY <2>7, <2>8, <4>1
    <3> QED
      BY <3>1, <3>2
  <2>13. /\ new.token <= minted'[new.job]
         /\ jobs'[new.job].by = new.runner \/ LockedOut(new)'
    BY <1>0, <2>1, <2>3, <2>8, <2>10
  <2> QED
    BY <2>7, <2>11, <2>12, <2>13 DEF HolderInv
<1> QED
  BY <1>2, <1>3 DEF Dequeue

LEMMA HoldersAreKept ==
  ASSUME TypeOK, HolderInv, [Next]_vars
  PROVE  HolderInv'
<1>1. ASSUME UNCHANGED vars
      PROVE  NamesKept
  BY <1>1 DEF vars, NamesKept, NameKept
<1>2. CASE NamesKept
  BY <1>2, NamesKeepHolders
<1>3. CASE \E r \in Caller : Dequeue(r)
  BY <1>3, DequeueKeepsHolders
<1> QED
  BY <1>1, <1>2, <1>3, OthersKeepNames DEF Next

-----------------------------------------------------------------------------
(* The runner queue in memory: rows and keys *)

\* Whatever becomes of a job, its columns agree again.
LEMMA MovesKeepRows ==
  ASSUME TypeOK, TypeOK', NEW j \in Job, RowInv(j), Moves(j)
  PROVE  RowInv(j)'
<1>1. /\ jobs[j].attempts \in Nat /\ jobs[j].token \in Nat /\ minted[j] \in Nat
      /\ settledBy[j] \in Nat /\ overrides[j] \in Nat /\ MaxAttempts \in Nat \ {0}
  BY LimitsAssumption, OrderAssumption DEF TypeOK, Row
<1>2. CASE Stays(j)
  BY <1>1, <1>2 DEF Stays, RowKept, RowInv
<1>3. CASE Submitted(j)
  BY <1>1, <1>3 DEF Submitted, Leaves, RowInv
<1>4. CASE Granted(j)
  BY <1>1, <1>4 DEF Granted, HasLapsed, RowInv
<1>5. CASE Settles(j)
  BY <1>1, <1>5 DEF Settles, Leaves, RowKept, RowInv
<1>6. CASE Expires(j)
  BY <1>1, <1>6 DEF Expires, Leaves, RowKept, HasLapsed, AfterExpiry, RowInv
<1>7. CASE Cancelled(j)
  BY <1>1, <1>7 DEF Cancelled, IsActive, Leaves, RowKept, RowInv
<1>8. CASE Overruled(j)
  BY <1>1, <1>8 DEF Overruled, Leaves, RowInv
<1> QED
  BY <1>2, <1>3, <1>4, <1>5, <1>6, <1>7, <1>8 DEF Moves

\* Only enqueue binds a key, and it binds a free one.
LEMMA StepKeepsBindings ==
  ASSUME TypeOK, BindingInv, [Next]_vars
  PROVE  BindingInv'
<1>1. CASE UNCHANGED <<idempotency, enq>>
  BY <1>1 DEF BindingInv, Bound
<1>2. ASSUME NEW j \in Job, Enqueue(j)
      PROVE  BindingInv'
  <2>1. /\ enq[j] = "idle" /\ NoJob \notin Job /\ NoKey \notin Key
        /\ \A i \in Job : KeyOf[i] \in Key \cup {NoKey}
    BY <1>2, JobsAssumption DEF Enqueue
  <2>2. CASE /\ Bound(j) # NoJob
             /\ enq' = [enq EXCEPT ![j] = IF PrintOf[Bound(j)] = PrintOf[j]
                                          THEN "existing" ELSE "refused"]
             /\ idempotency' = idempotency
    BY <2>1, <2>2 DEF BindingInv, Bound, TypeOK
  <2>3. CASE enq' = [enq EXCEPT ![j] = "over_quota"] /\ idempotency' = idempotency
    BY <2>1, <2>3 DEF BindingInv, Bound, TypeOK
  <2>4. CASE /\ Bound(j) = NoJob
             /\ enq' = [enq EXCEPT ![j] = "accepted"]
             /\ idempotency' = [k \in Key |-> IF k = KeyOf[j] THEN j ELSE idempotency[k]]
    BY <2>1, <2>4 DEF BindingInv, Bound, TypeOK
  <2> QED
    BY <1>2, <2>2, <2>3, <2>4 DEF Enqueue
<1> QED
  BY <1>1, <1>2
  DEF Next, vars, Dequeue, Ack, Fail, Settled, Renew, ReapExpired, Cancel, Lapse, OnlyJobs,
      Requeue, Kill, Overridden

LEMMA QueueInvariant == Spec => [](TypeOK /\ QueueInv)
<1>1. Init => TypeOK /\ QueueInv
  BY EmptyRows, LimitsAssumption, OrderAssumption DEF Init, TypeOK, QueueInv, BindingInv, RowInv
<1>2. TypeOK /\ QueueInv /\ [Next]_vars => TypeOK' /\ QueueInv'
  BY StepMoves, MovesKeepRows, StepKeepsBindings DEF QueueInv
<1> QED
  BY <1>1, <1>2, PTL DEF Spec

LEMMA HolderInvariant == Spec => []HolderInv
<1>1. Init => HolderInv
  BY DEF Init, NoRow, HolderInv
<1> QED
  BY <1>1, HoldersAreKept, QueueInvariant, PTL DEF Spec

\* A retry is answered from the job its key is bound to.
LEMMA QueueInvSuffices ==
  ASSUME TypeOK, QueueInv, HolderInv
  PROVE  /\ StaleLeasesAreFenced /\ IdentifiedCanSettle
         /\ AttemptsBounded /\ RetriesShareOneJob
<1>1. StaleLeasesAreFenced
  BY DEF TypeOK, Lease, StaleLeasesAreFenced, Holds, QueueInv, RowInv
<1>2. AttemptsBounded
  BY DEF AttemptsBounded, QueueInv, RowInv
<1>3. RetriesShareOneJob
  BY DEF RetriesShareOneJob, QueueInv, BindingInv, Bound
<1>4. IdentifiedCanSettle
  <2> SUFFICES ASSUME NEW l \in leases, jobs[l.job].status = "in_flight",
                      l.token = minted[l.job]
               PROVE  Holds(l) \/ LockedOut(l)
    BY DEF IdentifiedCanSettle
  <2>1. l.job \in Job /\ jobs[l.job].token = minted[l.job]
    BY DEF TypeOK, Lease, QueueInv, RowInv
  <2> QED
    BY <2>1 DEF HolderInv, Holds
<1> QED
  BY <1>1, <1>2, <1>3, <1>4

-----------------------------------------------------------------------------
(* The runner queue in memory: order *)

\* The first in order is leased: no waiting or lapsed job of the caller's scope comes before
\* the one that dequeue hands out.
THEOREM FirstIsLeased == Spec => FirstInOrderIsLeased
<1>1. ASSUME TypeOK, [Next]_vars, NEW l \in leases' \ leases, NEW j \in Job,
             InScope(j, l.runner),
             \/ jobs[j].status = "queued"
             \/ HasLapsed(jobs[j]) /\ jobs[j].attempts < MaxAttempts
      PROVE  ~Ahead(j, l.job)
  <2>1. PICK r \in Caller : Dequeue(r)
    BY <1>1 DEF Next, vars, Enqueue, Ack, Fail, Settled, Renew, ReapExpired, Cancel, Lapse,
                OnlyJobs, Requeue, Kill, Overridden
  <2> DEFINE promoted == [i \in Job |-> Promoted(jobs[i])]
  <2>2. PICK t \in Waiting(promoted, r) :
          /\ \A other \in Waiting(promoted, r) \ {t} : Ahead(t, other)
          /\ leases' = leases \cup {[job |-> t, token |-> minted[t] + 1, runner |-> r]}
    BY <1>1, <2>1 DEF Dequeue
  <2>3. l.job = t /\ l.runner = r
    BY <1>1, <2>2
  <2>4. j \in Waiting(promoted, r)
    <3>1. jobs[j] \in Row /\ promoted[j] = Promoted(jobs[j])
      BY <1>1 DEF TypeOK
    <3>2. Promoted(jobs[j]).status = "queued"
      BY <1>1, <3>1, PromotedRow, LimitsAssumption DEF AfterExpiry, HasLapsed, Row
    <3> QED
      BY <1>1, <2>3, <3>1, <3>2 DEF Waiting
  <2>5. t \in Job
    BY <2>2 DEF Waiting
  <2>6. /\ PriorityOf[t] \in Int /\ PriorityOf[j] \in Int
        /\ ArrivalOf[t] \in Int /\ ArrivalOf[j] \in Int
    BY <2>5, OrderAssumption
  <2>7. t = j \/ Ahead(t, j)
    BY <2>2, <2>4
  <2> QED
    BY <2>3, <2>6, <2>7 DEF Ahead
<1>2. TypeOK /\ [Next]_vars =>
        [\A l \in leases' \ leases, j \in Job :
           (/\ InScope(j, l.runner)
            /\ \/ jobs[j].status = "queued"
               \/ HasLapsed(jobs[j]) /\ jobs[j].attempts < MaxAttempts)
           => ~Ahead(j, l.job)]_vars
  BY <1>1
<1> QED
  BY <1>2, QueueInvariant, PTL DEF Spec, FirstInOrderIsLeased

-----------------------------------------------------------------------------
(* The runner queue in memory: the contract *)

\* Each move but an override is one that the contract knows.
LEMMA MovesRefine ==
  ASSUME TypeOK, TypeOK', NEW j \in Job, RowInv(j), Moves(j), overrides'[j] = 0
  PROVE  Contract!Move(j)
<1>1. /\ overrides[j] \in Nat /\ minted[j] \in Nat /\ jobs[j].attempts \in Nat
      /\ MaxAttempts \in Nat
  BY LimitsAssumption, OrderAssumption DEF TypeOK, Row
<1>2. ~Overruled(j) /\ overrides[j] = 0
  BY <1>1 DEF Moves, Stays, Submitted, Granted, Settles, Expires, Cancelled, Overruled, RowKept
<1> USE DEF Contract!Goes, Contract!Keeps, Contract!Move
<1>3. CASE Stays(j)
  <2>1. Contract!Stays(j)
    BY <1>3 DEF Stays, RowKept, Contract!Stays
  <2> QED
    BY <2>1
<1>4. CASE Submitted(j)
  <2>1. Contract!Submit(j)
    BY <1>4 DEF Submitted, Leaves, Contract!Submit
  <2> QED
    BY <2>1
<1>5. CASE Granted(j)
  <2>1. Contract!Grant(j)
    BY <1>1, <1>2, <1>5 DEF Granted, HasLapsed, RowInv, Contract!Grant
  <2> QED
    BY <2>1
<1>6. CASE Settles(j)
  <2>1. Contract!Settle(j)
    BY <1>6 DEF Settles, Leaves, RowKept, RowInv, Contract!Settle
  <2> QED
    BY <2>1
<1>7. CASE Expires(j)
  <2>1. Contract!Expire(j)
    BY <1>1, <1>7 DEF Expires, HasLapsed, AfterExpiry, Leaves, RowKept, RowInv, Contract!Expire
  <2> QED
    BY <2>1
<1>8. CASE Cancelled(j)
  <2>1. Contract!Cancel(j)
    BY <1>8 DEF Cancelled, IsActive, Leaves, RowKept, Contract!Cancel
  <2> QED
    BY <2>1
<1> QED
  BY <1>2, <1>3, <1>4, <1>5, <1>6, <1>7, <1>8 DEF Moves

\* Until an operator overrides a job, the queue in memory keeps the contract of LeaseQueue.
THEOREM QueueKeepsContract == Spec => ImplementsLeaseQueue
<1>1. Init => Contract!Init
  BY DEF Init, NoRow, Contract!Init
<1>2. /\ TypeOK /\ QueueInv /\ TypeOK' /\ QueueInv' /\ [Next]_vars
      => ((\A j \in Job : overrides'[j] = 0) => [Contract!Next]_(Contract!vars))
  <2> SUFFICES ASSUME TypeOK, QueueInv, TypeOK', QueueInv', [Next]_vars,
                      \A j \in Job : overrides'[j] = 0
               PROVE  Contract!Next
    OBVIOUS
  <2>1. \A j \in Job : Contract!Move(j)
    BY StepMoves, MovesRefine DEF QueueInv
  <2>2. \A j \in Job : jobs'[j].status \in Status
    BY DEF TypeOK, Row
  <2>3. \A j \in Job : minted'[j] \in 0..MaxAttempts /\ settledBy'[j] \in 0..MaxAttempts
    BY LimitsAssumption DEF TypeOK, QueueInv, RowInv
  <2> QED
    BY <2>1, <2>2, <2>3
    DEF Contract!Next, Contract!Phase, Contract!Terminal, Status, TypeOK
<1> QED
  BY <1>1, <1>2, QueueInvariant, PTL DEF Spec, ImplementsLeaseQueue

-----------------------------------------------------------------------------
(* The runner queue in memory: the quota *)

\* A tenant has finitely many active rows, so they and their units can be counted.
LEMMA ActiveIsFinite ==
  ASSUME NEW table, NEW s
  PROVE  /\ IsFiniteSet(ActiveIn(table, s))
         /\ Cardinality(ActiveIn(table, s)) \in Nat
         /\ Units(ActiveIn(table, s)) \in Nat
<1>1. IsFiniteSet(ActiveIn(table, s)) /\ \A j \in ActiveIn(table, s) : UnitsOf[j] \in Nat
  BY JobsAssumption, FS_Subset DEF ActiveIn
<1>2. SumOf(UnitsOf, ActiveIn(table, s)) \in Nat
  BY <1>1, SumOfNat
<1> QED
  BY <1>1, <1>2, FS_CardinalityType DEF Units, SumOf

\* Fewer active rows, of fewer units.
LEMMA FewerActive ==
  ASSUME NEW less, NEW more, NEW s, ActiveIn(less, s) \in SUBSET ActiveIn(more, s)
  PROVE  /\ Cardinality(ActiveIn(less, s)) <= Cardinality(ActiveIn(more, s))
         /\ Units(ActiveIn(less, s)) <= Units(ActiveIn(more, s))
<1>1. \A j \in ActiveIn(more, s) : UnitsOf[j] \in Nat
  BY JobsAssumption DEF ActiveIn
<1>2. SumOf(UnitsOf, ActiveIn(less, s)) <= SumOf(UnitsOf, ActiveIn(more, s))
  BY <1>1, ActiveIsFinite, SumOfPart
<1> QED
  BY <1>2, ActiveIsFinite, FS_Subset DEF Units, SumOf

\* One more active row: one more, and its units.
LEMMA OneMoreActive ==
  ASSUME NEW less, NEW more, NEW s, NEW j \in Job, j \notin ActiveIn(less, s),
         ActiveIn(more, s) = ActiveIn(less, s) \cup {j}
  PROVE  /\ Cardinality(ActiveIn(more, s)) = Cardinality(ActiveIn(less, s)) + 1
         /\ Units(ActiveIn(more, s)) = Units(ActiveIn(less, s)) + UnitsOf[j]
<1>1. UnitsOf[j] \in Int /\ \A i \in ActiveIn(less, s) : UnitsOf[i] \in Int
  BY JobsAssumption DEF ActiveIn
<1>2. SumOf(UnitsOf, ActiveIn(less, s) \cup {j}) = SumOf(UnitsOf, ActiveIn(less, s)) + UnitsOf[j]
  BY <1>1, ActiveIsFinite, SumOfAdd
<1> QED
  BY <1>2, ActiveIsFinite, FS_AddElement DEF Units, SumOf

\* What a scope without overrides keeps to.
ScopeKeeps(s) ==
  (\A j \in Job : ScopeOf[j] = s => overrides[j] = 0) =>
    /\ Cardinality(ActiveIn(jobs, s)) <= RunsMax
    /\ Units(ActiveIn(jobs, s)) <= UnitsMax

\* Only enqueue makes a row active, and it has compared the quota of the row's scope.
LEMMA StepKeepsScope ==
  ASSUME TypeOK, QueueInv, HasQuota, [Next]_vars, NEW s \in Scope, ScopeKeeps(s)
  PROVE  ScopeKeeps(s)'
<1> SUFFICES ASSUME \A j \in Job : ScopeOf[j] = s => overrides'[j] = 0
             PROVE  /\ Cardinality(ActiveIn(jobs', s)) <= RunsMax
                    /\ Units(ActiveIn(jobs', s)) <= UnitsMax
  BY DEF ScopeKeeps
<1>1. \A j \in Job : Moves(j) /\ overrides[j] \in Nat
  BY StepMoves, OrderAssumption DEF TypeOK
<1>2. \A j \in Job : ScopeOf[j] = s => overrides[j] = 0 /\ ~Overruled(j)
  BY <1>1 DEF Moves, Stays, Submitted, Granted, Settles, Expires, Cancelled, Overruled, RowKept
<1>3. /\ Cardinality(ActiveIn(jobs, s)) <= RunsMax
      /\ Units(ActiveIn(jobs, s)) <= UnitsMax
  BY <1>2 DEF ScopeKeeps
<1>4. /\ Cardinality(ActiveIn(jobs, s)) \in Nat /\ Units(ActiveIn(jobs, s)) \in Nat
      /\ Cardinality(ActiveIn(jobs', s)) \in Nat /\ Units(ActiveIn(jobs', s)) \in Nat
      /\ RunsMax \in Nat /\ UnitsMax \in Nat
  BY ActiveIsFinite, LimitsAssumption
<1>5. CASE \A j \in Job : ScopeOf[j] = s => ~Submitted(j)
  <2>1. ActiveIn(jobs', s) \in SUBSET ActiveIn(jobs, s)
    BY <1>1, <1>2, <1>5
    DEF ActiveIn, IsActive, Moves, Stays, Granted, Settles, Expires, Cancelled, Leaves, HasLapsed
  <2>2. /\ Cardinality(ActiveIn(jobs', s)) <= Cardinality(ActiveIn(jobs, s))
        /\ Units(ActiveIn(jobs', s)) <= Units(ActiveIn(jobs, s))
    BY <2>1, FewerActive
  <2> QED
    BY <1>3, <1>4, <2>2
<1>6. ASSUME NEW j \in Job, ScopeOf[j] = s, Submitted(j)
      PROVE  /\ Cardinality(ActiveIn(jobs', s)) <= RunsMax
             /\ Units(ActiveIn(jobs', s)) <= UnitsMax
  <2>1. Enqueue(j)
    <3>1. enq[j] # enq'[j]
      BY <1>6 DEF Submitted
    <3>2. PICK i \in Job : Enqueue(i)
      BY <3>1 DEF Next, vars, Dequeue, Ack, Fail, Settled, Renew, ReapExpired, Cancel, Lapse,
                  OnlyJobs, Requeue, Kill, Overridden
    <3>3. \E answer : enq' = [enq EXCEPT ![i] = answer]
      BY <3>2 DEF Enqueue
    <3>4. i = j
      BY <3>1, <3>3 DEF TypeOK
    <3> QED
      BY <3>2, <3>4
  <2>2. jobs' = [jobs EXCEPT ![j] = NewRow] /\ WithinQuota(jobs, j)
    BY <1>6, <2>1 DEF Enqueue, Submitted, TypeOK
  <2>3. /\ Cardinality(ActiveIn(jobs, s)) < RunsMax
        /\ Units(ActiveIn(jobs, s)) + UnitsOf[j] <= UnitsMax
    BY <1>6, <2>2, JobsAssumption DEF WithinQuota
  <2>4. /\ j \notin ActiveIn(jobs, s)
        /\ ActiveIn(jobs', s) = ActiveIn(jobs, s) \cup {j}
    BY <1>6, <2>2, EmptyRows DEF ActiveIn, IsActive, Submitted, TypeOK
  <2>5. /\ Cardinality(ActiveIn(jobs', s)) = Cardinality(ActiveIn(jobs, s)) + 1
        /\ Units(ActiveIn(jobs', s)) = Units(ActiveIn(jobs, s)) + UnitsOf[j]
    BY <2>4, OneMoreActive
  <2> QED
    BY <1>4, <2>3, <2>5
<1> QED
  BY <1>5, <1>6

\* However jobs are submitted, expire, are reaped, cancelled and overridden: the types, the
\* fences, the limits on attempts, one job per key, and the quota of every tenant whose jobs
\* no operator touched.
THEOREM QueueIsSafe == Spec => []QueueSafety
<1>1. Init => QuotaHolds
  <2> SUFFICES ASSUME Init, NEW s \in Scope
               PROVE  /\ Cardinality(ActiveIn(jobs, s)) <= RunsMax
                      /\ Units(ActiveIn(jobs, s)) <= UnitsMax
    BY DEF QuotaHolds
  <2>1. ActiveIn(jobs, s) = {}
    BY DEF Init, ActiveIn, IsActive, NoRow
  <2>2. Cardinality({}) = 0 /\ Units({}) = 0
    <3>1. SumOf(UnitsOf, {}) = 0
      BY SumOfEmpty
    <3> QED
      BY <3>1, FS_EmptySet DEF Units, SumOf
  <2>3. Cardinality(ActiveIn(jobs, s)) = 0 /\ Units(ActiveIn(jobs, s)) = 0
    BY <2>1, <2>2
  <2> QED
    BY <2>3, LimitsAssumption
<1>2. TypeOK /\ QueueInv /\ QuotaHolds /\ [Next]_vars => QuotaHolds'
  <2> SUFFICES ASSUME TypeOK, QueueInv, QuotaHolds, [Next]_vars, HasQuota, NEW s \in Scope
               PROVE  ScopeKeeps(s)'
    BY DEF QuotaHolds, ScopeKeeps
  <2>1. ScopeKeeps(s)
    BY DEF QuotaHolds, ScopeKeeps
  <2> QED
    BY <2>1, StepKeepsScope
<1>3. Spec => []QuotaHolds
  BY <1>1, <1>2, QueueInvariant, PTL DEF Spec
<1>4. TypeOK /\ QueueInv /\ HolderInv /\ QuotaHolds => QueueSafety
  BY QueueInvSuffices DEF QueueSafety
<1> QED
  BY <1>3, <1>4, QueueInvariant, HolderInvariant, PTL

-----------------------------------------------------------------------------
(* Spans: sequences of numbers *)

Increasing(s) == \A i, j \in 1..Len(s) : i < j => s[i] < s[j]

Before(s, t) == \A x \in ToSet(s), y \in ToSet(t) : x < y

\* The elements of a sequence.
LEMMA Elements ==
  ASSUME NEW s, s \in Seq(Nat)
  PROVE  /\ Len(s) \in Nat /\ (s = <<>> <=> Len(s) = 0)
         /\ \A x : x \in ToSet(s) <=> \E i \in 1..Len(s) : x = s[i]
         /\ \A i \in 1..Len(s) : s[i] \in Nat /\ s[i] \in ToSet(s)
<1>1. Len(s) \in Nat /\ DOMAIN s = 1..Len(s)
  BY LenProperties
<1>2. s = <<>> <=> Len(s) = 0
  BY EmptySeq
<1>3. \A i \in 1..Len(s) : s[i] \in Nat
  BY ElementOfSeq
<1> QED
  BY <1>1, <1>2, <1>3 DEF ToSet

\* A sequence of two parts, one behind the other, has the elements of both.
LEMMA PartsHaveAll ==
  ASSUME NEW s, s \in Seq(Nat), NEW t, t \in Seq(Nat), NEW u, u \in Seq(Nat),
         Len(u) = Len(s) + Len(t),
         \A i \in 1..Len(s) : u[i] = s[i],
         \A i \in 1..Len(t) : u[Len(s) + i] = t[i]
  PROVE  ToSet(u) = ToSet(s) \cup ToSet(t)
<1>1. Len(s) \in Nat /\ Len(t) \in Nat
  BY Elements
<1>2. ASSUME NEW x \in ToSet(u)
      PROVE  x \in ToSet(s) \cup ToSet(t)
  <2>1. \E i \in 1..Len(u) : x = u[i]
    <3>1. \A y : y \in ToSet(u) <=> \E i \in 1..Len(u) : y = u[i]
      BY Elements
    <3> QED
      BY <1>2, <3>1
  <2> PICK i \in 1..Len(u) : x = u[i]
    BY <2>1
  <2>2. CASE i <= Len(s)
    <3>1. i \in 1..Len(s) /\ x = s[i]
      BY <1>1, <2>2
    <3> QED
      BY <3>1, Elements
  <2>3. CASE i > Len(s)
    <3>1. i - Len(s) \in 1..Len(t) /\ i = Len(s) + (i - Len(s))
      BY <1>1, <2>3
    <3>2. x = t[i - Len(s)]
      BY <3>1
    <3> QED
      BY <3>1, <3>2, Elements
  <2> QED
    BY <1>1, <2>2, <2>3
<1>3. ASSUME NEW x \in ToSet(s)
      PROVE  x \in ToSet(u)
  <2>1. PICK i \in 1..Len(s) : x = s[i]
    BY <1>3, Elements
  <2>2. i \in 1..Len(u) /\ x = u[i]
    BY <1>1, <2>1
  <2> QED
    BY <2>2, Elements
<1>4. ASSUME NEW x \in ToSet(t)
      PROVE  x \in ToSet(u)
  <2>1. PICK i \in 1..Len(t) : x = t[i]
    BY <1>4, Elements
  <2>2. Len(s) + i \in 1..Len(u)
    BY <1>1, <2>1
  <2>3. x = u[Len(s) + i]
    BY <2>1
  <2> QED
    BY <2>2, <2>3, Elements
<1> QED
  BY <1>2, <1>3, <1>4

\* It is in order if its parts are, and the first one comes before the second one.
LEMMA PartsAreInOrder ==
  ASSUME NEW s, s \in Seq(Nat), NEW t, t \in Seq(Nat), NEW u, u \in Seq(Nat),
         Len(u) = Len(s) + Len(t),
         \A i \in 1..Len(s) : u[i] = s[i],
         \A i \in 1..Len(t) : u[Len(s) + i] = t[i]
  PROVE  Increasing(u) <=> Increasing(s) /\ Increasing(t) /\ Before(s, t)
<1>1. /\ Len(s) \in Nat /\ Len(t) \in Nat
      /\ 1..Len(s) \subseteq 1..Len(u)
      /\ \A i \in 1..Len(t) : Len(s) + i \in 1..Len(u)
  BY Elements
<1>2. ASSUME Increasing(u)
      PROVE  Increasing(s) /\ Increasing(t) /\ Before(s, t)
  <2>1. ASSUME NEW i \in 1..Len(s), NEW j \in 1..Len(s), i < j
        PROVE  s[i] < s[j]
    <3>1. u[i] < u[j]
      BY <1>1, <1>2, <2>1 DEF Increasing
    <3> QED
      BY <3>1
  <2>2. ASSUME NEW i \in 1..Len(t), NEW j \in 1..Len(t), i < j
        PROVE  t[i] < t[j]
    <3>1. Len(s) + i < Len(s) + j
      BY <1>1, <2>2
    <3>2. u[Len(s) + i] < u[Len(s) + j]
      BY <1>1, <1>2, <3>1 DEF Increasing
    <3> QED
      BY <3>2
  <2>3. ASSUME NEW x \in ToSet(s), NEW y \in ToSet(t)
        PROVE  x < y
    <3>1. PICK i \in 1..Len(s) : x = s[i]
      BY <2>3, Elements
    <3>2. PICK j \in 1..Len(t) : y = t[j]
      BY <2>3, Elements
    <3>3. i < Len(s) + j
      BY <1>1
    <3>4. u[i] < u[Len(s) + j]
      BY <1>1, <1>2, <3>3 DEF Increasing
    <3> QED
      BY <3>1, <3>2, <3>4
  <2> QED
    BY <2>1, <2>2, <2>3 DEF Increasing, Before
<1>3. ASSUME Increasing(s), Increasing(t), Before(s, t)
      PROVE  Increasing(u)
  <2> SUFFICES ASSUME NEW i \in 1..Len(u), NEW j \in 1..Len(u), i < j
               PROVE  u[i] < u[j]
    BY DEF Increasing
  <2>1. CASE j <= Len(s)
    <3>1. i \in 1..Len(s) /\ j \in 1..Len(s)
      BY <1>1, <2>1
    <3>2. s[i] < s[j]
      BY <1>3, <3>1 DEF Increasing
    <3> QED
      BY <3>1, <3>2
  <2>2. CASE i > Len(s)
    <3>1. /\ i - Len(s) \in 1..Len(t) /\ j - Len(s) \in 1..Len(t)
          /\ i - Len(s) < j - Len(s)
          /\ i = Len(s) + (i - Len(s)) /\ j = Len(s) + (j - Len(s))
      BY <1>1, <2>2
    <3>2. t[i - Len(s)] < t[j - Len(s)]
      BY <1>3, <3>1 DEF Increasing
    <3>3. u[i] = t[i - Len(s)] /\ u[j] = t[j - Len(s)]
      BY <3>1
    <3> QED
      BY <3>2, <3>3
  <2>3. CASE i <= Len(s) /\ j > Len(s)
    <3>1. i \in 1..Len(s) /\ j - Len(s) \in 1..Len(t) /\ j = Len(s) + (j - Len(s))
      BY <1>1, <2>3
    <3>2. s[i] \in ToSet(s) /\ t[j - Len(s)] \in ToSet(t)
      BY <3>1, Elements
    <3>3. s[i] < t[j - Len(s)]
      BY <1>3, <3>2 DEF Before
    <3>4. u[i] = s[i] /\ u[j] = t[j - Len(s)]
      BY <3>1
    <3> QED
      BY <3>3, <3>4
  <2> QED
    BY <1>1, <2>1, <2>2, <2>3
<1> QED
  BY <1>2, <1>3

\* What export, a refusal and a batch do to a queue: a number comes behind it, a sequence
\* before it, and it is cut in two.
LEMMA ConcatParts ==
  ASSUME NEW s, s \in Seq(Nat), NEW t, t \in Seq(Nat)
  PROVE  /\ s \o t \in Seq(Nat) /\ Len(s \o t) = Len(s) + Len(t)
         /\ \A i \in 1..Len(s) : (s \o t)[i] = s[i]
         /\ \A i \in 1..Len(t) : (s \o t)[Len(s) + i] = t[i]
         /\ ToSet(s \o t) = ToSet(s) \cup ToSet(t)
         /\ Increasing(s \o t) <=> Increasing(s) /\ Increasing(t) /\ Before(s, t)
<1>1. /\ s \o t \in Seq(Nat) /\ Len(s \o t) = Len(s) + Len(t)
      /\ \A i \in 1..Len(s) + Len(t) :
           (s \o t)[i] = IF i <= Len(s) THEN s[i] ELSE t[i - Len(s)]
  BY ConcatProperties
<1>2. Len(s) \in Nat /\ Len(t) \in Nat
  BY Elements
<1>3. \A i \in 1..Len(s) : (s \o t)[i] = s[i]
  BY <1>1, <1>2
<1>4. ASSUME NEW i \in 1..Len(t)
      PROVE  (s \o t)[Len(s) + i] = t[i]
  <2>1. /\ Len(s) + i \in 1..Len(s) + Len(t) /\ ~(Len(s) + i <= Len(s))
        /\ Len(s) + i - Len(s) = i
    BY <1>2
  <2>2. (s \o t)[Len(s) + i] = t[Len(s) + i - Len(s)]
    BY <1>1, <2>1
  <2> QED
    BY <2>1, <2>2
<1> QED
  BY <1>1, <1>3, <1>4, PartsHaveAll, PartsAreInOrder

LEMMA CutParts ==
  ASSUME NEW s, s \in Seq(Nat), NEW n \in 0..Len(s)
  PROVE  /\ SubSeq(s, 1, n) \in Seq(Nat) /\ Len(SubSeq(s, 1, n)) = n
         /\ SubSeq(s, n + 1, Len(s)) \in Seq(Nat)
         /\ Len(SubSeq(s, n + 1, Len(s))) = Len(s) - n
         /\ s = SubSeq(s, 1, n) \o SubSeq(s, n + 1, Len(s))
<1>1. Len(s) \in Nat /\ n \in Nat /\ n <= Len(s) /\ \A i \in 1..Len(s) : s[i] \in Nat
  BY Elements
<1>2. SubSeq(s, 1, n) \in Seq(Nat) /\ Len(SubSeq(s, 1, n)) = n
  <2>1. \A i \in 1..n : s[i] \in Nat
    BY <1>1
  <2>2. 1 \in Int /\ n \in Int
    BY <1>1
  <2>3. /\ SubSeq(s, 1, n) \in Seq(Nat)
        /\ Len(SubSeq(s, 1, n)) = IF 1 <= n THEN n - 1 + 1 ELSE 0
    BY <2>1, <2>2, SubSeqProperties
  <2> QED
    BY <1>1, <2>3
<1>3. /\ SubSeq(s, n + 1, Len(s)) \in Seq(Nat)
      /\ Len(SubSeq(s, n + 1, Len(s))) = Len(s) - n
  <2>1. \A i \in n + 1..Len(s) : s[i] \in Nat
    BY <1>1
  <2>2. n + 1 \in Int /\ Len(s) \in Int
    BY <1>1
  <2>3. /\ SubSeq(s, n + 1, Len(s)) \in Seq(Nat)
        /\ Len(SubSeq(s, n + 1, Len(s))) =
             IF n + 1 <= Len(s) THEN Len(s) - (n + 1) + 1 ELSE 0
    BY <2>1, <2>2, SubSeqProperties
  <2> QED
    BY <1>1, <2>3
<1>4. SubSeq(s, 1, n) \o SubSeq(s, n + 1, Len(s)) = s
  <2>1. /\ 1 \in 1..Len(s) + 1 /\ n \in 1 - 1..Len(s) /\ Len(s) \in n..Len(s)
    BY <1>1
  <2>2. SubSeq(s, 1, n) \o SubSeq(s, n + 1, Len(s)) = SubSeq(s, 1, Len(s))
    BY <2>1, ConcatAdjacentSubSeq
  <2> QED
    BY <2>2, SubSeqFull
<1> QED
  BY <1>2, <1>3, <1>4

LEMMA Appended ==
  ASSUME NEW s, s \in Seq(Nat), NEW x \in Nat
  PROVE  /\ Append(s, x) \in Seq(Nat) /\ Len(Append(s, x)) = Len(s) + 1
         /\ ToSet(Append(s, x)) = ToSet(s) \cup {x}
         /\ Increasing(Append(s, x)) <=> Increasing(s) /\ \A y \in ToSet(s) : y < x
<1> DEFINE t == <<x>>
<1>1. t \in Seq(Nat) /\ Len(t) = 1 /\ t[1] = x
  OBVIOUS
<1>2. Append(s, x) = s \o t
  BY AppendIsConcat
<1> HIDE DEF t
<1>3. ToSet(t) = {x}
  BY <1>1, Elements
<1>4. Increasing(t)
  BY <1>1 DEF Increasing
<1>5. /\ s \o t \in Seq(Nat) /\ Len(s \o t) = Len(s) + Len(t)
      /\ ToSet(s \o t) = ToSet(s) \cup ToSet(t)
      /\ Increasing(s \o t) <=> Increasing(s) /\ Increasing(t) /\ Before(s, t)
  BY <1>1, ConcatParts
<1>6. Before(s, t) <=> \A y \in ToSet(s) : y < x
  BY <1>3 DEF Before
<1> QED
  BY <1>1, <1>2, <1>3, <1>4, <1>5, <1>6

\* A sequence in order is no longer than its greatest number.
LEMMA IncreasingIsShort ==
  ASSUME NEW s, s \in Seq(Nat), Increasing(s), NEW n \in Nat, ToSet(s) \subseteq 1..n
  PROVE  Len(s) <= n
<1> DEFINE place == [i \in 1..Len(s) |-> s[i]]
<1>1. place \in [1..Len(s) -> 1..n]
  BY Elements
<1>2. ASSUME NEW i \in 1..Len(s), NEW j \in 1..Len(s), place[i] = place[j]
      PROVE  i = j
  <2>1. s[i] = s[j] /\ s[i] \in Nat
    BY <1>2, Elements
  <2>2. ~(i < j) /\ ~(j < i)
    BY <2>1 DEF Increasing
  <2> QED
    BY <2>2, Elements
<1>3. place \in Injection(1..Len(s), 1..n)
  BY <1>1, <1>2 DEF Injection, IsInjective
<1>4. IsFiniteSet(1..n) /\ Cardinality(1..n) = n
  BY FS_Interval
<1>5. Cardinality(1..Len(s)) = Len(s) /\ Len(s) \in Nat
  <2>1. Len(s) \in Nat /\ Len(s) \in Int /\ 1 \in Int
    BY Elements
  <2>2. Cardinality(1..Len(s)) = IF 1 > Len(s) THEN 0 ELSE Len(s) - 1 + 1
    BY <2>1, FS_Interval
  <2> QED
    BY <2>1, <2>2
<1> QED
  BY <1>3, <1>4, <1>5, FS_Injection

LEMMA OfSpans ==
  ASSUME NEW s, s \in Seq(Nat), NEW T, ToSet(s) \subseteq T
  PROVE  s \in Seq(T)
<1>1. s = [i \in 1..Len(s) |-> s[i]] /\ Len(s) \in Nat
  BY LenProperties
<1>2. \A i \in 1..Len(s) : s[i] \in T
  BY Elements
<1> QED
  BY <1>1, <1>2

\* What is cut off a queue that is in order comes before what is kept.
LEMMA CutInOrder ==
  ASSUME NEW s, s \in Seq(Nat), NEW n \in 0..Len(s), Increasing(s)
  PROVE  LET front == SubSeq(s, 1, n)
             rest == SubSeq(s, n + 1, Len(s))
         IN /\ Increasing(front) /\ Increasing(rest) /\ Before(front, rest)
            /\ ToSet(s) = ToSet(front) \cup ToSet(rest)
<1> DEFINE front == SubSeq(s, 1, n)
           rest == SubSeq(s, n + 1, Len(s))
<1>1. front \in Seq(Nat) /\ rest \in Seq(Nat) /\ s = front \o rest
  BY CutParts
<1> HIDE DEF front, rest
<1>2. Increasing(front \o rest)
  BY <1>1
<1>3. /\ Increasing(front) /\ Increasing(rest) /\ Before(front, rest)
      /\ ToSet(front \o rest) = ToSet(front) \cup ToSet(rest)
  BY <1>1, <1>2, ConcatParts
<1> QED
  BY <1>1, <1>3 DEF front, rest

LEMMA KeptIsNewest ==
  ASSUME NEW s, s \in Seq(Nat), Increasing(s)
  PROVE  /\ Kept(s) \in Seq(Nat) /\ Increasing(Kept(s)) /\ Len(Kept(s)) <= MaxQueue
         /\ Len(s) <= MaxQueue => Kept(s) = s
         /\ Len(s) > MaxQueue => Len(Kept(s)) = MaxQueue
         /\ ToSet(Kept(s)) \subseteq ToSet(s)
         /\ \A x \in ToSet(s) \ ToSet(Kept(s)), y \in ToSet(Kept(s)) : x < y
<1>1. Len(s) \in Nat /\ MaxQueue \in Nat
  BY Elements, ExporterAssumption
<1>2. CASE Len(s) <= MaxQueue
  <2>1. Kept(s) = s
    BY <1>1, <1>2 DEF Kept
  <2> QED
    BY <1>1, <1>2, <2>1
<1>3. CASE Len(s) > MaxQueue
  <2> DEFINE n == Len(s) - MaxQueue
  <2>1. n \in 0..Len(s) /\ Len(s) - n = MaxQueue
    BY <1>1, <1>3
  <2>2. Kept(s) = SubSeq(s, n + 1, Len(s))
    BY <1>1, <1>3 DEF Kept, Suffix
  <2> HIDE DEF n
  <2>3. Kept(s) \in Seq(Nat) /\ Len(Kept(s)) = MaxQueue
    BY <2>1, <2>2, CutParts
  <2>4. /\ Increasing(Kept(s)) /\ Before(SubSeq(s, 1, n), Kept(s))
        /\ ToSet(s) = ToSet(SubSeq(s, 1, n)) \cup ToSet(Kept(s))
    BY <2>1, <2>2, CutInOrder
  <2> QED
    BY <1>1, <1>3, <2>3, <2>4 DEF Before
<1> QED
  BY <1>1, <1>2, <1>3

\* A full queue keeps what it has when a batch comes back.
LEMMA FullQueueStays ==
  ASSUME NEW s, s \in Seq(Nat), NEW t, t \in Seq(Nat), Len(t) = MaxQueue
  PROVE  Kept(s \o t) = t
<1>1. /\ Len(s) \in Nat /\ Len(t) \in Nat /\ MaxQueue \in Nat
      /\ s \o t \in Seq(Nat) /\ Len(s \o t) = Len(s) + Len(t)
      /\ \A i \in 1..Len(t) : (s \o t)[Len(s) + i] = t[i]
  <2>1. Len(s) \in Nat /\ Len(t) \in Nat /\ MaxQueue \in Nat
    BY Elements, ExporterAssumption
  <2>2. s \o t \in Seq(Nat) /\ Len(s \o t) = Len(s) + Len(t)
    BY ConcatParts
  <2>3. \A i \in 1..Len(t) : (s \o t)[Len(s) + i] = t[i]
    BY ConcatParts
  <2> QED
    BY <2>1, <2>2, <2>3
<1>2. CASE Len(s) = 0
  <2>1. s = <<>>
    BY <1>2, Elements
  <2>2. s \o t = t
    BY <2>1, ConcatEmptySeq
  <2> QED
    BY <1>1, <2>2 DEF Kept
<1>3. CASE Len(s) > 0
  <2> DEFINE u == s \o t
             n == Len(s)
             w == SubSeq(u, n + 1, Len(u))
  <2>1. n \in 0..Len(u) /\ Len(u) - n = Len(t)
    BY <1>1
  <2>2. Kept(u) = w
    <3>1. Len(u) > MaxQueue /\ Len(u) - MaxQueue + 1 = n + 1
      BY <1>1, <1>3
    <3> HIDE DEF u, n
    <3> QED
      BY <3>1 DEF Kept, Suffix
  <2>3. w \in Seq(Nat) /\ Len(w) = Len(t)
    BY <1>1, <2>1, CutParts
  <2>4. ASSUME NEW i \in 1..Len(t)
        PROVE  w[i] = t[i]
    <3>1. n + 1 \in Int /\ Len(u) \in Int /\ \A k \in n + 1..Len(u) : u[k] \in Nat
      BY <1>1, Elements
    <3>2. \A k \in 1..Len(u) - (n + 1) + 1 : w[k] = u[n + 1 + k - 1]
      BY <3>1, SubSeqProperties
    <3>3. i \in 1..Len(u) - (n + 1) + 1 /\ n + 1 + i - 1 = n + i
      BY <1>1, <2>1
    <3>4. w[i] = u[n + i]
      BY <3>2, <3>3
    <3> QED
      BY <1>1, <3>4
  <2>5. w = t
    BY <2>3, <2>4, SeqEqual
  <2> QED
    BY <2>2, <2>5
<1> QED
  BY <1>1, <1>2, <1>3

-----------------------------------------------------------------------------
(* Spans: the exporter *)

SpanTypes ==
  /\ made \in 0..MaxSpans
  /\ pending \in Seq(Nat) /\ flight \in Seq(Nat) /\ collected \in Seq(Nat)
  /\ Len(flight) <= MaxBatch
  /\ shutdown \in ShutdownState
  /\ shutdown.pc = "await" => flight # <<>>

\* What has arrived, what is under way and what waits are in order, each and together.
SpansInOrder ==
  /\ Increasing(collected) /\ Increasing(flight) /\ Increasing(pending)
  /\ Before(collected, flight) /\ Before(collected, pending) /\ Before(flight, pending)

SpanInv == SpanTypes /\ SpansInOrder /\ SpansAreAccountedFor /\ ExporterInv

\* All spans are numbers up to the number of exports.
LEMMA SpansAreMade ==
  ASSUME SpanInv
  PROVE  /\ made \in Nat /\ made <= MaxSpans /\ MaxSpans \in Nat
         /\ ToSet(pending) \subseteq 1..made /\ ToSet(flight) \subseteq 1..made
         /\ ToSet(collected) \subseteq 1..made
         /\ dropped \subseteq 1..made /\ lost \subseteq 1..made
         /\ 1..made \subseteq Span
<1>1. made \in Nat /\ made <= MaxSpans /\ MaxSpans \in Nat
  BY ExporterAssumption DEF SpanInv, SpanTypes
<1>2. 1..made = ToSet(pending) \cup ToSet(flight) \cup ToSet(collected) \cup dropped \cup lost
  BY DEF SpanInv, SpansAreAccountedFor
<1>3. 1..made \subseteq Span
  BY <1>1 DEF Span
<1> QED
  BY <1>1, <1>2, <1>3

LEMMA SpanInvIsSafe ==
  ASSUME SpanInv
  PROVE  ExporterSafety
<1>1. SpanTypes /\ SpansInOrder /\ SpansAreAccountedFor /\ ExporterInv
  BY DEF SpanInv
<1>2. ExporterTypeOK
  <2>1. /\ ToSet(pending) \subseteq Span /\ ToSet(flight) \subseteq Span
        /\ ToSet(collected) \subseteq Span /\ dropped \subseteq Span /\ lost \subseteq Span
    BY SpansAreMade
  <2>2. pending \in Seq(Span) /\ flight \in Seq(Span) /\ collected \in Seq(Span)
    BY <1>1, <2>1, OfSpans DEF SpanTypes
  <2> QED
    BY <1>1, <2>1, <2>2 DEF SpanTypes, ExporterTypeOK
<1>3. SpansArriveInOrder
  <2> DEFINE waiting == flight \o pending
  <2>1. /\ waiting \in Seq(Nat) /\ Increasing(waiting)
        /\ ToSet(waiting) = ToSet(flight) \cup ToSet(pending)
    BY <1>1, ConcatParts DEF SpanTypes, SpansInOrder
  <2> HIDE DEF waiting
  <2>2. ASSUME waiting # <<>>, collected # <<>>
        PROVE  Last(collected) < waiting[1]
    <3>1. 1 \in 1..Len(waiting)
      BY <2>1, <2>2, Elements
    <3>2. waiting[1] \in ToSet(flight) \cup ToSet(pending)
      BY <2>1, <3>1, Elements
    <3>3. collected \in Seq(Nat)
      BY <1>1 DEF SpanTypes
    <3>4. Len(collected) \in 1..Len(collected)
      BY <2>2, <3>3, Elements
    <3>5. Last(collected) \in ToSet(collected)
      BY <3>3, <3>4, Elements DEF Last
    <3> QED
      BY <1>1, <3>2, <3>5 DEF SpansInOrder, Before
  <2>3. \A i, j \in 1..Len(waiting) : i < j => waiting[i] < waiting[j]
    BY <2>1 DEF Increasing
  <2>4. \A i, j \in 1..Len(collected) : i < j => collected[i] < collected[j]
    BY <1>1 DEF SpansInOrder, Increasing
  <2> QED
    BY <2>2, <2>3, <2>4 DEF SpansArriveInOrder, waiting
<1> QED
  BY <1>1, <1>2, <1>3 DEF ExporterSafety

\* As many batches as shutdown sends are enough for a full queue.
LEMMA BatchesWillDo ==
  MaxBatches \in Nat /\ MaxQueue <= MaxBatches * MaxBatch
<1> DEFINE n == MaxQueue + MaxBatch - 1
           q == n \div MaxBatch
<1>1. MaxQueue \in Nat /\ MaxBatch \in Nat /\ MaxBatch > 0
  BY ExporterAssumption
<1>2. n \in Nat
  BY <1>1
<1>3. n = MaxQueue + MaxBatch - 1
  OBVIOUS
<1>4. q \in Int /\ n < MaxBatch * q + MaxBatch /\ MaxBatch * q <= n
  <2> HIDE DEF n
  <2>1. q \in Int /\ n = MaxBatch * q + (n % MaxBatch) /\ n % MaxBatch \in 0..MaxBatch - 1
    BY <1>1, <1>2
  <2> DEFINE r == n % MaxBatch
             m == MaxBatch * q
  <2>2. n = m + r /\ r \in 0..MaxBatch - 1 /\ m \in Int
    BY <1>1, <2>1
  <2> HIDE DEF r, m
  <2>3. n < m + MaxBatch /\ m <= n
    BY <1>1, <1>2, <2>2
  <2> QED
    BY <2>1, <2>3 DEF m
<1>5. MaxBatches = q
  BY DEF MaxBatches
<1> HIDE DEF n, q
<1>6. MaxBatch * q \in Int /\ MaxBatch * q = q * MaxBatch
  BY <1>1, <1>4
<1>7. MaxQueue <= q * MaxBatch
  <2> DEFINE m == MaxBatch * q
  <2>1. m \in Int /\ n < m + MaxBatch
    BY <1>4, <1>6
  <2> HIDE DEF m
  <2>2. MaxQueue <= m
    BY <1>1, <1>3, <2>1
  <2> QED
    BY <1>6, <2>2 DEF m
<1>8. q \in Nat
  <2>1. q >= 0
    <3>1. CASE q < 0
      <4>1. MaxBatch * q + MaxBatch <= 0
        BY <1>1, <1>4, <3>1
      <4> QED
        BY <1>1, <1>2, <1>4, <1>6, <4>1
    <3> QED
      BY <1>4, <3>1
  <2> QED
    BY <1>4, <2>1
<1> QED
  BY <1>5, <1>7, <1>8

LEMMA EmptyIsInOrder ==
  ASSUME NEW s, s = <<>>
  PROVE  s \in Seq(Nat) /\ Len(s) = 0 /\ ToSet(s) = {} /\ Increasing(s)
<1>1. s \in Seq(Nat) /\ Len(s) = 0 /\ 1..Len(s) = {}
  OBVIOUS
<1>2. \A x : x \in ToSet(s) <=> \E i \in 1..Len(s) : x = s[i]
  BY <1>1, Elements
<1> QED
  BY <1>1, <1>2 DEF Increasing

LEMMA SpansBegin == ExporterInit => SpanInv
<1> SUFFICES ASSUME ExporterInit PROVE SpanInv
  OBVIOUS
<1>1. /\ made = 0 /\ pending = <<>> /\ flight = <<>> /\ collected = <<>>
      /\ dropped = {} /\ lost = {} /\ shutdown.pc = "not-called"
  BY DEF ExporterInit
<1>2. MaxBatches \in Nat /\ MaxSpans \in Nat /\ MaxQueue \in Nat /\ MaxBatch \in Nat
  BY BatchesWillDo, ExporterAssumption
<1>3. shutdown \in ShutdownState
  BY <1>2 DEF ExporterInit, ShutdownState
<1>4. /\ pending \in Seq(Nat) /\ Len(pending) = 0 /\ ToSet(pending) = {} /\ Increasing(pending)
      /\ flight \in Seq(Nat) /\ Len(flight) = 0 /\ ToSet(flight) = {} /\ Increasing(flight)
      /\ collected \in Seq(Nat) /\ ToSet(collected) = {} /\ Increasing(collected)
  BY <1>1, EmptyIsInOrder
<1>5. SpanTypes
  BY <1>1, <1>2, <1>3, <1>4 DEF SpanTypes
<1>6. SpansInOrder
  BY <1>4 DEF SpansInOrder, Before
<1>7. 1..made = {}
  BY <1>1
<1>8. SpansAreAccountedFor
  BY <1>1, <1>2, <1>4, <1>7 DEF SpansAreAccountedFor
<1>9. ExporterInv
  BY <1>1, <1>4 DEF ExporterInv
<1> QED
  BY <1>5, <1>6, <1>8, <1>9 DEF SpanInv

\* A queue that gets another content: what must go is older than what stays, and it goes
\* only when the queue stays full.
LEMMA Refilled ==
  ASSUME NEW s, s \in Seq(Nat), Increasing(s), Refill(s)
  PROVE  /\ pending' \in Seq(Nat) /\ Increasing(pending') /\ Len(pending') <= MaxQueue
         /\ ToSet(pending') \subseteq ToSet(s)
         /\ dropped' \cup ToSet(pending') = dropped \cup ToSet(s)
         /\ dropped' \subseteq dropped \cup ToSet(s)
         /\ \A x \in dropped' \ dropped :
              /\ Len(pending') = MaxQueue
              /\ \A y \in ToSet(pending') : x < y
         /\ Len(s) <= MaxQueue => pending' = s
         /\ Len(s) > MaxQueue => Len(pending') = MaxQueue
<1>1. pending' = Kept(s) /\ dropped' = dropped \cup (ToSet(s) \ ToSet(Kept(s)))
  BY DEF Refill
<1>2. /\ Kept(s) \in Seq(Nat) /\ Increasing(Kept(s)) /\ Len(Kept(s)) <= MaxQueue
      /\ Len(s) <= MaxQueue => Kept(s) = s
      /\ Len(s) > MaxQueue => Len(Kept(s)) = MaxQueue
      /\ ToSet(Kept(s)) \subseteq ToSet(s)
      /\ \A x \in ToSet(s) \ ToSet(Kept(s)), y \in ToSet(Kept(s)) : x < y
  BY KeptIsNewest
<1>3. Len(s) <= MaxQueue \/ Len(s) > MaxQueue
  BY Elements, ExporterAssumption
<1> QED
  BY <1>1, <1>2, <1>3

\* A batch is the front of the queue.
LEMMA BatchTaken ==
  ASSUME NEW p, p = pending, p \in Seq(Nat), p # <<>>, Increasing(p), TakeBatch
  PROVE  /\ flight' \in Seq(Nat) /\ flight' # <<>> /\ Len(flight') <= MaxBatch
         /\ pending' \in Seq(Nat)
         /\ Increasing(flight') /\ Increasing(pending') /\ Before(flight', pending')
         /\ ToSet(p) = ToSet(flight') \cup ToSet(pending')
         /\ Len(pending') = IF Len(p) > MaxBatch THEN Len(p) - MaxBatch ELSE 0
<1> DEFINE n == IF Len(p) > MaxBatch THEN MaxBatch ELSE Len(p)
<1>1. Len(p) \in Nat \ {0} /\ MaxBatch \in Nat \ {0}
  BY Elements, ExporterAssumption
<1>2. /\ n \in 0..Len(p) /\ n > 0 /\ n <= MaxBatch
      /\ Len(p) - n = IF Len(p) > MaxBatch THEN Len(p) - MaxBatch ELSE 0
  BY <1>1
<1>3. Batch = SubSeq(p, 1, n)
  BY DEF Batch
<1> HIDE DEF n
<1>4. /\ SubSeq(p, 1, n) \in Seq(Nat) /\ Len(SubSeq(p, 1, n)) = n
      /\ SubSeq(p, n + 1, Len(p)) \in Seq(Nat)
      /\ Len(SubSeq(p, n + 1, Len(p))) = Len(p) - n
  BY <1>2, CutParts
<1>5. flight' = SubSeq(p, 1, n) /\ pending' = SubSeq(p, n + 1, Len(p))
  BY <1>3, <1>4 DEF TakeBatch
<1>6. /\ Increasing(SubSeq(p, 1, n)) /\ Increasing(SubSeq(p, n + 1, Len(p)))
      /\ Before(SubSeq(p, 1, n), SubSeq(p, n + 1, Len(p)))
      /\ ToSet(p) = ToSet(SubSeq(p, 1, n)) \cup ToSet(SubSeq(p, n + 1, Len(p)))
  BY <1>2, CutInOrder
<1>7. SubSeq(p, 1, n) # <<>>
  BY <1>2, <1>4, Elements
<1> QED
  BY <1>2, <1>4, <1>5, <1>6, <1>7

LEMMA SpansAreExported ==
  ASSUME SpanInv, Export
  PROVE  SpanInv'
<1> DEFINE x == made + 1
           s == Append(pending, x)
<1>1. /\ SpanTypes /\ SpansInOrder /\ SpansAreAccountedFor /\ ExporterInv
      /\ pending \in Seq(Nat) /\ flight \in Seq(Nat) /\ collected \in Seq(Nat)
      /\ shutdown \in ShutdownState
  BY DEF SpanInv, SpanTypes
<1>2. /\ made \in Nat /\ x \in Nat /\ x <= MaxSpans /\ MaxSpans \in Nat
      /\ \A y \in 1..made : y \in Nat /\ y < x
      /\ 1..x = 1..made \cup {x}
  BY SpansAreMade DEF Export
<1>3. /\ made' = x /\ Refill(s) /\ flight' = flight /\ collected' = collected /\ lost' = lost
      /\ shutdown' = [shutdown EXCEPT !.grown = shutdown.pc \in {"loop", "await"}]
  BY DEF Export
<1> HIDE DEF x
<1>4. /\ ToSet(pending) \subseteq 1..made /\ ToSet(flight) \subseteq 1..made
      /\ ToSet(collected) \subseteq 1..made /\ dropped \subseteq 1..made
  BY SpansAreMade
<1>5. Increasing(pending)
  BY <1>1 DEF SpansInOrder
<1>6. /\ s \in Seq(Nat) /\ Len(s) = Len(pending) + 1
      /\ ToSet(s) = ToSet(pending) \cup {x} /\ Increasing(s)
  BY <1>1, <1>2, <1>4, <1>5, Appended
<1> HIDE DEF s
<1>7. /\ pending' \in Seq(Nat) /\ Increasing(pending') /\ Len(pending') <= MaxQueue
      /\ ToSet(pending') \subseteq ToSet(s)
      /\ dropped' \cup ToSet(pending') = dropped \cup ToSet(s)
      /\ dropped' \subseteq dropped \cup ToSet(s)
      /\ \A y \in dropped' \ dropped :
           /\ Len(pending') = MaxQueue
           /\ \A z \in ToSet(pending') : y < z
      /\ Len(s) > MaxQueue => Len(pending') = MaxQueue
  BY <1>3, <1>6, Refilled
<1>8. /\ shutdown' \in ShutdownState /\ shutdown'.pc = shutdown.pc
      /\ shutdown'.exported = shutdown.exported /\ shutdown'.already = shutdown.already
      /\ shutdown'.joined = shutdown.joined
      /\ shutdown'.grown = (shutdown.pc \in {"loop", "await"})
  <2> DEFINE now == shutdown.pc \in {"loop", "await"}
  <2>1. now \in BOOLEAN /\ shutdown' = [shutdown EXCEPT !.grown = now]
    BY <1>3
  <2> HIDE DEF now
  <2>2. /\ shutdown' \in ShutdownState /\ shutdown'.pc = shutdown.pc
        /\ shutdown'.exported = shutdown.exported /\ shutdown'.already = shutdown.already
        /\ shutdown'.joined = shutdown.joined /\ shutdown'.grown = now
    BY <1>1, <2>1 DEF ShutdownState
  <2> QED
    BY <2>2 DEF now
<1>9. SpanTypes'
  BY <1>1, <1>2, <1>3, <1>7, <1>8 DEF SpanTypes
<1>10. SpansInOrder'
  <2>1. ASSUME NEW y \in ToSet(flight) \cup ToSet(collected), NEW z \in ToSet(pending')
        PROVE  y < z
    <3>1. y < x
      BY <1>2, <1>4
    <3>2. z \in ToSet(pending) => y < z
      BY <1>1 DEF SpansInOrder, Before
    <3> QED
      BY <1>6, <1>7, <3>1, <3>2
  <2> QED
    BY <1>1, <1>3, <1>7, <2>1 DEF SpansInOrder, Before
<1>11. SpansAreAccountedFor'
  <2>1. 1..made = ToSet(pending) \cup ToSet(flight) \cup ToSet(collected) \cup dropped \cup lost
    BY <1>1 DEF SpansAreAccountedFor
  <2>2. 1..made' = ToSet(pending') \cup ToSet(flight) \cup ToSet(collected)
                     \cup dropped' \cup lost
    BY <1>2, <1>3, <1>6, <1>7, <2>1
  <2>3. ASSUME NEW y \in dropped', NEW z \in ToSet(pending')
        PROVE  y < z
    <3>1. CASE y \in dropped' \ dropped
      BY <1>7, <3>1
    <3>2. CASE y \in dropped
      <4>1. y < x
        BY <1>2, <1>4, <3>2
      <4>2. z \in ToSet(pending) => y < z
        BY <1>1, <3>2 DEF SpansAreAccountedFor
      <4> QED
        BY <1>6, <1>7, <4>1, <4>2
    <3> QED
      BY <3>1, <3>2
  <2> QED
    BY <1>3, <1>7, <2>2, <2>3 DEF SpansAreAccountedFor
<1>12. ExporterInv'
  <2>1. ASSUME NEW y \in dropped', NEW sent \in ToSet(flight)
        PROVE  y < sent \/ Len(pending') = MaxQueue
    <3>1. CASE y \in dropped' \ dropped
      BY <1>7, <3>1
    <3>2. CASE y \in dropped /\ Len(pending) = MaxQueue
      <4>1. Len(s) > MaxQueue
        BY <1>6, <3>2, ExporterAssumption
      <4> QED
        BY <1>7, <4>1
    <3>3. CASE y \in dropped /\ Len(pending) # MaxQueue
      BY <1>1, <3>3 DEF ExporterInv
    <3> QED
      BY <3>1, <3>2, <3>3
  <2> QED
    BY <1>1, <1>3, <1>8, <2>1 DEF ExporterInv
<1> QED
  BY <1>9, <1>10, <1>11, <1>12 DEF SpanInv

\* A batch is taken when none is under way: what it needs of the queue to be in order again.
LEMMA BatchInOrder ==
  ASSUME SpanInv, flight = <<>>, pending # <<>>, TakeBatch,
         UNCHANGED <<made, collected, dropped, lost>>
  PROVE  /\ SpansInOrder' /\ SpansAreAccountedFor'
         /\ made' \in 0..MaxSpans /\ pending' \in Seq(Nat) /\ collected' \in Seq(Nat)
         /\ flight' \in Seq(Nat) /\ flight' # <<>> /\ Len(flight') <= MaxBatch
         /\ \A old \in dropped', sent \in ToSet(flight') : old < sent
         /\ Len(pending') = IF Len(pending) > MaxBatch THEN Len(pending) - MaxBatch ELSE 0
<1>1. /\ SpanTypes /\ SpansInOrder /\ SpansAreAccountedFor /\ ExporterInv
      /\ pending \in Seq(Nat) /\ collected \in Seq(Nat) /\ made \in 0..MaxSpans
      /\ Increasing(pending) /\ Increasing(collected) /\ Before(collected, pending)
  BY DEF SpanInv, SpanTypes, SpansInOrder
<1>2. /\ flight' \in Seq(Nat) /\ flight' # <<>> /\ Len(flight') <= MaxBatch
      /\ pending' \in Seq(Nat)
      /\ Increasing(flight') /\ Increasing(pending') /\ Before(flight', pending')
      /\ ToSet(pending) = ToSet(flight') \cup ToSet(pending')
      /\ Len(pending') = IF Len(pending) > MaxBatch THEN Len(pending) - MaxBatch ELSE 0
  BY <1>1, BatchTaken
<1>3. ToSet(flight) = {}
  BY EmptySeq DEF ToSet
<1>4. /\ Len(pending) <= MaxQueue
      /\ 1..made = ToSet(pending) \cup ToSet(flight) \cup ToSet(collected) \cup dropped \cup lost
      /\ \A old \in dropped, new \in ToSet(pending) : old < new
  BY <1>1 DEF SpansAreAccountedFor
<1>5. Len(pending') <= MaxQueue
  <2>1. Len(pending) \in Nat /\ MaxBatch \in Nat /\ MaxQueue \in Nat
    BY <1>1, Elements, ExporterAssumption
  <2> QED
    BY <1>2, <1>4, <2>1
<1>6. SpansInOrder'
  BY <1>1, <1>2 DEF SpansInOrder, Before
<1>7. SpansAreAccountedFor'
  BY <1>2, <1>3, <1>4, <1>5 DEF SpansAreAccountedFor
<1> QED
  BY <1>1, <1>2, <1>4, <1>6, <1>7

LEMMA SpansAreFlushed ==
  ASSUME SpanInv, Flush
  PROVE  SpanInv'
<1>1. /\ flight = <<>> /\ pending # <<>> /\ TakeBatch /\ shutdown' = shutdown
      /\ UNCHANGED <<made, collected, dropped, lost>> /\ shutdown.pc = "not-called"
  BY DEF Flush, MayStart
<1>2. /\ SpansInOrder' /\ SpansAreAccountedFor'
      /\ made' \in 0..MaxSpans /\ pending' \in Seq(Nat) /\ collected' \in Seq(Nat)
      /\ flight' \in Seq(Nat) /\ flight' # <<>> /\ Len(flight') <= MaxBatch
      /\ \A old \in dropped', sent \in ToSet(flight') : old < sent
  BY <1>1, BatchInOrder
<1>3. SpanTypes'
  BY <1>1, <1>2 DEF SpanInv, SpanTypes
<1>4. ExporterInv'
  BY <1>1, <1>2 DEF ExporterInv
<1> QED
  BY <1>2, <1>3, <1>4 DEF SpanInv

LEMMA BatchLeavesRoom ==
  ASSUME NEW n \in Nat, NEW left \in Nat \ {0}, NEW size \in Nat \ {0}, n <= left * size
  PROVE  (IF n > size THEN n - size ELSE 0) <= (left - 1) * size
<1> DEFINE m == left * size
           k == (left - 1) * size
<1>1. m \in Nat /\ k \in Nat /\ k = m - size
  OBVIOUS
<1>2. n <= m
  OBVIOUS
<1> HIDE DEF m, k
<1>3. (IF n > size THEN n - size ELSE 0) <= k
  BY <1>1, <1>2
<1> QED
  BY <1>3 DEF k

LEMMA ShutdownGoesOn ==
  ASSUME SpanInv, ShutdownFlushes
  PROVE  SpanInv'
<1>1. /\ SpanTypes /\ SpansInOrder /\ SpansAreAccountedFor /\ ExporterInv
      /\ shutdown \in ShutdownState /\ pending \in Seq(Nat)
  BY DEF SpanInv, SpanTypes
<1>2. /\ shutdown.pc = "loop" /\ shutdown.left > 0 /\ pending # <<>>
      /\ shutdown' = [shutdown EXCEPT !.pc = "await", !.left = @ - 1]
      /\ IF flight = <<>> THEN TakeBatch ELSE UNCHANGED <<pending, flight>>
      /\ UNCHANGED <<made, collected, dropped, lost>>
  BY DEF ShutdownFlushes
<1>3. shutdown.left \in Nat \ {0} /\ shutdown.left - 1 \in 0..MaxBatches
  BY <1>1, <1>2, BatchesWillDo DEF ShutdownState
<1>4. /\ shutdown' \in ShutdownState /\ shutdown'.pc = "await"
      /\ shutdown'.left = shutdown.left - 1
      /\ shutdown'.exported = shutdown.exported /\ shutdown'.already = shutdown.already
      /\ shutdown'.joined = shutdown.joined /\ shutdown'.grown = shutdown.grown
  BY <1>1, <1>2, <1>3 DEF ShutdownState
<1>5. /\ shutdown.exported + shutdown.already = Len(collected)
      /\ shutdown.joined \/ shutdown.grown \/ Len(pending) <= shutdown.left * MaxBatch
      /\ shutdown.joined \/ flight = <<>>
  BY <1>1, <1>2 DEF ExporterInv
<1>6. CASE flight = <<>>
  <2>1. /\ SpansInOrder' /\ SpansAreAccountedFor'
        /\ made' \in 0..MaxSpans /\ pending' \in Seq(Nat) /\ collected' \in Seq(Nat)
        /\ flight' \in Seq(Nat) /\ flight' # <<>> /\ Len(flight') <= MaxBatch
        /\ \A old \in dropped', sent \in ToSet(flight') : old < sent
        /\ Len(pending') = IF Len(pending) > MaxBatch THEN Len(pending) - MaxBatch ELSE 0
    BY <1>2, <1>6, BatchInOrder
  <2>2. SpanTypes'
    BY <1>4, <2>1 DEF SpanTypes
  <2>3. ASSUME ~shutdown'.joined, ~shutdown'.grown
        PROVE  Len(pending') <= shutdown'.left * MaxBatch
    <3>1. Len(pending) \in Nat /\ MaxBatch \in Nat \ {0}
      BY <1>1, Elements, ExporterAssumption
    <3>2. Len(pending) <= shutdown.left * MaxBatch
      BY <1>4, <1>5, <2>3
    <3>3. (IF Len(pending) > MaxBatch THEN Len(pending) - MaxBatch ELSE 0)
            <= (shutdown.left - 1) * MaxBatch
      BY <1>3, <3>1, <3>2, BatchLeavesRoom
    <3> QED
      BY <1>4, <2>1, <3>3
  <2>4. ExporterInv'
    BY <1>2, <1>4, <1>5, <2>1, <2>3 DEF ExporterInv
  <2> QED
    BY <2>1, <2>2, <2>4 DEF SpanInv
<1>7. CASE flight # <<>>
  <2>1. /\ pending' = pending /\ flight' = flight /\ made' = made /\ collected' = collected
        /\ dropped' = dropped /\ lost' = lost
    BY <1>2, <1>7
  <2>2. SpanTypes'
    BY <1>1, <1>4, <1>7, <2>1 DEF SpanTypes
  <2>3. SpansInOrder' /\ SpansAreAccountedFor'
    BY <1>1, <2>1 DEF SpansInOrder, SpansAreAccountedFor
  <2>4. ExporterInv'
    BY <1>1, <1>2, <1>4, <1>5, <1>7, <2>1 DEF ExporterInv
  <2> QED
    BY <2>2, <2>3, <2>4 DEF SpanInv
<1> QED
  BY <1>6, <1>7

\* A batch that arrives comes behind what has arrived, and before what waits.
LEMMA BatchArrives ==
  ASSUME SpanInv, NEW c, c = collected \o flight
  PROVE  /\ c \in Seq(Nat) /\ Increasing(c) /\ Before(c, pending)
         /\ ToSet(c) = ToSet(collected) \cup ToSet(flight)
         /\ Len(c) = Len(collected) + Len(flight) /\ Len(c) <= MaxSpans
<1>1. /\ collected \in Seq(Nat) /\ flight \in Seq(Nat)
      /\ Increasing(collected) /\ Increasing(flight) /\ Before(collected, flight)
      /\ Before(collected, pending) /\ Before(flight, pending)
  BY DEF SpanInv, SpanTypes, SpansInOrder
<1>2. /\ c \in Seq(Nat) /\ Increasing(c) /\ ToSet(c) = ToSet(collected) \cup ToSet(flight)
      /\ Len(c) = Len(collected) + Len(flight)
  BY <1>1, ConcatParts
<1>3. /\ ToSet(collected) \subseteq 1..made /\ ToSet(flight) \subseteq 1..made
      /\ made \in Nat /\ made <= MaxSpans /\ MaxSpans \in Nat
  BY SpansAreMade
<1>4. ToSet(c) \subseteq 1..made
  BY <1>2, <1>3
<1>5. Len(c) <= made /\ Len(c) \in Nat
  BY <1>2, <1>3, <1>4, IncreasingIsShort, Elements
<1>6. Len(c) <= MaxSpans
  BY <1>3, <1>5
<1> QED
  BY <1>1, <1>2, <1>6 DEF Before

\* What the end of a flush makes of shutdown().
LEMMA ShutdownAnswered ==
  ASSUME SpanInv, NEW ok \in BOOLEAN, FlushEnds(ok)
  PROVE  /\ shutdown' \in ShutdownState /\ shutdown'.pc # "await"
         /\ shutdown'.pc = "loop" =>
              /\ ok /\ shutdown.pc = "await"
              /\ shutdown'.exported = shutdown.exported + Len(flight)
              /\ shutdown'.already = shutdown.already
              /\ shutdown'.left = shutdown.left
              /\ shutdown'.joined = shutdown.joined /\ shutdown'.grown = shutdown.grown
<1>1. shutdown \in ShutdownState /\ shutdown.pc # "loop" /\ Len(flight) \in Nat
  BY Elements DEF SpanInv, SpanTypes, FlushEnds, Responsive
<1>2. CASE shutdown.pc # "await"
  BY <1>1, <1>2 DEF FlushEnds
<1>3. CASE shutdown.pc = "await" /\ ~ok
  <2>1. shutdown' = [shutdown EXCEPT !.pc = "failed"]
    BY <1>3 DEF FlushEnds
  <2> QED
    BY <1>1, <2>1 DEF ShutdownState
<1>4. CASE shutdown.pc = "await" /\ ok
  <2>1. shutdown' = [shutdown EXCEPT !.pc = "loop", !.exported = @ + Len(flight)]
    BY <1>4 DEF FlushEnds
  <2>2. /\ shutdown.exported + shutdown.already = Len(collected)
        /\ shutdown.exported \in Nat /\ shutdown.already \in Nat /\ MaxSpans \in Nat
    BY <1>1, <1>4, ExporterAssumption DEF SpanInv, ExporterInv, ShutdownState
  <2>3. Len(collected) + Len(flight) <= MaxSpans
    <3>1. \A c : c = collected \o flight =>
            Len(c) = Len(collected) + Len(flight) /\ Len(c) <= MaxSpans
      BY BatchArrives
    <3> QED
      BY <3>1
  <2>4. shutdown.exported + Len(flight) \in 0..MaxSpans
    BY <1>1, <2>2, <2>3
  <2> QED
    BY <1>1, <1>4, <2>1, <2>4 DEF ShutdownState
<1> QED
  BY <1>2, <1>3, <1>4

LEMMA CountsAgree ==
  ASSUME NEW m \in Nat, NEW n \in Nat, NEW k \in Nat, NEW more \in Nat, m + n = k
  PROVE  m + more + n = k + more
OBVIOUS

LEMMA SpansAreAccepted ==
  ASSUME SpanInv, Accepted
  PROVE  SpanInv'
<1> DEFINE c == collected \o flight
<1>1. /\ SpanTypes /\ SpansInOrder /\ SpansAreAccountedFor /\ ExporterInv
      /\ collected \in Seq(Nat) /\ flight \in Seq(Nat)
  BY DEF SpanInv, SpanTypes
<1>2. /\ FlushEnds(TRUE) /\ collected' = c /\ flight' = <<>> /\ made' = made
      /\ pending' = pending /\ dropped' = dropped /\ lost' = lost
  BY DEF Accepted, FlushEnds
<1>3. /\ c \in Seq(Nat) /\ Increasing(c) /\ Before(c, pending)
      /\ ToSet(c) = ToSet(collected) \cup ToSet(flight)
      /\ Len(c) = Len(collected) + Len(flight) /\ Len(c) <= MaxSpans
  BY BatchArrives
<1> HIDE DEF c
<1>4. flight' \in Seq(Nat) /\ Len(flight') = 0 /\ ToSet(flight') = {} /\ Increasing(flight')
  BY <1>2, EmptyIsInOrder
<1>5. /\ shutdown' \in ShutdownState /\ shutdown'.pc # "await"
      /\ shutdown'.pc = "loop" =>
           /\ shutdown.pc = "await"
           /\ shutdown'.exported = shutdown.exported + Len(flight)
           /\ shutdown'.already = shutdown.already
           /\ shutdown'.left = shutdown.left
           /\ shutdown'.joined = shutdown.joined /\ shutdown'.grown = shutdown.grown
  BY <1>2, ShutdownAnswered
<1>6. SpanTypes'
  BY <1>1, <1>2, <1>3, <1>4, <1>5, ExporterAssumption DEF SpanTypes
<1>7. SpansInOrder'
  BY <1>1, <1>2, <1>3, <1>4 DEF SpansInOrder, Before
<1>8. SpansAreAccountedFor'
  BY <1>1, <1>2, <1>3, <1>4 DEF SpansAreAccountedFor
<1>9. ExporterInv'
  <2>1. ASSUME shutdown'.pc = "loop"
        PROVE  /\ shutdown'.exported + shutdown'.already = Len(collected')
               /\ \/ shutdown'.joined \/ shutdown'.grown
                  \/ Len(pending') <= shutdown'.left * MaxBatch
    <3>1. /\ shutdown.exported + shutdown.already = Len(collected)
          /\ shutdown.joined \/ shutdown.grown \/ Len(pending) <= shutdown.left * MaxBatch
      BY <1>1, <1>5, <2>1 DEF ExporterInv
    <3>2. /\ shutdown.exported \in Nat /\ shutdown.already \in Nat
          /\ Len(collected) \in Nat /\ Len(flight) \in Nat
      BY <1>1, Elements DEF SpanTypes, ShutdownState
    <3>3. shutdown.exported + Len(flight) + shutdown.already = Len(collected) + Len(flight)
      BY <3>1, <3>2, CountsAgree
    <3> QED
      BY <1>2, <1>3, <1>5, <2>1, <3>1, <3>3
  <2> QED
    BY <1>2, <1>4, <1>5, <2>1 DEF ExporterInv
<1> QED
  BY <1>6, <1>7, <1>8, <1>9 DEF SpanInv

LEMMA SpansAreUnanswered ==
  ASSUME SpanInv, Unanswered
  PROVE  SpanInv'
<1>1. /\ SpanTypes /\ SpansInOrder /\ SpansAreAccountedFor /\ ExporterInv
      /\ collected \in Seq(Nat) /\ flight \in Seq(Nat)
  BY DEF SpanInv, SpanTypes
<1>2. /\ FlushEnds(FALSE) /\ flight' = <<>> /\ made' = made
      /\ pending' = pending /\ dropped' = dropped /\ lost' = lost \cup ToSet(flight)
      /\ collected' = collected \/ collected' = collected \o flight
  BY DEF Unanswered, FlushEnds
<1>3. flight' \in Seq(Nat) /\ Len(flight') = 0 /\ ToSet(flight') = {} /\ Increasing(flight')
  BY <1>2, EmptyIsInOrder
<1>4. shutdown' \in ShutdownState /\ shutdown'.pc \notin {"await", "loop"}
  BY <1>2, ShutdownAnswered
<1>5. /\ collected' \in Seq(Nat) /\ Increasing(collected') /\ Before(collected', pending)
      /\ ToSet(collected') \in {ToSet(collected), ToSet(collected) \cup ToSet(flight)}
  <2>1. CASE collected' = collected
    BY <1>1, <2>1 DEF SpansInOrder
  <2>2. CASE collected' = collected \o flight
    <3>1. \A c : c = collected \o flight =>
            /\ c \in Seq(Nat) /\ Increasing(c) /\ Before(c, pending)
            /\ ToSet(c) = ToSet(collected) \cup ToSet(flight)
      BY BatchArrives
    <3> QED
      BY <2>2, <3>1
  <2> QED
    BY <1>2, <2>1, <2>2
<1>6. SpanTypes'
  BY <1>1, <1>2, <1>3, <1>4, <1>5, ExporterAssumption DEF SpanTypes
<1>7. SpansInOrder'
  BY <1>1, <1>2, <1>3, <1>5 DEF SpansInOrder, Before
<1>8. SpansAreAccountedFor'
  BY <1>1, <1>2, <1>3, <1>5 DEF SpansAreAccountedFor
<1>9. ExporterInv'
  BY <1>3, <1>4 DEF ExporterInv
<1> QED
  BY <1>6, <1>7, <1>8, <1>9 DEF SpanInv

LEMMA SpansAreRefused ==
  ASSUME SpanInv, Refused
  PROVE  SpanInv'
<1> DEFINE s == flight \o pending
<1>1. /\ SpanTypes /\ SpansInOrder /\ SpansAreAccountedFor /\ ExporterInv
      /\ pending \in Seq(Nat) /\ flight \in Seq(Nat) /\ collected \in Seq(Nat)
  BY DEF SpanInv, SpanTypes
<1>2. /\ FlushEnds(FALSE) /\ Refill(s) /\ flight' = <<>> /\ made' = made
      /\ collected' = collected /\ lost' = lost
  BY DEF Refused, Restored, FlushEnds
<1>3. flight' \in Seq(Nat) /\ Len(flight') = 0 /\ ToSet(flight') = {} /\ Increasing(flight')
  BY <1>2, EmptyIsInOrder
<1>4. shutdown' \in ShutdownState /\ shutdown'.pc \notin {"await", "loop"}
  BY <1>2, ShutdownAnswered
<1>5. s \in Seq(Nat) /\ Increasing(s) /\ ToSet(s) = ToSet(flight) \cup ToSet(pending)
  BY <1>1, ConcatParts DEF SpansInOrder
<1>6. Len(pending) = MaxQueue => pending' = pending
  BY <1>1, <1>2, FullQueueStays DEF Refill
<1> HIDE DEF s
<1>7. /\ pending' \in Seq(Nat) /\ Increasing(pending') /\ Len(pending') <= MaxQueue
      /\ ToSet(pending') \subseteq ToSet(s)
      /\ dropped' \cup ToSet(pending') = dropped \cup ToSet(s)
      /\ \A y \in dropped' \ dropped : \A z \in ToSet(pending') : y < z
  BY <1>2, <1>5, Refilled
<1>8. SpanTypes'
  BY <1>1, <1>2, <1>3, <1>4, <1>7, ExporterAssumption DEF SpanTypes
<1>9. SpansInOrder'
  BY <1>1, <1>2, <1>3, <1>5, <1>7 DEF SpansInOrder, Before
<1>10. SpansAreAccountedFor'
  <2>1. 1..made = ToSet(pending) \cup ToSet(flight) \cup ToSet(collected) \cup dropped \cup lost
    BY <1>1 DEF SpansAreAccountedFor
  <2>2. 1..made' = ToSet(pending') \cup ToSet(flight') \cup ToSet(collected')
                     \cup dropped' \cup lost'
    BY <1>2, <1>3, <1>5, <1>7, <2>1
  <2>3. ASSUME NEW y \in dropped', NEW z \in ToSet(pending')
        PROVE  y < z
    <3>1. CASE y \in dropped' \ dropped
      BY <1>7, <3>1
    <3>2. CASE y \in dropped /\ Len(pending) = MaxQueue
      BY <1>1, <1>6, <3>2 DEF SpansAreAccountedFor
    <3>3. CASE y \in dropped /\ Len(pending) # MaxQueue
      <4>1. z \in ToSet(pending) => y < z
        BY <1>1, <3>3 DEF SpansAreAccountedFor
      <4>2. z \in ToSet(flight) => y < z
        BY <1>1, <3>3 DEF ExporterInv
      <4> QED
        BY <1>5, <1>7, <4>1, <4>2
    <3> QED
      BY <3>1, <3>2, <3>3
  <2> QED
    BY <1>7, <2>2, <2>3 DEF SpansAreAccountedFor
<1>11. ExporterInv'
  BY <1>3, <1>4 DEF ExporterInv
<1> QED
  BY <1>8, <1>9, <1>10, <1>11 DEF SpanInv

LEMMA ShutdownBegins ==
  ASSUME SpanInv, Shutdown
  PROVE  SpanInv'
<1>1. /\ SpanTypes /\ SpansInOrder /\ SpansAreAccountedFor /\ ExporterInv
      /\ collected \in Seq(Nat) /\ pending \in Seq(Nat)
  BY DEF SpanInv, SpanTypes
<1>2. /\ made' = made /\ pending' = pending /\ flight' = flight /\ collected' = collected
      /\ dropped' = dropped /\ lost' = lost
      /\ shutdown' = [pc |-> "loop", left |-> MaxBatches, exported |-> 0,
                      already |-> Len(collected), joined |-> flight # <<>>, grown |-> FALSE]
  BY DEF Shutdown
<1>3. Len(collected) \in 0..MaxSpans
  <2>1. /\ made \in Nat /\ made <= MaxSpans /\ MaxSpans \in Nat
        /\ ToSet(collected) \subseteq 1..made
    BY SpansAreMade
  <2>2. Len(collected) <= made /\ Len(collected) \in Nat
    BY <1>1, <2>1, IncreasingIsShort, Elements DEF SpansInOrder
  <2> QED
    BY <2>1, <2>2
<1>4. MaxBatches \in Nat /\ MaxQueue <= MaxBatches * MaxBatch
  BY BatchesWillDo
<1>5. shutdown' \in ShutdownState
  <2>1. 0 \in 0..MaxSpans /\ MaxBatches \in 0..MaxBatches
    BY <1>4, ExporterAssumption
  <2> QED
    BY <1>2, <1>3, <2>1 DEF ShutdownState
<1>6. /\ shutdown'.pc = "loop" /\ shutdown'.left = MaxBatches /\ shutdown'.exported = 0
      /\ shutdown'.already = Len(collected) /\ shutdown'.joined = (flight # <<>>)
  BY <1>2
<1>7. SpanTypes'
  BY <1>1, <1>2, <1>5, <1>6 DEF SpanTypes
<1>8. SpansInOrder' /\ SpansAreAccountedFor'
  BY <1>1, <1>2 DEF SpansInOrder, SpansAreAccountedFor
<1>9. Len(pending) <= MaxBatches * MaxBatch
  <2> DEFINE m == MaxBatches * MaxBatch
  <2>1. /\ m \in Int /\ MaxQueue \in Nat /\ Len(pending) \in Nat
        /\ Len(pending) <= MaxQueue /\ MaxQueue <= m
    BY <1>1, <1>4, Elements, ExporterAssumption DEF SpansAreAccountedFor
  <2> HIDE DEF m
  <2>2. Len(pending) <= m
    BY <2>1
  <2> QED
    BY <2>2 DEF m
<1>10. ExporterInv'
  <2>1. shutdown'.exported + shutdown'.already = Len(collected')
    BY <1>2, <1>3, <1>6
  <2>2. Len(pending') <= shutdown'.left * MaxBatch
    BY <1>2, <1>6, <1>9
  <2> QED
    BY <1>1, <1>2, <1>6, <2>1, <2>2 DEF ExporterInv
<1> QED
  BY <1>7, <1>8, <1>10 DEF SpanInv

LEMMA ShutdownEnded ==
  ASSUME SpanInv, ShutdownEnds
  PROVE  /\ SpanInv'
         /\ shutdown'.pc = IF pending = <<>> THEN "drained" ELSE "undrained"
<1>1. /\ SpanTypes /\ SpansInOrder /\ SpansAreAccountedFor /\ ExporterInv
      /\ shutdown \in ShutdownState
  BY DEF SpanInv, SpanTypes
<1>2. /\ made' = made /\ pending' = pending /\ flight' = flight /\ collected' = collected
      /\ dropped' = dropped /\ lost' = lost
      /\ shutdown' =
           [shutdown EXCEPT !.pc = IF pending = <<>> THEN "drained" ELSE "undrained"]
  BY DEF ShutdownEnds
<1>3. /\ shutdown' \in ShutdownState
      /\ shutdown'.pc = IF pending = <<>> THEN "drained" ELSE "undrained"
  BY <1>1, <1>2 DEF ShutdownState
<1>4. SpanTypes'
  BY <1>1, <1>2, <1>3 DEF SpanTypes
<1>5. SpansInOrder' /\ SpansAreAccountedFor'
  BY <1>1, <1>2 DEF SpansInOrder, SpansAreAccountedFor
<1>6. ExporterInv'
  BY <1>1, <1>2, <1>3 DEF ExporterInv
<1> QED
  BY <1>3, <1>4, <1>5, <1>6 DEF SpanInv

LEMMA SpanInvKept == SpanInv /\ [ExporterNext]_spanVars => SpanInv'
<1> SUFFICES ASSUME SpanInv, [ExporterNext]_spanVars PROVE SpanInv'
  OBVIOUS
<1>1. CASE UNCHANGED spanVars
  BY <1>1 DEF SpanInv, spanVars, SpanTypes, SpansInOrder, SpansAreAccountedFor, ExporterInv
<1>2. CASE ExporterNext
  BY <1>2, SpansAreExported, SpansAreFlushed, SpansAreAccepted, SpansAreRefused,
     SpansAreUnanswered, ShutdownBegins, ShutdownGoesOn, ShutdownEnded DEF ExporterNext
<1> QED
  BY <1>1, <1>2

LEMMA SpanInvariant == ExporterSpec => []SpanInv
BY SpansBegin, SpanInvKept, PTL DEF ExporterSpec

\* However exports, flushes of several callers, refusals, lost answers and the shutdown come
\* together, for any sizes of queue and batch: the collector sees spans in the order of
\* export and once at most, and each is somewhere, or has left for one of the two reasons.
THEOREM SpansAreSafe == ExporterSpec => []ExporterSafety
<1>1. SpanInv => ExporterSafety
  BY SpanInvIsSafe
<1> QED
  BY <1>1, SpanInvariant, PTL

LEMMA OnlyTheLoopEnds ==
  ASSUME SpanInv, [ExporterNext]_spanVars, shutdown.pc = "loop",
         shutdown'.pc \in {"drained", "undrained"}
  PROVE  ShutdownEnds
<1>1. shutdown \in ShutdownState
  BY DEF SpanInv, SpanTypes
<1>2. CASE UNCHANGED spanVars
  BY <1>2 DEF spanVars
<1>3. CASE Export
  BY <1>1, <1>3 DEF Export, ShutdownState
<1>4. CASE ShutdownFlushes
  BY <1>1, <1>4 DEF ShutdownFlushes, ShutdownState
<1>5. CASE Flush \/ Accepted \/ Refused \/ Unanswered \/ Shutdown
  BY <1>5 DEF Flush, Accepted, Refused, Unanswered, Shutdown, FlushEnds, Responsive
<1> QED
  BY <1>2, <1>3, <1>4, <1>5 DEF ExporterNext

LEMMA ShutdownTells ==
  ASSUME SpanInv, [ExporterNext]_spanVars, shutdown.pc = "loop"
  PROVE  /\ shutdown'.pc = "drained" =>
              /\ pending = <<>>
              /\ shutdown.joined \/ flight = <<>>
              /\ shutdown.exported = Len(collected) - shutdown.already
         /\ shutdown'.pc = "undrained" => shutdown.joined \/ shutdown.grown
<1>1. /\ shutdown.exported + shutdown.already = Len(collected)
      /\ shutdown.joined \/ shutdown.grown \/ Len(pending) <= shutdown.left * MaxBatch
      /\ shutdown.joined \/ flight = <<>>
      /\ shutdown.exported \in Nat /\ shutdown.already \in Nat /\ Len(collected) \in Nat
      /\ pending \in Seq(Nat)
  BY Elements DEF SpanInv, ExporterInv, SpanTypes, ShutdownState
<1>2. SUFFICES ASSUME shutdown'.pc \in {"drained", "undrained"}
               PROVE  /\ shutdown'.pc = "drained" =>
                           /\ pending = <<>>
                           /\ shutdown.joined \/ flight = <<>>
                           /\ shutdown.exported = Len(collected) - shutdown.already
                      /\ shutdown'.pc = "undrained" => shutdown.joined \/ shutdown.grown
  OBVIOUS
<1>3. ShutdownEnds
  BY <1>2, OnlyTheLoopEnds
<1>4. /\ shutdown'.pc = "drained" <=> pending = <<>>
      /\ shutdown.left = 0 \/ pending = <<>>
  BY <1>3, ShutdownEnded DEF ShutdownEnds
<1>5. shutdown.exported = Len(collected) - shutdown.already
  BY <1>1
<1>6. ASSUME pending # <<>>
      PROVE  shutdown.joined \/ shutdown.grown
  <2>1. Len(pending) \in Nat \ {0} /\ MaxBatch \in Nat
    BY <1>1, <1>6, Elements, ExporterAssumption
  <2>2. shutdown.left * MaxBatch = 0
    BY <1>4, <1>6, <2>1
  <2> QED
    BY <1>1, <2>1, <2>2
<1> QED
  BY <1>1, <1>4, <1>5, <1>6

\* A shutdown that returns has emptied the queue and counted what the collector got, and
\* gives up only when it has joined the flush of another, or spans came while it waited.
THEOREM ShutdownIsHonest == ExporterSpec => ShutdownIsTrue
<1>1. SpanInv /\ [ExporterNext]_spanVars =>
        [shutdown.pc = "loop" =>
          /\ shutdown'.pc = "drained" =>
               /\ pending = <<>>
               /\ shutdown.joined \/ flight = <<>>
               /\ shutdown.exported = Len(collected) - shutdown.already
          /\ shutdown'.pc = "undrained" => shutdown.joined \/ shutdown.grown]_spanVars
  BY ShutdownTells
<1> QED
  BY <1>1, SpanInvariant, PTL DEF ExporterSpec, ShutdownIsTrue

=============================================================================
