---------------------------- MODULE SpanExporter ----------------------------
(***************************************************************************)
(* OtlpHttpSpanExporter of packages/observability/src/index.ts: a bounded  *)
(* queue of spans, sent to the collector in batches.                       *)
(*                                                                         *)
(* A flush that is under way is joined by whoever asks for another one.    *)
(* Flushes come from callers and from the timer; shutdown stops the timer  *)
(* and flushes until the queue is empty.  What runs between two awaits is  *)
(* one action, and no timer, answer or further caller comes before what a  *)
(* promise has made ready: that is Responsive.  The number of a span is    *)
(* its place in the order of export.                                       *)
(***************************************************************************)
EXTENDS Naturals, SequencesExt

CONSTANTS
  MaxBatch,    \* max_batch_size
  MaxQueue,    \* max_queue_size
  MaxSpans     \* bound of the model: spans that are exported

ASSUME ExporterAssumption ==
  MaxBatch \in Nat \ {0} /\ MaxQueue \in Nat \ {0} /\ MaxSpans \in Nat

VARIABLES
  made,        \* how many spans have been exported
  pending,     \* this.pending
  flight,      \* the batch of this.flushInFlight, empty when there is none
  collected,   \* the spans that the collector has accepted, in the order of arrival
  dropped,     \* the spans that left the queue because it was full
  lost,        \* the spans of requests that ended without an answer
  shutdown     \* the state of shutdown()

spanVars == <<made, pending, flight, collected, dropped, lost, shutdown>>

-----------------------------------------------------------------------------
Span == 1..MaxSpans

\* Mutant: the last batch, which is seldom a full one, is not reckoned with.
MaxBatches_Floor == MaxQueue \div MaxBatch

MaxBatches == (MaxQueue + MaxBatch - 1) \div MaxBatch

\* "exported" is what it will return; "already" is how much was collected when it was
\* called, "joined" whether a flush was under way then, "grown" whether there were exports
\* since.  It "failed" when a flush did, and was "undrained" when its batches did not do.
ShutdownState ==
  [pc : {"not-called", "loop", "await", "drained", "undrained", "failed"},
   left : 0..MaxBatches, exported : 0..MaxSpans, already : 0..MaxSpans,
   joined : BOOLEAN, grown : BOOLEAN]

\* Records of the right types, and a flush in flight has a batch to send.
ExporterTypeOK ==
  /\ made \in 0..MaxSpans
  /\ pending \in Seq(Span) /\ flight \in Seq(Span) /\ collected \in Seq(Span)
  /\ Len(flight) <= MaxBatch
  /\ dropped \subseteq Span /\ lost \subseteq Span
  /\ shutdown \in ShutdownState
  /\ shutdown.pc = "await" => flight # <<>>

ExporterInit ==
  /\ made = 0
  /\ pending = <<>> /\ flight = <<>> /\ collected = <<>>
  /\ dropped = {} /\ lost = {}
  /\ shutdown = [pc |-> "not-called", left |-> 0, exported |-> 0, already |-> 0,
                 joined |-> FALSE, grown |-> FALSE]

Responsive == shutdown.pc # "loop"

Suffix(s, n) == SubSeq(s, Len(s) - n + 1, Len(s))

\* Mutant: the newest make room.
Kept_Newest(s) == SubSeq(s, 1, IF Len(s) > MaxQueue THEN MaxQueue ELSE Len(s))

\* Array.slice(-max_queue_size): what is kept of a queue that has grown too long.
Kept(s) == IF Len(s) > MaxQueue THEN Suffix(s, MaxQueue) ELSE s

Refill(s) ==
  /\ pending' = Kept(s)
  /\ dropped' = dropped \cup (ToSet(s) \ ToSet(Kept(s)))

-----------------------------------------------------------------------------
Export ==
  /\ made < MaxSpans
  /\ made' = made + 1
  /\ Refill(Append(pending, made + 1))
  /\ shutdown' = [shutdown EXCEPT !.grown = shutdown.pc \in {"loop", "await"}]
  /\ UNCHANGED <<flight, collected, lost>>

\* Mutant: a second flush starts beside the first one.
MayStart_Always == pending # <<>>

\* Only one request is under way; there is none for an empty queue.
MayStart == flight = <<>> /\ pending # <<>>

Batch == SubSeq(pending, 1, IF Len(pending) > MaxBatch THEN MaxBatch ELSE Len(pending))

TakeBatch ==
  /\ flight' = Batch
  /\ pending' = SubSeq(pending, Len(Batch) + 1, Len(pending))

\* A caller, or the timer of startAutoFlush, until the exporter is shut down; to join the
\* flush that is under way changes nothing.
Flush ==
  /\ shutdown.pc = "not-called"
  /\ MayStart
  /\ TakeBatch
  /\ UNCHANGED <<made, collected, dropped, lost, shutdown>>

\* A shutdown that waits for the flush goes on, or throws what the flush throws.
FlushEnds(ok) ==
  /\ Responsive /\ flight # <<>>
  /\ flight' = <<>>
  /\ shutdown' =
       IF shutdown.pc # "await" THEN shutdown
       ELSE IF ok THEN [shutdown EXCEPT !.pc = "loop", !.exported = @ + Len(flight)]
       ELSE [shutdown EXCEPT !.pc = "failed"]
  /\ UNCHANGED made

Accepted ==
  /\ FlushEnds(TRUE)
  /\ collected' = collected \o flight
  /\ UNCHANGED <<pending, dropped, lost>>

\* Mutant: a refused batch goes behind what has come since.
Restored_Behind == pending \o flight

Restored == flight \o pending

\* An answer that is not 2xx: the batch goes back to the front of the queue.
Refused ==
  /\ FlushEnds(FALSE)
  /\ Refill(Restored)
  /\ UNCHANGED <<collected, lost>>

\* fetch rejects, before or after the collector took the batch: nothing is put back.
Unanswered ==
  /\ FlushEnds(FALSE)
  /\ lost' = lost \cup ToSet(flight)
  /\ \/ UNCHANGED collected
     \/ collected' = collected \o flight
  /\ UNCHANGED <<pending, dropped>>

-----------------------------------------------------------------------------
Shutdown ==
  /\ shutdown.pc = "not-called"
  /\ shutdown' = [pc |-> "loop", left |-> MaxBatches, exported |-> 0,
                  already |-> Len(collected), joined |-> flight # <<>>, grown |-> FALSE]
  /\ UNCHANGED <<made, pending, flight, collected, dropped, lost>>

\* One more batch, in a flush of its own or in the one that is under way.
ShutdownFlushes ==
  /\ shutdown.pc = "loop" /\ shutdown.left > 0 /\ pending # <<>>
  /\ shutdown' = [shutdown EXCEPT !.pc = "await", !.left = @ - 1]
  /\ IF flight = <<>> THEN TakeBatch ELSE UNCHANGED <<pending, flight>>
  /\ UNCHANGED <<made, collected, dropped, lost>>

\* Mutant: it gives up without a word.
ShutdownEnds_Silent ==
  /\ shutdown.pc = "loop"
  /\ shutdown.left = 0 \/ pending = <<>>
  /\ shutdown' = [shutdown EXCEPT !.pc = "drained"]
  /\ UNCHANGED <<made, pending, flight, collected, dropped, lost>>

ShutdownEnds ==
  /\ shutdown.pc = "loop"
  /\ shutdown.left = 0 \/ pending = <<>>
  /\ shutdown' = [shutdown EXCEPT !.pc = IF pending = <<>> THEN "drained" ELSE "undrained"]
  /\ UNCHANGED <<made, pending, flight, collected, dropped, lost>>

ExporterNext ==
  \/ Export \/ Flush
  \/ Accepted \/ Refused \/ Unanswered
  \/ Shutdown \/ ShutdownFlushes \/ ShutdownEnds

ExporterSpec == ExporterInit /\ [][ExporterNext]_spanVars

-----------------------------------------------------------------------------
(* Properties *)

\* The collector sees every span at most once, in the order of export, although batches
\* come back, meet a full queue and are asked for by several callers at a time.
SpansArriveInOrder ==
  /\ \A i, j \in 1..Len(collected) : i < j => collected[i] < collected[j]
  /\ LET waiting == flight \o pending
     IN /\ \A i, j \in 1..Len(waiting) : i < j => waiting[i] < waiting[j]
        /\ waiting # <<>> /\ collected # <<>> => Last(collected) < waiting[1]

\* The queue is bounded, and no span goes missing but for the two reasons that the code has:
\* it had to make room for newer ones, all of them that wait, or its request ended without
\* an answer.  That the second is one is not as intended: see FailuresStayQueued.
SpansAreAccountedFor ==
  /\ Len(pending) <= MaxQueue
  /\ 1..made = ToSet(pending) \cup ToSet(flight) \cup ToSet(collected) \cup dropped \cup lost
  /\ \A old \in dropped, new \in ToSet(pending) : old < new

\* A shutdown that returns has left nothing behind: when no flush was under way as it
\* began, every batch was answered for, and what it returns is what the collector got.
\* And it does not give up on a queue that its batches can empty.
ShutdownIsTrue ==
  [][shutdown.pc = "loop" =>
       /\ shutdown'.pc = "drained" =>
            /\ pending = <<>>
            /\ shutdown.joined \/ flight = <<>>
            /\ shutdown.exported = Len(collected) - shutdown.already
       /\ shutdown'.pc = "undrained" => shutdown.joined \/ shutdown.grown]_spanVars

\* Why: what was dropped is newer than a batch under way only as long as the queue is full, and
\* a refusal then gives way to all that waits; and a shutdown counts what the collector gets and
\* has batches left for all that waits, unless it joined a flush or the queue has grown.
ExporterInv ==
  /\ \A old \in dropped, sent \in ToSet(flight) : old < sent \/ Len(pending) = MaxQueue
  /\ shutdown.pc \in {"loop", "await"} =>
       /\ shutdown.exported + shutdown.already = Len(collected)
       /\ shutdown.joined \/ shutdown.grown \/ Len(pending) <= shutdown.left * MaxBatch
  /\ shutdown.pc = "loop" => shutdown.joined \/ flight = <<>>

\* Nothing is lost unaccounted for or out of order, with what makes it so.
ExporterSafety ==
  ExporterTypeOK /\ ExporterInv /\ SpansArriveInOrder /\ SpansAreAccountedFor

\* startAutoFlush: "failures remain queued for retry"; "the bounded queue is retained; the
\* next tick or shutdown retries it".  Every span that was exported waits, is being sent, has
\* reached the collector or had to make room, whatever became of the flushes so far.
FailuresStayQueued ==
  1..made = ToSet(pending) \cup ToSet(flight) \cup ToSet(collected) \cup dropped

=============================================================================
