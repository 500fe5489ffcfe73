---------------------------- MODULE MCInProcess -----------------------------
(***************************************************************************)
(* Small instances, for one TLC run, of what single processes keep to      *)
(* themselves, the runner queue in memory, the exporter of spans and the   *)
(* evidence of an agent's work, and of the responses that the API keeps.   *)
(* They share no state: a behaviour is one of "part" while the others stay *)
(* where they began.                                                       *)
(***************************************************************************)
EXTENDS MCRunnerQueue, SpanExporter, AgentTrace, MCApiIdempotency

CONSTANTS c1, c2, c3, p1, p2

RequestOf == c1 :> d1 @@ c2 :> d2 @@ c3 :> d3

VARIABLE part

InProcessInit ==
  /\ part \in {"queue", "spans", "trace", "requests"}
  /\ Init /\ ExporterInit /\ TraceInit /\ IdempotencyInit

InProcessNext ==
  /\ UNCHANGED part
  /\ \/ part = "queue" /\ Next /\ UNCHANGED <<spanVars, traceVars, idempotencyVars>>
     \/ part = "spans" /\ ExporterNext /\ UNCHANGED <<vars, traceVars, idempotencyVars>>
     \/ part = "trace" /\ TraceNext /\ UNCHANGED <<vars, spanVars, idempotencyVars>>
     \/ part = "requests" /\ IdempotencyNext /\ UNCHANGED <<vars, spanVars, traceVars>>

InProcessSpec ==
  InProcessInit /\ [][InProcessNext]_<<part, vars, spanVars, traceVars, idempotencyVars>>

\* Guarded calls, processes that want one directory, and identical requests change places:
\* the requests as the calls do, the processes at every odd change.
Symmetry ==
  {f @@ [p \in {p1, p2} |-> IF Cardinality({c \in Call : f[c] = c}) = 1
                           THEN CHOOSE q \in {p1, p2} : q # p ELSE p]
     @@ [d \in {d1, d2, d3} |-> RequestOf[f[CHOOSE c \in Call : RequestOf[c] = d]]] :
   f \in Permutations(Call)}

=============================================================================
