--------------------------- MODULE QueueContract ----------------------------
(***************************************************************************)
(* What the two runner queues share: the job record, the tenant scope, the *)
(* runner's scope filter and the admission quota, which                    *)
(* packages/server/src/runner-queue.ts exports and postgres-queue.ts       *)
(* imports.                                                                *)
(*                                                                         *)
(* The data of a submission never changes after it is made, so it is given *)
(* by functions of the job identifier.  POST /api/runs draws a fresh id    *)
(* per request; a retry is a second job with the same idempotency key.     *)
(* Timestamps are abstracted to whether leased_until has passed: a lease   *)
(* is "live" until time overtakes it and "lapsed" from then on.            *)
(***************************************************************************)
EXTENDS Naturals, FiniteSets, FiniteSetsExt

CONSTANTS
  Job,          \* ids of the jobs clients submit
  Runner,       \* authenticated runner identities
  Scope,        \* tenant scopes, org/project
  Key,          \* idempotency keys
  NoJob, NoRunner, NoScope, NoKey,
  KeyOf,        \* [Job -> Key \cup {NoKey}]       idempotency_key
  PrintOf,      \* [Job -> fingerprints]           idempotency_fingerprint
  ScopeOf,      \* [Job -> Scope \cup {NoScope}]   queueScope(payload)
  UnitsOf,      \* [Job -> Nat \ {0}]              scenarioCount(payload)
  Allowed,      \* [Runner -> SUBSET Scope]        scopes of an authorized runner
  MaxAttempts,  \* max_attempts
  HasQuota,     \* whether the queue was built with a quota
  RunsMax,      \* concurrent_runs_max
  UnitsMax      \* concurrent_scenarios_max

ASSUME JobsAssumption ==
  /\ IsFiniteSet(Job)
  /\ NoJob \notin Job
  /\ KeyOf \in [Job -> Key \cup {NoKey}]
  /\ NoKey \notin Key
  /\ ScopeOf \in [Job -> Scope \cup {NoScope}]
  /\ NoScope \notin Scope
  /\ UnitsOf \in [Job -> Nat \ {0}]

\* POST /api/runs and the MCP tool begin the key with the org and project of the request.
ASSUME KeysAssumption ==
  \A i, j \in Job : KeyOf[i] = KeyOf[j] /\ KeyOf[i] # NoKey => ScopeOf[i] = ScopeOf[j]

ASSUME RunnersAssumption ==
  /\ NoRunner \notin Runner
  /\ Allowed \in [Runner -> SUBSET Scope]

\* Math.max(1, max_attempts) and validateQueueQuota: all limits are positive.
ASSUME LimitsAssumption ==
  /\ MaxAttempts \in Nat \ {0}
  /\ HasQuota \in BOOLEAN
  /\ RunsMax \in Nat \ {0}
  /\ UnitsMax \in Nat \ {0}

-----------------------------------------------------------------------------
\* A caller the route authenticated by a boolean has no identity and no scopes.
Caller == Runner \cup {NoRunner}

Status == {"absent", "queued", "in_flight", "done", "failed", "cancelled"}

\* One job record.  token 0 stands for a lease_token that is not set.
Row == [status   : Status,
        attempts : Nat,
        lease    : {"none", "live", "lapsed"},
        token    : Nat,
        by       : Caller]

NoRow == [status |-> "absent", attempts |-> 0, lease |-> "none",
          token |-> 0, by |-> NoRunner]

NewRow == [NoRow EXCEPT !.status = "queued"]

\* The copy of a leased record that dequeue hands to its caller.
Lease == [job : Job, token : Nat \ {0}, runner : Caller]

IsActive(row) == row.status \in {"queued", "in_flight"}

HasLapsed(row) == row.status = "in_flight" /\ row.lease = "lapsed"

\* matchesRunnerScopes: no scopes at all means the legacy unscoped mode.
InScope(j, r) == r = NoRunner \/ ScopeOf[j] \in Allowed[r]

ActiveIn(table, s) == {j \in Job : IsActive(table[j]) /\ ScopeOf[j] = s}

Units(js) == MapThenSumSet(LAMBDA j : UnitsOf[j], js)

\* Mutant: the scenario check forgets the request.
WithinQuota_ForgetsRequest(table, j) ==
  LET scoped == ActiveIn(table, ScopeOf[j])
  IN  \/ ScopeOf[j] = NoScope
      \/ /\ Cardinality(scoped) < RunsMax
         /\ Units(scoped) <= UnitsMax

\* assertQueueQuota: a job without a complete scope is not counted.
WithinQuota(table, j) ==
  LET scoped == ActiveIn(table, ScopeOf[j])
  IN  \/ ScopeOf[j] = NoScope
      \/ /\ Cardinality(scoped) < RunsMax
         /\ Units(scoped) + UnitsOf[j] <= UnitsMax

=============================================================================
