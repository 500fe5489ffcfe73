# Verification of agentic-qa-kit

TLA+ models of agentic-qa-kit: what its processes share (the runner queues, the
workers, the LLM budget, the ledgers of inbound and outbound webhooks, the
idempotency of the API, findings and their audit, live events, the governance of
methodology artifacts), what a run does with its scenarios and leaves as evidence,
and the money and rights of the commerce packages.  TLC checks each model on small instances; TLAPS
proves the safety of both runner queues, the workers, the LLM budget, the webhooks of
both directions, the idempotency store, the ledgers of gift cards and promotions, the
gate of agent writes, the evidence of agents' calls and the exporter of spans, for
every number of jobs, runners, calls, requests, cards and spans.

`PROJECT.json` lists the components, the runs, the code lines each definition
stands for, the hazards the properties are aimed at, and for every property a
small change of the model (a *mutant*, defined beside the definition it changes)
that breaks it.  Paths below are relative to the repository.

    tlc -workers 4 -config PostgresLease.cfg MCPostgresStore     # model-check a run
    tlapm PostgresQueueProofs.tla                                # check the proofs

## 1. The system

agentic-qa-kit runs QA scenarios against a target.  A control plane
(`packages/server`) accepts runs over HTTP, queues them and serves an admin UI;
runner processes lease jobs, execute scenario packs and report events, findings
and artifacts; LLM calls are paid from a budget shared by all processes; commerce
packs talk to payment providers, whose webhooks come back to the control plane.
Replicas share nothing but PostgreSQL.

| Component (code) | State | Operations | What is hard |
|---|---|---|---|
| Runner queue contract (`server/src/runner-queue.ts:13-156`) | job record, quota | scope filter, quota check | two implementations must agree |
| In-memory queue (`runner-queue.ts:158-369`) | `jobs`, `idempotency` maps | enqueue, dequeue, ack, renew, fail, reapExpired, cancel, requeue, kill | leftovers of earlier leases, order, overrides |
| PostgreSQL queue (`postgres-queue.ts`) | table `aqa_runner_jobs`, advisory locks | the same without overrides | statements of several replicas interleave, retries, quota under concurrency, expiry |
| Worker (`worker.ts`, `http-runner-queue.ts`) | locals of `runOnce`, interval timer | runOnce, refreshLease, runUntilStopped | main path and timer interleave; crashes; lost answers |
| Scenario execution (`runner/src/run.ts`, `methodology/src/stateful-journey.ts`) | locals of a scenario or a journey | preconditions, steps, observers, cleanup, oracles, finding | drivers that fail or time out, the signal of a cancellation, oracles over partial results |
| A run (`kit/src/commands/run.ts`) | pool, isolation tails, outcomes, flags | execute, record, publish, judge | order within isolation groups, exceptions, exhausted budgets, partial publication |
| Budget ledger (`cost/src/ledger.ts`, `reaper.ts`) | tables of budgets, reservations and halts | reserve, settle, halt, reapExpired | racing reservations, late settlement, reaper deadlock |
| Budget tracker and adapter (`cost/src/budget.ts`, `llm-adapters/src/budgeted.ts`) | spent per process | call | local snapshots, crash between reservation and settlement |
| Webhook effect ledger (`commerce/src/webhook-ledger.ts`) | one row per logical effect | claim, complete, release | redelivery, lapsed claims, completion that fails |
| API idempotency (`server/src/postgres-api-idempotency.ts`) | table of claimed keys and responses | execute, waiting included | two first requests, waiters, a TTL that passes under a running mutation |
| Live events (`server/src/event-bus.ts`, `kit/src/commands/admin.ts`, `admin/src/app.tsx`) | table of events, NOTIFY, streams, the client's cursor | publish, replay, stream, fetch | sequence against commit order, lost notifications, pages of a replay, fetches out of order |
| Outbound webhooks (`integrations/src/webhook.ts`) | delivery table | enqueue, deliverDue, redrive | locks that expire under a slow batch, sends that throw, dispatchers that die |
| Findings and audit (`store/src/postgres.ts`, `server/src/api.ts`, `kit/src/commands/admin.ts`) | findings, audit events linked into a chain | status change, verification, seeding | one chain over all runs, restarts that seed while requests change |
| Methodology governance (`methodology/src`, `store/src/postgres.ts`) | proposals, artifacts, lifecycles, legal holds | submit, decide, publish, archive, hold, reconcile | locks of several tables in different orders, rulings against erasure |
| Commerce ledgers (`tender-ledger.ts`, `promotion-ledger.ts`) | entries per gift card, redemptions per code | credit, redeem, claim | balance under concurrency, ids shared by codes |
| Gate of agent writes (`mutation-gate.ts`, `agent-security.ts`, `approval-ledger.ts`) | approvals, claims of calls | execute | one approval, several attempts, replicas with and without a ledger, lost answers |
| Commerce reference and journeys (`commerce/src/index.ts`) | carts, orders, stock, points, refunds, idempotency tables | checkout, refund, cancel, return; judge a merchant | keys that collide, stock and money must agree, merchants that only look honest |
| Evidence of agents (`runner/src/events.ts`, `agent.ts`, `trajectory.ts`) | the run's directory, the file of events and its chain, the guard's budget | append, guarded call, record a step, verify | concurrent calls, appends that fail half-way, processes with one seed |
| Span exporter (`observability/src/index.ts`) | queue of spans, the flush under way | export, flush, shutdown | refused batches that come back to a full queue, flushes that are joined |
| Generator review queues, optimistic editor | pending proposals; draft and base version | approve, reject; save, reload | concurrent saves |
| Auth, provider adapters, packs, ingest, reporter, sandbox, schemas, CLI, admin UI | little or none | translation, validation, rendering | not concurrent |

How they interact.  `POST /api/runs` enqueues a job under the request's
idempotency key and tenant scope; several API replicas do so at once.  A worker
dequeues it (directly or through the HTTP routes of `http-runner-queue.ts`),
which gives it a lease with a random token and a deadline; it renews the lease
on a timer while its handler runs and presents the token with every call.  A
reaper in the server sweeps expired leases; dequeue takes them back as well.  The
handler is a run: it takes the scenarios of the selected packs through a pool, one
at a time within an isolation group, and writes events, findings and outcomes to
the run's directory, from which a starting admin server seeds its store.
Handlers call LLMs through the budgeted adapter, which reserves an estimate in
the shared ledger before the call and settles the charge after it; a reaper per
process releases reservations whose TTL passed.  Provider webhooks arrive at any
replica, any number of times, and run their business effect through the effect
ledger.  Mutating API routes run their handlers through the idempotency store, so
that a client may repeat a request whose answer it lost, at any replica.  Routes
that changed something publish a live event and queue outbound webhooks; screens
fetch again on an event, receivers get a signed request.

## 2. Modules

| Module | Models | Checked in | Proofs |
|---|---|---|---|
| `LeaseQueue` | abstract: what any runner queue promises about a job | | |
| `QueueContract` | job record, scope filter, quota of `runner-queue.ts`, shared by both queues | | |
| `PostgresQueue` | `PostgresRunnerQueue`, one action per SQL statement | `MCPostgresStore`, `MCAdmission` | `PostgresQueueProofs` |
| `RunnerQueue` | the in-memory `RunnerQueue`, one action per method | `MCInProcess`, `MCRunnerQueue` | `InProcessProofs` |
| `SpanExporter` | `OtlpHttpSpanExporter` | `MCInProcess`, itself | `InProcessProofs` |
| `AgentTrace` | the run's directory, `EventChainWriter`, `AgentToolGuard`, `AgentTrajectoryRecorder` and the two verifications | `MCInProcess` | `InProcessProofs` |
| `RunnerWorker` | `RunnerWorker` composed with `PostgresQueue` | `MCRunnerWorker` | `RunnerWorkerProofs` |
| `ScenarioRun` | `runScenario`, `executeStatefulJourney` | `MCRunnerWorker` | `RunnerWorkerProofs` |
| `RunExecution` | `runRun`, composed with `ScenarioRun` | `MCRunnerWorker` | `RunnerWorkerProofs` |
| `BudgetLedger` | `PostgresBudgetLedger`, `BudgetReaper`, `BudgetedLlmAdapter.call` | `MCAdmission`, `MCReapers` | `BudgetLedgerProofs` |
| `OutboundWebhooks` | `PostgresWebhookQueue` | `MCReapers` | `OutboundWebhooksProofs` |
| `WebhookLedger` | `PostgresWebhookEffectLedger`, `applyWebhookEffectOnce` | `MCCommerce` | `CommerceProofs` |
| `TenderContract` | abstract: a gift-card ledger that serves each call in one step | | |
| `TenderLedger` | `PostgresGiftCardLedger`, implements `TenderContract` | `MCCommerce` | `CommerceProofs` |
| `PromotionLedger` | `PostgresPromotionRedemptionLedger` | `MCCommerce` | `CommerceProofs` |
| `ApprovalGate` | `CommerceMutationGate`, `CommerceToolPolicy`, the approval ledger | `MCCommerce` | `CommerceProofs` |
| `CommerceReference` | `InMemoryCommerceReference` | `MCCommerce` | `CommerceProofs` |
| `CommerceJourney` | the journeys that judge a merchant, and their suite | `MCCommerce` | `CommerceProofs` |
| `ApiIdempotency` | `PostgresApiIdempotencyStore`, its waiting included | `MCInProcess`, `MCApiIdempotency` | `ControlPlaneProofs` |
| `MethodologyContract` | abstract: governance served one request at a time, as `InMemoryStore` does | | |
| `MethodologyStore` | proposals, decisions, publication and retention over `PostgresStore`, implements `MethodologyContract` | `MCAdmission` | `ControlPlaneProofs` |
| `FindingAudit` | findings and audit events of `PostgresStore`, the seeding of `admin.ts` | `MCPostgresStore` | `PostgresQueueProofs` |
| `LiveEvents` | `publishApiEvent`, `PostgresEventBus`, the stream and its client | `MCPostgresStore` | `OutboundWebhooksProofs` |
| `Sums` | lemmas about sums over finite sets | | itself |

Components that share no state are checked side by side in one run: the *hosts*
(`MCPostgresStore`, `MCAdmission`, `MCInProcess`, `MCReapers`, `MCCommerce`,
`MCRunnerWorker`) extend several modules and add a variable `part` that says which
of them a behaviour is of; the others stay where they began.  Every property then
speaks of its own part and holds trivially in the others.  (TLC reports such a
step as one of the host's, not as an action of the module.)  Hosts that state
fairness state the fairness of each part, restricted to behaviours of that part.

The invariants of a module are checked as one composite, whose conjuncts are
named: `LeaseSafety`, `RetrySafety`, `QuotaSafety`, `QueueSafety`,
`ExporterSafety`, `TraceSafety`, `ReportSafety`, `RunSafety`,
`LedgerSafety`, `OutboxSafety`, `ClaimSafety`, `TenderSafety`, `PromotionSafety`,
`GateSafety`, `ShopSafety`, `JourneySafety`, `RequestSafety`,
`MethodologySafety`, `AuditSafety`, `LiveSafety`.  Each contains the type
invariant of its module, or stands beside one that does, and where there is a proof
also the inductive invariant that carries it, so that TLC checks on the instance what
TLAPS proves in general.  `LimitsAndHaltsHold` and `WorkEnds` are two action, or
liveness, properties each.

### Runner queues

`LeaseQueue` is the contract: a job is submitted once, granted at most
`MaxAttempts` leases, and leaves the queue once, settled by the holder of the
*latest* lease, failed by its last expiry, or cancelled.  Its state per job is the
phase, the number of grants and which grant settled it.  Both queues implement it
with `phase <- status`, `grants <- minted`, `result <- settledBy`.

A job is a row (`Row` in `QueueContract`) of status, attempts, lease token,
holder and whether `leased_until` lies ahead.  Tokens come from `randomUUID`; the
model numbers them per job (`minted`), which keeps what matters: they never
repeat.  Payload, key, fingerprint, scope and scenario count never change after
submission, so they are functions of the job's id; a retry is a second id with
the same key.  `leases` keeps every copy `dequeue` ever returned, and any of them
may be presented at any time to ack, fail and renew, which is how delayed,
repeated and stale calls are covered.

`PostgresQueue` follows the statements.  Without a quota `enqueue` is
`SelectPrior` then `Insert` with no transaction around them; with a quota it is
`LockScope` (the advisory transaction lock of the tenant), `FindPrior`,
`CheckQuota`, `Insert`, and `BreakEnqueue` may end it anywhere.  `dequeue` is one
statement: it fails every lapsed job that is at its limit and leases one
candidate; since `FOR UPDATE SKIP LOCKED` passes over rows other statements hold,
the model lets it take any candidate, or none (`DequeueNothing`).  ack, renew,
fail, reapExpired and cancel are one statement each.  Time is the action `Lapse`.

`RunnerQueue` has the same interface, but nothing yields inside a method, so each
method is one action, and `dequeue` takes exactly the first job in the documented
order.  It keeps the differences the code has: what `dequeue` clears when it takes
a lapsed lease back, the requeue and kill overrides, and no broken connections.

`RunnerWorker` puts one worker per runner identity on top of `PostgresQueue`.
`worker[r]` holds the locals of `runOnce`, `probe[r]` the renewals its timer has
under way (the timer does not wait for the last one), `reports` what `runOnce`
returned.  Every `await` on the queue is one action: `Poll` (dequeue), `ProbeGet`
and `ProbeRenew` (the two awaits of refreshLease), `LookThenAck`/`SendAck`,
`LookThenFail`/`SendFail`.  With `Faults` a call may throw before or after it had
its effect, as a call of `HttpRunnerQueue` does on a lost connection.  Workers
crash at any point of a run and are restarted; operators cancel; the reaper runs.

### A run and its scenarios

One thread executes a run, so what runs between two awaits is one action, and
nothing from outside (an answer of a driver, a timer, the signal, the clock)
happens while a continuation is ready: that is `Quiet`.

`ScenarioRun` is one scenario after the other call of its drivers: preconditions,
steps (`ran`), observers of a journey (`seen`), cleanup (`cleaned`), then the end
with its oracles.  An answer is "pass", "miss" (completed, but the assertions on
it fail) or "failed" (an error, an exception or an overrun, which end alike).
`TimerFires` is the timeout of a journey, after which the callback still runs to
its end.  What an answer does depends on the signal: once the run is aborted, no
further step is started and the answer is not taken for a result.

`RunExecution` adds the pool of `executeNextScenario` loops over `cursor`, the
promise chain of each isolation group (`tail`, `behind`, `left`), what happens at
the turn of a scenario (`Dispatch`, `Forgo` for an aborted run, `Enter`, which an
overdue run leaves at once, `Leave`), exceptions (`Raise`: an event cannot be
written; `Catch`; `Reject` when nothing catches it), `Retire`, and the end: `Record`,
the publications (`Publish...`), each of which may fail, `Judge`.  `verdict` is
what runRun returns.

### What a process keeps to itself

`SpanExporter` is the queue of `OtlpHttpSpanExporter`.  `Flush` takes a batch to
the collector, and whoever asks for a flush while one is under way gets that one's
answer; the three answers are `Accepted`, `Refused` (the batch goes back to the
front, and what no longer fits is dropped from there) and `Unanswered` (`fetch`
rejects, and nothing is put back).  `Shutdown` reckons how many batches a full
queue takes and flushes until it is empty.  `flight` is the batch under way; what a
span *is* does not matter, so it is its place in the order of export.

`AgentTrace` is a run's evidence.  `entrants` are the processes that were given one
seed and want one directory.  `Appends` and `AppendFails` are the two ends of
`EventChainWriter.append`: a failed append leaves nothing, an unreadable part of
the line, or the whole line without its end (which the next line then runs into:
`Torn`), and the writer does not go on from it.  A guarded call is `CallStarts`
(its budget is taken in the same step as its index), and after the tool has run
`CallCompletes`, `CallFails` or, in the catch block, `CallThrew`; every one of them
records before it answers.  A hash is the sequence of bodies it was made of, so two
hashes are equal exactly when everything before them is.

### LLM budget

`BudgetLedger` has one reservation per adapter call.  `Ask` is the tracker's
local check, `ReadHalt` and `Reserve` the two halves of reserve (the halt table is
read before the budget row is locked; from that lock to the commit nothing
interferes), `Answer`/`ProviderFails` the provider, `SettleUsage`/`SettleNothing`
the settlement, and `Crash` the end of the process at any point.  A reaper's
transaction is `ReapSelect` (SKIP LOCKED on reservations), one `ReapRow` per
reservation, which waits for the budget row's lock, and `ReapCommit`; `ReapAbort`
is PostgreSQL's deadlock detector.  Amounts are small naturals.

### Webhooks, inbound and outbound

Rows of different effect keys never meet, so `WebhookLedger` follows one key.
`claim` is `Insert`, `Read` and `Reclaim` with no transaction; the effect runs
(`RunEffect`) or throws; `Complete` or `Release` end the claim; `BreakComplete` is
a completion that throws, `Crash` a replica that dies, `Lapse` a claim that
outlives `lease_ms`.  A release that deleted a row leaves its delivery at
`"released"`, and at `"failed"` when there was none to delete: the call throws either
way, and only properties tell the two apart.  `CompletedIsFinal` is about the ledger:
after a completion the row stays and nobody new comes to run the effect.  It does not say
that the effect is not run: a delivery that took over a lapsed lease runs it although the
first holder, late, has completed it meanwhile.

`OutboundWebhooks` has the rows of `aqa_webhook_deliveries` and the locals of
`deliverDue` in each dispatcher.  A claim locks a batch in one statement and
counts the attempts; the rows are then sent one after another, and what is
written back names the row only, so a dispatcher slower than its lock writes over
the next one.  Time is `BecomesDue` and `LockLapses`.  `accepted` is what
receivers have answered with 2xx; `lockLapses`, `failures` and `crashes` count
the excuses that the attempts bound is stated with.

### Money and rights

`TenderContract` serves each credit and redemption in one step against the
entries so far, which is what `InMemoryGiftCardLedger` does; `TenderLedger` has
the four statements of the PostgreSQL transaction under the advisory lock of its
card, and implements it.  An entry is always one that a caller was told of, or whose
answer was lost; that a call was *not covered* says nothing of its operation, which a
later call may apply once the card is credited.  `PromotionLedger` locks a code, while the ids of
redemptions are unique over the table: claims of two codes with one id hold two
locks and meet in the unique index.  `ApprovalGate` has an attempt as one call of
`CommerceMutationGate.execute`.  A write (any operation but `read`) is denied unless its
approval exists, was given for that very call and has not expired; with a ledger the
approval is then claimed by a statement (`InsertClaim`, `SelectClaim`), without one in
the memory of the process, in the same step.  A `read` whose tool is on the list of read
tools goes to the executor without a claim (`AuthorizeRead`), as often as it comes:
`execute` asks only that *some* approval came with it, be it another call's, expired or
used.  The executor writes at the merchant or not, and answers committed, not committed,
or throws, which says neither.  `ApprovalIsSingleUse` and `WritesAreApproved` therefore
speak of writes; of reads the module claims that they come from allowed tools with an
approval (`ReadsAreAllowed`) and spend none (`OnlyWritesSpend`), and leaves open what
their executors do.

`CommerceReference` has one action per method that changes state, for every
method is synchronous; a throwing call is no action.  The four idempotency tables
are sets of records, and `RefundKeyOf` is the key that a cancellation derives.
`CommerceJourney` awaits every call of the adapter, so other shoppers buy between
any two of them; the merchant it judges replays, repeats, or repeats and hides it.

### API idempotency

`ApiIdempotency` follows one scope and key.  `pc[d]` is where a call of `execute`
stands.  `claim` is a transaction: `Select` when the row is absent, conflicting,
pending or completed; `Replace` when it has expired and is deleted and inserted
anew under its lock (the calls that waited for that lock then find no row);
`Insert` when the select had found none, in which case nothing was locked and the
insertion throws if the key has been taken.  The handler ends in one of three ways
(`Handle`): its response is stored (`Store`), is 500 or above and the claim is
deleted (`Clear`), or it throws and the catch block deletes the claim (`Undo`).
`BreakStore` and `BreakClear` are statements that throw before or after their
effect, which runs the catch block as well.  A waiting call polls (`Poll`), starts
over when the row is gone, and gives up after `wait_ms` (`GiveUp`).  `KeyLapses` is
`expires_at`.  Neither the update that stores a response nor the delete that gives
a claim up names the claim, so the module counts `lapses` and `repeats` (deletions
that took effect and are carried out again), the two ways in which they can meet
the claim of another request; `grants` and `releases` are the account of runs.

### Findings, live events, methodology

`FindingAudit`: a change of a finding is a transaction under one advisory lock
that reads the finding, checks the step against the life cycle and appends an
audit event linked to the last event of the *whole* table; a starting server
seeds run after run, event by event and then the findings of the run together,
without that lock.  `changes[w]` is the
transaction of a request, `seeds[s]` what a start has still to do, `reseeded` the
findings that a seed has put back since their last audit event.

`LiveEvents` follows one client of one tenant from the commit of a change
(`applied`) through the publisher, the row and its number (given before it
commits), the notification, the stream of a connection, the wire, the cursor of
the EventSource and the fetches it triggers to what the screen shows
(`projection`).  Publishers die, notifications are lost with the listener,
connections drop, a replay is cut off after a page, fetches answer in any order;
`excused` records that something of the kind has happened since the last fetch.
What a connection writes at once, a notification or a page of a replay, is a set of
events that it has not written yet, put behind the wire in the order of their numbers.

`MethodologyStore`: a step is the part of a transaction between two waits for a
lock.  `sessions[s]` is a request at work on a proposal, `purgers[p]` a
reconciliation of retention, which locks one artifact after another and all
proposals of the tenant and may meet an approval or a publication in a deadlock,
which PostgreSQL ends by aborting one.  Time is how far a lifecycle has come.
`MethodologyContract` is the same governance where each request is served in one
step, which is the in-memory store: proposals, what is published, the age and the
hold of each lifecycle, with the reconciliation erasing an artifact, its lifecycle
and its content in every approved proposal together.  `MethodologyStore` implements it: whatever
the locks let happen between two statements, what a commit makes visible is one
step of the contract.


## 3. Runs

| Run | Question | Bounds |
|---|---|---|
| `PostgresLease` | Leases: do tokens fence stale holders, is the latest holder never locked out, are attempts bounded, do racing retries share a job, is the table a `LeaseQueue`? | 4 jobs (3 share a key, one of them with another payload; one of a second tenant), 2 identified runners and anonymous callers, 2 attempts |
| | Findings: does every status agree with its audit trail, is no step taken that the life cycle forbids, though servers start and seed in between? | 2 findings of 2 runs, 2 concurrent writers, 2 changes, 2 starts |
| | Live events: does a screen show every change once it has fetched, unless something excused has happened since? | 2 changes, 2 fetches, one page of replay per connection |
| `Admission` | Jobs: do concurrent submissions keep the tenant's run and scenario limits, and is no retry refused for the capacity its original took? | 6 jobs, 5 of one tenant, weights 1 and 3, limits 2 runs and 3 units, one job without a scope; one attempt |
| | Calls: do the columns balance, is the limit kept and fixed, does a halt drain? | 3 calls of 2 processes on one key, estimates 1 and 2, limit 4 (one call configured with 5), charges 0 or 3, 2 reapers |
| | Governance: do a publication, a rejection and an archival stand, does what is published have its approval, is what is held kept, is every commit a step of the contract? | 2 sessions on 2 proposals of one artifact |
| | Retention: is everything of a purged artifact gone, and nothing else, however purging, publishing and holding meet? | 1 session and 1 reconciliation, a proposal for each of 2 artifacts, one of them without a lifecycle |
| `RunnerContract` | The lease questions for the in-memory queue, its order, and operator overrides | 4 jobs, 2 runners, 2 attempts, limits 2 runs and 3 units, one override |
| | Spans: are they collected once and in order, are all accounted for, does a shutdown that returns leave nothing? | 6 spans, a queue of 3, batches of 2 |
| | Evidence: does a readable file verify, are answers backed by it, is the budget kept by calls that overlap, is nothing completed after the signal, does an agent's trajectory verify? | 3 calls, a budget of 2, 1 step, one failing append, 2 processes |
| | Requests: do handlers of one key take turns, is every further run paid for, are replays answers to the same request, is a stored response kept? | 3 identical requests and one with another fingerprint |
| `WorkerRuns` | Workers: is a run reported completed, or lost, only when it is; does every job end; does a cancellation reach the handler? | 1 job, 2 workers, 2 attempts, failing calls, crashes |
| | A run: are groups isolated and in order, are cleanups run, are findings and results backed by what was executed, is every scenario accounted for, is an ok run earned, is every run answered? | 3 scenarios of one group (one with a precondition and a cleanup, one of two steps, one with an unsupported probe or none), a journey with an observer, 2 pool workers; at most 2 disturbances (`Calm`) |
| `BudgetReapers` | Is every reservation closed although reapers can deadlock? | 4 open reservations of 2 keys, half of them lapsed and of a dead process, 2 reapers |
| | Is every delivery sent or given up, with attempts bounded, none lost, and none given up unearned? | one delivery, enqueued twice and redriven; two claimed in one batch, with a crash or a lapse of the second lock; 2 dispatchers, 2 attempts |
| `WebhookClaims` | Effects: is each extra claim paid for by a lapse or a release, is a completed effect final? | 4 deliveries of 2 events |
| | Cards: are balances never overdrawn, transactions atomic, answers true? | 6 requests on 2 cards |
| | Codes: are caps kept and ids unique? | 4 claims of 2 codes |
| | The gate: are no two writes executed on one approval, none without, is none spent by a read, and no ambiguity told as a result? | 8 attempts of 2 calls, 7 of them with one approval; 3 of them reads, one of a tool that is not allowed; 3 replicas, one without a ledger |
| | Shop: do stock, orders, money, points and refunds agree, whatever keys collide? | 2 articles, 2 customers, 2 carts, 2 keys, one of them also a refund's |
| | Journeys: is an honest merchant never failed, and a dishonest one failed where the journey claims to see it? | 2 units of stock, 2 other shoppers |
| `RunnerAnonymous` | *violated*: can the latest holder always settle, in memory? | 2 jobs, 3 attempts |
| `BudgetLateSettle` | *violated*: is every successful call charged to its key? | 3 calls of one key |
| `WebhookReuse` | *violated*: do all effects under one key belong to one event? | 3 deliveries of 2 events |
| `SpansUnanswered` | *violated*: do the spans of a flush that fails stay queued for a retry? | one exporter, a queue of 3, batches of 2 |
| `ApiShare` | *violated*: do concurrent identical requests share one result? | 2 identical requests |
| `RunCancelled` | *violated*: does a finding follow only from a scenario that was executed? | as `WorkerRuns`, without disturbances but the signal |

Why these bounds are enough to be interesting.  Fencing and lock-out need a first
holder, a second one and a stale call: one job and two attempts show them, and
the other jobs make the statements that touch several rows do so.  The quota
needs one submission more than fits, twice: by number and by weight.  A retry
needs its original, and a third submission that is *not* a retry.  The worker's
races are all between one run, its own leftover renewals, and one other worker.
The order within a group needs one scenario that runs, one that waits and one that
comes to wait while the first one fails; the journey keeps the pool busy outside
the group.  A reaper deadlock needs two reapers, two budget rows and four
reservations.  A dispatcher that writes over another one's claim needs a batch of
two and a lock that lapses while the first row is sent.  A broken chain of audit
events needs two findings, of two runs; a finding that a start puts back needs the
audit event of the change to be written before or after it.  A skipped live event
needs two of them whose numbers and commits are in opposite orders.  An overlap of
handlers needs a holder, a waiter that starts over and a third request; a wrong
replay needs a claim that changes hands between two fingerprints while a request of
the first one waits.  A purge that leaves something behind needs a publication
between the two statements of the reconciliation.  Spans change places when a
refused batch meets newer ones, and are dropped when it no longer fits: a queue of
three and batches of two.  A chain breaks when an append that failed is followed by
one that does not; a budget is overspent by two calls that both run.

Model bounds that the code does not have: `MaxOverrides` (how often one job is overridden),
`MaxChanges` and `MaxSeeds` (status changes and starts), `MaxRequests`,
`MaxRedrives`, `MaxLapses` and `MaxCrashes` of the outbound queue, `MaxQuantity`,
`MaxCarts` and `MaxReturns` of the shop, `MaxOthers` of a journey, `MaxFaults` of a
run, `MaxSpans` of the exporter, `MaxFailures` of the appends; everywhere the number of calls, deliveries and submissions is finite.
`ReplayLimit` stands for the 1000 events of a replay.  Some instances are cut with
a conjunct in the host, which its comment names: `Calm` in `MCRunnerWorker` lets at
most two disturbances (an exception, the signal, the run's time limit, the timer of
the journey) befall one run, `MCReapers` splits the outbound queue into two scenes, and
`MCAdmission` the governance: `Governance` has two sessions of users other than the
proposer, with one of the approvals that may expire; `Retention` has one session at a
time beside the reconciliation, approvals that do not expire and no hold on the first
artifact.

Symmetry is used only in runs without liveness properties, and only between
constants that the instance does not tell apart: submissions with equal key,
payload and weight, requests that are identical, reapers, guarded calls, processes
that want one directory.

`CHECK_DEADLOCK FALSE` is set throughout because the instances are finite: once
every job, call or run has ended, nothing is left to do.

### What the runs found

- `RunnerAnonymous`: the in-memory `dequeue` leaves `leased_by` of the previous
  holder in place when it takes a lapsed lease back, and only overwrites it for a
  caller with an identity.  An anonymous caller that is then leased the job cannot
  ack, renew or fail it.
- `BudgetLateSettle`: a provider call that outlives its reservation's TTL is
  settled to no effect; its charge never reaches `spent_usd`.
- `WebhookReuse`: the catch block around the effect also covers the completion,
  so an effect that ran can have its claim deleted, and another event can run it.
- `ApiShare`: of two identical first requests one gets a unique violation instead
  of the other's response, because `SELECT ... FOR UPDATE` locks no absent row.
- `SpansUnanswered`: when `fetch` rejects, the batch that `flushOnce` took from the queue
  is in nobody's hands: only a response that is not 2xx puts it back.  The comments of
  `startAutoFlush` (`observability/src/index.ts:80` and `87`) and
  `docs/adr/041-otlp-http-export.md:11-12` say that failures remain queued for retry, and
  `docs/adr/060-otlp-exporter-lifecycle.md:29-30` that failures of the timer retain queued
  spans.  `ExporterSafety` counts these spans apart (`lost`), so that it can say of all
  others that they are accounted for.
- `RunCancelled`: a scenario that waits for its isolation group when the run is
  aborted starts nevertheless, executes no step, fails its oracles for want of
  results, and reports a finding.

Also visible in the models, without a claim it contradicts strongly enough to be
listed.

- Queues and workers: `requeue` ignores the status and revives finished jobs; a
  worker reports `failed` although its `fail` was refused or its `ack` had gone
  through; `SKIP LOCKED` makes the order of leases approximate.
- Ledgers: a webhook redelivery that reads the row just after it was released is
  refused as another event's; a delivery that took a lapsed lease over may run an effect
  that has been completed meanwhile; a mutation that outlives the TTL of its key ends the
  claim of a later request, which is why two parts of `RequestSafety` are stated
  while no claim has expired and no deletion was repeated; `recordFailure` of the
  outbound queue writes to a row whose lock it no longer holds.
- Findings and live events: a restart puts the statuses of findings back that
  requests had changed, as `reseeded` records (`kit/src/commands/admin.ts:659`);
  with two runs in the store the chain of audit events, which is one per table,
  does not verify run by run; an event whose number was given before and committed
  after another one's is passed over by a replay from that cursor.
- Runs: the finding of a scenario id that two packs share is dropped while its
  event stays; a run that fails between `run_started` and its recording leaves
  "running" behind; a journey aborted during its last observer can pass; a driver
  that ignores the signal is awaited forever, which is why `RunIsAnswered` assumes
  that drivers answer; a cleanup is skipped when an event cannot be written.
- Evidence: a recorder's trajectory does not verify once a guarded call is among
  the run's events, for both write `tool_call` events and the verification takes
  all of them for steps (`runner/src/trajectory.ts:415`); a second save of a
  trajectory can come between `existsSync` and `renameSync`
  (`runner/src/trajectory.ts:84-118`, not modelled).
- Governance: a publication of a version that is there is refused, although with the same
  digest `docs/adr/280-methodology-artifact-durable-store.md:14` and
  `docs/adr/281-methodology-publication-api.md:43-44` call it idempotent: the lifecycle
  that it finds is parsed from a string, which the parser refuses
  (`store/src/postgres.ts:760-768`).  The model refuses it too (`LifecycleIsNew`); the
  refusal changes nothing in the store, and no property is about the answer.  An artifact
  without a lifecycle can be held and purged only after adoption.
- Commerce: the references' refund and cancel journeys do not check exactly-once;
  stock of cancelled and returned orders is not given back; an approval's expiry is
  looked at before its claim and not again.

### Fairness

Safety runs assume none.  `LiveSpec` of `RunnerWorker` assumes that time passes,
that the supervisor restarts dead workers and `runUntilStopped` polls again, that
`runOnce` runs on between awaits, and that `setInterval` fires and the queue
answers its probes.  It assumes nothing of the server's reaper, of operators or of
handlers.  Of `WorkEnds`'s two parts, `EveryJobSettles` takes the end of
handlers as its hypothesis (`HandlersEnd`), and `CancelReachesHandler` must hold
without it.  Crashes are
allowed any number of times: each costs an attempt, and attempts are bounded.
`ExecutionSpec` adds `RunFairness`: drivers, callbacks and hooks answer in the
end (they have timeouts of their own, and the journey's timer fires), and Node
runs what is ready.  It does not assume that anyone cancels.
`ReapersSpec` assumes that TTLs pass and that the reapers' timers fire and their
transactions go on; of outbound webhooks, that dispatchers which have not died call
`deliverDue` again, that a send is answered or times out, and that due dates and
locks pass.  It assumes nothing of the workers or of those who enqueue.

## 4. Proofs

TLC checks an invariant on one instance; the theorems below hold for every value of
the constants that the named assumptions allow.  Those are what the code has: sets of
jobs, calls, requests, dispatchers and cards are finite, the markers for "none" are no
members of them, limits are positive.  Some say more.  `KeysAssumption` has requests
with one key belong to one tenant, because the routes begin the key with the
organisation and the project of the request (`server/src/api.ts:496`,
`server/src/mcp.ts:123`).  `OrderAssumption` has priorities be integers and arrivals a
strict order.  `CallsAssumption` and `TenderAssumption` have estimates, charges and
amounts be natural numbers.  `MethodologyAssumption` has the keys of artifacts be numbers,
for their order.  `RunAssumption` numbers the scenarios in the order of their discovery
and has a run with scenarios have a worker: `runRun` takes the smaller of the profile's
parallelism, which is at least one, and their number (`kit/src/commands/run.ts:1146`).

No property of interest is inductive as it stands.  Each section says what had to be
added, and why.  The additions are part of the composites that the runs check.

### The durable queue

`PostgresQueueProofs`, for any jobs, runners, tenants, keys, weights and limits:

| Theorem | States |
|---|---|
| `TypeCorrect` | `Spec => []TypeOK` |
| `LeaseInvariant` | `Spec => []LeaseInv` |
| `LeasesAreSafe` | `Spec => []LeaseSafety`; with `LeasesAreFenced`, `HoldersCanSettle` and `AttemptsAreBounded` for its parts |
| `QuotaInvariant` | `Spec => [](QuotaInv /\ WithinLimits)` |
| `QuotaIsSafe` | `Spec => []QuotaSafety`; with `RunsQuotaIsKept` and `ScenarioQuotaIsKept` for its parts |
| `RetriesAreSafe` | `Spec => []RetrySafety` |
| `RetriesPrecedeQuota` | `Spec => RetryPrecedesQuota` |
| `ImplementsContract` | `Spec => ImplementsLeaseQueue` |

Leases.  Each lease property talks about a copy a caller holds and the row it names,
and needs to know what the *other* columns can be.  `LeaseInv` adds it: a row in
flight carries the latest token and a lease, a row that is not carries none of the
three lease columns; `attempts` equals the number of tokens drawn; a queued row is
below its limit; an unfinished submission has no row yet; and a copy with the latest
token names the runner in `leased_by`.  The refinement uses the same invariant: it is
what makes a settlement the settlement of the latest grant, and an expiry at the limit
a failure.

Quota.  An insertion must know that there is still room.  `LockInv` says that a
transaction past `LockScope` holds its tenant's advisory lock, so at most one
submission of a tenant is between its count and its insertion; `RoomInv` says that for
whoever is about to insert the comparison of the count still holds, in runs and in
units; every other step keeps the set of active rows or shrinks it.  Cardinalities come
from `FiniteSetTheorems`, sums of units from `Sums`.

Retries.  `KeyInv` says that a key is in the table once, which the unique index sees
to at each insertion, and that what a call was answered with is its own job or one of
its key and fingerprint.  That no retry is refused for capacity needs the lock again:
`PriorInv` says that while a transaction compares the quota no row has its key,
because another submission of the key is one of the same tenant (`KeysAssumption`) and
would have to hold the same lock to insert.

`Sums` makes the theorems about units, money and balances possible.  A sum is
`MapThenSumSet`, a fold that takes the members of a set in the order `CHOOSE` gives
them.  Induction over data with an operator for its hypothesis is out of the provers'
reach; induction over the subsets of a finite set, with a *set* of good subsets for
the hypothesis, is not, as the strict subsets of a finite set are well-founded.  From it follow: a
sum exists, is an integer, does not depend on the order, and changes by one member's
amount when the member comes or goes.

### Workers

`RunnerWorkerProofs`, for any number of workers over one durable queue:

| Theorem | States |
|---|---|
| `ReportsAreTrue` | `WorkerSpec => []ReportSafety` |
| `WorkersKeepTheQueue` | `WorkerSpec => [][Next]_vars /\ []LeaseSafety` |

The second one is what makes the first one short: every step of a worker, crashes and
lost answers included, is a step of `PostgresQueue` or leaves the table alone, so the
workers inherit its invariants.  For that `WorkerInv` is needed: the copies in a run, in
a renewal under way and in a report are ones that `dequeue` handed out to this very
process.  That a run which reports `completed` has settled its job then follows from
the fence, and stays so because a settled job stays settled.

### Running scenarios

`RunnerWorkerProofs`, for any scenarios and journeys, groups and workers, and any number of
steps, observers, cleanups and events that cannot be written:

| Theorem | States |
|---|---|
| `RunIsSafe` | `RunSpec => []RunSafety` |

Four parts of `RunSafety` are inductive together, and most of the rest follows from
them.  `TurnsAreInOrder` is the argument for the promise chains: each scenario waits for
the last of its group that was taken before it, or all before it have left.  So when a
release comes the whole group before it has left, and a scenario that finds the tail
cleared has nobody to wait for.  The tail may only be cleared by its holder, which is
what the comparison in the `finally` of `withIsolation` is for.  `PoolIsKept` says that
a scenario is one worker's until it has an outcome, and that one without a worker has
left its group: nobody waits for a scenario that nobody executes.  `ProgressIsTrue` ties
what a scenario has collected to the call it awaits.  Its clause about the signal is
what makes results trustworthy: a scenario that is done after the signal was stopped by
it or has a failure among its answers.  That holds of those that were answered before
the signal too, because no scenario can be done and not yet judged while the process
awaits something (`Quiet`).  `ReasonsAreKept` carries the reason of each scenario into
the flags of the run and from there, past recording and publication, to the verdict.  A
manifest is complete because every publication is skipped once an earlier one has
failed.

### The queue in memory

`InProcessProofs`, for any jobs, runners, limits and numbers of overrides:

| Theorem | States |
|---|---|
| `QueueIsSafe` | `Spec => []QueueSafety` |
| `FirstIsLeased` | `Spec => FirstInOrderIsLeased` |
| `QueueKeepsContract` | `Spec => ImplementsLeaseQueue` |

`RowInv` ties the columns of a row to what was handed out, with the overrides as
credit: an operator who requeues a job gives it one more attempt.  `BindingInv` ties
the map of keys to the jobs accepted with them.  The limit of a tenant is proved for as
long as no operator has touched its jobs, which is what `QuotaHolds` says: units of
active jobs only grow where the sum was compared in the same step.  The order needs no
invariant, but that priorities and arrivals of two jobs can be told apart.

`HolderInv` says whom a row names: a runner that has had the job, and the latest to
have it if that one gave an identity.  `IdentifiedCanSettle` follows, and marks off the
violation of `RunnerAnonymous`: the latest holder of a job can settle it unless it is
anonymous and the row still names a runner that had the job before it.

### LLM budget

`BudgetLedgerProofs`, for any calls, keys, estimates, charges and processes:

| Theorem | States |
|---|---|
| `LedgerIsSafe` | `Spec => []LedgerSafety` |
| `LimitsAndHaltsAreKept` | `Spec => LimitsAndHaltsHold` |

The columns `spent_usd` and `reserved_usd` of a budget are two sums over its
reservations, and each transaction moves one reservation from one sum to the other.
`BudgetInv` says why it can be only one: a call is charged once, before it settles, and
what a reaper has locked is still open when it commits, since two reapers have no row
in common.  No oversubscription then is the admission's comparison plus what settled
calls cost beyond their estimates.

`UsageInv` adds that a reservation stays until its call settles, but for a reaper that
found it lapsed.  So `LostUsageIsLate`, for every number of calls and reapers: what
`BudgetLateSettle` shows is the only way that the usage of a call that returned goes
missing from its key.  The trackers of the processes miss none of it (`TrackersAgree`).

### Webhooks, inbound and outbound

For any deliveries, events and dispatchers:

| Theorem | States |
|---|---|
| `CommerceProofs!WebhookTypeCorrect` | `Spec => []TypeOK` |
| `CommerceProofs!ClaimInvariant` | `Spec => []PaidInv` |
| `CommerceProofs!ClaimsAreSafe` | `Spec => []ClaimSafety`; with `ClaimsArePaidFor` for its part |
| `CommerceProofs!CompletedStays` | `Spec => CompletedIsFinal` |
| `OutboundWebhooksProofs!TypeCorrect` | `OutboxSpec => []OutboxTypeOK` |
| `OutboundWebhooksProofs!OutboxIsSafe` | `OutboxSpec => []OutboxSafety` |
| `OutboundWebhooksProofs!DeadLettersAreCounted` | `OutboxSpec => DeadLettersAreEarned` |

A bound on a counter needs the row.  `PaidInv` is the account of the inbound ledger:
the claims granted, plus one for a row whose lease has passed (the next claim is paid
for in advance), are at most the lapses and releases, plus one for a row that is
there.  A grant needs the row to be absent or lapsed, which is one paid entry; a
release pays for the row it takes away.  `ClaimantInv` carries the account over from
claims to effects (`EffectsAreEarned`).  `OneEventUntilReleased` is what remains of the
promise that `WebhookReuse` refutes: as long as no release has deleted a claim, all that
run the effect bring the event in the row, although leases lapse and processes die.

`OutboxInv` is the account of the outbound queue, for each delivery: those who have it
in their batch, and the claim that is open, are at most as many as the times it was
taken from a dispatcher at work, and one for a row that waits; and from the last
attempt on, every further one is paid for by a lapse, a recorded failure or a crash,
where a dispatcher that read an *earlier* attempt counts too, for it may put the row
back.  That last clause took the longest to find: without it `recordFailure`, which
writes what its dispatcher has read and not what the row says, breaks the account.

### API idempotency

`ControlPlaneProofs`, for any requests and fingerprints of one key:

| Theorem | States |
|---|---|
| `TypeCorrect` | `Spec => []TypeOK` |
| `ClaimInvariant` | `Spec => []ClaimInv` |
| `RequestsAreSafe` | `Spec => []RequestSafety`; with `RunsArePaidFor`, `HandlersTakeTurns` and `ReplaysMatch` for its parts |
| `ResponsesStay` | `Spec => ResponsesAreKept` |

`EarnedInv` is an account as above, of claims against expiries and deletions.
`OwnerInv`, for as long as no claim has expired and no deletion was repeated, says
whose the row is: the only call inside `execute` is the one named in it, and a stored
response belongs to a request of the same fingerprint.  Handlers then take turns
because all of them are the row's owner, and replays match because a waiting call
compares its fingerprint with the row it reads.

### Methodology governance

`ControlPlaneProofs`, for any proposals, artifacts, users, requests and reconciliations:

| Theorem | States |
|---|---|
| `MethodologyIsSafe` | `MethodologySpec => []MethodologySafety` |
| `RulingsAreKept` | `MethodologySpec => RulingsStand` |
| `MethodologyImplemented` | `MethodologySpec => ImplementsMethodology` |

A reconciliation decides artifact after artifact and writes everything when it commits;
in between others approve, publish, archive and hold.  `PurgersKnow` says why what it has
in hand is still true then: it has the advisory lock of every artifact it touched, which
keeps publications and approvals out, and the row of the lifecycle, which keeps rulings
out; an artifact that has expired stays expired; and once it has scrubbed the proposals
of an artifact, no other can be approved with content, for that takes the lock.  Between
the decision to purge an artifact and the scrubbing of its proposals (`current`) that last
part does not hold yet of this one, and does of those before it.
`SessionsKnow` is the same for requests.  Its last clause is about what a publication
read *before* its lock: a lifecycle that has gone since had expired and its artifact is
gone with it, so a publication that brings an old lifecycle back brings it back for
content of its own, and expired.  A legal hold cannot be undone that way, because a row
that is there refuses the insertion.  For the refinement a lifecycle's age is shown only
while the lifecycle is there; a commit then is one `Reconcile` of the contract, with the
adopted artifacts at the age they have, and whatever proposals arrived unapproved during
the reconciliation kept.

### Money and rights

`CommerceProofs`, for any requests, cards, claims, codes, attempts and approvals, and
any amounts and caps:

| Theorem | States |
|---|---|
| `TendersAreSafe` | `TenderSpec => []TenderSafety` |
| `CardsAreNotOverdrawn` | `TenderSpec => []NoOverdraft` |
| `TransactionsAreAtomic` | `TenderSpec => LedgerIsAtomic` |
| `PromotionsAreSafe` | `PromotionSpec => []PromotionSafety` |
| `GateIsSafe` | `GateSpec => []GateSafety` |

Cards.  What a transaction has read of its card stays true until it ends, because
entries of a card are only added under the card's lock and the lock is held from before
the first read: that is the strengthening, stated for each place a transaction may
stand at.  From it a transaction that commits does what the abstract ledger would do in
that one step, and every other step is a stutter.  A redemption that commits has
compared its amount with the balance as it still is, so the sum of the entries stays
above zero.  Codes.  The lock alone is not enough, since ids are unique across codes:
the count a transaction has taken is a bound for its own code, and the unique index is
what refuses the second use of an id.  Agent writes.  The invariant ties each
place of an attempt to what it has seen of its approval: a claim in the ledger is
exclusive over all replicas, a claim in memory over one, so two writes executed on an
approval need a replica that has no ledger.  A row or a note of an approval, in turn,
always leads back to a write that it was given for (`OnlyWritesSpend`), which is what
makes reads harmless to it.

### The reference merchant and its judges

`CommerceProofs`, for any products, prices, stocks, customers, keys and sequences of
calls, and for any quantity and number of other purchases:

| Theorem | States |
|---|---|
| `ShopIsSafe` | `ShopSpec => []ShopSafety` |
| `OrdersWindDown` | `ShopSpec => OrdersOnlyWindDown` |
| `JourneyIsSafe` | `JourneySpec => []JourneySafety` |

The merchant.  Five tables hold sums of one another: committed stock is the sum of what
orders sold, points the sum of what they earned, a payment's `refunded_amount` the sum
of its refunds.  `Sums` says how a sum changes when an order or a refund comes, and what
comes is new: that is `BooksAreKept`.  A refund names an order that was there, so a new
order has none; the cart of an order is closed, so filling a cart changes no sale; and a
key of a refund that is known has paid out at least what it says.  The last one is what
`cancelOrder` needs: when the whole amount was refunded before under the derived key,
the order is marked cancelled without another refund, and is compensated all the same.
That nothing reaches an order once cancelled follows: its payment has nothing left to
refund, and a second cancellation changes nothing.

The judges.  `PhasesAreKept` says what was written at each place a journey may stand at,
and that while a checkout is judged the stock has grown by its writes and by what others
bought.  A journey that passes has seen a growth of one quantity: a second write would
have made it two, however much others bought.  The converse holds only for a merchant
that nobody else uses, which is why the soundness of a failure has that condition.

### Evidence and spans

`InProcessProofs`, for any calls and limits, any number of processes and of appends
that fail, and any sizes of batch and queue:

| Theorem | States |
|---|---|
| `EvidenceInvariant` | `TraceSpec => []EvidenceInv` |
| `EvidenceIsSound` | `TraceSpec => []TraceSafety` |
| `TrajectoryIsVerified` | `TraceSpec => []TrajectoryVerifies` |
| `SpansAreSafe` | `ExporterSpec => []ExporterSafety` |
| `ShutdownIsHonest` | `ExporterSpec => ShutdownIsTrue` |

Evidence.  The next event is linked to what the writer *remembers*.  `WriterInv` says
what that is: the end of the file, or, after an append that left a line without its
end, something no reader will come to, because the next line runs into that one.
`FreshInv` says that nothing was written before the directory was there, so that the
first event begins the chain.  `BudgetInv` counts: the tools that run or ran are
exactly as many as the guard's counter, each at an index below it.  That answers are
backed then follows from each answer being the one event that was appended in the same
step.

The trajectory.  `TrajectoryInv` says what a file without failed appends is: `run_started`
and nothing else of the run, then, unless a call has written, one event for each step in
order.  The events that `verifyAgentTrajectory` filters out of it are those behind the
first, so the n-th of them is the one at n + 1.  Both directions follow: without a call
each step meets its event, and with one some filtered event is not the recorder's.

Spans.  The order of what was collected, is under way and waits is one order, and stays
so because a batch is the front of the queue and returns to the front.  What the order
does not give is that dropped spans are older than all that wait: a refused batch
returns to a queue that has dropped newer spans meanwhile.  `ExporterInv` says why that
does no harm: what was dropped is newer than the batch only while the queue is full,
and then nothing of the batch fits.  For the shutdown it counts: what the collector has
is what it had plus what the shutdown has seen accepted, and the batches left are
enough for what waits, unless the shutdown joined a flush or spans came since.

### Findings and their audit

`PostgresQueueProofs`, for any findings, runs, writers and starting servers, and any
number of events:

| Theorem | States |
|---|---|
| `AuditIsSafe` | `FindingSpec => []AuditSafety` |
| `StepsStayAllowed` | `FindingSpec => StepsAreAllowed` |

A change reads the finding, then the end of the log, and commits later; meanwhile a
starting server appends the events of runs and puts findings back, without the advisory
lock.  `ReadsStand` says what survives that.  The finding is as it was read, for its row
is locked and a seeding of its run waits.  The event that was read as the last one may
not be the last any more, but no event of a change and no event of the finding's own run
has a higher number.  The second half needs `FilesComeFirst`: a finding is in the store
only after all events of its run's file, so a later start finds them there and appends
none of them again.  Changes then form one chain, and no status is without the event
that tells of it, unless a start has put the finding back.

### Live events

`OutboundWebhooksProofs`, for any finite set of changes, any set of fetches and any
positive page of a replay:

| Theorem | States |
|---|---|
| `LiveIsSafe` | `LiveSpec => []LiveSafety` |

`ProjectionIsCurrent` speaks of quiet states only.  What carries it is `ChangeInv`, for
each change that is committed and not shown while nothing is excused.  Such a change is
on its way: a fetch was sent or has read it, a hint is on the wire, the client will fetch
because it comes back, the publisher or the listener still has it, or the replay of the
connection will write something.  Any event makes the client fetch the whole projection,
so a page that is cut off does no harm as long as it is not empty (`PageIsNotEmpty`: of
the rows behind a cursor, the one with the lowest number always fits).  If its event was
written to the connection before, a hint must still be on the wire or a fetch must
include it, for it will not be written again.  And it is behind no cursor: a number is
given before its row is seen, so a row may appear below the cursor of a client; but then
the change was committed before the client fetched at that cursor.  This last part is
what a notification between the opening of a stream and its subscription relies on
(`MissedIsReplayed`).

### Only model-checked

Liveness, everywhere: fairness and ENABLED are out of the prover's reach.  That is
`WorkEnds`, `RunIsAnswered`, `ReservationsAreClosed` and `DeliveriesSettle`.  The six
violations stay with TLC by their nature.

## 5. What is not modelled

Left out of the modelled components: `get`, `snapshot` and the other reads, whose
answers change nothing; the text of errors; clocks, beyond whether a deadline has
passed; rounding of `float8` amounts; local halts, unknown prices and emitted
events of the budget tracker; workers without a runner identity (`RunnerWorker`
has one worker per identity; the queue modules do include anonymous callers); the
answers 401 and 404 of the runner routes (`server/src/api.ts:2057-2186`), which
`HttpRunnerQueue` turns into the same `false` as a refusal by the queue
(`server/src/http-runner-queue.ts:58,69,80`), so that `LeaseLostIsReal` speaks of workers
that the routes accept;
within a run, the wording of events and reports, the sandboxes and the adapters
that execute a probe, and evidence other than its presence.

Components without a module are listed in `PROJECT.json` with the reason: they keep
no state that several actors share (adapters, validation, rendering, crypto), or
they are planned below.  The admin UI, a quarter of the repository's code, renders
what the routes return; of it only the client of live events is modelled.

## 6. Plan

1. The generator's review queues and the optimistic editor.
2. The in-memory idempotency store, against the durable one.
3. The files of trajectories and their retention.
