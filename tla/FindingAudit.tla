---------------------------- MODULE FindingAudit ----------------------------
(***************************************************************************)
(* Findings and their audit events in PostgresStore                        *)
(* (packages/store/src/postgres.ts), as the routes                         *)
(* /api/findings/:id/status and /api/findings/:id/verification of          *)
(* packages/server/src/api.ts change them.                                 *)
(*                                                                         *)
(* A change is one transaction: it takes an advisory lock that all changes *)
(* of all tenants share, reads the finding, and appends an event that is   *)
(* linked to the last event of the whole table.  A server that starts      *)
(* seeds the store from the runs directory (seedStoreFromRuns of           *)
(* packages/kit/src/commands/admin.ts) without that lock: each run brings  *)
(* the events of its own chain, and every finding as it was discovered.    *)
(*                                                                         *)
(* Each statement reads what is committed when it starts.                  *)
(***************************************************************************)
EXTENDS Naturals, Sequences, FiniteSets, FiniteSetsExt

CONSTANTS
  Finding,
  Run,            \* directories of .aqa/runs
  RunOf,          \* [Finding -> Run]
  Verifiable,     \* findings with a deterministic reproduction at their floor
  HasOriginal,    \* findings with duplicate_of
  LocalEvents,    \* events in the events.jsonl of a run
  Writer,         \* requests that change a finding
  Server,         \* admin servers over the store
  MaxChanges,     \* bound: audit events
  MaxSeeds,       \* bound: starts of a server
  NoWriter, NoRun

ASSUME FindingAssumption ==
  /\ RunOf \in [Finding -> Run]
  /\ Verifiable \subseteq Finding /\ HasOriginal \subseteq Finding
  /\ LocalEvents \in Nat /\ MaxChanges \in Nat /\ MaxSeeds \in Nat
  /\ NoWriter \notin Writer /\ NoRun \notin Run

VARIABLES
  findings,    \* [Finding -> status, or "absent"]
  auditLog,    \* aqa_store_events in the order of their commits
  auditLock,   \* who holds the advisory lock aqa_store_audit
  changes,     \* [Writer -> the state of the transaction]
  seeds,       \* [Server -> what the start has still to do]
  starts,      \* number of starts
  reseeded     \* findings that a seed has put back since their last audit event

findingVars == <<findings, auditLog, auditLock, changes, seeds, starts, reseeded>>

FindingStatus == {"draft", "verified", "rejected", "duplicate", "fixed", "regressed"}

\* ALLOWED_STATUS_TRANSITIONS
AllowedNext ==
  [draft     |-> {"verified", "rejected", "duplicate", "fixed"},
   verified  |-> {"rejected", "duplicate", "fixed"},
   rejected  |-> {"draft", "fixed"},
   duplicate |-> {"draft", "fixed"},
   fixed     |-> {"draft", "regressed"},
   regressed |-> {"draft", "verified", "fixed"}]

\* What the schema of a finding accepts.
Parses(f, status) ==
  /\ status = "verified" => f \in Verifiable
  /\ status = "duplicate" => f \in HasOriginal

\* "link" is the place in the log of the event whose hash is prev_hash, or 0; the events of
\* a run's own file are linked by their numbers.
AuditEvent(run, seq, link, finding, from, to) ==
  [run |-> run, seq |-> seq, link |-> link, finding |-> finding, from |-> from, to |-> to]

IsLocal(e) == e.finding = {}

Unbegun == [pc |-> "idle", finding |-> {}, from |-> "draft", to |-> "draft", tail |-> 0]

NotStarting == [run |-> NoRun, done |-> 0, todo |-> {}]

Places == 1..Len(auditLog)

LoggedEvent ==
  [run : Run, seq : Nat, link : Nat, finding : SUBSET Finding,
   from : FindingStatus, to : FindingStatus]

Changing ==
  [pc : {"idle", "read", "write"}, finding : SUBSET Finding,
   from : FindingStatus, to : FindingStatus, tail : Nat]

Seeding == [run : Run \cup {NoRun}, done : 0..LocalEvents, todo : SUBSET Run]

FindingTypeOK ==
  /\ findings \in [Finding -> FindingStatus \cup {"absent"}]
  /\ auditLog \in Seq(LoggedEvent)
  /\ \A i \in Places : auditLog[i].link < i
  /\ auditLock \in Writer \cup {NoWriter}
  /\ changes \in [Writer -> Changing]
  /\ \A w \in Writer : changes[w].pc # "idle" <=> auditLock = w
  /\ seeds \in [Server -> Seeding]
  /\ starts \in 0..MaxSeeds
  /\ reseeded \subseteq Finding

FindingInit ==
  /\ findings = [f \in Finding |-> "absent"]
  /\ auditLog = <<>>
  /\ auditLock = NoWriter
  /\ changes = [w \in Writer |-> Unbegun]
  /\ seeds = [s \in Server |-> NotStarting]
  /\ starts = 0
  /\ reseeded = {}

-----------------------------------------------------------------------------
(* seedStoreFromRuns *)

SeedStart(s) ==
  /\ seeds[s] = NotStarting /\ starts < MaxSeeds
  /\ starts' = starts + 1
  /\ seeds' = [seeds EXCEPT ![s].todo = Run]
  /\ UNCHANGED <<findings, auditLog, auditLock, changes, reseeded>>

SeedRun(s, run) ==
  /\ seeds[s].run = NoRun /\ run \in seeds[s].todo
  /\ seeds' = [seeds EXCEPT ![s].run = run, ![s].done = 0, ![s].todo = @ \ {run}]
  /\ UNCHANGED <<findings, auditLog, auditLock, changes, starts, reseeded>>

LocalPlace(run, seq) ==
  {i \in Places : IsLocal(auditLog[i]) /\ auditLog[i].run = run /\ auditLog[i].seq = seq}

\* The number of the last event of the run's file is its place; 0 when there is none.
PlaceBefore(run, seq) ==
  IF seq = 0 THEN 0 ELSE CHOOSE i \in LocalPlace(run, seq - 1) : TRUE

\* appendEvent: INSERT ... ON CONFLICT (event_hash) DO NOTHING.
SeedEvent(s) ==
  LET run == seeds[s].run
      seq == seeds[s].done
  IN /\ run # NoRun /\ seq < LocalEvents
     /\ auditLog' = IF LocalPlace(run, seq) # {} THEN auditLog
                    ELSE Append(auditLog, AuditEvent(run, seq, PlaceBefore(run, seq), {},
                                                     "draft", "draft"))
     /\ seeds' = [seeds EXCEPT ![s].done = @ + 1]
     /\ UNCHANGED <<findings, auditLock, changes, starts, reseeded>>

\* A transaction that changes a finding has its row locked.
FindingIsFree(f) == \A w \in Writer : changes[w].pc # "idle" => changes[w].finding # {f}

\* appendFinding for every finding of the run: an upsert of the finding as it was found.
SeedFindings(s) ==
  LET run == seeds[s].run
      own == {f \in Finding : RunOf[f] = run}
  IN /\ run # NoRun /\ seeds[s].done = LocalEvents
     /\ \A f \in own : FindingIsFree(f)
     /\ findings' = [f \in Finding |-> IF f \in own THEN "draft" ELSE findings[f]]
     /\ reseeded' = reseeded \cup {f \in own : findings[f] # "absent"}
     /\ seeds' = [seeds EXCEPT ![s].run = NoRun, ![s].done = 0]
     /\ UNCHANGED <<auditLog, auditLock, changes, starts>>

-----------------------------------------------------------------------------
(* transitionFindingStatus and recordFindingVerification *)

\* Mutant: transactions do not take turns.
AuditLock_None(w) == UNCHANGED auditLock

AuditLock(w) == auditLock = NoWriter /\ auditLock' = w

EndsChange(w) == auditLock' = NoWriter /\ changes' = [changes EXCEPT ![w] = Unbegun]

\* Mutant: any status may follow.
Follows_Any(from, to) == from # to

Follows(from, to) == to \in AllowedNext[from]

\* The status after a deterministic verification; any other leaves it as it is.
AfterVerification(status, outcome) ==
  IF outcome = "fixed" THEN "fixed"
  ELSE IF outcome = "reproduced" /\ status = "fixed" THEN "regressed"
  ELSE status

\* The status that an operator asks for, or what a verification makes of it.
NextStatus(f) ==
  {to \in FindingStatus : Follows(findings[f], to) /\ Parses(f, to)}
    \cup {to \in {AfterVerification(findings[f], outcome) :
                  outcome \in {"fixed", "reproduced", "unclear"}} :
           to # findings[f] => Follows(findings[f], to)}

\* The route has read the finding and its run; both are read again under the lock.
ChangeBegin(w, f) ==
  /\ changes[w].pc = "idle"
  /\ findings[f] # "absent"
  /\ AuditLock(w)
  /\ \E to \in NextStatus(f) :
       changes' = [changes EXCEPT ![w] =
         [pc |-> "read", finding |-> {f}, from |-> findings[f], to |-> to, tail |-> 0]]
  /\ UNCHANGED <<findings, auditLog, seeds, starts, reseeded>>

\* Mutant: the chain goes on from any event of the run.
Tails_Run(f) == {i \in Places : auditLog[i].run = RunOf[f]}

\* ORDER BY seq DESC LIMIT 1 over all events; any of those with the highest number.
Tails(f) == {i \in Places : \A j \in Places : auditLog[j].seq <= auditLog[i].seq}

ReadTail(w, f) ==
  /\ changes[w].pc = "read" /\ changes[w].finding = {f}
  /\ \E tail \in IF Places = {} THEN {0} ELSE Tails(f) :
       changes' = [changes EXCEPT ![w].pc = "write", ![w].tail = tail]
  /\ UNCHANGED <<findings, auditLog, auditLock, seeds, starts, reseeded>>

NextSeq(tail) == IF tail = 0 THEN 0 ELSE auditLog[tail].seq + 1

\* Mutant: the finding is written and the event is not.
Written_Silently(w, f) == auditLog

Written(w, f) ==
  Append(auditLog, AuditEvent(RunOf[f], NextSeq(changes[w].tail), changes[w].tail, {f},
                              changes[w].from, changes[w].to))

\* The UPDATE and the INSERT are seen when the transaction commits.
ChangeCommit(w, f) ==
  /\ changes[w].pc = "write" /\ changes[w].finding = {f}
  /\ Cardinality({i \in Places : ~IsLocal(auditLog[i])}) < MaxChanges
  /\ findings' = [findings EXCEPT ![f] = changes[w].to]
  /\ auditLog' = Written(w, f)
  /\ reseeded' = reseeded \ {f}
  /\ EndsChange(w)
  /\ UNCHANGED <<seeds, starts>>

\* The change is not allowed, does not parse, or a statement fails.
ChangeAborts(w) ==
  /\ changes[w].pc # "idle"
  /\ EndsChange(w)
  /\ UNCHANGED <<findings, auditLog, seeds, starts, reseeded>>

FindingNext ==
  \/ \E s \in Server :
       \/ SeedStart(s) \/ SeedEvent(s) \/ SeedFindings(s)
       \/ \E run \in Run : SeedRun(s, run)
  \/ \E w \in Writer :
       \/ \E f \in Finding : ChangeBegin(w, f) \/ ReadTail(w, f) \/ ChangeCommit(w, f)
       \/ ChangeAborts(w)

FindingSpec == FindingInit /\ [][FindingNext]_findingVars

-----------------------------------------------------------------------------
(* Properties *)

AuditPlaces == {i \in Places : ~IsLocal(auditLog[i])}

\* The audit events of all findings are one chain: each is numbered one above the event it
\* is linked to, and no two follow the same event or share a number.
AuditDoesNotFork ==
  /\ \A i \in AuditPlaces : auditLog[i].seq = NextSeq(auditLog[i].link)
  /\ \A i, j \in AuditPlaces :
       i # j => auditLog[i].link # auditLog[j].link /\ auditLog[i].seq # auditLog[j].seq

ChangesOf(f) == {i \in AuditPlaces : auditLog[i].finding = {f}}

\* The audit tells what happened to a finding: it is where its last event left it, unless a
\* restart has put it back since.
StatusIsAudited ==
  \A f \in Finding \ reseeded :
    /\ \A i \in ChangesOf(f) :
         (\A j \in ChangesOf(f) : j <= i) => findings[f] = auditLog[i].to
    /\ ChangesOf(f) = {} => findings[f] \in {"absent", "draft"}

\* GET /api/runs/:id/events walks the chain of the run's events in the order of their
\* numbers.  It holds as long as there are only events of one run and its own came first.
RunChainHolds ==
  (/\ \A i, j \in Places : auditLog[i].run = auditLog[j].run
   /\ \A i, j \in Places : IsLocal(auditLog[i]) /\ ~IsLocal(auditLog[j]) => i < j) =>
    \A i \in Places : auditLog[i].seq = i - 1 /\ auditLog[i].link = i - 1

\* A run's own events are in the log before the findings of the run are in the store.
FilesComeFirst ==
  /\ \A s \in Server : seeds[s].run # NoRun =>
       \A k \in 0..(seeds[s].done - 1) : LocalPlace(seeds[s].run, k) # {}
  /\ \A f \in Finding : findings[f] # "absent" =>
       \A k \in 0..(LocalEvents - 1) : LocalPlace(RunOf[f], k) # {}
  /\ \A f \in Finding : ChangesOf(f) # {} => findings[f] # "absent"
  /\ \A i \in Places : IsLocal(auditLog[i]) \/ \E f \in Finding :
       auditLog[i].finding = {f} /\ auditLog[i].run = RunOf[f]

\* While a transaction holds its row and the lock, the status it has read stands, and the
\* event it will be linked to is behind no other change and no event of the finding's run.
ReadsStand ==
  \A w \in Writer : changes[w].pc # "idle" =>
    \E f \in Finding :
      /\ changes[w].finding = {f} /\ findings[f] # "absent"
      /\ changes[w].to # findings[f] =>
           Follows(findings[f], changes[w].to) /\ Parses(f, changes[w].to)
      /\ changes[w].pc = "write" =>
           /\ changes[w].tail <= Len(auditLog)
           /\ \A i \in Places : ~IsLocal(auditLog[i]) \/ auditLog[i].run = RunOf[f] =>
                changes[w].tail # 0 /\ auditLog[i].seq <= auditLog[changes[w].tail].seq

\* The audit is one chain, which tells what became of each finding.
AuditSafety ==
  /\ FindingTypeOK /\ AuditDoesNotFork /\ StatusIsAudited /\ RunChainHolds
  /\ FilesComeFirst /\ ReadsStand

\* However requests race, a finding goes through its life cycle only along allowed steps.
\* A verification of a fixed finding is the only step that is audited and leads nowhere.
StepsAreAllowed ==
  [][\A f \in Finding :
       findings'[f] # findings[f] =>
         \/ findings[f] = "absent"
         \/ f \in reseeded'
         \/ findings'[f] \in AllowedNext[findings[f]] /\ Parses(f, findings'[f])]_findingVars

=============================================================================
