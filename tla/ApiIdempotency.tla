--------------------------- MODULE ApiIdempotency ---------------------------
(***************************************************************************)
(* PostgresApiIdempotencyStore of                                          *)
(* packages/server/src/postgres-api-idempotency.ts, which api.ts wraps     *)
(* around every mutating route: of the requests that carry one             *)
(* Idempotency-Key one runs the handler, and the others wait for its       *)
(* response or are refused.                                                *)
(*                                                                         *)
(* Rows of different scopes and keys never meet, so the module follows one *)
(* row.  claim is a transaction of several statements; the statements of   *)
(* execute and of waitForCompletion stand alone, and each is an action.    *)
(* Neither the UPDATE that completes a claim nor the DELETE that gives it  *)
(* up says whose claim it ends.                                            *)
(***************************************************************************)
EXTENDS Naturals, FiniteSets

CONSTANTS
  Request,        \* calls of execute with this scope and key
  FingerprintOf,  \* [Request -> fingerprints]
  NoRequest

ASSUME RequestsAssumption ==
  /\ IsFiniteSet(Request)
  /\ NoRequest \notin Request
  /\ DOMAIN FingerprintOf = Request

VARIABLES
  row,        \* the row of the key
  pc,         \* pc[d]: where the call d stands, or how it ended
  source,     \* source[d]: the call whose handler made the response d got
  grants,     \* claims inserted so far
  lapses,     \* claims and responses that outlived ttl_ms so far
  releases,   \* claims deleted so far
  repeats     \* of these, the deletions that throw after their effect, to be repeated

history == <<source, grants, lapses, releases, repeats>>
idempotencyVars == <<row, pc, source, grants, lapses, releases, repeats>>

\* "clashed" is a unique violation thrown by claim, "failed" any other throw.
Pc == {"ready", "inserting", "running", "storing", "clearing", "undoing", "waiting",
       "answered", "conflict", "in_progress", "clashed", "failed"}

\* by is the request that inserted the row and gave it its fingerprint.
KeyRow == [state    : {"absent", "pending", "completed"},
           by       : Request \cup {NoRequest},
           response : Request \cup {NoRequest},
           expired  : BOOLEAN]

NoKeyRow == [state |-> "absent", by |-> NoRequest, response |-> NoRequest, expired |-> FALSE]

Claimed(d) == [NoKeyRow EXCEPT !.state = "pending", !.by = d]

IdempotencyTypeOK ==
  /\ row \in KeyRow
  /\ row.state = "absent" <=> row.by = NoRequest
  /\ row.state = "completed" <=> row.response \in Request
  /\ pc \in [Request -> Pc]
  /\ source \in [Request -> Request \cup {NoRequest}]
  /\ grants \in Nat /\ lapses \in Nat /\ releases \in Nat /\ repeats \in Nat

IdempotencyInit ==
  /\ row = NoKeyRow
  /\ pc = [d \in Request |-> "ready"]
  /\ source = [d \in Request |-> NoRequest]
  /\ grants = 0 /\ lapses = 0 /\ releases = 0 /\ repeats = 0

-----------------------------------------------------------------------------
Goto(d, state) == pc' = [pc EXCEPT ![d] = state]

Ends(d, outcome) == Goto(d, outcome) /\ UNCHANGED <<row, history>>

\* The call returns the response that the handler of e made.
Answer(d, e) ==
  /\ Goto(d, "answered")
  /\ source' = [source EXCEPT ![d] = e]
  /\ UNCHANGED <<grants, lapses, releases, repeats>>

Identical(d) == FingerprintOf[row.by] = FingerprintOf[d]

-----------------------------------------------------------------------------
(* claim *)

\* SELECT ... FOR UPDATE, which locks a row but not the absence of one.
Select(d) ==
  /\ pc[d] = "ready"
  /\ \/ row.state = "absent" /\ Ends(d, "inserting")
     \/ /\ row.state # "absent" /\ ~row.expired
        /\ \/ ~Identical(d) /\ Ends(d, "conflict")
           \/ Identical(d) /\ row.state = "pending" /\ Ends(d, "waiting")
           \/ /\ Identical(d) /\ row.state = "completed"
              /\ Answer(d, row.response)
              /\ UNCHANGED row

\* An expired row is deleted and inserted anew under its lock.  Calls whose SELECT
\* waited for that lock find, once it is freed, that the row they waited for is gone.
Replace(d, waited) ==
  /\ pc[d] = "ready"
  /\ row.state # "absent" /\ row.expired
  /\ \A e \in waited : e # d /\ pc[e] = "ready"
  /\ row' = Claimed(d)
  /\ pc' = [e \in Request |-> IF e = d THEN "running"
                              ELSE IF e \in waited THEN "inserting" ELSE pc[e]]
  /\ grants' = grants + 1
  /\ UNCHANGED <<source, lapses, releases, repeats>>

\* Mutant: the INSERT overwrites the row it meets.
Insert_Upsert(d) ==
  /\ pc[d] = "inserting"
  /\ row' = Claimed(d)
  /\ Goto(d, "running")
  /\ grants' = grants + 1
  /\ UNCHANGED <<source, lapses, releases, repeats>>

\* The INSERT has no ON CONFLICT clause: it throws when the key is taken by now.
Insert(d) ==
  /\ pc[d] = "inserting"
  /\ \/ /\ row.state = "absent"
        /\ row' = Claimed(d)
        /\ Goto(d, "running")
        /\ grants' = grants + 1
        /\ UNCHANGED <<source, lapses, releases, repeats>>
     \/ row.state # "absent" /\ Ends(d, "clashed")

-----------------------------------------------------------------------------
(* execute, once the claim is made *)

\* The handler answers below 500, answers 500 or above, or throws.
Handle(d) ==
  /\ pc[d] = "running"
  /\ Ends(d, "storing") \/ Ends(d, "clearing") \/ Ends(d, "undoing")

\* Mutant: the state is written and the response is not.
Completed_Bare(d) ==
  row' = IF row.state = "pending" THEN [row EXCEPT !.state = "completed"] ELSE row

\* UPDATE ... WHERE state = 'pending': whoever's claim it is by now.
Completed(d) ==
  row' = IF row.state = "pending"
         THEN [row EXCEPT !.state = "completed", !.response = d]
         ELSE row

Store(d) ==
  /\ pc[d] = "storing"
  /\ Completed(d)
  /\ Answer(d, d)

\* The UPDATE throws, before or after its effect: the catch block takes over.
BreakStore(d) ==
  /\ pc[d] = "storing"
  /\ Completed(d) \/ UNCHANGED row
  /\ Goto(d, "undoing")
  /\ UNCHANGED history

\* Mutant: the DELETE does not look at the state.
DeleteClaim_AnyState ==
  /\ row' = NoKeyRow
  /\ releases' = IF row.state = "absent" THEN releases ELSE releases + 1

\* DELETE ... WHERE state = 'pending': whoever's claim it is by now.
DeleteClaim ==
  \/ row.state = "pending" /\ row' = NoKeyRow /\ releases' = releases + 1
  \/ row.state # "pending" /\ UNCHANGED <<row, releases>>

\* A response of 500 or above is returned and not kept.
Clear(d) ==
  /\ pc[d] = "clearing"
  /\ DeleteClaim
  /\ Goto(d, "answered")
  /\ source' = [source EXCEPT ![d] = d]
  /\ UNCHANGED <<grants, lapses, repeats>>

\* That DELETE throws, before or after its effect, and the catch block repeats it.
BreakClear(d) ==
  /\ pc[d] = "clearing"
  /\ \/ DeleteClaim /\ repeats' = repeats + 1
     \/ UNCHANGED <<row, releases, repeats>>
  /\ Goto(d, "undoing")
  /\ UNCHANGED <<source, grants, lapses>>

\* The catch block.
Undo(d) ==
  /\ pc[d] = "undoing"
  /\ DeleteClaim
  /\ Goto(d, "failed")
  /\ UNCHANGED <<source, grants, lapses, repeats>>

-----------------------------------------------------------------------------
(* waitForCompletion *)

\* Mutant: the fingerprint was compared when the call began to wait.
Poll_OnceCompared(d) ==
  /\ pc[d] = "waiting"
  /\ \/ row.state = "absent" /\ Ends(d, "ready")
     \/ /\ row.state = "completed"
        /\ Answer(d, row.response)
        /\ UNCHANGED row

\* A waiting call reads the row and does not ask whether it has expired; it starts
\* over when the row is gone.
Poll(d) ==
  /\ pc[d] = "waiting"
  /\ \/ row.state = "absent" /\ Ends(d, "ready")
     \/ row.state # "absent" /\ ~Identical(d) /\ Ends(d, "conflict")
     \/ /\ row.state = "completed" /\ Identical(d)
        /\ Answer(d, row.response)
        /\ UNCHANGED row

\* wait_ms have passed.
GiveUp(d) == pc[d] = "waiting" /\ Ends(d, "in_progress")

-----------------------------------------------------------------------------
\* The replica dies, or a statement throws that nothing catches.
Crash(d) ==
  /\ pc[d] \in {"inserting", "running", "storing", "clearing", "undoing", "waiting"}
  /\ Ends(d, "failed")

\* Time passes expires_at.
KeyLapses ==
  /\ row.state # "absent" /\ ~row.expired
  /\ row' = [row EXCEPT !.expired = TRUE]
  /\ lapses' = lapses + 1
  /\ UNCHANGED <<pc, source, grants, releases, repeats>>

Execute(d) ==
  \/ Select(d) \/ Insert(d) \/ (\E waited \in SUBSET Request : Replace(d, waited))
  \/ Handle(d) \/ Store(d) \/ BreakStore(d)
  \/ Clear(d) \/ BreakClear(d) \/ Undo(d)
  \/ Poll(d) \/ GiveUp(d) \/ Crash(d)

IdempotencyNext == KeyLapses \/ \E d \in Request : Execute(d)

IdempotencySpec == IdempotencyInit /\ [][IdempotencyNext]_idempotencyVars

-----------------------------------------------------------------------------
(* Properties *)

\* The UPDATE and the DELETE name no claim, so they may end another's after a claim
\* outlived its TTL, or when the catch block repeats a deletion.
Undisturbed == lapses = 0 /\ repeats = 0

Handling == {d \in Request : pc[d] \in {"running", "storing"}}

\* ADR-149: "replicas cannot re-execute a mutation": handlers of one key do not
\* run side by side, however requests fail, wait and start over, unless one of
\* them outlived the TTL of its claim or deleted its claim twice.
HandlersDoNotOverlap == Undisturbed => Cardinality(Handling) <= 1

\* Every run of a handler but the first is paid for by a claim that expired or was
\* deleted: neither two requests that find no row, nor two that find one expired
\* row, nor a waiting one that starts over, adds a run.
RunsAreEarned == grants <= 1 + lapses + releases

\* ADR-149: "a reused key with a different fingerprint returns 409": the response
\* that is replayed to a request was made for an identical one, also when claims
\* change hands while it waits, under the same conditions.
ReplaysAreIdentical ==
  Undisturbed =>
    \A d \in Request : pc[d] = "answered" => FingerprintOf[source[d]] = FingerprintOf[d]

\* Why the three hold: what a claim in the table says of the runs it was granted
\* for, and whose it is while none was disturbed.
EarnedInv ==
  grants + (IF row.expired THEN 1 ELSE 0)
    <= lapses + releases + (IF row.state = "absent" THEN 0 ELSE 1)

OwnerInv ==
  /\ ~row.expired
  /\ row.state = "completed" => FingerprintOf[row.response] = FingerprintOf[row.by]
  /\ \A d \in Request :
       /\ pc[d] \in {"running", "storing", "clearing"} =>
            row.state = "pending" /\ row.by = d
       /\ pc[d] = "undoing" => row.by = d
       /\ pc[d] = "answered" => FingerprintOf[source[d]] = FingerprintOf[d]

ClaimInv == EarnedInv /\ (Undisturbed => OwnerInv)

\* A key runs its handler as often as it is paid for, once at a time, and replays what was
\* made for the same request; with the account and the owner that make it so.
RequestSafety ==
  IdempotencyTypeOK /\ ClaimInv /\ HandlersDoNotOverlap /\ RunsAreEarned /\ ReplaysAreIdentical

\* A stored response is what every later request is given until it expires: no
\* handler that ends late, fails or is cleaned up after replaces or deletes it.
ResponsesAreKept ==
  [][(row.state = "completed" /\ ~row.expired) =>
       row' \in {row, [row EXCEPT !.expired = TRUE]}]_idempotencyVars

\* packages/server/README.md: "concurrent identical requests share one result":
\* no request fails because an identical one is under way or has been answered.
IdenticalRequestsShare ==
  \A d, e \in Request :
    (d # e /\ FingerprintOf[d] = FingerprintOf[e] /\ pc[d] = "clashed")
      => pc[e] \notin {"running", "storing", "answered"}

=============================================================================
