-------------------------- MODULE ControlPlaneProofs --------------------------
(***************************************************************************)
(* Theorems about two parts of the control plane: ApiIdempotency, for any  *)
(* finite set of requests and any fingerprints, which MCInProcess checks,  *)
(* and MethodologyStore, for any sets of proposals, artifacts, users,      *)
(* sessions and purgers, which MCAdmission checks.                         *)
(***************************************************************************)
EXTENDS ApiIdempotency, MethodologyStore, Integers, FiniteSetTheorems,
        WellFoundedInduction, TLAPS

-----------------------------------------------------------------------------
(* Type correctness *)

\* What the columns of the two rows that statements write from nothing hold.
LEMMA RowShapes ==
  /\ NoKeyRow \in KeyRow
  /\ NoKeyRow.state = "absent" /\ NoKeyRow.by = NoRequest
  /\ NoKeyRow.response = NoRequest /\ NoKeyRow.expired = FALSE
  /\ \A d \in Request :
       /\ Claimed(d) \in KeyRow
       /\ Claimed(d).state = "pending" /\ Claimed(d).by = d
       /\ Claimed(d).response = NoRequest /\ Claimed(d).expired = FALSE
BY DEF Claimed, NoKeyRow, KeyRow

\* Expiry changes one column.
LEMMA LapsedRow ==
  ASSUME NEW r \in KeyRow
  PROVE  /\ [r EXCEPT !.expired = TRUE] \in KeyRow
         /\ [r EXCEPT !.expired = TRUE].state = r.state
         /\ [r EXCEPT !.expired = TRUE].by = r.by
         /\ [r EXCEPT !.expired = TRUE].response = r.response
         /\ [r EXCEPT !.expired = TRUE].expired = TRUE
BY DEF KeyRow

\* No request is the mark of none.
LEMMA NoneIsNone == NoRequest \notin Request
BY RequestsAssumption

\* A statement that completes or deletes whatever claim it meets keeps the types.
LEMMA WriteTypes ==
  ASSUME IdempotencyTypeOK, NEW d \in Request
  PROVE  /\ Completed(d) => /\ row' \in KeyRow
                            /\ row'.state = "absent" <=> row'.by = NoRequest
                            /\ row'.state = "completed" <=> row'.response \in Request
         /\ DeleteClaim => /\ row' \in KeyRow
                           /\ row'.state = "absent" <=> row'.by = NoRequest
                           /\ row'.state = "completed" <=> row'.response \in Request
                           /\ releases' \in Nat
<1>1. ASSUME Completed(d)
      PROVE  /\ row' \in KeyRow
             /\ row'.state = "absent" <=> row'.by = NoRequest
             /\ row'.state = "completed" <=> row'.response \in Request
  BY <1>1 DEF IdempotencyTypeOK, Completed, KeyRow
<1>2. ASSUME DeleteClaim
      PROVE  /\ row' \in KeyRow
             /\ row'.state = "absent" <=> row'.by = NoRequest
             /\ row'.state = "completed" <=> row'.response \in Request
             /\ releases' \in Nat
  BY <1>2, RowShapes, NoneIsNone DEF IdempotencyTypeOK, DeleteClaim
<1> QED
  BY <1>1, <1>2

\* Every step keeps the types.
LEMMA NextTypes == IdempotencyTypeOK /\ [IdempotencyNext]_idempotencyVars => IdempotencyTypeOK'
<1> SUFFICES ASSUME IdempotencyTypeOK, [IdempotencyNext]_idempotencyVars
             PROVE  IdempotencyTypeOK'
  OBVIOUS
<1> USE DEF IdempotencyTypeOK, history
<1>1. CASE UNCHANGED idempotencyVars
  BY <1>1 DEF idempotencyVars
<1>2. CASE KeyLapses
  <2>1. /\ row' \in KeyRow
        /\ row'.state = row.state /\ row'.by = row.by /\ row'.response = row.response
    BY <1>2, LapsedRow DEF KeyLapses
  <2> QED
    BY <1>2, <2>1 DEF KeyLapses
<1>3. ASSUME NEW d \in Request, Execute(d)
      PROVE  IdempotencyTypeOK'
  <2> USE DEF Pc
  <2>1. CASE Select(d)
    BY <2>1 DEF Select, Ends, Goto, Answer
  <2>2. ASSUME NEW waited \in SUBSET Request, Replace(d, waited)
        PROVE  IdempotencyTypeOK'
    BY <2>2, RowShapes, NoneIsNone DEF Replace
  <2>3. CASE Insert(d)
    BY <2>3, RowShapes, NoneIsNone DEF Insert, Ends, Goto
  <2>4. CASE Handle(d)
    BY <2>4 DEF Handle, Ends, Goto
  <2>5. CASE Store(d)
    BY <2>5, WriteTypes DEF Store, Answer, Goto
  <2>6. CASE BreakStore(d)
    BY <2>6, WriteTypes DEF BreakStore, Goto
  <2>7. CASE Clear(d)
    BY <2>7, WriteTypes DEF Clear, Goto
  <2>8. CASE BreakClear(d)
    BY <2>8, WriteTypes DEF BreakClear, Goto
  <2>9. CASE Undo(d)
    BY <2>9, WriteTypes DEF Undo, Goto
  <2>10. CASE Poll(d) \/ GiveUp(d) \/ Crash(d)
    BY <2>10 DEF Poll, GiveUp, Crash, Ends, Goto, Answer
  <2> QED
    BY <1>3, <2>1, <2>2, <2>3, <2>4, <2>5, <2>6, <2>7, <2>8, <2>9, <2>10 DEF Execute
<1> QED
  BY <1>1, <1>2, <1>3 DEF IdempotencyNext

\* The table, the calls and the counters keep their types.
THEOREM TypeCorrect == IdempotencySpec => []IdempotencyTypeOK
<1>1. IdempotencyInit => IdempotencyTypeOK
  BY RowShapes, NoneIsNone DEF IdempotencyInit, IdempotencyTypeOK, Pc
<1> QED
  BY <1>1, NextTypes, PTL DEF IdempotencySpec

-----------------------------------------------------------------------------
(* Every run is paid for *)

\* Completing a claim neither makes nor ends one; deleting it counts as a release.
LEMMA WritesAreCounted ==
  ASSUME IdempotencyTypeOK, EarnedInv, NEW d \in Request, UNCHANGED <<grants, lapses>>
  PROVE  /\ (Completed(d) /\ UNCHANGED releases) => EarnedInv'
         /\ DeleteClaim => EarnedInv'
         /\ UNCHANGED <<row, releases>> => EarnedInv'
<1>1. ASSUME Completed(d), UNCHANGED releases
      PROVE  EarnedInv'
  <2>1. row'.expired = row.expired /\ (row'.state = "absent" <=> row.state = "absent")
    BY <1>1 DEF Completed, IdempotencyTypeOK, KeyRow
  <2> QED
    BY <1>1, <2>1 DEF EarnedInv
<1>2. ASSUME DeleteClaim
      PROVE  EarnedInv'
  <2>1. CASE UNCHANGED <<row, releases>>
    BY <2>1 DEF EarnedInv
  <2>2. CASE row.state = "pending" /\ row' = NoKeyRow /\ releases' = releases + 1
    <3>1. row'.state = "absent" /\ row'.expired = FALSE
      BY <2>2, RowShapes
    <3> QED
      BY <2>2, <3>1 DEF EarnedInv, IdempotencyTypeOK
  <2> QED
    BY <1>2, <2>1, <2>2 DEF DeleteClaim
<1>3. UNCHANGED <<row, releases>> => EarnedInv'
  BY DEF EarnedInv
<1> QED
  BY <1>1, <1>2, <1>3

\* Every step keeps the account.
LEMMA NextEarned == IdempotencyTypeOK /\ EarnedInv /\ [IdempotencyNext]_idempotencyVars => EarnedInv'
<1> SUFFICES ASSUME IdempotencyTypeOK, EarnedInv, [IdempotencyNext]_idempotencyVars
             PROVE  EarnedInv'
  OBVIOUS
<1> USE DEF history
<1>1. CASE UNCHANGED idempotencyVars
  BY <1>1 DEF idempotencyVars, EarnedInv
<1>2. CASE KeyLapses
  <2>1. row'.state = row.state /\ row'.expired = TRUE
    BY <1>2, LapsedRow DEF KeyLapses, IdempotencyTypeOK
  <2> QED
    BY <1>2, <2>1 DEF KeyLapses, EarnedInv, IdempotencyTypeOK
<1>3. ASSUME NEW d \in Request, Execute(d)
      PROVE  EarnedInv'
  <2>1. CASE Select(d)
    BY <2>1 DEF Select, Ends, Answer, EarnedInv
  <2>2. ASSUME NEW waited \in SUBSET Request, Replace(d, waited)
        PROVE  EarnedInv'
    <3>1. row'.state = "pending" /\ row'.expired = FALSE
      BY <2>2, RowShapes DEF Replace
    <3> QED
      BY <2>2, <3>1 DEF Replace, EarnedInv, IdempotencyTypeOK
  <2>3. CASE Insert(d)
    <3>1. CASE row.state = "absent" /\ row' = Claimed(d)
      <4>1. row'.state = "pending" /\ row'.expired = FALSE
        BY <3>1, RowShapes
      <4> QED
        BY <2>3, <3>1, <4>1 DEF Insert, Ends, EarnedInv, IdempotencyTypeOK
    <3>2. CASE Ends(d, "clashed")
      BY <3>2 DEF Ends, EarnedInv
    <3> QED
      BY <2>3, <3>1, <3>2 DEF Insert
  <2>4. CASE Handle(d) \/ GiveUp(d) \/ Crash(d)
    BY <2>4 DEF Handle, GiveUp, Crash, Ends, EarnedInv
  <2>5. CASE Store(d) \/ BreakStore(d)
    BY <2>5, WritesAreCounted DEF Store, BreakStore, Answer
  <2>6. CASE Clear(d) \/ BreakClear(d) \/ Undo(d)
    BY <2>6, WritesAreCounted DEF Clear, BreakClear, Undo
  <2>7. CASE Poll(d)
    BY <2>7 DEF Poll, Ends, Answer, EarnedInv
  <2> QED
    BY <1>3, <2>1, <2>2, <2>3, <2>4, <2>5, <2>6, <2>7 DEF Execute
<1> QED
  BY <1>1, <1>2, <1>3 DEF IdempotencyNext

\* No run of a handler is free, whatever waits, fails, expires or starts over.
THEOREM RunsArePaidFor == IdempotencySpec => []RunsAreEarned
<1>1. IdempotencyInit => EarnedInv
  BY RowShapes DEF IdempotencyInit, EarnedInv
<1>2. IdempotencyTypeOK /\ EarnedInv => RunsAreEarned
  BY DEF IdempotencyTypeOK, EarnedInv, RunsAreEarned
<1> QED
  BY <1>1, <1>2, TypeCorrect, NextEarned, PTL DEF IdempotencySpec

-----------------------------------------------------------------------------
(* Stored responses *)

\* No step but the passing of time touches a response that has not expired.
THEOREM ResponsesStay == IdempotencySpec => ResponsesAreKept
<1>1. ASSUME IdempotencyNext, row.state = "completed", ~row.expired
      PROVE  row' \in {row, [row EXCEPT !.expired = TRUE]}
  <2>1. CASE KeyLapses
    BY <2>1 DEF KeyLapses
  <2>2. ASSUME NEW d \in Request, Execute(d)
        PROVE  row' = row
    <3>1. Completed(d) => row' = row
      BY <1>1 DEF Completed
    <3>2. DeleteClaim => row' = row
      BY <1>1 DEF DeleteClaim
    <3> QED
      BY <1>1, <2>2, <3>1, <3>2
         DEF Execute, Select, Replace, Insert, Handle, Store, BreakStore, Clear, BreakClear,
             Undo, Poll, GiveUp, Crash, Ends, Answer, history
  <2> QED
    BY <1>1, <2>1, <2>2 DEF IdempotencyNext
<1>2. [IdempotencyNext]_idempotencyVars => [(row.state = "completed" /\ ~row.expired) =>
                        row' \in {row, [row EXCEPT !.expired = TRUE]}]_idempotencyVars
  BY <1>1
<1> QED
  BY <1>2, PTL DEF IdempotencySpec, ResponsesAreKept

-----------------------------------------------------------------------------
(* Whose claim it is *)

\* Nothing undoes a disturbance.
LEMMA StaysDisturbed == IdempotencyTypeOK /\ [IdempotencyNext]_idempotencyVars /\ Undisturbed' => Undisturbed
<1> SUFFICES ASSUME IdempotencyTypeOK, [IdempotencyNext]_idempotencyVars, Undisturbed'
             PROVE  Undisturbed
  OBVIOUS
<1>1. lapses' \in {lapses, lapses + 1} /\ repeats' \in {repeats, repeats + 1}
  BY DEF IdempotencyNext, Execute, Select, Replace, Insert, Handle, Store, BreakStore, Clear, BreakClear,
         Undo, Poll, GiveUp, Crash, KeyLapses, Ends, Answer, history, idempotencyVars
<1> QED
  BY <1>1 DEF Undisturbed, IdempotencyTypeOK

\* While a claim is in use the row is its own; a step of its holder that touches
\* the row or leaves it leaves the others nothing to own.
LEMMA NextOwned ==
  ASSUME IdempotencyTypeOK, OwnerInv, IdempotencyNext, Undisturbed, Undisturbed'
  PROVE  OwnerInv'
<1> USE DEF history, Goto
<1>1. CASE KeyLapses
  BY <1>1 DEF KeyLapses, Undisturbed
<1>2. ASSUME NEW d \in Request, Execute(d)
      PROVE  OwnerInv'
  <2>1. CASE Select(d)
    <3>1. CASE Ends(d, "inserting") \/ Ends(d, "conflict") \/ Ends(d, "waiting")
      BY <3>1 DEF OwnerInv, Ends, IdempotencyTypeOK
    <3>2. CASE /\ Identical(d) /\ row.state = "completed"
               /\ Answer(d, row.response) /\ UNCHANGED row
      BY <3>2 DEF OwnerInv, Identical, Answer, IdempotencyTypeOK
    <3> QED
      BY <2>1, <3>1, <3>2 DEF Select
  <2>2. ASSUME NEW waited \in SUBSET Request, Replace(d, waited)
        PROVE  OwnerInv'
    BY <2>2 DEF Replace, OwnerInv
  <2>3. CASE Insert(d)
    <3>1. CASE row.state = "absent" /\ row' = Claimed(d)
      <4>1. /\ row'.state = "pending" /\ row'.by = d /\ row'.expired = FALSE
            /\ pc' = [pc EXCEPT ![d] = "running"] /\ UNCHANGED source
        BY <2>3, <3>1, RowShapes DEF Insert, Ends
      <4>2. \A e \in Request : pc[e] \notin {"running", "storing", "clearing", "undoing"}
        BY <3>1, NoneIsNone DEF OwnerInv, IdempotencyTypeOK
      <4> QED
        BY <4>1, <4>2 DEF OwnerInv, IdempotencyTypeOK
    <3>2. CASE Ends(d, "clashed")
      BY <3>2 DEF OwnerInv, Ends, IdempotencyTypeOK
    <3> QED
      BY <2>3, <3>1, <3>2 DEF Insert
  <2>4. CASE Handle(d) \/ GiveUp(d) \/ Crash(d)
    BY <2>4 DEF Handle, GiveUp, Crash, Ends, OwnerInv, IdempotencyTypeOK
  <2>5. CASE Store(d) \/ BreakStore(d)
    <3>1. row.state = "pending" /\ row.by = d /\ ~row.expired
      BY <2>5 DEF Store, BreakStore, OwnerInv
    <3>2. \A e \in Request \ {d} :
             pc[e] \notin {"running", "storing", "clearing", "undoing"}
      BY <3>1 DEF OwnerInv
    <3>3. Completed(d) => row'.state = "completed" /\ row'.response = d
                          /\ row'.by = d /\ ~row'.expired
      BY <3>1 DEF Completed, IdempotencyTypeOK, KeyRow
    <3>4. CASE Store(d)
      BY <3>2, <3>3, <3>4 DEF Store, Answer, OwnerInv, IdempotencyTypeOK
    <3>5. CASE BreakStore(d)
      <4>1. /\ row'.by = d /\ ~row'.expired
            /\ row'.state = "completed" => row'.response = d
        BY <3>1, <3>3, <3>5 DEF BreakStore
      <4> QED
        BY <3>2, <3>5, <4>1 DEF BreakStore, OwnerInv, IdempotencyTypeOK
    <3> QED
      BY <2>5, <3>4, <3>5
  <2>6. CASE Clear(d) \/ Undo(d)
    <3>1. row.by = d
      BY <2>6 DEF Clear, Undo, OwnerInv
    <3>2. \A e \in Request \ {d} :
             pc[e] \notin {"running", "storing", "clearing", "undoing"}
      BY <3>1 DEF OwnerInv
    <3>3. row' = row \/ row' = NoKeyRow
      BY <2>6 DEF Clear, Undo, DeleteClaim
    <3>4. /\ ~row'.expired
          /\ row'.state = "completed" => FingerprintOf[row'.response] = FingerprintOf[row'.by]
      BY <3>3, RowShapes DEF OwnerInv
    <3> QED
      BY <2>6, <3>2, <3>4 DEF Clear, Undo, OwnerInv, IdempotencyTypeOK
  <2>7. CASE BreakClear(d)
    <3>1. UNCHANGED row
      BY <2>7 DEF BreakClear, Undisturbed, IdempotencyTypeOK
    <3> QED
      BY <2>7, <3>1 DEF BreakClear, OwnerInv, IdempotencyTypeOK
  <2>8. CASE Poll(d)
    <3>1. CASE Ends(d, "ready") \/ Ends(d, "conflict")
      BY <3>1 DEF OwnerInv, Ends, IdempotencyTypeOK
    <3>2. CASE /\ Identical(d) /\ row.state = "completed"
               /\ Answer(d, row.response) /\ UNCHANGED row
      BY <3>2 DEF OwnerInv, Identical, Answer, IdempotencyTypeOK
    <3> QED
      BY <2>8, <3>1, <3>2 DEF Poll
  <2> QED
    BY <1>2, <2>1, <2>2, <2>3, <2>4, <2>5, <2>6, <2>7, <2>8 DEF Execute
<1> QED
  BY <1>1, <1>2 DEF IdempotencyNext

\* The inductive invariant: the account of claims, and whose the row is.
THEOREM ClaimInvariant == IdempotencySpec => []ClaimInv
<1>1. IdempotencyInit => ClaimInv
  BY RowShapes DEF IdempotencyInit, ClaimInv, EarnedInv, OwnerInv
<1>2. IdempotencyTypeOK /\ ClaimInv /\ [IdempotencyNext]_idempotencyVars => ClaimInv'
  <2> SUFFICES ASSUME IdempotencyTypeOK, ClaimInv, [IdempotencyNext]_idempotencyVars
               PROVE  ClaimInv'
    OBVIOUS
  <2>1. EarnedInv'
    BY NextEarned DEF ClaimInv
  <2>2. ASSUME Undisturbed'
        PROVE  OwnerInv'
    <3>1. Undisturbed /\ OwnerInv
      BY <2>2, StaysDisturbed DEF ClaimInv
    <3>2. CASE UNCHANGED idempotencyVars
      BY <3>1, <3>2 DEF idempotencyVars, OwnerInv
    <3>3. CASE IdempotencyNext
      BY <2>2, <3>1, <3>3, NextOwned
    <3> QED
      BY <3>2, <3>3
  <2> QED
    BY <2>1, <2>2 DEF ClaimInv
<1> QED
  BY <1>1, <1>2, TypeCorrect, PTL DEF IdempotencySpec

\* The handlers of one key do not run side by side while no claim outlives its TTL
\* and no deletion is repeated.
THEOREM HandlersTakeTurns == IdempotencySpec => []HandlersDoNotOverlap
<1>1. ClaimInv => HandlersDoNotOverlap
  <2> SUFFICES ASSUME ClaimInv, Undisturbed
               PROVE  Cardinality(Handling) <= 1
    BY DEF HandlersDoNotOverlap
  <2>1. Handling \in SUBSET {row.by}
    BY DEF ClaimInv, OwnerInv, Handling
  <2>2. IsFiniteSet({row.by}) /\ Cardinality({row.by}) = 1
    BY FS_Singleton
  <2> HIDE DEF Handling
  <2>3. Cardinality(Handling) <= Cardinality({row.by})
    BY <2>1, <2>2, FS_Subset
  <2> QED
    BY <2>2, <2>3
<1> QED
  BY <1>1, ClaimInvariant, PTL

\* Under the same conditions a replay was made for an identical request.
THEOREM ReplaysMatch == IdempotencySpec => []ReplaysAreIdentical
<1>1. ClaimInv => ReplaysAreIdentical
  BY DEF ClaimInv, OwnerInv, ReplaysAreIdentical
<1> QED
  BY <1>1, ClaimInvariant, PTL

\* All that requests of one key rely on.
THEOREM RequestsAreSafe == IdempotencySpec => []RequestSafety
BY TypeCorrect, ClaimInvariant, HandlersTakeTurns, RunsArePaidFor, ReplaysMatch, PTL
   DEF RequestSafety

-----------------------------------------------------------------------------
(* The governance of methodology artifacts *)

\* Every set of keys has a first one.
LEMMA LeastKey ==
  ASSUME NEW S \in SUBSET Nat, S # {}
  PROVE  \E a \in S : \A b \in S : a <= b
<1>1. PICK x \in S : TRUE
  OBVIOUS
<1>2. x \in S \cap (0 .. x)
  <2>1. x \in Nat OBVIOUS
  <2>2. QED BY <2>1
<1>3. \A a, b \in S : b < a /\ a \in 0 .. x => b \in 0 .. x
  OBVIOUS
<1> DEFINE Below(a) == {b \in S : b < a}
<1> DEFINE Family == {Below(a) : a \in S \cap (0 .. x)}
<1>4. IsWellFoundedOn(StrictSubsetOrdering(0 .. x), SUBSET (0 .. x))
  <2>1. IsFiniteSet(0 .. x) BY FS_Interval
  <2>2. QED BY <2>1, FS_StrictSubsetOrderingWellFounded, FS_FiniteSubsetsOfFinite
<1>5. Family \subseteq SUBSET (0 .. x) /\ Family # {}
  <2>1. ASSUME NEW a \in S \cap (0 .. x) PROVE Below(a) \subseteq 0 .. x
    BY <1>3
  <2> HIDE DEF Below
  <2>3. QED BY <2>1, <1>2
<1>6. PICK d \in Family : \A e \in Family : ~ <<e, d>> \in StrictSubsetOrdering(0 .. x)
  <2> HIDE DEF Family
  <2>1. QED BY <1>4, <1>5, WFMin
<1>7. PICK a \in S \cap (0 .. x) : d = Below(a)
  OBVIOUS
<1>8. ASSUME NEW b \in S, b < a
      PROVE  FALSE
  <2>1. b \in S \cap (0 .. x)
    BY <1>8, <1>3
  <2>2. b \in Below(a) /\ b \notin Below(b) /\ Below(b) \subseteq Below(a)
    <3>1. \A c \in S : c < b => c < a
      BY <1>8
    <3>2. ~(b < b)
      OBVIOUS
    <3>3. QED BY <1>8, <3>1, <3>2
  <2>3. Below(b) \in Family
    BY <2>1
  <2> HIDE DEF Below, Family
  <2>4. <<Below(b), d>> \in StrictSubsetOrdering(0 .. x)
    BY <2>2, <2>3, <1>5, <1>7 DEF StrictSubsetOrdering
  <2>5. QED BY <2>3, <2>4, <1>6
<1>9. QED
  BY <1>8

\* The next key of a reconciliation is one of them.
LEMMA FirstIsIn ==
  ASSUME NEW S \in SUBSET Artifact, S # {}
  PROVE  First(S) \in S
<1>1. S \in SUBSET Nat
  BY MethodologyAssumption
<1>2. \E a \in S : \A b \in S : a <= b
  BY <1>1, LeastKey
<1>3. QED
  BY <1>2 DEF First

\* The locks are held by transactions that are under way.
LocksAreHeld ==
  /\ \A a \in Artifact :
       /\ artifactLock[a] \in Session =>
            /\ sessions[artifactLock[a]].pc \in {"approve", "publish"}
            /\ ArtifactOf[sessions[artifactLock[a]].proposal] = a
       /\ artifactLock[a] \in Purger => purgers[artifactLock[a]].pc # "idle"
  /\ \A p \in Proposal :
       rowLock[p] # NoOne => purgers[rowLock[p]].pc \in {"visit", "scrub"}

\* The types alone.
RecordTypes ==
  /\ proposals \in [Proposal -> ProposalRecord]
  /\ approvalLive \in [Proposal -> BOOLEAN]
  /\ artifacts \in [Artifact -> Digests]
  /\ lifecycles \in [Artifact -> Lifecycle \cup {NoLifecycle}]
  /\ ages \in [Artifact -> Ages]
  /\ artifactLock \in [Artifact -> Session \cup Purger \cup {NoOne}]
  /\ rowLock \in [Proposal -> Purger \cup {NoOne}]
  /\ sessions \in [Session -> SessionState]
  /\ purgers \in [Purger -> PurgerState]

\* The type invariant in its two parts.
LEMMA TypesSplit == MethodologyTypeOK <=> RecordTypes /\ LocksAreHeld
BY DEF MethodologyTypeOK, RecordTypes, LocksAreHeld

\* The two resting states, and what changes in a record.
LEMMA RestingStates ==
  /\ IdleSession \in SessionState /\ IdleSession.pc = "idle"
  /\ IdleSession.lifecycle = NoLifecycle
  /\ IdlePurger \in PurgerState /\ IdlePurger.pc = "idle"
  /\ NewLifecycle \in Lifecycle /\ ~NewLifecycle.hold
BY DEF IdleSession, SessionState, IdlePurger, PurgerState, NewLifecycle, Lifecycle

\* A decision changes two columns of one record.
LEMMA DecidedRecord ==
  ASSUME NEW old \in [Proposal -> ProposalRecord], NEW p \in Proposal,
         NEW status \in {"approved", "rejected"}, NEW user \in User
  PROVE  LET new == [old EXCEPT ![p].status = status, ![p].by = user]
         IN  /\ new \in [Proposal -> ProposalRecord]
             /\ new[p].status = status /\ new[p].by = user /\ new[p].content = old[p].content
             /\ \A q \in Proposal : q # p => new[q] = old[q]
<1> DEFINE record == [[old[p] EXCEPT !.status = status] EXCEPT !.by = user]
<1>1. /\ record \in ProposalRecord
      /\ record.status = status /\ record.by = user /\ record.content = old[p].content
  BY DEF ProposalRecord
<1>2. [old EXCEPT ![p].status = status, ![p].by = user] = [old EXCEPT ![p] = record]
  OBVIOUS
<1> HIDE DEF record
<1>3. QED
  BY <1>1, <1>2

\* So does a rejection, of the record that was read.
LEMMA RejectedRecord ==
  ASSUME NEW old \in [Proposal -> ProposalRecord], NEW p \in Proposal, NEW user \in User
  PROVE  LET new == [old EXCEPT ![p] = [old[p] EXCEPT !.status = "rejected", !.by = user]]
         IN  /\ new \in [Proposal -> ProposalRecord]
             /\ new[p].status = "rejected" /\ new[p].by = user /\ new[p].content = old[p].content
             /\ \A q \in Proposal : q # p => new[q] = old[q]
             /\ new = [old EXCEPT ![p].status = "rejected", ![p].by = user]
<1> DEFINE record == [old[p] EXCEPT !.status = "rejected", !.by = user]
<1>1. /\ record \in ProposalRecord
      /\ record.status = "rejected" /\ record.by = user /\ record.content = old[p].content
  BY DEF ProposalRecord
<1>2. [old EXCEPT ![p].status = "rejected", ![p].by = user] = [old EXCEPT ![p] = record]
  OBVIOUS
<1> HIDE DEF record
<1>3. /\ [old EXCEPT ![p] = record] \in [Proposal -> ProposalRecord]
      /\ [old EXCEPT ![p] = record][p] = record
      /\ \A q \in Proposal : q # p => [old EXCEPT ![p] = record][q] = old[q]
  BY <1>1
<1>4. QED
  BY <1>1, <1>2, <1>3 DEF record

\* Every step of a session keeps the types of the records.
LEMMA SessionTypes ==
  ASSUME RecordTypes, SessionsKnow, NEW s \in Session, SessionStep(s)
  PROVE  RecordTypes'
<1> USE MethodologyAssumption DEF RecordTypes, NoData, NoLocks
<1>0. /\ sessions[s].pc # "idle" => sessions[s].proposal \in Proposal
      /\ sessions[s].pc \in {"approve-lock", "approve", "reject"} => sessions[s].user \in User
  BY DEF SessionsKnow
<1>1. ASSUME NEW p \in Proposal, NEW user \in User, ApproveBegin(s, p, user)
      PROVE  RecordTypes'
  BY <1>1 DEF ApproveBegin, IdleSession, SessionState
<1>2. ASSUME NEW p \in Proposal, NEW user \in User, RejectLoad(s, p, user)
      PROVE  RecordTypes'
  BY <1>2 DEF RejectLoad, IdleSession, SessionState
<1>3. ASSUME NEW p \in Proposal, PublishLoad(s, p)
      PROVE  RecordTypes'
  BY <1>3 DEF PublishLoad, IdleSession, SessionState
<1>4. CASE ApproveLock(s)
  BY <1>0, <1>4 DEF ApproveLock, Lock, SessionArtifact, Becomes, SessionState
<1>5. CASE ApproveEnd(s)
  <2> DEFINE p == sessions[s].proposal
             user == sessions[s].user
  <2>0. \/ UNCHANGED proposals
        \/ proposals' = [proposals EXCEPT ![p].status = "approved", ![p].by = user]
    BY <1>5 DEF ApproveEnd
  <2>1. proposals' \in [Proposal -> ProposalRecord]
    <3>1. p \in Proposal /\ user \in User
      BY <1>0, <1>5 DEF ApproveEnd
    <3> HIDE DEF p, user
    <3>2. [proposals EXCEPT ![p].status = "approved", ![p].by = user]
            \in [Proposal -> ProposalRecord]
      BY <3>1, DecidedRecord
    <3>3. QED BY <2>0, <3>2
  <2>2. sessions' \in [Session -> SessionState] /\ UNCHANGED purgers
    BY <1>5, RestingStates DEF ApproveEnd, SessionEnds
  <2>3. /\ artifactLock' \in [Artifact -> Session \cup Purger \cup {NoOne}]
        /\ rowLock' \in [Proposal -> Purger \cup {NoOne}]
    BY <1>5 DEF ApproveEnd, Unlock
  <2>4. UNCHANGED <<approvalLive, artifacts, lifecycles, ages>>
    BY <1>5 DEF ApproveEnd
  <2>5. QED BY <2>1, <2>2, <2>3, <2>4
<1>6. CASE RejectEnd(s)
  <2> DEFINE p == sessions[s].proposal
             user == sessions[s].user
  <2>0. \/ UNCHANGED proposals
        \/ proposals' = [proposals EXCEPT ![p] =
                            [proposals[p] EXCEPT !.status = "rejected", !.by = user]]
    BY <1>6 DEF RejectEnd, Unread
  <2>1. proposals' \in [Proposal -> ProposalRecord]
    <3>1. p \in Proposal /\ user \in User
      BY <1>0, <1>6 DEF RejectEnd
    <3> HIDE DEF p, user
    <3>2. [proposals EXCEPT ![p] = [proposals[p] EXCEPT !.status = "rejected", !.by = user]]
            \in [Proposal -> ProposalRecord]
      BY <3>1, RejectedRecord
    <3>3. QED BY <2>0, <3>2
  <2>2. sessions' \in [Session -> SessionState] /\ UNCHANGED purgers
    BY <1>6, RestingStates DEF RejectEnd, SessionEnds
  <2>3. UNCHANGED <<approvalLive, artifacts, lifecycles, ages, artifactLock, rowLock>>
    BY <1>6 DEF RejectEnd
  <2>4. QED BY <2>1, <2>2, <2>3
<1>7. CASE PublishRead(s)
  <2> DEFINE read == [[sessions[s] EXCEPT !.pc = "publish-lock"]
                        EXCEPT !.lifecycle = lifecycles[SessionArtifact(s)]]
  <2>1. SessionArtifact(s) \in Artifact
    BY <1>0, <1>7 DEF PublishRead, SessionArtifact
  <2>2. lifecycles[SessionArtifact(s)] \in Lifecycle \cup {NoLifecycle}
    BY <2>1
  <2>3. read \in SessionState
    <3>1. sessions[s] \in SessionState
      OBVIOUS
    <3>2. [sessions[s] EXCEPT !.pc = "publish-lock"] \in SessionState
      BY <3>1 DEF SessionState
    <3>3. QED BY <2>2, <3>2 DEF SessionState
  <2>4. sessions' = [sessions EXCEPT ![s] = read]
    BY <1>7 DEF PublishRead
  <2> HIDE DEF read
  <2>5. sessions' \in [Session -> SessionState]
    BY <2>3, <2>4
  <2>6. QED BY <1>7, <2>5 DEF PublishRead
<1>8. CASE PublishLock(s)
  BY <1>0, <1>8 DEF PublishLock, Lock, SessionArtifact, Becomes, SessionState
<1>9. CASE PublishEnd(s)
  <2>1. sessions' \in [Session -> SessionState] /\ UNCHANGED purgers
    BY <1>9, RestingStates DEF PublishEnd, SessionEnds
  <2>2. /\ artifactLock' \in [Artifact -> Session \cup Purger \cup {NoOne}]
        /\ rowLock' \in [Proposal -> Purger \cup {NoOne}]
    BY <1>9 DEF PublishEnd, Unlock
  <2>3. artifacts' \in [Artifact -> Digests]
    BY <1>0, <1>9 DEF PublishEnd, Digests
  <2>4. PublishedLifecycle(s) \in Lifecycle
    BY RestingStates DEF PublishedLifecycle, SessionState
  <2>5. lifecycles' \in [Artifact -> Lifecycle \cup {NoLifecycle}]
    BY <2>4, <1>9 DEF PublishEnd
  <2>6. ages' \in [Artifact -> Ages]
    <3> DEFINE a == ArtifactOf[sessions[s].proposal]
               age == IF sessions[s].lifecycle = NoLifecycle THEN "fresh" ELSE ages[a]
    <3>1. a \in Artifact
      BY <1>0, <1>9 DEF PublishEnd
    <3>2. age \in Ages
      BY <3>1 DEF Ages
    <3>3. ages' = ages \/ ages' = [ages EXCEPT ![a] = age]
      BY <1>9 DEF PublishEnd
    <3> HIDE DEF age
    <3>4. QED BY <3>1, <3>2, <3>3
  <2>7. UNCHANGED <<proposals, approvalLive>>
    BY <1>9 DEF PublishEnd
  <2>8. QED BY <2>1, <2>2, <2>3, <2>5, <2>6, <2>7
<1>10. CASE SessionAborts(s)
  BY <1>10, RestingStates DEF SessionAborts, Unlock, SessionEnds
<1>11. QED
  BY <1>1, <1>2, <1>3, <1>4, <1>5, <1>6, <1>7, <1>8, <1>9, <1>10 DEF SessionStep


\* What a purger has in hand stays well-formed.
LEMMA PurgerRecords ==
  ASSUME NEW state \in PurgerState, NEW a \in Artifact
  PROVE  /\ [state EXCEPT !.todo = @ \ {a}] \in PurgerState
         /\ [state EXCEPT !.todo = @ \ {a}, !.rows = @ \cup {a}] \in PurgerState
         /\ [[state EXCEPT !.todo = @ \ {a}, !.rows = @ \cup {a}]
               EXCEPT !.archived = @ \cup {a}] \in PurgerState
         /\ [[state EXCEPT !.todo = @ \ {a}, !.rows = @ \cup {a}]
               EXCEPT !.pc = "scrub", !.current = {a}, !.purged = @ \cup {a}] \in PurgerState
         /\ [state EXCEPT !.todo = @ \ {a}, !.adopted = @ \cup {a}] \in PurgerState
BY DEF PurgerState

\* What a visit makes of the state of a purger.
VisitState(state, a, new) ==
  \/ /\ lifecycles[a] = NoLifecycle /\ a \notin state.adopted
     /\ new = [state EXCEPT !.todo = @ \ {a}]
  \/ new = [state EXCEPT !.todo = @ \ {a}, !.rows = @ \cup {a}]
  \/ /\ lifecycles[a] = NoLifecycle => a \in state.adopted
     /\ lifecycles[a] # NoLifecycle => ~lifecycles[a].hold
     /\ ages[a] = "archivable"
     /\ new = [[state EXCEPT !.todo = @ \ {a}, !.rows = @ \cup {a}]
                 EXCEPT !.archived = @ \cup {a}]
  \/ /\ lifecycles[a] = NoLifecycle => a \in state.adopted
     /\ lifecycles[a] # NoLifecycle => ~lifecycles[a].hold
     /\ ages[a] = "expired"
     /\ new = [[state EXCEPT !.todo = @ \ {a}, !.rows = @ \cup {a}]
                 EXCEPT !.pc = "scrub", !.current = {a}, !.purged = @ \cup {a}]

LEMMA VisitEffect ==
  ASSUME RecordTypes, NEW w \in Purger, Visit(w)
  PROVE  \E a \in Artifact :
           /\ purgers[w].pc = "visit" /\ a \in purgers[w].todo
           /\ artifactLock[a] \in {NoOne, w}
           /\ artifactLock' = [artifactLock EXCEPT ![a] = w]
           /\ \E new \in PurgerState :
                VisitState(purgers[w], a, new) /\ purgers' = [purgers EXCEPT ![w] = new]
           /\ UNCHANGED <<proposals, approvalLive, artifacts, lifecycles, ages, rowLock, sessions>>
<1> DEFINE state == purgers[w]
           a == First(state.todo)
           gone == lifecycles[a] = NoLifecycle /\ a \notin state.adopted
           held == lifecycles[a] # NoLifecycle /\ lifecycles[a].hold
           next == [state EXCEPT !.todo = @ \ {a}, !.rows = IF gone THEN @ ELSE @ \cup {a}]
           new == IF gone \/ held \/ ages[a] = "fresh" THEN next
                  ELSE IF ages[a] = "archivable" THEN [next EXCEPT !.archived = @ \cup {a}]
                  ELSE [next EXCEPT !.pc = "scrub", !.current = {a}, !.purged = @ \cup {a}]
<1>1. state \in PurgerState /\ state.todo \in SUBSET Artifact
  BY DEF RecordTypes, PurgerState
<1>2. state.pc = "visit" /\ state.todo # {}
  BY DEF Visit
<1>3. a \in state.todo /\ a \in Artifact
  BY <1>1, <1>2, FirstIsIn
<1>4. /\ purgers' = [purgers EXCEPT ![w] = new]
      /\ artifactLock[a] \in {NoOne, w}
      /\ artifactLock' = [artifactLock EXCEPT ![a] = w]
      /\ UNCHANGED <<proposals, approvalLive, artifacts, lifecycles, ages, rowLock, sessions>>
  BY DEF Visit, Lock, PurgerStep, NoData, IsHeld
<1>5. next = IF gone THEN [state EXCEPT !.todo = @ \ {a}]
             ELSE [state EXCEPT !.todo = @ \ {a}, !.rows = @ \cup {a}]
  BY <1>1 DEF PurgerState
<1>6. ages[a] \in {"fresh", "archivable", "expired"}
  BY <1>3 DEF RecordTypes, Ages
<1>7. VisitState(state, a, new)
  <2> HIDE DEF state, a
  <2>1. QED BY <1>5, <1>6 DEF VisitState
<1>8. new \in PurgerState
  <2> HIDE DEF state, a, new
  <2>1. /\ [state EXCEPT !.todo = @ \ {a}] \in PurgerState
        /\ [state EXCEPT !.todo = @ \ {a}, !.rows = @ \cup {a}] \in PurgerState
        /\ [[state EXCEPT !.todo = @ \ {a}, !.rows = @ \cup {a}]
              EXCEPT !.archived = @ \cup {a}] \in PurgerState
        /\ [[state EXCEPT !.todo = @ \ {a}, !.rows = @ \cup {a}]
              EXCEPT !.pc = "scrub", !.current = {a}, !.purged = @ \cup {a}] \in PurgerState
    BY <1>1, <1>3, PurgerRecords
  <2>2. QED BY <1>7, <2>1 DEF VisitState
<1>9. QED
  BY <1>2, <1>3, <1>4, <1>7, <1>8

\* What an adoption makes of it, and of the ages.
AdoptState(state, a, new) ==
  \/ /\ new = [state EXCEPT !.todo = @ \ {a}]
     /\ UNCHANGED ages
  \/ /\ artifacts[a] # NoDigest /\ lifecycles[a] = NoLifecycle
     /\ new = [state EXCEPT !.todo = @ \ {a}, !.adopted = @ \cup {a}]
     /\ \E age \in Ages : ages' = [ages EXCEPT ![a] = age]

LEMMA AdoptEffect ==
  ASSUME RecordTypes, NEW w \in Purger, NEW a \in Artifact, Adopt(w, a)
  PROVE  /\ purgers[w].pc = "adopt"
         /\ artifactLock[a] \in {NoOne, w}
         /\ artifactLock' = [artifactLock EXCEPT ![a] = w]
         /\ \E new \in PurgerState :
              AdoptState(purgers[w], a, new) /\ purgers' = [purgers EXCEPT ![w] = new]
         /\ UNCHANGED <<proposals, approvalLive, artifacts, lifecycles, rowLock, sessions>>
<1> DEFINE state == purgers[w]
           isLegacy == artifacts[a] # NoDigest /\ lifecycles[a] = NoLifecycle
           new == [state EXCEPT !.todo = @ \ {a}, !.adopted = IF isLegacy THEN @ \cup {a} ELSE @]
<1>1. state \in PurgerState
  BY DEF RecordTypes
<1>2. new = IF isLegacy THEN [state EXCEPT !.todo = @ \ {a}, !.adopted = @ \cup {a}]
            ELSE [state EXCEPT !.todo = @ \ {a}]
  BY <1>1 DEF PurgerState
<1>3. new \in PurgerState
  <2>1. /\ [state EXCEPT !.todo = @ \ {a}] \in PurgerState
        /\ [state EXCEPT !.todo = @ \ {a}, !.adopted = @ \cup {a}] \in PurgerState
    BY <1>1, PurgerRecords
  <2> HIDE DEF new
  <2>2. QED BY <1>2, <2>1
<1>4. /\ purgers' = [purgers EXCEPT ![w] = new]
      /\ IF isLegacy THEN \E age \in Ages : ages' = [ages EXCEPT ![a] = age] ELSE UNCHANGED ages
  BY DEF Adopt, PurgerStep
<1>5. /\ purgers[w].pc = "adopt"
      /\ artifactLock[a] \in {NoOne, w}
      /\ artifactLock' = [artifactLock EXCEPT ![a] = w]
      /\ UNCHANGED <<proposals, approvalLive, artifacts, lifecycles, rowLock, sessions>>
  BY DEF Adopt, Lock, PurgerStep
<1>6. AdoptState(state, a, new)
  <2> HIDE DEF new
  <2>1. QED BY <1>2, <1>4 DEF AdoptState
<1> HIDE DEF new
<1>7. QED
  BY <1>3, <1>4, <1>5, <1>6

\* Every step of a reconciliation keeps the types of the records.
LEMMA PurgerTypes ==
  ASSUME RecordTypes, PurgersKnow, NEW w \in Purger, PurgerMoves(w)
  PROVE  RecordTypes'
<1>0. \A a \in purgers[w].archived : lifecycles[a] = NoLifecycle => a \in purgers[w].adopted
  BY DEF PurgersKnow
<1>7. ASSUME NEW a \in Artifact, Adopt(w, a)
      PROVE  RecordTypes'
  <2>1. PICK new \in PurgerState :
          AdoptState(purgers[w], a, new) /\ purgers' = [purgers EXCEPT ![w] = new]
    BY <1>7, AdoptEffect
  <2>2. /\ artifactLock' = [artifactLock EXCEPT ![a] = w]
        /\ UNCHANGED <<proposals, approvalLive, artifacts, lifecycles, rowLock, sessions>>
    BY <1>7, AdoptEffect
  <2>3. UNCHANGED ages \/ \E age \in Ages : ages' = [ages EXCEPT ![a] = age]
    BY <2>1 DEF AdoptState
  <2>4. ages' \in [Artifact -> Ages]
    BY <2>3 DEF RecordTypes
  <2>5. QED BY <2>1, <2>2, <2>4 DEF RecordTypes
<1> USE MethodologyAssumption DEF RecordTypes, NoData, NoLocks
<1>1. CASE PurgeBegin(w)
  BY <1>1 DEF PurgeBegin, PurgerStep, IdlePurger, PurgerState
<1>2. CASE PurgeList(w)
  <2> DEFINE state == purgers[w]
             listed == {a \in Artifact : lifecycles[a] # NoLifecycle} \cup state.adopted
  <2>1. state \in PurgerState /\ listed \in SUBSET Artifact
    BY DEF PurgerState
  <2>2. [state EXCEPT !.pc = "visit", !.todo = listed] \in PurgerState
    <3> HIDE DEF state, listed
    <3>1. QED BY <2>1 DEF PurgerState
  <2>3. purgers' = [purgers EXCEPT ![w] = [state EXCEPT !.pc = "visit", !.todo = listed]]
    BY <1>2 DEF PurgeList, PurgerStep
  <2> HIDE DEF state, listed
  <2>4. purgers' \in [Purger -> PurgerState]
    BY <2>2, <2>3
  <2>5. QED BY <1>2, <2>4 DEF PurgeList, PurgerStep
<1>3. CASE Visit(w)
  BY <1>3, VisitEffect
<1>4. CASE Scrub(w)
  <2> DEFINE state == purgers[w]
             present == {p \in Proposal : proposals[p].status # "absent"}
             found == {p \in present : ArtifactOf[p] \in state.current /\ Scrubbable(p)}
             new == [state EXCEPT !.pc = "visit", !.current = {}, !.scrubbed = @ \cup found]
  <2>1. state \in PurgerState /\ found \in SUBSET Proposal
    OBVIOUS
  <2>2. new \in PurgerState
    <3> HIDE DEF state, found
    <3>1. QED BY <2>1 DEF PurgerState
  <2>3. /\ purgers' = [purgers EXCEPT ![w] = new]
        /\ rowLock' = [p \in Proposal |-> IF p \in present THEN w ELSE rowLock[p]]
        /\ UNCHANGED <<proposals, approvalLive, artifacts, lifecycles, ages, artifactLock, sessions>>
    BY <1>4 DEF Scrub, PurgerStep
  <2> HIDE DEF new, present
  <2>4. QED BY <2>2, <2>3
<1>5. CASE PurgeCommit(w)
  <2> DEFINE state == purgers[w]
             left(a) == IF a \in state.adopted THEN NewLifecycle ELSE lifecycles[a]
  <2>1. purgers' \in [Purger -> PurgerState] /\ UNCHANGED <<sessions, approvalLive, ages>>
    BY <1>5, RestingStates DEF PurgeCommit, PurgerStep
  <2>2. /\ artifactLock' \in [Artifact -> Session \cup Purger \cup {NoOne}]
        /\ rowLock' \in [Proposal -> Purger \cup {NoOne}]
    BY <1>5 DEF PurgeCommit, Unlock
  <2>3. artifacts' \in [Artifact -> Digests]
    BY <1>5 DEF PurgeCommit, Digests
  <2>4. lifecycles' \in [Artifact -> Lifecycle \cup {NoLifecycle}]
    <3>1. \A a \in Artifact : left(a) \in Lifecycle \cup {NoLifecycle}
      BY RestingStates
    <3>2. \A a \in Artifact : a \in state.archived => left(a) \in Lifecycle
      BY <3>1, <1>0, RestingStates
    <3>3. \A l \in Lifecycle : [l EXCEPT !.state = "archived"] \in Lifecycle
      BY DEF Lifecycle
    <3>4. lifecycles' = [a \in Artifact |->
            IF a \in state.purged THEN NoLifecycle
            ELSE IF a \in state.archived THEN [left(a) EXCEPT !.state = "archived"] ELSE left(a)]
      BY <1>5 DEF PurgeCommit
    <3> HIDE DEF left, state
    <3>5. QED BY <3>1, <3>2, <3>3, <3>4
  <2>5. proposals' \in [Proposal -> ProposalRecord]
    BY <1>5 DEF PurgeCommit, ProposalRecord
  <2>6. QED BY <2>1, <2>2, <2>3, <2>4, <2>5
<1>6. CASE PurgerAborts(w)
  BY <1>6, RestingStates DEF PurgerAborts, PurgerStep, Unlock
<1>8. QED
  BY <1>1, <1>2, <1>3, <1>4, <1>5, <1>6, <1>7 DEF PurgerMoves

-----------------------------------------------------------------------------
\* What the step of a session does to the data: nothing, a decision, or a publication.
Decides(s, p, status, user) ==
  /\ proposals[p].status = "pending" /\ user # ProposerOf[p]
  /\ status = "approved" => proposals[p].content /\ artifactLock[ArtifactOf[p]] = s
  /\ proposals' = [proposals EXCEPT ![p].status = status, ![p].by = user]
  /\ UNCHANGED <<artifacts, lifecycles, ages>>

Publishes(s, p, lifecycle, age) ==
  LET a == ArtifactOf[p]
  IN /\ artifactLock[a] = s
     /\ proposals[p].status = "approved" /\ proposals[p].content /\ approvalLive[p]
     /\ artifacts[a] \in {NoDigest, DigestOf[p]} /\ lifecycles[a] = NoLifecycle
     /\ (lifecycle = NewLifecycle /\ age = "fresh") \/ age = "expired"
     /\ artifacts' = [artifacts EXCEPT ![a] = DigestOf[p]]
     /\ lifecycles' = [lifecycles EXCEPT ![a] = lifecycle]
     /\ ages' = [ages EXCEPT ![a] = age]
     /\ UNCHANGED proposals

SessionWrites(s) ==
  /\ UNCHANGED <<approvalLive, purgers>>
  /\ \/ UNCHANGED <<proposals, artifacts, lifecycles, ages>>
     \/ \E p \in Proposal, status \in {"approved", "rejected"}, user \in User :
          Decides(s, p, status, user)
     \/ \E p \in Proposal, lifecycle \in Lifecycle, age \in Ages :
          Publishes(s, p, lifecycle, age)

\* Every step of a session does one of these.
LEMMA SessionData ==
  ASSUME RecordTypes, SessionsKnow, NEW s \in Session, SessionStep(s)
  PROVE  SessionWrites(s)
<1> DEFINE p == sessions[s].proposal
           user == sessions[s].user
           a == ArtifactOf[p]
<1>1. ASSUME \/ \E q \in Proposal :
                  \/ \E u \in User : ApproveBegin(s, q, u) \/ RejectLoad(s, q, u)
                  \/ PublishLoad(s, q)
             \/ ApproveLock(s) \/ PublishRead(s) \/ PublishLock(s) \/ SessionAborts(s)
      PROVE  SessionWrites(s)
  BY <1>1 DEF SessionWrites, ApproveBegin, RejectLoad, PublishLoad, ApproveLock, PublishRead,
     PublishLock, SessionAborts, SessionEnds, Becomes, NoData
<1>2. CASE ApproveEnd(s)
  <2>1. p \in Proposal /\ user \in User /\ artifactLock[a] = s
    BY <1>2 DEF ApproveEnd, SessionsKnow, SessionArtifact
  <2>2. UNCHANGED <<approvalLive, purgers, artifacts, lifecycles, ages>>
    BY <1>2 DEF ApproveEnd, SessionEnds
  <2>3. CASE UNCHANGED proposals
    BY <2>2, <2>3 DEF SessionWrites
  <2>4. CASE ~UNCHANGED proposals
    <3>1. Decides(s, p, "approved", user)
      BY <1>2, <2>1, <2>2, <2>4 DEF ApproveEnd, Decides, MayDecide
    <3> HIDE DEF p, user
    <3>2. QED BY <2>1, <2>2, <3>1 DEF SessionWrites
  <2>5. QED BY <2>3, <2>4
<1>3. CASE RejectEnd(s)
  <2>1. p \in Proposal /\ user \in User /\ MayDecide(sessions[s].record, p, user)
    BY <1>3 DEF RejectEnd, SessionsKnow
  <2>2. UNCHANGED <<approvalLive, purgers, artifacts, lifecycles, ages>>
    BY <1>3 DEF RejectEnd, SessionEnds
  <2>3. CASE UNCHANGED proposals
    BY <2>2, <2>3 DEF SessionWrites
  <2>4. CASE ~UNCHANGED proposals
    <3>1. proposals[p] = sessions[s].record
      BY <1>3, <2>4 DEF RejectEnd, Unread
    <3>2. proposals' = [proposals EXCEPT
            ![p] = [sessions[s].record EXCEPT !.status = "rejected", !.by = sessions[s].user]]
      BY <1>3, <2>4 DEF RejectEnd
    <3>3. proposals' = [proposals EXCEPT ![p] = [proposals[p] EXCEPT !.status = "rejected", !.by = user]]
      BY <3>1, <3>2
    <3>4. proposals' = [proposals EXCEPT ![p].status = "rejected", ![p].by = user]
      <4>1. proposals \in [Proposal -> ProposalRecord]
        BY DEF RecordTypes
      <4> HIDE DEF p, user
      <4>2. QED BY <2>1, <3>3, <4>1, RejectedRecord
    <3>5. Decides(s, p, "rejected", user)
      BY <2>1, <2>2, <3>1, <3>4 DEF Decides, MayDecide
    <3> HIDE DEF p, user
    <3>6. QED BY <2>1, <2>2, <3>5 DEF SessionWrites
  <2>5. QED BY <2>3, <2>4
<1>4. CASE PublishEnd(s)
  <2> DEFINE age == IF sessions[s].lifecycle = NoLifecycle THEN "fresh" ELSE ages[a]
  <2>1. p \in Proposal /\ a \in Artifact /\ artifactLock[a] = s
    BY <1>4, MethodologyAssumption DEF PublishEnd, SessionsKnow, SessionArtifact
  <2>2. UNCHANGED <<approvalLive, purgers, proposals>>
    BY <1>4 DEF PublishEnd, SessionEnds
  <2>3. CASE UNCHANGED <<artifacts, lifecycles, ages>>
    BY <2>2, <2>3 DEF SessionWrites
  <2>4. CASE ~UNCHANGED <<artifacts, lifecycles, ages>>
    <3>1. /\ Publishable(p) /\ SameContent(p) /\ LifecycleIsNew(s)
          /\ artifacts' = [artifacts EXCEPT ![a] = DigestOf[p]]
          /\ lifecycles' = [lifecycles EXCEPT ![a] = PublishedLifecycle(s)]
          /\ ages' = [ages EXCEPT ![a] = age]
      BY <1>4, <2>4 DEF PublishEnd
    <3>2. PublishedLifecycle(s) \in Lifecycle /\ age \in Ages
      BY <2>1, RestingStates DEF PublishedLifecycle, SessionState, RecordTypes, Ages
    <3>3. (PublishedLifecycle(s) = NewLifecycle /\ age = "fresh") \/ age = "expired"
      <4>1. CASE sessions[s].lifecycle = NoLifecycle
        BY <4>1 DEF PublishedLifecycle
      <4>2. CASE sessions[s].lifecycle # NoLifecycle
        <5>1. sessions[s].pc # "idle" /\ lifecycles[a] = NoLifecycle
          BY <1>4, <3>1 DEF PublishEnd, LifecycleIsNew, SessionArtifact
        <5>2. ages[a] = "expired"
          BY <4>2, <5>1 DEF SessionsKnow, SessionArtifact
        <5>3. QED BY <4>2, <5>2
      <4>3. QED BY <4>1, <4>2
    <3>4. /\ proposals[p].status = "approved" /\ proposals[p].content /\ approvalLive[p]
          /\ artifacts[a] \in {NoDigest, DigestOf[p]} /\ lifecycles[a] = NoLifecycle
      BY <3>1 DEF Publishable, SameContent, LifecycleIsNew, SessionArtifact
    <3> DEFINE lifecycle == PublishedLifecycle(s)
    <3> HIDE DEF age, lifecycle, p
    <3>5. Publishes(s, p, lifecycle, age)
      BY <2>1, <2>2, <3>1, <3>3, <3>4 DEF Publishes, lifecycle
    <3>6. QED BY <2>1, <2>2, <3>2, <3>5 DEF SessionWrites, lifecycle
  <2>5. QED BY <2>3, <2>4
<1>5. QED
  BY <1>1, <1>2, <1>3, <1>4 DEF SessionStep

\* What a request knows of itself.
RequestKnows(r) ==
  /\ r.pc # "idle" => r.proposal \in Proposal
  /\ r.pc \in {"approve-lock", "approve", "reject"} => r.user \in User
  /\ r.pc = "reject" => MayDecide(r.record, r.proposal, r.user)

\* The locks of the artifacts after the step of s: only s takes or gives back, and it has
\* the lock of its artifact exactly while it decides or publishes.
LocksOnlyOwn(who) ==
  \A a \in Artifact, other \in Session \cup Purger :
    other # who => (artifactLock'[a] = other <=> artifactLock[a] = other)

\* Every step of a session does one of these.
LEMMA SessionLocks ==
  ASSUME RecordTypes, LocksAreHeld, SessionsKnow, NEW s \in Session, SessionStep(s)
  PROVE  /\ \A t \in Session : t # s => sessions'[t] = sessions[t]
         /\ LocksOnlyOwn(s)
         /\ \A a \in Artifact :
              artifactLock'[a] = s <=> /\ sessions'[s].pc \in {"approve", "publish"}
                                       /\ a = ArtifactOf[sessions'[s].proposal]
         /\ rowLock' = rowLock
         /\ RequestKnows(sessions'[s])
<1> DEFINE p == sessions[s].proposal
           Goal == /\ \A t \in Session : t # s => sessions'[t] = sessions[t]
                   /\ LocksOnlyOwn(s)
                   /\ \A a \in Artifact :
                        artifactLock'[a] = s <=> /\ sessions'[s].pc \in {"approve", "publish"}
                                                 /\ a = ArtifactOf[sessions'[s].proposal]
                   /\ rowLock' = rowLock
                   /\ RequestKnows(sessions'[s])
<1>1. \A a \in Artifact :
        artifactLock[a] = s <=> sessions[s].pc \in {"approve", "publish"} /\ a = ArtifactOf[p]
  BY MethodologyAssumption DEF LocksAreHeld, SessionsKnow, SessionArtifact
<1>2. RequestKnows(sessions[s])
  BY DEF SessionsKnow, RequestKnows
<1>3. s \notin Purger /\ s # NoOne /\ sessions[s] \in SessionState
      /\ sessions \in [Session -> SessionState]
      /\ artifactLock \in [Artifact -> Session \cup Purger \cup {NoOne}]
      /\ rowLock \in [Proposal -> Purger \cup {NoOne}]
  BY MethodologyAssumption DEF RecordTypes
\* A request begins, with no lock.
<1>4. ASSUME NEW new \in SessionState, new.pc \in {"approve-lock", "reject", "publish-read"},
             RequestKnows(new), sessions[s].pc = "idle",
             sessions' = [sessions EXCEPT ![s] = new], NoLocks
      PROVE  Goal
  BY <1>1, <1>3, <1>4 DEF NoLocks, LocksOnlyOwn
<1>5. ASSUME NEW q \in Proposal, NEW user \in User, ApproveBegin(s, q, user)
      PROVE  Goal
  <2> DEFINE new == [IdleSession EXCEPT !.pc = "approve-lock", !.proposal = q, !.user = user]
  <2>1. /\ new \in SessionState /\ new.pc = "approve-lock" /\ RequestKnows(new)
    BY DEF IdleSession, SessionState, RequestKnows
  <2>2. sessions[s].pc = "idle" /\ sessions' = [sessions EXCEPT ![s] = new] /\ NoLocks
    BY <1>5 DEF ApproveBegin
  <2> HIDE DEF new, Goal
  <2>3. QED BY <2>1, <2>2, <1>4
<1>6. ASSUME NEW q \in Proposal, NEW user \in User, RejectLoad(s, q, user)
      PROVE  Goal
  <2> DEFINE new == [IdleSession EXCEPT !.pc = "reject", !.proposal = q, !.user = user,
                                        !.record = proposals[q]]
  <2>1. /\ new \in SessionState /\ new.pc = "reject" /\ RequestKnows(new)
    BY <1>6 DEF RejectLoad, IdleSession, SessionState, RequestKnows, RecordTypes
  <2>2. sessions[s].pc = "idle" /\ sessions' = [sessions EXCEPT ![s] = new] /\ NoLocks
    BY <1>6 DEF RejectLoad
  <2> HIDE DEF new, Goal
  <2>3. QED BY <2>1, <2>2, <1>4
<1>7. ASSUME NEW q \in Proposal, PublishLoad(s, q)
      PROVE  Goal
  <2> DEFINE new == [IdleSession EXCEPT !.pc = "publish-read", !.proposal = q]
  <2>1. /\ new \in SessionState /\ new.pc = "publish-read" /\ RequestKnows(new)
    BY DEF IdleSession, SessionState, RequestKnows
  <2>2. sessions[s].pc = "idle" /\ sessions' = [sessions EXCEPT ![s] = new] /\ NoLocks
    BY <1>7 DEF PublishLoad
  <2> HIDE DEF new, Goal
  <2>3. QED BY <2>1, <2>2, <1>4
\* It takes its lock.
<1>8. ASSUME NEW phase \in {"approve", "publish"}, Lock(s, ArtifactOf[p]),
             sessions' = [sessions EXCEPT ![s].pc = phase],
             \/ sessions[s].pc = "approve-lock" /\ phase = "approve"
             \/ sessions[s].pc = "publish-lock" /\ phase = "publish"
      PROVE  Goal
  <2>1. p \in Proposal /\ ArtifactOf[p] \in Artifact
    BY <1>2, <1>8, MethodologyAssumption DEF RequestKnows
  <2>2. sessions'[s].pc = phase /\ sessions'[s].proposal = p /\ sessions'[s].user = sessions[s].user
    BY <1>3, <1>8 DEF SessionState
  <2>3. RequestKnows(sessions'[s])
    BY <1>2, <1>8, <2>1, <2>2 DEF RequestKnows
  <2>4. /\ artifactLock[ArtifactOf[p]] \in {NoOne, s}
        /\ artifactLock' = [artifactLock EXCEPT ![ArtifactOf[p]] = s] /\ rowLock' = rowLock
    BY <1>8 DEF Lock
  <2>5. LocksOnlyOwn(s)
    BY <1>3, <2>1, <2>4, MethodologyAssumption DEF LocksOnlyOwn
  <2>6. \A t \in Session : t # s => sessions'[t] = sessions[t]
    BY <1>3, <1>8
  <2>7. \A a \in Artifact : artifactLock'[a] = s <=> a = ArtifactOf[p]
    BY <1>1, <1>3, <1>8, <2>1, <2>4
  <2>8. QED BY <1>8, <2>2, <2>3, <2>4, <2>5, <2>6, <2>7
<1>9. CASE ApproveLock(s)
  BY <1>8, <1>9 DEF ApproveLock, SessionArtifact, Becomes
<1>10. CASE PublishLock(s)
  BY <1>8, <1>10 DEF PublishLock, SessionArtifact, Becomes
<1>11. CASE PublishRead(s)
  <2>1. /\ sessions'[s].pc = "publish-lock" /\ sessions'[s].proposal = p
        /\ \A t \in Session : t # s => sessions'[t] = sessions[t]
        /\ NoLocks /\ sessions[s].pc = "publish-read"
    BY <1>3, <1>11 DEF PublishRead, SessionState
  <2>2. LocksOnlyOwn(s) /\ rowLock' = rowLock /\ artifactLock' = artifactLock
    BY <2>1 DEF NoLocks, LocksOnlyOwn
  <2>3. RequestKnows(sessions'[s])
    BY <1>2, <2>1 DEF RequestKnows
  <2>4. \A a \in Artifact : artifactLock'[a] # s
    BY <1>1, <2>1, <2>2
  <2>5. QED BY <2>1, <2>2, <2>3, <2>4
\* It ends, and gives back what it has.
<1>12. ASSUME SessionEnds(s), Unlock(s) \/ (NoLocks /\ sessions[s].pc = "reject")
       PROVE  Goal
  <2>1. /\ sessions'[s] = IdleSession
        /\ \A t \in Session : t # s => sessions'[t] = sessions[t]
    BY <1>3, <1>12 DEF SessionEnds
  <2>2. rowLock' = rowLock
    BY <1>3, <1>12 DEF Unlock, NoLocks
  <2>3. LocksOnlyOwn(s) /\ \A a \in Artifact : artifactLock'[a] # s
    BY <1>1, <1>3, <1>12, MethodologyAssumption DEF Unlock, NoLocks, LocksOnlyOwn
  <2>4. QED BY <2>1, <2>2, <2>3, RestingStates DEF RequestKnows
<1>13. CASE ApproveEnd(s) \/ RejectEnd(s) \/ PublishEnd(s) \/ SessionAborts(s)
  <2>1. SessionEnds(s) /\ (Unlock(s) \/ (NoLocks /\ sessions[s].pc = "reject"))
    BY <1>13 DEF ApproveEnd, RejectEnd, PublishEnd, SessionAborts
  <2> HIDE DEF Goal
  <2>2. Goal BY <2>1, <1>12
  <2>3. QED BY <2>2 DEF Goal
<1>14. QED
  BY <1>5, <1>6, <1>7, <1>9, <1>10, <1>11, <1>13 DEF SessionStep

-----------------------------------------------------------------------------
\* What the step of a purger does to the data: nothing, the age of an artifact that it
\* adopts, or all at once.
Adopts(w, a, age) ==
  /\ artifactLock[a] \in {NoOne, w}
  /\ artifacts[a] # NoDigest /\ lifecycles[a] = NoLifecycle
  /\ ages' = [ages EXCEPT ![a] = age]
  /\ UNCHANGED <<proposals, artifacts, lifecycles>>

RowOf(w, a) == IF a \in purgers[w].adopted THEN NewLifecycle ELSE lifecycles[a]

Commits(w) ==
  LET state == purgers[w]
  IN /\ state.pc = "visit"
     /\ lifecycles' = [a \in Artifact |->
          IF a \in state.purged THEN NoLifecycle
          ELSE IF a \in state.archived THEN [RowOf(w, a) EXCEPT !.state = "archived"]
          ELSE RowOf(w, a)]
     /\ artifacts' = [a \in Artifact |-> IF a \in state.purged THEN NoDigest ELSE artifacts[a]]
     /\ proposals' = [p \in Proposal |->
          IF p \in state.scrubbed THEN [proposals[p] EXCEPT !.content = FALSE] ELSE proposals[p]]
     /\ UNCHANGED ages

PurgerWrites(w) ==
  /\ UNCHANGED <<approvalLive, sessions>>
  /\ \/ UNCHANGED <<proposals, artifacts, lifecycles, ages>>
     \/ \E a \in Artifact, age \in Ages : Adopts(w, a, age)
     \/ Commits(w)

\* Every step of a reconciliation does one of these.
LEMMA PurgerData ==
  ASSUME RecordTypes, NEW w \in Purger, PurgerMoves(w)
  PROVE  PurgerWrites(w)
<1>1. ASSUME PurgeBegin(w) \/ PurgeList(w) \/ Visit(w) \/ Scrub(w) \/ PurgerAborts(w)
      PROVE  PurgerWrites(w)
  BY <1>1 DEF PurgerWrites, PurgeBegin, PurgeList, Visit, Scrub, PurgerAborts, PurgerStep, NoData
<1>2. CASE PurgeCommit(w)
  <2>1. Commits(w) /\ UNCHANGED <<approvalLive, sessions>>
    BY <1>2 DEF PurgeCommit, Commits, RowOf, PurgerStep
  <2>2. QED BY <2>1 DEF PurgerWrites
<1>3. ASSUME NEW a \in Artifact, Adopt(w, a)
      PROVE  PurgerWrites(w)
  <2>1. PICK new \in PurgerState : AdoptState(purgers[w], a, new)
    BY <1>3, AdoptEffect
  <2>2. /\ artifactLock[a] \in {NoOne, w}
        /\ UNCHANGED <<proposals, approvalLive, artifacts, lifecycles, sessions>>
    BY <1>3, AdoptEffect
  <2>3. UNCHANGED ages \/ \E age \in Ages : Adopts(w, a, age)
    BY <2>1, <2>2 DEF AdoptState, Adopts
  <2>4. QED BY <2>2, <2>3 DEF PurgerWrites
<1>4. QED
  BY <1>1, <1>2, <1>3 DEF PurgerMoves

\* How a visit of a leaves the record of a purger.
LEMMA VisitFields ==
  ASSUME NEW state \in PurgerState, NEW a \in Artifact, NEW new, state.pc = "visit",
         VisitState(state, a, new)
  PROVE  /\ new.pc \in {"visit", "scrub"}
         /\ new.adopted = state.adopted /\ state.rows \subseteq new.rows
         /\ new.rows \subseteq state.rows \cup {a}
         /\ new.archived \subseteq state.archived \cup {a}
         /\ new.purged \subseteq state.purged \cup {a}
         /\ a \in new.archived \cup new.purged => a \in new.rows \/ a \in state.archived \cup state.purged
         /\ state.purged \subseteq new.purged /\ new.scrubbed = state.scrubbed
         /\ a \in new.archived \cup new.purged /\ a \notin state.archived \cup state.purged =>
              /\ IF lifecycles[a] = NoLifecycle THEN a \in state.adopted ELSE ~lifecycles[a].hold
              /\ ages[a] = IF a \in new.purged THEN "expired" ELSE "archivable"
         /\ new.purged \subseteq state.purged \cup new.current
         /\ IF new.pc = "scrub" THEN new.current \subseteq new.purged ELSE new.current = state.current
         /\ a \in state.archived \cap new.purged /\ a \notin state.purged => ages[a] = "expired"
         /\ a \in state.purged \cap new.archived /\ a \notin state.archived => ages[a] = "archivable"
<1> DEFINE one == [state EXCEPT !.todo = @ \ {a}]
           two == [state EXCEPT !.todo = @ \ {a}, !.rows = @ \cup {a}]
           three == [two EXCEPT !.archived = @ \cup {a}]
           four == [two EXCEPT !.pc = "scrub", !.current = {a}, !.purged = @ \cup {a}]
<1>1. /\ one.pc = state.pc /\ one.adopted = state.adopted /\ one.rows = state.rows
      /\ one.archived = state.archived /\ one.purged = state.purged /\ one.scrubbed = state.scrubbed
      /\ one.current = state.current
  BY DEF PurgerState
<1>2. /\ two.pc = state.pc /\ two.adopted = state.adopted /\ two.rows = state.rows \cup {a}
      /\ two.archived = state.archived /\ two.purged = state.purged /\ two.scrubbed = state.scrubbed
      /\ two.current = state.current
      /\ two \in PurgerState
  BY DEF PurgerState
<1>3. /\ three.pc = state.pc /\ three.adopted = state.adopted /\ three.rows = state.rows \cup {a}
      /\ three.archived = state.archived \cup {a} /\ three.purged = state.purged
      /\ three.scrubbed = state.scrubbed /\ three.current = state.current
  <2> HIDE DEF two
  <2>1. QED BY <1>2 DEF PurgerState
<1>4. /\ four.pc = "scrub" /\ four.adopted = state.adopted /\ four.rows = state.rows \cup {a}
      /\ four.archived = state.archived /\ four.purged = state.purged \cup {a}
      /\ four.scrubbed = state.scrubbed /\ four.current = {a}
  <2> HIDE DEF two
  <2>1. QED BY <1>2 DEF PurgerState
<1>5. \/ new = one
      \/ new = two
      \/ /\ IF lifecycles[a] = NoLifecycle THEN a \in state.adopted ELSE ~lifecycles[a].hold
         /\ ages[a] = "archivable" /\ new = three
      \/ /\ IF lifecycles[a] = NoLifecycle THEN a \in state.adopted ELSE ~lifecycles[a].hold
         /\ ages[a] = "expired" /\ new = four
  BY DEF VisitState
<1> HIDE DEF one, two, three, four
<1>6. QED
  BY <1>1, <1>2, <1>3, <1>4, <1>5

\* What a reconciliation has in hand, of itself and of the locks.
PurgerHolds(state, w, lock) ==
  /\ state.pc = "idle" => state = IdlePurger
  /\ state.pc = "adopt" =>
       state.rows = {} /\ state.archived = {} /\ state.purged = {} /\ state.scrubbed = {}
  /\ IF state.pc = "scrub" THEN state.current \subseteq state.purged ELSE state.current = {}
  /\ state.archived \cup state.purged \subseteq state.rows
  /\ \A a \in state.adopted \cup state.rows : lock[a] = w
  /\ \A p \in state.scrubbed : ArtifactOf[p] \in state.purged

\* The locks after the step of a purger.
LEMMA PurgerLocks ==
  ASSUME RecordTypes, LocksAreHeld, PurgersKnow, NEW w \in Purger, PurgerMoves(w)
  PROVE  /\ \A v \in Purger : v # w => purgers'[v] = purgers[v]
         /\ LocksOnlyOwn(w)
         /\ \A a \in Artifact : artifactLock'[a] = w => purgers'[w].pc # "idle"
         /\ \A p \in Proposal, v \in Purger :
              rowLock'[p] = v => IF v = w THEN purgers'[w].pc \in {"visit", "scrub"}
                                          ELSE rowLock[p] = v
         /\ PurgerHolds(purgers'[w], w, artifactLock')
<1> DEFINE state == purgers[w]
           Goal == /\ \A v \in Purger : v # w => purgers'[v] = purgers[v]
                   /\ LocksOnlyOwn(w)
                   /\ \A a \in Artifact : artifactLock'[a] = w => purgers'[w].pc # "idle"
                   /\ \A p \in Proposal, v \in Purger :
                        rowLock'[p] = v => IF v = w THEN purgers'[w].pc \in {"visit", "scrub"}
                                                    ELSE rowLock[p] = v
                   /\ PurgerHolds(purgers'[w], w, artifactLock')
<1>1. /\ state \in PurgerState /\ w # NoOne
      /\ purgers \in [Purger -> PurgerState]
      /\ artifactLock \in [Artifact -> Session \cup Purger \cup {NoOne}]
      /\ rowLock \in [Proposal -> Purger \cup {NoOne}]
  BY MethodologyAssumption DEF RecordTypes
<1>2. /\ PurgerHolds(state, w, artifactLock)
      /\ \A a \in Artifact : artifactLock[a] = w => state.pc # "idle"
      /\ \A p \in Proposal : rowLock[p] = w => state.pc \in {"visit", "scrub"}
  <2>1. PurgerHolds(state, w, artifactLock)
    BY DEF PurgersKnow, PurgerHolds
  <2>2. \A a \in Artifact : artifactLock[a] = w => state.pc # "idle"
    BY DEF LocksAreHeld
  <2>3. \A p \in Proposal : rowLock[p] = w => state.pc \in {"visit", "scrub"}
    BY <1>1 DEF LocksAreHeld
  <2>4. QED BY <2>1, <2>2, <2>3
\* It moves on with the locks it has, or with one more.
<1>3. ASSUME NEW new \in PurgerState, purgers' = [purgers EXCEPT ![w] = new],
             new.pc # "idle",
             state.pc \in {"visit", "scrub"} => new.pc \in {"visit", "scrub"},
             \/ artifactLock' = artifactLock
             \/ \E a \in Artifact : /\ artifactLock[a] \in {NoOne, w}
                                    /\ artifactLock' = [artifactLock EXCEPT ![a] = w],
             rowLock' = rowLock \/ new.pc = "visit",
             \A p \in Proposal : rowLock'[p] \in {rowLock[p], w},
             PurgerHolds(new, w, artifactLock')
      PROVE  Goal
  <2>1. purgers'[w] = new /\ \A v \in Purger : v # w => purgers'[v] = purgers[v]
    BY <1>1, <1>3
  <2>2. LocksOnlyOwn(w)
    BY <1>1, <1>3, MethodologyAssumption DEF LocksOnlyOwn
  <2>3. \A p \in Proposal, v \in Purger :
          rowLock'[p] = v => IF v = w THEN new.pc \in {"visit", "scrub"} ELSE rowLock[p] = v
    BY <1>1, <1>2, <1>3
  <2>4. QED BY <1>3, <2>1, <2>2, <2>3
<1>4. CASE PurgeBegin(w)
  <2> DEFINE todo == {a \in Artifact : artifacts[a] # NoDigest /\ lifecycles[a] = NoLifecycle}
             new == [IdlePurger EXCEPT !.pc = "adopt", !.todo = todo]
  <2>1. new \in PurgerState /\ new.pc = "adopt" /\ PurgerHolds(new, w, artifactLock)
    BY DEF IdlePurger, PurgerState, PurgerHolds
  <2>2. /\ purgers' = [purgers EXCEPT ![w] = new] /\ state.pc = "idle"
        /\ artifactLock' = artifactLock /\ rowLock' = rowLock
    BY <1>4 DEF PurgeBegin, PurgerStep, NoLocks
  <2> HIDE DEF new, Goal
  <2>3. Goal BY <2>1, <2>2, <1>3
  <2>4. QED BY <2>3 DEF Goal
<1>5. CASE PurgeList(w)
  <2> DEFINE listed == {a \in Artifact : lifecycles[a] # NoLifecycle} \cup state.adopted
             new == [state EXCEPT !.pc = "visit", !.todo = listed]
  <2>1. listed \in SUBSET Artifact
    BY <1>1 DEF PurgerState
  <2>2. /\ purgers' = [purgers EXCEPT ![w] = new] /\ state.pc = "adopt"
        /\ artifactLock' = artifactLock /\ rowLock' = rowLock
    BY <1>5 DEF PurgeList, PurgerStep, NoLocks
  <2> HIDE DEF listed
  <2>3. new \in PurgerState /\ new.pc = "visit" /\ PurgerHolds(new, w, artifactLock)
    BY <1>1, <1>2, <2>1, <2>2 DEF PurgerState, PurgerHolds
  <2> HIDE DEF new, Goal
  <2>4. Goal BY <2>2, <2>3, <1>3
  <2>5. QED BY <2>4 DEF Goal
<1>6. CASE Visit(w)
  <2>1. PICK a \in Artifact :
           /\ purgers[w].pc = "visit" /\ a \in purgers[w].todo
           /\ artifactLock[a] \in {NoOne, w}
           /\ artifactLock' = [artifactLock EXCEPT ![a] = w]
           /\ \E new \in PurgerState :
                VisitState(purgers[w], a, new) /\ purgers' = [purgers EXCEPT ![w] = new]
           /\ UNCHANGED <<proposals, approvalLive, artifacts, lifecycles, ages, rowLock, sessions>>
    BY <1>6, VisitEffect
  <2>2. PICK new \in PurgerState :
          VisitState(state, a, new) /\ purgers' = [purgers EXCEPT ![w] = new]
    BY <2>1
  <2>3. artifactLock'[a] = w /\ \A b \in Artifact : artifactLock[b] = w => artifactLock'[b] = w
    BY <1>1, <2>1
  <2>4. /\ new.pc \in {"visit", "scrub"}
        /\ new.adopted = state.adopted /\ state.rows \subseteq new.rows
        /\ new.rows \subseteq state.rows \cup {a}
        /\ new.archived \subseteq state.archived \cup {a} /\ new.purged \subseteq state.purged \cup {a}
        /\ a \in new.archived \cup new.purged => a \in new.rows \/ a \in state.archived \cup state.purged
        /\ state.purged \subseteq new.purged /\ new.scrubbed = state.scrubbed
        /\ IF new.pc = "scrub" THEN new.current \subseteq new.purged ELSE new.current = state.current
    BY <1>1, <2>1, <2>2, VisitFields
  <2>5. PurgerHolds(new, w, artifactLock')
    <3>1. state.pc = "visit" /\ state.current = {}
      BY <1>2, <2>1 DEF PurgerHolds
    <3>2. IF new.pc = "scrub" THEN new.current \subseteq new.purged ELSE new.current = {}
      BY <2>4, <3>1
    <3>3. /\ new.archived \cup new.purged \subseteq new.rows
          /\ \A b \in new.adopted \cup new.rows : artifactLock'[b] = w
          /\ \A p \in new.scrubbed : ArtifactOf[p] \in new.purged
      BY <1>1, <1>2, <2>3, <2>4 DEF PurgerHolds, PurgerState
    <3> QED
      BY <2>4, <3>2, <3>3 DEF PurgerHolds
  <2> HIDE DEF Goal
  <2>6. Goal BY <1>3, <2>1, <2>2, <2>4, <2>5
  <2>7. QED BY <2>6 DEF Goal
<1>7. CASE Scrub(w)
  <2> DEFINE present == {p \in Proposal : proposals[p].status # "absent"}
             found == {p \in present : ArtifactOf[p] \in state.current /\ Scrubbable(p)}
             new == [state EXCEPT !.pc = "visit", !.current = {}, !.scrubbed = @ \cup found]
  <2>1. found \in SUBSET Proposal /\ \A p \in found : ArtifactOf[p] \in state.current
    OBVIOUS
  <2>2. /\ purgers' = [purgers EXCEPT ![w] = new] /\ state.pc = "scrub"
        /\ artifactLock' = artifactLock
        /\ \A p \in Proposal : rowLock'[p] \in {rowLock[p], w}
    BY <1>7 DEF Scrub, PurgerStep
  <2> HIDE DEF found
  <2>3. new \in PurgerState /\ new.pc = "visit" /\ PurgerHolds(new, w, artifactLock)
    BY <1>1, <1>2, <2>1, <2>2 DEF PurgerState, PurgerHolds
  <2> HIDE DEF new, Goal
  <2>4. Goal BY <2>2, <2>3, <1>3
  <2>5. QED BY <2>4 DEF Goal
<1>8. ASSUME NEW a \in Artifact, Adopt(w, a)
      PROVE  Goal
  <2>1. PICK new \in PurgerState :
          AdoptState(state, a, new) /\ purgers' = [purgers EXCEPT ![w] = new]
    BY <1>8, AdoptEffect
  <2>2. /\ state.pc = "adopt" /\ artifactLock[a] \in {NoOne, w}
        /\ artifactLock' = [artifactLock EXCEPT ![a] = w] /\ rowLock' = rowLock
    BY <1>8, AdoptEffect
  <2>3. artifactLock'[a] = w /\ \A b \in Artifact : artifactLock[b] = w => artifactLock'[b] = w
    BY <1>1, <2>2
  <2>4. /\ new.pc = "adopt" /\ new.adopted \subseteq state.adopted \cup {a}
        /\ new.rows = state.rows /\ new.archived = state.archived
        /\ new.purged = state.purged /\ new.scrubbed = state.scrubbed
        /\ new.current = state.current
    BY <1>1, <2>1, <2>2 DEF AdoptState, PurgerState
  <2>5. PurgerHolds(new, w, artifactLock')
    BY <1>1, <1>2, <2>2, <2>3, <2>4 DEF PurgerHolds, PurgerState
  <2> HIDE DEF Goal
  <2>6. QED BY <1>3, <2>1, <2>2, <2>4, <2>5
\* It ends, and gives back what it has.
<1>9. CASE PurgeCommit(w) \/ PurgerAborts(w)
  <2>1. purgers' = [purgers EXCEPT ![w] = IdlePurger] /\ Unlock(w)
    BY <1>9 DEF PurgeCommit, PurgerAborts, PurgerStep
  <2>2. purgers'[w] = IdlePurger /\ \A v \in Purger : v # w => purgers'[v] = purgers[v]
    BY <1>1, <2>1
  <2>3. LocksOnlyOwn(w) /\ \A a \in Artifact : artifactLock'[a] # w
    BY <1>1, <2>1, MethodologyAssumption DEF Unlock, LocksOnlyOwn
  <2>4. \A p \in Proposal, v \in Purger : rowLock'[p] = v => v # w /\ rowLock[p] = v
    BY <1>1, <2>1, MethodologyAssumption DEF Unlock
  <2>5. PurgerHolds(IdlePurger, w, artifactLock')
    BY DEF IdlePurger, PurgerHolds
  <2>6. QED BY <2>2, <2>3, <2>4, <2>5
<1>10. QED
  <2> HIDE DEF Goal
  <2>1. Goal
    BY <1>4, <1>5, <1>6, <1>7, <1>8, <1>9 DEF PurgerMoves, Goal
  <2>2. QED BY <2>1 DEF Goal

-----------------------------------------------------------------------------
\* The steps that no request takes part in.
OtherStep ==
  \/ \E p \in Proposal : Propose(p) \/ ApprovalExpires(p)
  \/ \E a \in Artifact :
       \/ Archive(a) \/ TimePasses(a)
       \/ \E enabled \in BOOLEAN : LegalHold(a, enabled)

\* Who takes the step.
LEMMA StepsSplit ==
  [MethodologyNext]_methodologyVars <=>
    \/ UNCHANGED methodologyVars
    \/ \E s \in Session : SessionStep(s)
    \/ \E w \in Purger : PurgerMoves(w)
    \/ OtherStep
BY DEF MethodologyNext, OtherStep

\* What such a step does to the data.
Rules(a, lifecycle) ==
  /\ lifecycles[a] # NoLifecycle /\ RowIsFree(a)
  /\ \/ ~lifecycles[a].hold /\ lifecycle = [lifecycles[a] EXCEPT !.state = "archived"]
     \/ \E enabled \in BOOLEAN : lifecycle = [lifecycles[a] EXCEPT !.hold = enabled]
  /\ lifecycles' = [lifecycles EXCEPT ![a] = lifecycle]
  /\ UNCHANGED <<proposals, approvalLive, ages>>

OtherWrites ==
  /\ UNCHANGED <<artifacts, artifactLock, rowLock, sessions, purgers>>
  /\ \/ \E p \in Proposal :
          /\ proposals[p].status = "absent"
          /\ proposals' = [proposals EXCEPT ![p].status = "pending", ![p].content = TRUE]
          /\ UNCHANGED <<approvalLive, lifecycles, ages>>
     \/ \E p \in Proposal :
          /\ proposals[p].status = "approved"
          /\ approvalLive' = [approvalLive EXCEPT ![p] = FALSE]
          /\ UNCHANGED <<proposals, lifecycles, ages>>
     \/ \E a \in Artifact, lifecycle \in Lifecycle : Rules(a, lifecycle)
     \/ \E a \in Artifact :
          /\ lifecycles[a] # NoLifecycle /\ ages[a] # "expired"
          /\ ages' = [ages EXCEPT ![a] = Older(ages[a])]
          /\ UNCHANGED <<proposals, approvalLive, lifecycles>>

\* Every such step does one of these.
LEMMA OtherData ==
  ASSUME RecordTypes, OtherStep
  PROVE  OtherWrites
<1>1. ASSUME NEW p \in Proposal, Propose(p) \/ ApprovalExpires(p)
      PROVE  OtherWrites
  BY <1>1 DEF Propose, ApprovalExpires, OtherWrites, NoLocks
<1>2. ASSUME NEW a \in Artifact, TimePasses(a)
      PROVE  OtherWrites
  BY <1>2 DEF TimePasses, OtherWrites, NoLocks
<1>3. ASSUME NEW a \in Artifact, NEW lifecycle, ChangeLifecycle(a, lifecycle),
             \/ ~lifecycles[a].hold /\ lifecycle = [lifecycles[a] EXCEPT !.state = "archived"]
             \/ \E enabled \in BOOLEAN : lifecycle = [lifecycles[a] EXCEPT !.hold = enabled]
      PROVE  OtherWrites
  <2>1. lifecycles[a] \in Lifecycle
    BY <1>3 DEF ChangeLifecycle, RecordTypes
  <2>2. lifecycle \in Lifecycle
    BY <1>3, <2>1 DEF Lifecycle
  <2>3. /\ Rules(a, lifecycle)
        /\ UNCHANGED <<artifacts, artifactLock, rowLock, sessions, purgers>>
    BY <1>3 DEF ChangeLifecycle, Rules, NoLocks
  <2>4. QED BY <2>2, <2>3 DEF OtherWrites
<1>4. ASSUME NEW a \in Artifact, Archive(a)
      PROVE  OtherWrites
  BY <1>3, <1>4 DEF Archive
<1>5. ASSUME NEW a \in Artifact, NEW enabled \in BOOLEAN, LegalHold(a, enabled)
      PROVE  OtherWrites
  BY <1>3, <1>5 DEF LegalHold
<1>6. QED
  BY <1>1, <1>2, <1>4, <1>5 DEF OtherStep

\* It keeps the types of the records.
LEMMA OtherTypes ==
  ASSUME RecordTypes, OtherStep
  PROVE  RecordTypes'
<1>1. OtherWrites
  BY OtherData
<1> USE DEF RecordTypes
<1>2. UNCHANGED <<artifacts, artifactLock, rowLock, sessions, purgers>>
  BY <1>1 DEF OtherWrites
<1>3. ASSUME NEW p \in Proposal,
             proposals' = [proposals EXCEPT ![p].status = "pending", ![p].content = TRUE],
             UNCHANGED <<approvalLive, lifecycles, ages>>
      PROVE  RecordTypes'
  <2> DEFINE record == [[proposals[p] EXCEPT !.status = "pending"] EXCEPT !.content = TRUE]
  <2>1. record \in ProposalRecord
    BY DEF ProposalRecord
  <2>2. proposals' = [proposals EXCEPT ![p] = record]
    BY <1>3
  <2> HIDE DEF record
  <2>3. proposals' \in [Proposal -> ProposalRecord]
    BY <2>1, <2>2
  <2>4. QED BY <1>2, <1>3, <2>3
<1>4. ASSUME NEW p \in Proposal, approvalLive' = [approvalLive EXCEPT ![p] = FALSE],
             UNCHANGED <<proposals, lifecycles, ages>>
      PROVE  RecordTypes'
  BY <1>2, <1>4
<1>5. ASSUME NEW a \in Artifact, NEW lifecycle \in Lifecycle, Rules(a, lifecycle)
      PROVE  RecordTypes'
  BY <1>2, <1>5 DEF Rules
<1>6. ASSUME NEW a \in Artifact, ages' = [ages EXCEPT ![a] = Older(ages[a])],
             UNCHANGED <<proposals, approvalLive, lifecycles>>
      PROVE  RecordTypes'
  <2>1. Older(ages[a]) \in Ages
    BY DEF Older, Ages
  <2>2. ages' \in [Artifact -> Ages]
    BY <1>6, <2>1
  <2>3. QED BY <1>2, <1>6, <2>2
<1>7. QED
  BY <1>1, <1>3, <1>4, <1>5, <1>6 DEF OtherWrites

\* So does every step.
LEMMA RecordTypesKept ==
  RecordTypes /\ SessionsKnow /\ PurgersKnow /\ [MethodologyNext]_methodologyVars => RecordTypes'
<1>1. ASSUME RecordTypes, UNCHANGED methodologyVars
      PROVE  RecordTypes'
  BY <1>1 DEF RecordTypes, methodologyVars
<1>2. QED
  BY <1>1, StepsSplit, SessionTypes, PurgerTypes, OtherTypes

\* Locks stay with transactions that are under way.
LEMMA LocksKept ==
  /\ RecordTypes /\ RecordTypes' /\ LocksAreHeld /\ SessionsKnow /\ PurgersKnow
  /\ [MethodologyNext]_methodologyVars
  => LocksAreHeld'
<1> SUFFICES ASSUME RecordTypes, RecordTypes', LocksAreHeld, SessionsKnow, PurgersKnow,
                    [MethodologyNext]_methodologyVars
             PROVE  LocksAreHeld'
  OBVIOUS
<1> USE MethodologyAssumption
<1>0. /\ artifactLock' \in [Artifact -> Session \cup Purger \cup {NoOne}]
      /\ rowLock' \in [Proposal -> Purger \cup {NoOne}]
  BY DEF RecordTypes
<1>1. CASE UNCHANGED methodologyVars
  BY <1>1 DEF LocksAreHeld, methodologyVars
<1>2. ASSUME NEW s \in Session, SessionStep(s)
      PROVE  LocksAreHeld'
  <2>1. /\ \A t \in Session : t # s => sessions'[t] = sessions[t]
        /\ LocksOnlyOwn(s)
        /\ \A a \in Artifact :
             artifactLock'[a] = s <=> /\ sessions'[s].pc \in {"approve", "publish"}
                                      /\ a = ArtifactOf[sessions'[s].proposal]
        /\ rowLock' = rowLock
    BY <1>2, SessionLocks
  <2>2. purgers' = purgers
    BY <1>2, SessionData DEF SessionWrites
  <2>3. ASSUME NEW a \in Artifact, artifactLock'[a] \in Session
        PROVE  /\ sessions'[artifactLock'[a]].pc \in {"approve", "publish"}
               /\ ArtifactOf[sessions'[artifactLock'[a]].proposal] = a
    <3>1. CASE artifactLock'[a] = s
      BY <2>1, <3>1
    <3>2. CASE artifactLock'[a] # s
      BY <2>1, <2>3, <3>2 DEF LocksOnlyOwn, LocksAreHeld
    <3>3. QED BY <3>1, <3>2
  <2>4. ASSUME NEW a \in Artifact, artifactLock'[a] \in Purger
        PROVE  purgers'[artifactLock'[a]].pc # "idle"
    <3>1. artifactLock'[a] # s
      BY <2>4
    <3>2. artifactLock[a] = artifactLock'[a]
      BY <2>1, <2>4, <3>1 DEF LocksOnlyOwn
    <3>3. QED BY <2>2, <2>4, <3>2 DEF LocksAreHeld
  <2>5. QED BY <2>1, <2>2, <2>3, <2>4 DEF LocksAreHeld
<1>3. ASSUME NEW w \in Purger, PurgerMoves(w)
      PROVE  LocksAreHeld'
  <2>1. /\ \A v \in Purger : v # w => purgers'[v] = purgers[v]
        /\ LocksOnlyOwn(w)
        /\ \A a \in Artifact : artifactLock'[a] = w => purgers'[w].pc # "idle"
        /\ \A p \in Proposal, v \in Purger :
             rowLock'[p] = v => IF v = w THEN purgers'[w].pc \in {"visit", "scrub"}
                                         ELSE rowLock[p] = v
    BY <1>3, PurgerLocks
  <2>2. sessions' = sessions
    BY <1>3, PurgerData DEF PurgerWrites
  <2>3. ASSUME NEW a \in Artifact, artifactLock'[a] \in Session
        PROVE  /\ sessions'[artifactLock'[a]].pc \in {"approve", "publish"}
               /\ ArtifactOf[sessions'[artifactLock'[a]].proposal] = a
    BY <2>1, <2>2, <2>3 DEF LocksOnlyOwn, LocksAreHeld
  <2>4. ASSUME NEW a \in Artifact, artifactLock'[a] \in Purger
        PROVE  purgers'[artifactLock'[a]].pc # "idle"
    <3>1. CASE artifactLock'[a] = w
      BY <2>1, <3>1
    <3>2. CASE artifactLock'[a] # w
      <4>1. artifactLock[a] = artifactLock'[a]
        BY <2>1, <2>4, <3>2 DEF LocksOnlyOwn
      <4>2. purgers[artifactLock[a]].pc # "idle"
        BY <2>4, <4>1 DEF LocksAreHeld
      <4>3. QED BY <2>1, <2>4, <3>2, <4>1, <4>2
    <3>3. QED BY <3>1, <3>2
  <2>5. ASSUME NEW p \in Proposal, rowLock'[p] # NoOne
        PROVE  purgers'[rowLock'[p]].pc \in {"visit", "scrub"}
    <3>1. rowLock'[p] \in Purger
      BY <1>0, <2>5
    <3>2. CASE rowLock'[p] = w
      BY <2>1, <3>1, <3>2
    <3>3. CASE rowLock'[p] # w
      BY <2>1, <2>5, <3>1, <3>3 DEF LocksAreHeld
    <3>4. QED BY <3>2, <3>3
  <2>6. QED BY <2>3, <2>4, <2>5 DEF LocksAreHeld
<1>4. CASE OtherStep
  BY <1>4, OtherData DEF OtherWrites, LocksAreHeld
<1>5. QED
  BY <1>1, <1>2, <1>3, <1>4, StepsSplit

\* Where a request has its lifecycle from.
LEMMA SessionReads ==
  ASSUME RecordTypes, SessionsKnow, NEW s \in Session, SessionStep(s)
  PROVE  \/ sessions'[s].pc = "idle" \/ sessions'[s].lifecycle = NoLifecycle
         \/ /\ sessions'[s].lifecycle = sessions[s].lifecycle
            /\ sessions'[s].proposal = sessions[s].proposal
            /\ sessions[s].pc # "idle"
         \/ /\ lifecycles[ArtifactOf[sessions'[s].proposal]] # NoLifecycle
            /\ UNCHANGED lifecycles
<1>1. sessions \in [Session -> SessionState] /\ sessions[s] \in SessionState
  BY DEF RecordTypes
<1>2. ASSUME NEW p \in Proposal, NEW user \in User, ApproveBegin(s, p, user) \/ RejectLoad(s, p, user)
      PROVE  sessions'[s].lifecycle = NoLifecycle
  BY <1>1, <1>2 DEF ApproveBegin, RejectLoad, IdleSession
<1>3. ASSUME NEW p \in Proposal, PublishLoad(s, p)
      PROVE  sessions'[s].lifecycle = NoLifecycle
  BY <1>1, <1>3 DEF PublishLoad, IdleSession
<1>4. CASE ApproveLock(s) \/ PublishLock(s)
  BY <1>1, <1>4 DEF ApproveLock, PublishLock, Becomes, SessionState
<1>5. CASE PublishRead(s)
  <2>1. /\ sessions'[s].lifecycle = lifecycles[ArtifactOf[sessions[s].proposal]]
        /\ sessions'[s].proposal = sessions[s].proposal
        /\ UNCHANGED lifecycles
    BY <1>1, <1>5 DEF PublishRead, SessionArtifact, SessionState, NoData
  <2>2. QED BY <2>1
<1>6. CASE ApproveEnd(s) \/ RejectEnd(s) \/ PublishEnd(s) \/ SessionAborts(s)
  <2>1. SessionEnds(s)
    BY <1>6 DEF ApproveEnd, RejectEnd, PublishEnd, SessionAborts
  <2>2. sessions'[s] = IdleSession
    BY <1>1, <2>1 DEF SessionEnds
  <2>3. QED BY <2>2, RestingStates
<1>7. QED
  BY <1>2, <1>3, <1>4, <1>5, <1>6 DEF SessionStep

\* A lifecycle that was there is there, or it is over and its artifact is gone.
Gone(a) == lifecycles[a] = NoLifecycle => artifacts[a] = NoDigest /\ ages[a] = "expired"

\* What an artifact becomes when a reconciliation commits.
LEMMA CommitRows ==
  ASSUME RecordTypes, PurgersKnow, NEW w \in Purger, Commits(w), NEW a \in Artifact
  PROVE  /\ a \in purgers[w].purged =>
              /\ lifecycles'[a] = NoLifecycle /\ artifacts'[a] = NoDigest
              /\ ages[a] = "expired"
              /\ lifecycles[a] # NoLifecycle => ~lifecycles[a].hold
         /\ a \notin purgers[w].purged =>
              /\ artifacts'[a] = artifacts[a]
              /\ \/ a \notin purgers[w].archived /\ lifecycles'[a] = RowOf(w, a)
                 \/ /\ a \in purgers[w].archived
                    /\ ages[a] # "fresh"
                    /\ RowOf(w, a) \in Lifecycle /\ ~RowOf(w, a).hold
                    /\ lifecycles'[a] = [RowOf(w, a) EXCEPT !.state = "archived"]
                    /\ lifecycles'[a] \in Lifecycle
<1> DEFINE state == purgers[w]
<1>1. /\ \A b \in state.archived \cup state.purged :
           IF lifecycles[b] = NoLifecycle THEN b \in state.adopted ELSE ~lifecycles[b].hold
      /\ \A b \in state.archived : ages[b] # "fresh"
      /\ \A b \in state.purged : ages[b] = "expired"
      /\ \A b \in state.adopted : lifecycles[b] = NoLifecycle
  BY DEF PurgersKnow
<1>2. /\ lifecycles'[a] = IF a \in state.purged THEN NoLifecycle
                          ELSE IF a \in state.archived THEN [RowOf(w, a) EXCEPT !.state = "archived"]
                          ELSE RowOf(w, a)
      /\ artifacts'[a] = IF a \in state.purged THEN NoDigest ELSE artifacts[a]
      /\ UNCHANGED ages
  BY DEF Commits
<1>3. a \in state.archived => RowOf(w, a) \in Lifecycle /\ ~RowOf(w, a).hold
  BY <1>1, RestingStates DEF RowOf, RecordTypes
<1>4. \A l \in Lifecycle : [l EXCEPT !.state = "archived"] \in Lifecycle
  BY DEF Lifecycle
<1> HIDE DEF state
<1>5. QED
  BY <1>1, <1>2, <1>3, <1>4 DEF state

\* That stays so.
LEMMA GoneStays ==
  ASSUME RecordTypes, SessionsKnow, PurgersKnow, [MethodologyNext]_methodologyVars,
         NEW a \in Artifact, Gone(a)
  PROVE  Gone(a)'
<1>0. \A l \in Lifecycle : l # NoLifecycle
  BY MethodologyAssumption DEF Lifecycle
<1>1. CASE UNCHANGED methodologyVars
  BY <1>1 DEF Gone, methodologyVars
<1>2. ASSUME NEW s \in Session, SessionStep(s)
      PROVE  Gone(a)'
  <2>1. SessionWrites(s)
    BY <1>2, SessionData
  <2>2. CASE UNCHANGED <<lifecycles, artifacts, ages>>
    BY <2>2 DEF Gone
  <2>3. ASSUME NEW p \in Proposal, NEW lifecycle \in Lifecycle, NEW age \in Ages,
               Publishes(s, p, lifecycle, age)
        PROVE  Gone(a)'
    <3>1. CASE a = ArtifactOf[p]
      BY <1>0, <2>3, <3>1 DEF Gone, Publishes, RecordTypes
    <3>2. CASE a # ArtifactOf[p]
      <4>1. lifecycles'[a] = lifecycles[a] /\ artifacts'[a] = artifacts[a] /\ ages'[a] = ages[a]
        BY <2>3, <3>2 DEF Publishes, RecordTypes
      <4>2. QED BY <4>1 DEF Gone
    <3>3. QED BY <3>1, <3>2
  <2>4. QED BY <2>1, <2>2, <2>3 DEF SessionWrites, Decides
<1>3. ASSUME NEW w \in Purger, PurgerMoves(w)
      PROVE  Gone(a)'
  <2>1. PurgerWrites(w)
    BY <1>3, PurgerData
  <2>2. CASE UNCHANGED <<lifecycles, artifacts, ages>>
    BY <2>2 DEF Gone
  <2>3. ASSUME NEW b \in Artifact, NEW age \in Ages, Adopts(w, b, age)
        PROVE  Gone(a)'
    <3>1. CASE a = b
      BY <2>3, <3>1 DEF Gone, Adopts
    <3>2. CASE a # b
      BY <2>3, <3>2 DEF Gone, Adopts, RecordTypes
    <3>3. QED BY <3>1, <3>2
  <2>4. CASE Commits(w)
    <3>1. UNCHANGED ages
      BY <2>4 DEF Commits
    <3>2. CASE a \in purgers[w].purged
      BY <2>4, <3>1, <3>2, CommitRows DEF Gone
    <3>3. CASE a \notin purgers[w].purged
      <4>1. lifecycles'[a] = NoLifecycle => lifecycles[a] = NoLifecycle
        BY <1>0, <2>4, <3>3, CommitRows, RestingStates DEF RowOf
      <4>2. artifacts'[a] = artifacts[a]
        BY <2>4, <3>3, CommitRows
      <4>3. QED BY <3>1, <4>1, <4>2 DEF Gone
    <3>4. QED BY <3>2, <3>3
  <2>5. QED BY <2>1, <2>2, <2>3, <2>4 DEF PurgerWrites
<1>4. CASE OtherStep
  <2>1. OtherWrites
    BY <1>4, OtherData
  <2>2. CASE UNCHANGED <<lifecycles, ages>>
    BY <2>1, <2>2 DEF OtherWrites, Gone
  <2>3. ASSUME NEW b \in Artifact, NEW lifecycle \in Lifecycle, Rules(b, lifecycle)
        PROVE  Gone(a)'
    <3>1. CASE a = b
      BY <1>0, <2>3, <3>1 DEF Gone, Rules, RecordTypes
    <3>2. CASE a # b
      <4>1. lifecycles'[a] = lifecycles[a] /\ UNCHANGED <<ages, artifacts>>
        BY <2>1, <2>3, <3>2 DEF Rules, RecordTypes, OtherWrites
      <4>2. QED BY <4>1 DEF Gone
    <3>3. QED BY <3>1, <3>2
  <2>4. ASSUME NEW b \in Artifact, lifecycles[b] # NoLifecycle,
               ages' = [ages EXCEPT ![b] = Older(ages[b])], UNCHANGED lifecycles
        PROVE  Gone(a)'
    <3>1. lifecycles[a] = NoLifecycle => ages'[a] = ages[a]
      BY <2>4 DEF RecordTypes
    <3>2. QED BY <2>1, <2>4, <3>1 DEF Gone, OtherWrites
  <2>5. QED BY <2>1, <2>2, <2>3, <2>4 DEF OtherWrites
<1>5. QED
  BY <1>1, <1>2, <1>3, <1>4, StepsSplit

\* What the sessions know stays true.
LEMMA SessionsStillKnow ==
  /\ RecordTypes /\ LocksAreHeld /\ SessionsKnow /\ PurgersKnow
  /\ [MethodologyNext]_methodologyVars
  => SessionsKnow'
<1> SUFFICES ASSUME RecordTypes, LocksAreHeld, SessionsKnow, PurgersKnow,
                    [MethodologyNext]_methodologyVars
             PROVE  SessionsKnow'
  OBVIOUS
\* In terms of one request.
<1> DEFINE Holds(r, t, lock) ==
             r.pc \in {"approve", "publish"} => lock[ArtifactOf[r.proposal]] = t
           GoneThen(a) ==
             lifecycles'[a] = NoLifecycle => artifacts'[a] = NoDigest /\ ages'[a] = "expired"
<1>0. \A a \in Artifact : Gone(a) => GoneThen(a)
  <2> SUFFICES ASSUME NEW a \in Artifact, Gone(a) PROVE GoneThen(a)
    OBVIOUS
  <2>1. Gone(a)'
    BY GoneStays
  <2>2. QED BY <2>1 DEF Gone
<1>1. \A t \in Session :
        /\ RequestKnows(sessions[t])
        /\ Holds(sessions[t], t, artifactLock)
        /\ sessions[t].pc # "idle" /\ sessions[t].lifecycle # NoLifecycle =>
             Gone(ArtifactOf[sessions[t].proposal])
  BY DEF SessionsKnow, RequestKnows, SessionArtifact, Gone
<1>2. SUFFICES ASSUME NEW t \in Session
               PROVE  /\ RequestKnows(sessions'[t])
                      /\ Holds(sessions'[t], t, artifactLock')
                      /\ sessions'[t].pc # "idle" /\ sessions'[t].lifecycle # NoLifecycle =>
                           GoneThen(ArtifactOf[sessions'[t].proposal])
  BY DEF SessionsKnow, RequestKnows, SessionArtifact, Gone, MayDecide
\* A request that does not move keeps what it knows.
<1>3. ASSUME sessions'[t] = sessions[t],
             \A a \in Artifact : artifactLock[a] = t => artifactLock'[a] = t
      PROVE  /\ RequestKnows(sessions'[t])
             /\ Holds(sessions'[t], t, artifactLock')
             /\ sessions'[t].pc # "idle" /\ sessions'[t].lifecycle # NoLifecycle =>
                  GoneThen(ArtifactOf[sessions'[t].proposal])
  <2>1. sessions[t].pc # "idle" => ArtifactOf[sessions[t].proposal] \in Artifact
    BY <1>1, MethodologyAssumption DEF RequestKnows
  <2>2. RequestKnows(sessions'[t]) /\ Holds(sessions'[t], t, artifactLock')
    BY <1>1, <1>3, <2>1
  <2>3. sessions'[t].pc # "idle" /\ sessions'[t].lifecycle # NoLifecycle =>
          GoneThen(ArtifactOf[sessions[t].proposal])
    BY <1>0, <1>1, <1>3, <2>1
  <2>4. QED BY <1>3, <2>2, <2>3
<1>4. CASE UNCHANGED methodologyVars
  BY <1>3, <1>4 DEF methodologyVars
<1>5. ASSUME NEW s \in Session, SessionStep(s)
      PROVE  /\ RequestKnows(sessions'[t])
             /\ Holds(sessions'[t], t, artifactLock')
             /\ sessions'[t].pc # "idle" /\ sessions'[t].lifecycle # NoLifecycle =>
                  GoneThen(ArtifactOf[sessions'[t].proposal])
  <2>1. /\ \A u \in Session : u # s => sessions'[u] = sessions[u]
        /\ LocksOnlyOwn(s)
        /\ \A a \in Artifact :
             artifactLock'[a] = s <=> /\ sessions'[s].pc \in {"approve", "publish"}
                                      /\ a = ArtifactOf[sessions'[s].proposal]
        /\ RequestKnows(sessions'[s])
    BY <1>5, SessionLocks
  <2>2. CASE t # s
    <3>1. \A a \in Artifact : artifactLock[a] = t => artifactLock'[a] = t
      BY <2>1, <2>2 DEF LocksOnlyOwn
    <3>2. QED BY <1>3, <2>1, <2>2, <3>1
  <2>3. CASE t = s
    <3>1. sessions'[s].pc # "idle" => ArtifactOf[sessions'[s].proposal] \in Artifact
      BY <2>1, MethodologyAssumption DEF RequestKnows
    <3>2. Holds(sessions'[s], s, artifactLock')
      BY <2>1, <3>1
    <3>3. ASSUME sessions'[s].pc # "idle", sessions'[s].lifecycle # NoLifecycle
          PROVE  GoneThen(ArtifactOf[sessions'[s].proposal])
      <4> DEFINE a == ArtifactOf[sessions'[s].proposal]
      <4>1. CASE /\ sessions'[s].lifecycle = sessions[s].lifecycle
                 /\ sessions'[s].proposal = sessions[s].proposal
                 /\ sessions[s].pc # "idle"
        <5>1. Gone(ArtifactOf[sessions[s].proposal]) /\ ArtifactOf[sessions[s].proposal] \in Artifact
          BY <1>1, <3>1, <3>3, <4>1
        <5>2. GoneThen(ArtifactOf[sessions[s].proposal])
          BY <1>0, <5>1
        <5>3. QED BY <4>1, <5>2
      <4>2. CASE lifecycles[a] # NoLifecycle /\ UNCHANGED lifecycles
        BY <4>2
      <4>3. QED BY <1>5, <3>3, <4>1, <4>2, SessionReads
    <3>4. QED BY <2>1, <2>3, <3>2, <3>3
  <2>4. QED BY <2>2, <2>3
<1>6. ASSUME NEW w \in Purger, PurgerMoves(w)
      PROVE  /\ RequestKnows(sessions'[t])
             /\ Holds(sessions'[t], t, artifactLock')
             /\ sessions'[t].pc # "idle" /\ sessions'[t].lifecycle # NoLifecycle =>
                  GoneThen(ArtifactOf[sessions'[t].proposal])
  <2>1. sessions' = sessions
    BY <1>6, PurgerData DEF PurgerWrites
  <2>2. LocksOnlyOwn(w)
    BY <1>6, PurgerLocks
  <2>3. \A a \in Artifact : artifactLock[a] = t => artifactLock'[a] = t
    BY <2>2, MethodologyAssumption DEF LocksOnlyOwn
  <2>4. QED BY <1>3, <2>1, <2>3
<1>7. CASE OtherStep
  <2>1. sessions' = sessions /\ artifactLock' = artifactLock
    BY <1>7, OtherData DEF OtherWrites
  <2>2. QED BY <1>3, <2>1
<1> HIDE DEF Holds, GoneThen
<1>8. QED
  BY <1>4, <1>5, <1>6, <1>7, StepsSplit

\* What a reconciliation knows of the data.
KnowsRows(state) ==
  /\ \A a \in state.adopted :
       a \in Legacy /\ artifacts[a] # NoDigest /\ lifecycles[a] = NoLifecycle
  /\ \A a \in state.archived \cup state.purged :
       IF lifecycles[a] = NoLifecycle THEN a \in state.adopted ELSE ~lifecycles[a].hold
  /\ \A a \in state.archived : ages[a] # "fresh"
  /\ \A a \in state.purged : ages[a] = "expired"

KnowsProposals(state) ==
  \A p \in Proposal :
    ArtifactOf[p] \in state.purged \ state.current /\ proposals[p].status = "approved" =>
      p \in state.scrubbed \/ ~proposals[p].content

\* What a reconciliation knows, in three parts.
LEMMA KnowledgeSplits ==
  PurgersKnow <=>
    \A w \in Purger : /\ PurgerHolds(purgers[w], w, artifactLock)
                      /\ KnowsRows(purgers[w]) /\ KnowsProposals(purgers[w])
BY DEF PurgersKnow, PurgerHolds, KnowsRows, KnowsProposals

\* What nobody but the holder of the lock of an artifact does to it.
Untouched(a) ==
  /\ artifacts'[a] = artifacts[a] /\ lifecycles'[a] = lifecycles[a]
  /\ ages'[a] = ages[a] \/ (ages[a] # "expired" /\ ages'[a] = Older(ages[a]))
  /\ \A p \in Proposal :
       ArtifactOf[p] = a /\ proposals'[p].status = "approved" /\ proposals'[p].content =>
         proposals[p].status = "approved" /\ proposals[p].content

\* A session leaves an artifact alone that a reconciliation has locked;
LEMMA SessionLeavesLocked ==
  ASSUME RecordTypes, SessionsKnow, NEW s \in Session, SessionStep(s),
         NEW a \in Artifact, artifactLock[a] \in Purger
  PROVE  Untouched(a)
<1>1. SessionWrites(s) /\ artifactLock[a] # s
  BY SessionData, MethodologyAssumption
<1>2. CASE UNCHANGED <<proposals, artifacts, lifecycles, ages>>
  BY <1>2 DEF Untouched
<1>3. ASSUME NEW p \in Proposal, NEW status \in {"approved", "rejected"}, NEW user \in User,
             Decides(s, p, status, user)
      PROVE  Untouched(a)
  <2>1. /\ proposals'[p].status = status
        /\ \A q \in Proposal : q # p => proposals'[q] = proposals[q]
    BY <1>3, DecidedRecord DEF Decides, RecordTypes
  <2>2. ArtifactOf[p] = a => status # "approved"
    BY <1>1, <1>3 DEF Decides
  <2>3. UNCHANGED <<artifacts, lifecycles, ages>>
    BY <1>3 DEF Decides
  <2>4. QED BY <2>1, <2>2, <2>3 DEF Untouched
<1>4. ASSUME NEW p \in Proposal, NEW lifecycle \in Lifecycle, NEW age \in Ages,
             Publishes(s, p, lifecycle, age)
      PROVE  Untouched(a)
  <2>1. ArtifactOf[p] # a /\ UNCHANGED proposals
    BY <1>1, <1>4 DEF Publishes
  <2>2. artifacts'[a] = artifacts[a] /\ lifecycles'[a] = lifecycles[a] /\ ages'[a] = ages[a]
    BY <1>4, <2>1 DEF Publishes, RecordTypes
  <2>3. QED BY <2>1, <2>2 DEF Untouched
<1>5. QED
  BY <1>1, <1>2, <1>3, <1>4 DEF SessionWrites

\* so does another reconciliation;
LEMMA PurgerLeavesLocked ==
  ASSUME RecordTypes, PurgersKnow, NEW w \in Purger, PurgerMoves(w),
         NEW a \in Artifact, artifactLock[a] \in Purger, artifactLock[a] # w
  PROVE  Untouched(a)
<1>1. PurgerWrites(w)
  BY PurgerData
<1>2. CASE UNCHANGED <<proposals, artifacts, lifecycles, ages>>
  BY <1>2 DEF Untouched
<1>3. ASSUME NEW b \in Artifact, NEW age \in Ages, Adopts(w, b, age)
      PROVE  Untouched(a)
  <2>1. a # b
    BY <1>3, MethodologyAssumption DEF Adopts
  <2>2. ages'[a] = ages[a] /\ UNCHANGED <<proposals, artifacts, lifecycles>>
    BY <1>3, <2>1 DEF Adopts, RecordTypes
  <2>3. QED BY <2>2 DEF Untouched
<1>4. CASE Commits(w)
  <2>1. a \notin purgers[w].adopted \cup purgers[w].rows
    BY DEF PurgersKnow
  <2>2. a \notin purgers[w].archived \cup purgers[w].purged
    BY <2>1 DEF PurgersKnow
  <2>3. artifacts'[a] = artifacts[a] /\ lifecycles'[a] = lifecycles[a] /\ ages' = ages
    BY <1>4, <2>1, <2>2 DEF Commits, RowOf
  <2>4. \A p \in Proposal : proposals'[p].status = proposals[p].status
                            /\ (proposals'[p].content => proposals[p].content)
    BY <1>4 DEF Commits, RecordTypes, ProposalRecord
  <2>5. QED BY <2>3, <2>4 DEF Untouched
<1>5. QED
  BY <1>1, <1>2, <1>3, <1>4 DEF PurgerWrites

\* and so do the rulings, while the row of the lifecycle is locked.
LEMMA OthersLeaveLocked ==
  ASSUME RecordTypes, PurgersKnow, OtherStep, NEW w \in Purger,
         NEW a \in Artifact, a \in purgers[w].adopted \cup purgers[w].rows
  PROVE  Untouched(a)
<1>1. OtherWrites
  BY OtherData
<1>2. ASSUME NEW p \in Proposal,
             proposals' = [proposals EXCEPT ![p].status = "pending", ![p].content = TRUE],
             UNCHANGED <<lifecycles, ages>>
      PROVE  Untouched(a)
  <2> DEFINE record == [[proposals[p] EXCEPT !.status = "pending"] EXCEPT !.content = TRUE]
  <2>1. record.status = "pending"
    BY DEF RecordTypes, ProposalRecord
  <2>2. proposals' = [proposals EXCEPT ![p] = record]
    BY <1>2 DEF RecordTypes
  <2> HIDE DEF record
  <2>3. \A q \in Proposal : proposals'[q] = IF q = p THEN record ELSE proposals[q]
    BY <2>2 DEF RecordTypes
  <2>4. QED BY <1>1, <1>2, <2>1, <2>3 DEF Untouched, OtherWrites
<1>3. ASSUME UNCHANGED <<proposals, lifecycles, ages>>
      PROVE  Untouched(a)
  BY <1>1, <1>3 DEF Untouched, OtherWrites
<1>4. ASSUME NEW b \in Artifact, NEW lifecycle \in Lifecycle, Rules(b, lifecycle)
      PROVE  Untouched(a)
  <2>1. a # b
    BY <1>4 DEF Rules, RowIsFree, PurgersKnow
  <2>2. lifecycles'[a] = lifecycles[a] /\ UNCHANGED <<proposals, ages>>
    BY <1>4, <2>1 DEF Rules, RecordTypes
  <2>3. QED BY <1>1, <2>2 DEF Untouched, OtherWrites
<1>5. ASSUME NEW b \in Artifact, ages[b] # "expired", ages' = [ages EXCEPT ![b] = Older(ages[b])],
             UNCHANGED <<proposals, lifecycles>>
      PROVE  Untouched(a)
  <2>1. ages'[a] = ages[a] \/ (ages[a] # "expired" /\ ages'[a] = Older(ages[a]))
    BY <1>5 DEF RecordTypes
  <2>2. QED BY <1>1, <1>5, <2>1 DEF Untouched, OtherWrites
<1>6. QED
  BY <1>1, <1>2, <1>3, <1>4, <1>5 DEF OtherWrites

\* A purger that does not move keeps what it knows of what nobody disturbs.
LEMMA KnowledgeLasts ==
  ASSUME RecordTypes, PurgersKnow, NEW v \in Purger, purgers'[v] = purgers[v],
         \A a \in Artifact : artifactLock[a] = v => artifactLock'[a] = v,
         \A a \in purgers[v].adopted \cup purgers[v].rows : Untouched(a)
  PROVE  /\ PurgerHolds(purgers'[v], v, artifactLock')
         /\ KnowsRows(purgers[v])' /\ KnowsProposals(purgers[v])'
<1> DEFINE state == purgers[v]
<1>1. /\ PurgerHolds(state, v, artifactLock) /\ KnowsRows(state) /\ KnowsProposals(state)
  BY KnowledgeSplits
<1>2. state \in PurgerState /\ state.archived \cup state.purged \subseteq state.rows
  BY <1>1 DEF RecordTypes, PurgerHolds
<1>3. PurgerHolds(state, v, artifactLock')
  BY <1>1, <1>2 DEF PurgerHolds, PurgerState
<1>4. KnowsRows(state)'
  <2>1. \A a \in state.adopted :
          a \in Legacy /\ artifacts'[a] # NoDigest /\ lifecycles'[a] = NoLifecycle
    BY <1>1 DEF KnowsRows, Untouched
  <2>2. \A a \in state.archived \cup state.purged :
          IF lifecycles'[a] = NoLifecycle THEN a \in state.adopted ELSE ~lifecycles'[a].hold
    BY <1>1, <1>2 DEF KnowsRows, Untouched
  <2>3. \A a \in state.archived : ages'[a] # "fresh"
    BY <1>1, <1>2 DEF KnowsRows, Untouched, Older
  <2>4. \A a \in state.purged : ages'[a] = "expired"
    BY <1>1, <1>2 DEF KnowsRows, Untouched
  <2>5. QED BY <2>1, <2>2, <2>3, <2>4 DEF KnowsRows
<1>5. KnowsProposals(state)'
  <2>1. ASSUME NEW p \in Proposal, ArtifactOf[p] \in state.purged \ state.current,
               proposals'[p].status = "approved"
        PROVE  p \in state.scrubbed \/ ~proposals'[p].content
    BY <1>1, <1>2, <2>1 DEF KnowsProposals, Untouched
  <2>2. QED BY <2>1 DEF KnowsProposals
<1>6. QED
  BY <1>3, <1>4, <1>5

\* What its own step makes of it.
LEMMA PurgerLearns ==
  ASSUME RecordTypes, PurgersKnow, LifecyclesArePaired, NEW w \in Purger, PurgerMoves(w)
  PROVE  KnowsRows(purgers[w])' /\ KnowsProposals(purgers[w])'
<1> DEFINE state == purgers[w]
           Goal == KnowsRows(purgers[w])' /\ KnowsProposals(purgers[w])'
<1>1. /\ PurgerHolds(state, w, artifactLock) /\ KnowsRows(state) /\ KnowsProposals(state)
      /\ state \in PurgerState /\ purgers \in [Purger -> PurgerState]
  BY KnowledgeSplits DEF RecordTypes
\* It knows nothing when it begins or has ended.
<1>2. ASSUME purgers'[w].adopted = {}, purgers'[w].archived = {}, purgers'[w].purged = {}
      PROVE  Goal
  BY <1>2 DEF KnowsRows, KnowsProposals
<1>3. CASE PurgeBegin(w) \/ PurgeCommit(w) \/ PurgerAborts(w)
  <2>1. \/ purgers' = [purgers EXCEPT ![w] = IdlePurger]
        \/ purgers' = [purgers EXCEPT ![w] = [IdlePurger EXCEPT !.pc = "adopt",
             !.todo = {a \in Artifact : artifacts[a] # NoDigest /\ lifecycles[a] = NoLifecycle}]]
    BY <1>3 DEF PurgeBegin, PurgeCommit, PurgerAborts, PurgerStep
  <2>2. \/ purgers'[w] = IdlePurger
        \/ purgers'[w] = [IdlePurger EXCEPT !.pc = "adopt",
             !.todo = {a \in Artifact : artifacts[a] # NoDigest /\ lifecycles[a] = NoLifecycle}]
    BY <1>1, <2>1
  <2>3. purgers'[w].adopted = {} /\ purgers'[w].archived = {} /\ purgers'[w].purged = {}
    <3> DEFINE todo == {a \in Artifact : artifacts[a] # NoDigest /\ lifecycles[a] = NoLifecycle}
    <3>1. purgers'[w] = IdlePurger \/ purgers'[w] = [IdlePurger EXCEPT !.pc = "adopt", !.todo = todo]
      BY <2>2
    <3> DEFINE begun == [IdlePurger EXCEPT !.pc = "adopt", !.todo = todo]
    <3> HIDE DEF todo
    <3>2. begun.adopted = {} /\ begun.archived = {} /\ begun.purged = {}
      BY DEF IdlePurger
    <3>3. IdlePurger.adopted = {} /\ IdlePurger.archived = {} /\ IdlePurger.purged = {}
      BY DEF IdlePurger
    <3> HIDE DEF begun
    <3>4. QED BY <3>1, <3>2, <3>3 DEF begun
  <2>4. QED BY <1>2, <2>3
<1>4. CASE PurgeList(w)
  <2> DEFINE listed == {a \in Artifact : lifecycles[a] # NoLifecycle} \cup state.adopted
             new == [state EXCEPT !.pc = "visit", !.todo = listed]
  <2>1. state.pc = "adopt" /\ purgers' = [purgers EXCEPT ![w] = new]
        /\ UNCHANGED <<proposals, artifacts, lifecycles, ages>>
    BY <1>4 DEF PurgeList, PurgerStep, NoData
  <2>2. new.adopted = state.adopted /\ new.archived = {} /\ new.purged = {}
    BY <1>1, <2>1 DEF PurgerState, PurgerHolds
  <2>3. purgers'[w] = new
    BY <1>1, <2>1
  <2> HIDE DEF new
  <2>4. QED BY <1>1, <2>1, <2>2, <2>3 DEF KnowsRows, KnowsProposals
<1>5. CASE Visit(w)
  <2>1. PICK a \in Artifact :
           /\ state.pc = "visit"
           /\ \E new \in PurgerState :
                VisitState(state, a, new) /\ purgers' = [purgers EXCEPT ![w] = new]
           /\ UNCHANGED <<proposals, approvalLive, artifacts, lifecycles, ages, rowLock, sessions>>
    BY <1>5, VisitEffect
  <2>2. PICK new \in PurgerState :
          VisitState(state, a, new) /\ purgers' = [purgers EXCEPT ![w] = new]
    BY <2>1
  <2>3. purgers'[w] = new
    BY <1>1, <2>2
  <2>4. /\ new.pc \in {"visit", "scrub"} /\ new.adopted = state.adopted
        /\ new.archived \subseteq state.archived \cup {a}
        /\ new.purged \subseteq state.purged \cup {a}
        /\ state.purged \subseteq new.purged /\ new.scrubbed = state.scrubbed
        /\ a \in new.archived \cup new.purged /\ a \notin state.archived \cup state.purged =>
             /\ IF lifecycles[a] = NoLifecycle THEN a \in state.adopted ELSE ~lifecycles[a].hold
             /\ ages[a] = IF a \in new.purged THEN "expired" ELSE "archivable"
        /\ new.purged \subseteq state.purged \cup new.current
        /\ a \in state.archived \cap new.purged /\ a \notin state.purged => ages[a] = "expired"
        /\ a \in state.purged \cap new.archived /\ a \notin state.archived => ages[a] = "archivable"
    BY <1>1, <2>1, <2>2, VisitFields
  <2>5. \A b \in new.archived \cup new.purged :
          IF lifecycles[b] = NoLifecycle THEN b \in new.adopted ELSE ~lifecycles[b].hold
    BY <1>1, <2>4 DEF KnowsRows
  <2>6. \A b \in new.archived : ages[b] # "fresh"
    BY <1>1, <2>4 DEF KnowsRows
  <2>7. \A b \in new.purged : ages[b] = "expired"
    BY <1>1, <2>4 DEF KnowsRows
  <2>8. KnowsRows(purgers[w])'
    BY <1>1, <2>1, <2>3, <2>4, <2>5, <2>6, <2>7 DEF KnowsRows
  <2>9. KnowsProposals(purgers[w])'
    <3>1. state.current = {}
      BY <1>1, <2>1 DEF PurgerHolds
    <3>2. QED BY <1>1, <2>1, <2>3, <2>4, <3>1 DEF KnowsProposals
  <2>10. QED BY <2>8, <2>9
<1>6. CASE Scrub(w)
  <2> DEFINE present == {p \in Proposal : proposals[p].status # "absent"}
             found == {p \in present : ArtifactOf[p] \in state.current /\ Scrubbable(p)}
             new == [state EXCEPT !.pc = "visit", !.current = {}, !.scrubbed = @ \cup found]
  <2>1. /\ purgers' = [purgers EXCEPT ![w] = new]
        /\ UNCHANGED <<proposals, artifacts, lifecycles, ages>>
    BY <1>6 DEF Scrub, PurgerStep, NoData
  <2>2. \A p \in Proposal : ArtifactOf[p] \in state.current /\ proposals[p].status = "approved" =>
                               p \in found \/ ~proposals[p].content
    BY DEF Scrubbable
  <2> HIDE DEF found
  <2>3. /\ new.adopted = state.adopted /\ new.archived = state.archived
        /\ new.purged = state.purged /\ new.current = {}
        /\ found \cup state.scrubbed \subseteq new.scrubbed
    BY <1>1 DEF PurgerState
  <2>4. purgers'[w] = new
    BY <1>1, <2>1
  <2> HIDE DEF new
  <2>5. KnowsRows(purgers[w])'
    BY <1>1, <2>1, <2>3, <2>4 DEF KnowsRows
  <2>6. KnowsProposals(purgers[w])'
    BY <1>1, <2>1, <2>2, <2>3, <2>4 DEF KnowsProposals
  <2>7. QED BY <2>5, <2>6
<1>7. ASSUME NEW a \in Artifact, Adopt(w, a)
      PROVE  Goal
  <2>1. PICK new \in PurgerState :
          AdoptState(state, a, new) /\ purgers' = [purgers EXCEPT ![w] = new]
    BY <1>7, AdoptEffect
  <2>2. state.pc = "adopt" /\ UNCHANGED <<proposals, artifacts, lifecycles>>
    BY <1>7, AdoptEffect
  <2>3. purgers'[w] = new
    BY <1>1, <2>1
  <2>4. state.archived = {} /\ state.purged = {}
    BY <1>1, <2>2 DEF PurgerHolds
  <2>5. new.pc = "adopt" /\ new.archived = {} /\ new.purged = {}
    BY <1>1, <2>1, <2>2, <2>4 DEF AdoptState, PurgerState
  <2>6. \A b \in new.adopted :
          b \in state.adopted \/ (b = a /\ artifacts[a] # NoDigest /\ lifecycles[a] = NoLifecycle)
    <3>1. CASE new = [state EXCEPT !.todo = @ \ {a}]
      <4>1. new.adopted = state.adopted
        BY <1>1, <3>1 DEF PurgerState
      <4>2. QED BY <4>1
    <3>2. CASE /\ artifacts[a] # NoDigest /\ lifecycles[a] = NoLifecycle
               /\ new = [state EXCEPT !.todo = @ \ {a}, !.adopted = @ \cup {a}]
      <4>1. new.adopted = state.adopted \cup {a}
        BY <1>1, <3>2 DEF PurgerState
      <4>2. QED BY <3>2, <4>1
    <3>3. QED BY <2>1, <3>1, <3>2 DEF AdoptState
  <2>7. \A b \in new.adopted :
          b \in Legacy /\ artifacts[b] # NoDigest /\ lifecycles[b] = NoLifecycle
    BY <1>1, <2>6 DEF KnowsRows, LifecyclesArePaired
  <2>8. QED BY <2>2, <2>3, <2>5, <2>7 DEF KnowsRows, KnowsProposals
<1> HIDE DEF Goal
<1>8. Goal
  BY <1>3, <1>4, <1>5, <1>6, <1>7 DEF PurgerMoves, Goal
<1>9. QED
  BY <1>8 DEF Goal

\* What the reconciliations know stays true.
LEMMA PurgersStillKnow ==
  /\ RecordTypes /\ LocksAreHeld /\ SessionsKnow /\ PurgersKnow /\ LifecyclesArePaired
  /\ [MethodologyNext]_methodologyVars
  => PurgersKnow'
<1> SUFFICES ASSUME RecordTypes, LocksAreHeld, SessionsKnow, PurgersKnow, LifecyclesArePaired,
                    [MethodologyNext]_methodologyVars, NEW v \in Purger
             PROVE  /\ PurgerHolds(purgers'[v], v, artifactLock')
                    /\ KnowsRows(purgers[v])' /\ KnowsProposals(purgers[v])'
  BY DEF PurgersKnow, PurgerHolds, KnowsRows, KnowsProposals
<1>1. \A a \in purgers[v].adopted \cup purgers[v].rows :
        a \in Artifact /\ artifactLock[a] = v
  BY DEF PurgersKnow, RecordTypes, PurgerState
<1>2. CASE UNCHANGED methodologyVars
  BY <1>2 DEF methodologyVars, PurgersKnow, PurgerHolds, KnowsRows, KnowsProposals
<1>3. ASSUME NEW s \in Session, SessionStep(s)
      PROVE  /\ PurgerHolds(purgers'[v], v, artifactLock')
             /\ KnowsRows(purgers[v])' /\ KnowsProposals(purgers[v])'
  <2>1. purgers' = purgers
    BY <1>3, SessionData DEF SessionWrites
  <2>2. \A a \in Artifact : artifactLock[a] = v => artifactLock'[a] = v
    <3>1. LocksOnlyOwn(s)
      BY <1>3, SessionLocks
    <3>2. v \in Session \cup Purger /\ v # s
      BY MethodologyAssumption
    <3>3. QED BY <3>1, <3>2 DEF LocksOnlyOwn
  <2>3. \A a \in purgers[v].adopted \cup purgers[v].rows : Untouched(a)
    BY <1>1, <1>3, SessionLeavesLocked
  <2>4. QED BY <2>1, <2>2, <2>3, KnowledgeLasts
<1>4. ASSUME NEW w \in Purger, PurgerMoves(w)
      PROVE  /\ PurgerHolds(purgers'[v], v, artifactLock')
             /\ KnowsRows(purgers[v])' /\ KnowsProposals(purgers[v])'
  <2>1. /\ \A u \in Purger : u # w => purgers'[u] = purgers[u]
        /\ LocksOnlyOwn(w)
        /\ PurgerHolds(purgers'[w], w, artifactLock')
    BY <1>4, PurgerLocks
  <2>2. CASE v = w
    BY <1>4, <2>1, <2>2, PurgerLearns
  <2>3. CASE v # w
    <3>1. \A a \in Artifact : artifactLock[a] = v => artifactLock'[a] = v
      BY <2>1, <2>3 DEF LocksOnlyOwn
    <3>2. \A a \in purgers[v].adopted \cup purgers[v].rows : Untouched(a)
      BY <1>1, <1>4, <2>3, PurgerLeavesLocked
    <3>3. QED BY <2>1, <2>3, <3>1, <3>2, KnowledgeLasts
  <2>4. QED BY <2>2, <2>3
<1>5. CASE OtherStep
  <2>1. purgers' = purgers /\ artifactLock' = artifactLock
    BY <1>5, OtherData DEF OtherWrites
  <2>2. \A a \in purgers[v].adopted \cup purgers[v].rows : Untouched(a)
    BY <1>1, <1>5, OthersLeaveLocked
  <2>3. QED BY <2>1, <2>2, KnowledgeLasts
<1>6. QED
  BY <1>2, <1>3, <1>4, <1>5, StepsSplit

-----------------------------------------------------------------------------
\* What is published stays the content of an approved proposal.
LEMMA PublishedStaysApproved ==
  /\ RecordTypes /\ SessionsKnow /\ PurgersKnow /\ PublishedIsApproved
  /\ [MethodologyNext]_methodologyVars
  => PublishedIsApproved'
<1> SUFFICES ASSUME RecordTypes, SessionsKnow, PurgersKnow, PublishedIsApproved,
                    [MethodologyNext]_methodologyVars
             PROVE  PublishedIsApproved'
  OBVIOUS
<1> DEFINE Carries(p) == proposals[p].status = "approved" /\ proposals[p].content
\* What is there stays, and so does the proposal that carries it.
<1>1. ASSUME NEW a \in Artifact, artifacts'[a] = artifacts[a],
             \A p \in Proposal : Carries(p) /\ ArtifactOf[p] = a =>
               proposals'[p].status = "approved" /\ proposals'[p].content
      PROVE  artifacts'[a] # NoDigest =>
               \/ a \in Legacy /\ artifacts'[a] = LegacyDigest
               \/ \E p \in Proposal :
                    /\ ArtifactOf[p] = a /\ DigestOf[p] = artifacts'[a]
                    /\ proposals'[p].status = "approved" /\ proposals'[p].content
  BY <1>1 DEF PublishedIsApproved
<1>2. ASSUME artifacts' = artifacts,
             \A p \in Proposal :
               Carries(p) => proposals'[p].status = "approved" /\ proposals'[p].content
      PROVE  PublishedIsApproved'
  BY <1>1, <1>2 DEF PublishedIsApproved
<1>3. ASSUME UNCHANGED <<proposals, artifacts>>
      PROVE  PublishedIsApproved'
  BY <1>3 DEF PublishedIsApproved
<1>4. ASSUME NEW s \in Session, SessionStep(s)
      PROVE  PublishedIsApproved'
  <2>1. SessionWrites(s)
    BY <1>4, SessionData
  <2>2. ASSUME NEW p \in Proposal, NEW status \in {"approved", "rejected"}, NEW user \in User,
               Decides(s, p, status, user)
        PROVE  PublishedIsApproved'
    <3>1. \A q \in Proposal : q # p => proposals'[q] = proposals[q]
      BY <2>2, DecidedRecord DEF Decides, RecordTypes
    <3>2. ~Carries(p) /\ artifacts' = artifacts
      BY <2>2 DEF Decides
    <3>3. QED BY <1>2, <3>1, <3>2
  <2>3. ASSUME NEW p \in Proposal, NEW lifecycle \in Lifecycle, NEW age \in Ages,
               Publishes(s, p, lifecycle, age)
        PROVE  PublishedIsApproved'
    <3>1. /\ Carries(p) /\ proposals' = proposals
          /\ artifacts' = [artifacts EXCEPT ![ArtifactOf[p]] = DigestOf[p]]
      BY <2>3 DEF Publishes
    <3>2. \A a \in Artifact :
            artifacts'[a] = IF a = ArtifactOf[p] THEN DigestOf[p] ELSE artifacts[a]
      BY <3>1 DEF RecordTypes
    <3>3. QED BY <3>1, <3>2 DEF PublishedIsApproved
  <2>4. QED BY <1>3, <2>1, <2>2, <2>3 DEF SessionWrites
<1>5. ASSUME NEW w \in Purger, PurgerMoves(w)
      PROVE  PublishedIsApproved'
  <2>1. PurgerWrites(w)
    BY <1>5, PurgerData
  <2>2. ASSUME NEW a \in Artifact, NEW age \in Ages, Adopts(w, a, age)
        PROVE  PublishedIsApproved'
    BY <1>3, <2>2 DEF Adopts
  <2>3. CASE Commits(w)
    <3>1. \A p \in Proposal : p \in purgers[w].scrubbed => ArtifactOf[p] \in purgers[w].purged
      BY DEF PurgersKnow
    <3>2. \A p \in Proposal : p \notin purgers[w].scrubbed => proposals'[p] = proposals[p]
      BY <2>3 DEF Commits
    <3>3. ASSUME NEW a \in Artifact
          PROVE  artifacts'[a] # NoDigest =>
                   \/ a \in Legacy /\ artifacts'[a] = LegacyDigest
                   \/ \E p \in Proposal :
                        /\ ArtifactOf[p] = a /\ DigestOf[p] = artifacts'[a]
                        /\ proposals'[p].status = "approved" /\ proposals'[p].content
      <4>1. CASE a \in purgers[w].purged
        BY <2>3, <4>1 DEF Commits
      <4>2. CASE a \notin purgers[w].purged
        <5>1. artifacts'[a] = artifacts[a]
          BY <2>3, <4>2 DEF Commits
        <5>2. QED BY <1>1, <3>1, <3>2, <4>2, <5>1
      <4>3. QED BY <4>1, <4>2
    <3>4. QED BY <3>3 DEF PublishedIsApproved
  <2>4. QED BY <1>3, <2>1, <2>2, <2>3 DEF PurgerWrites
<1>6. CASE OtherStep
  <2>1. OtherWrites
    BY <1>6, OtherData
  <2>2. ASSUME NEW p \in Proposal, proposals[p].status = "absent",
               proposals' = [proposals EXCEPT ![p].status = "pending", ![p].content = TRUE]
        PROVE  PublishedIsApproved'
    <3>1. \A q \in Proposal : q # p => proposals'[q] = proposals[q]
      BY <2>2 DEF RecordTypes
    <3>2. ~Carries(p) /\ artifacts' = artifacts
      BY <2>1, <2>2 DEF OtherWrites
    <3>3. QED BY <1>2, <3>1, <3>2
  <2>3. QED BY <1>3, <2>1, <2>2 DEF OtherWrites, Rules
<1>7. QED
  BY <1>3, <1>4, <1>5, <1>6, StepsSplit DEF methodologyVars

\* An artifact and its lifecycle still come and go together.
LEMMA LifecyclesStayPaired ==
  /\ RecordTypes /\ SessionsKnow /\ PurgersKnow /\ LifecyclesArePaired
  /\ [MethodologyNext]_methodologyVars
  => LifecyclesArePaired'
<1> SUFFICES ASSUME RecordTypes, SessionsKnow, PurgersKnow, LifecyclesArePaired,
                    [MethodologyNext]_methodologyVars
             PROVE  LifecyclesArePaired'
  OBVIOUS
<1>0. /\ \A l \in Lifecycle : l # NoLifecycle
      /\ \A p \in Proposal : DigestOf[p] # NoDigest
  BY MethodologyAssumption DEF Lifecycle
<1>1. ASSUME UNCHANGED <<artifacts, lifecycles>>
      PROVE  LifecyclesArePaired'
  BY <1>1 DEF LifecyclesArePaired
<1>2. ASSUME NEW s \in Session, SessionStep(s)
      PROVE  LifecyclesArePaired'
  <2>1. SessionWrites(s)
    BY <1>2, SessionData
  <2>2. ASSUME NEW p \in Proposal, NEW lifecycle \in Lifecycle, NEW age \in Ages,
               Publishes(s, p, lifecycle, age)
        PROVE  LifecyclesArePaired'
    <3>1. \A a \in Artifact :
            /\ artifacts'[a] = IF a = ArtifactOf[p] THEN DigestOf[p] ELSE artifacts[a]
            /\ lifecycles'[a] = IF a = ArtifactOf[p] THEN lifecycle ELSE lifecycles[a]
      BY <2>2 DEF Publishes, RecordTypes
    <3>2. QED BY <1>0, <3>1 DEF LifecyclesArePaired
  <2>3. QED BY <1>1, <2>1, <2>2 DEF SessionWrites, Decides
<1>3. ASSUME NEW w \in Purger, PurgerMoves(w)
      PROVE  LifecyclesArePaired'
  <2>1. PurgerWrites(w)
    BY <1>3, PurgerData
  <2>2. CASE Commits(w)
    <3>1. ASSUME NEW a \in Artifact
          PROVE  /\ lifecycles'[a] # NoLifecycle => artifacts'[a] # NoDigest
                 /\ artifacts'[a] # NoDigest /\ a \notin Legacy => lifecycles'[a] # NoLifecycle
      <4>1. CASE a \in purgers[w].purged
        BY <2>2, <4>1, CommitRows
      <4>2. CASE a \notin purgers[w].purged
        <5>1. artifacts'[a] = artifacts[a]
          BY <2>2, <4>2, CommitRows
        <5>2. a \in purgers[w].adopted => artifacts[a] # NoDigest /\ a \in Legacy
          BY DEF PurgersKnow
        <5>3. a \notin purgers[w].adopted => (lifecycles'[a] # NoLifecycle <=> lifecycles[a] # NoLifecycle)
          BY <1>0, <2>2, <4>2, CommitRows DEF RowOf
        <5>4. QED BY <5>1, <5>2, <5>3 DEF LifecyclesArePaired
      <4>3. QED BY <4>1, <4>2
    <3>2. QED BY <3>1 DEF LifecyclesArePaired
  <2>3. QED BY <1>1, <2>1, <2>2 DEF PurgerWrites, Adopts
<1>4. CASE OtherStep
  <2>1. OtherWrites
    BY <1>4, OtherData
  <2>2. ASSUME NEW a \in Artifact, NEW lifecycle \in Lifecycle, Rules(a, lifecycle)
        PROVE  LifecyclesArePaired'
    <3>1. \A b \in Artifact : lifecycles'[b] # NoLifecycle <=> lifecycles[b] # NoLifecycle
      BY <1>0, <2>2 DEF Rules, RecordTypes
    <3>2. artifacts' = artifacts
      BY <2>1 DEF OtherWrites
    <3>3. QED BY <3>1, <3>2 DEF LifecyclesArePaired
  <2>3. QED BY <1>1, <2>1, <2>2 DEF OtherWrites
<1>5. QED
  BY <1>1, <1>2, <1>3, <1>4, StepsSplit DEF methodologyVars

\* What every step does to one proposal: it is proposed, decided by another, loses its
\* content, or stays.
ProposalStep(p) ==
  \/ proposals'[p] = proposals[p]
  \/ /\ proposals[p].status = "absent" /\ proposals'[p].status = "pending"
  \/ /\ proposals[p].status = "pending"
     /\ proposals'[p].by # ProposerOf[p]
     /\ proposals'[p].content = proposals[p].content
  \/ /\ proposals'[p].status = proposals[p].status /\ proposals'[p].by = proposals[p].by
     /\ ~proposals'[p].content

\* Whatever the step.
LEMMA ProposalSteps ==
  ASSUME RecordTypes, SessionsKnow, PurgersKnow, [MethodologyNext]_methodologyVars,
         NEW p \in Proposal
  PROVE  ProposalStep(p)
<1>1. ASSUME proposals' = proposals
      PROVE  ProposalStep(p)
  BY <1>1 DEF ProposalStep
<1>2. ASSUME NEW s \in Session, SessionStep(s)
      PROVE  ProposalStep(p)
  <2>1. SessionWrites(s)
    BY <1>2, SessionData
  <2>2. ASSUME NEW q \in Proposal, NEW status \in {"approved", "rejected"}, NEW user \in User,
               Decides(s, q, status, user)
        PROVE  ProposalStep(p)
    <3>1. /\ proposals'[q].by = user /\ proposals'[q].content = proposals[q].content
          /\ \A r \in Proposal : r # q => proposals'[r] = proposals[r]
      BY <2>2, DecidedRecord DEF Decides, RecordTypes
    <3>2. QED BY <2>2, <3>1 DEF Decides, ProposalStep
  <2>3. QED BY <1>1, <2>1, <2>2 DEF SessionWrites, Publishes
<1>3. ASSUME NEW w \in Purger, PurgerMoves(w)
      PROVE  ProposalStep(p)
  <2>1. PurgerWrites(w)
    BY <1>3, PurgerData
  <2>2. CASE Commits(w)
    <3>1. /\ proposals[p] \in ProposalRecord
          /\ \/ proposals'[p] = proposals[p]
             \/ proposals'[p] = [proposals[p] EXCEPT !.content = FALSE]
      BY <2>2 DEF Commits, RecordTypes
    <3>2. QED BY <3>1 DEF ProposalStep, ProposalRecord
  <2>3. QED BY <1>1, <2>1, <2>2 DEF PurgerWrites, Adopts
<1>4. CASE OtherStep
  <2>1. OtherWrites
    BY <1>4, OtherData
  <2>2. ASSUME NEW q \in Proposal, proposals[q].status = "absent",
               proposals' = [proposals EXCEPT ![q].status = "pending", ![q].content = TRUE]
        PROVE  ProposalStep(p)
    <3> DEFINE record == [[proposals[q] EXCEPT !.status = "pending"] EXCEPT !.content = TRUE]
    <3>1. record.status = "pending"
      BY DEF RecordTypes, ProposalRecord
    <3>2. proposals' = [proposals EXCEPT ![q] = record]
      BY <2>2 DEF RecordTypes
    <3> HIDE DEF record
    <3>3. proposals'[p] = IF p = q THEN record ELSE proposals[p]
      BY <3>2 DEF RecordTypes
    <3>4. QED BY <2>2, <3>1, <3>3 DEF ProposalStep
  <2>3. QED BY <1>1, <2>1, <2>2 DEF OtherWrites, Rules
<1>5. QED
  BY <1>1, <1>2, <1>3, <1>4, StepsSplit DEF methodologyVars

\* It holds at the start.
LEMMA MethodologyStarts == MethodologyInit => MethodologySafety
<1> SUFFICES ASSUME MethodologyInit
             PROVE  MethodologySafety
  OBVIOUS
<1> USE MethodologyAssumption
<1>1. MethodologyTypeOK
  <2>1. proposals \in [Proposal -> ProposalRecord]
    BY DEF MethodologyInit, ProposalRecord
  <2>2. artifacts \in [Artifact -> Digests]
    BY DEF MethodologyInit, Digests
  <2>3. sessions \in [Session -> SessionState] /\ purgers \in [Purger -> PurgerState]
    BY RestingStates DEF MethodologyInit
  <2>4. RecordTypes
    BY <2>1, <2>2, <2>3 DEF MethodologyInit, RecordTypes, Ages
  <2>5. LocksAreHeld
    BY DEF MethodologyInit, LocksAreHeld
  <2>6. QED BY <2>4, <2>5, TypesSplit
<1>2. SessionsKnow
  BY RestingStates DEF MethodologyInit, SessionsKnow
<1>3. PurgersKnow
  BY DEF MethodologyInit, PurgersKnow, IdlePurger
<1>4. PublishedIsApproved /\ LifecyclesArePaired /\ DecisionsAreIndependent
  BY DEF MethodologyInit, PublishedIsApproved, LifecyclesArePaired, DecisionsAreIndependent
<1>5. QED
  BY <1>1, <1>2, <1>3, <1>4 DEF MethodologySafety

\* approveMethodologyProposal, publishMethodologyArtifact, purgeExpiredMethodologyArtifacts:
\* however requests, reconciliations and rulings interleave, what is published carries an
\* approval by another user than the proposer's and has its lifecycle.
THEOREM MethodologyIsSafe == MethodologySpec => []MethodologySafety
<1>1. MethodologySafety /\ [MethodologyNext]_methodologyVars => MethodologySafety'
  <2> SUFFICES ASSUME MethodologySafety, [MethodologyNext]_methodologyVars
               PROVE  MethodologySafety'
    OBVIOUS
  <2>1. /\ RecordTypes /\ LocksAreHeld /\ SessionsKnow /\ PurgersKnow
        /\ PublishedIsApproved /\ LifecyclesArePaired /\ DecisionsAreIndependent
    BY TypesSplit DEF MethodologySafety
  <2>2. RecordTypes'
    BY <2>1, RecordTypesKept
  <2>3. LocksAreHeld'
    BY <2>1, <2>2, LocksKept
  <2>4. MethodologyTypeOK'
    BY <2>2, <2>3 DEF RecordTypes, LocksAreHeld, MethodologyTypeOK
  <2>5. SessionsKnow' /\ PurgersKnow'
    BY <2>1, SessionsStillKnow, PurgersStillKnow
  <2>6. PublishedIsApproved' /\ LifecyclesArePaired'
    BY <2>1, PublishedStaysApproved, LifecyclesStayPaired
  <2>7. DecisionsAreIndependent'
    <3>1. \A p \in Proposal : ProposalStep(p)
      BY <2>1, ProposalSteps
    <3>2. QED BY <2>1, <3>1 DEF ProposalStep, DecisionsAreIndependent
  <2>8. QED BY <2>4, <2>5, <2>6, <2>7 DEF MethodologySafety
<1>2. QED
  BY <1>1, MethodologyStarts, PTL DEF MethodologySpec

\* The same transactions: a decision is final, content that was taken out stays out, a
\* published revision goes only when it has expired and is not held, and nobody but the
\* request that sets a legal hold lifts it.
THEOREM RulingsAreKept == MethodologySpec => RulingsStand
<1> DEFINE Final(p) ==
             /\ proposals[p].status \in {"approved", "rejected"}
                  => proposals'[p].status = proposals[p].status /\ proposals'[p].by = proposals[p].by
             /\ proposals[p].status # "absent" /\ ~proposals[p].content
                  => ~proposals'[p].content
           Retained(a) ==
             artifacts[a] # NoDigest /\ artifacts'[a] # artifacts[a] =>
               /\ artifacts'[a] = NoDigest
               /\ ages[a] = "expired"
               /\ lifecycles[a] # NoLifecycle => ~lifecycles[a].hold
           Held(a) ==
             (/\ sessions' # sessions \/ purgers' # purgers
              /\ lifecycles[a] # NoLifecycle
              /\ lifecycles[a].hold)
               => lifecycles'[a] # NoLifecycle /\ lifecycles'[a].hold
<1>0. MethodologySafety => RecordTypes /\ SessionsKnow /\ PurgersKnow
  BY TypesSplit DEF MethodologySafety
<1>1. ASSUME RecordTypes, SessionsKnow, PurgersKnow, [MethodologyNext]_methodologyVars,
             NEW p \in Proposal
      PROVE  Final(p)
  BY <1>1, ProposalSteps DEF ProposalStep
<1>2. ASSUME RecordTypes, SessionsKnow, PurgersKnow, [MethodologyNext]_methodologyVars,
             NEW a \in Artifact
      PROVE  Retained(a) /\ Held(a)
  <2>1. ASSUME artifacts'[a] = artifacts[a], lifecycles'[a] = lifecycles[a]
        PROVE  Retained(a) /\ Held(a)
    BY <2>1
  <2>2. ASSUME NEW s \in Session, SessionStep(s)
        PROVE  Retained(a) /\ Held(a)
    <3>1. SessionWrites(s)
      BY <1>2, <2>2, SessionData
    <3>2. ASSUME NEW p \in Proposal, NEW lifecycle \in Lifecycle, NEW age \in Ages,
                 Publishes(s, p, lifecycle, age)
          PROVE  Retained(a) /\ Held(a)
      <4>1. CASE a # ArtifactOf[p]
        <5>1. artifacts'[a] = artifacts[a] /\ lifecycles'[a] = lifecycles[a]
          BY <1>2, <3>2, <4>1 DEF Publishes, RecordTypes
        <5>2. QED BY <2>1, <5>1
      <4>2. CASE a = ArtifactOf[p]
        <5>1. /\ artifacts[a] \in {NoDigest, DigestOf[p]} /\ lifecycles[a] = NoLifecycle
              /\ artifacts'[a] = DigestOf[p]
          BY <1>2, <3>2, <4>2 DEF Publishes, RecordTypes
        <5>2. QED BY <5>1
      <4>3. QED BY <4>1, <4>2
    <3>3. QED BY <2>1, <3>1, <3>2 DEF SessionWrites, Decides
  <2>3. ASSUME NEW w \in Purger, PurgerMoves(w)
        PROVE  Retained(a) /\ Held(a)
    <3>1. PurgerWrites(w)
      BY <1>2, <2>3, PurgerData
    <3>2. CASE Commits(w)
      <4>1. CASE a \in purgers[w].purged
        BY <1>2, <3>2, <4>1, CommitRows
      <4>2. CASE a \notin purgers[w].purged
        <5>1. artifacts'[a] = artifacts[a]
          BY <1>2, <3>2, <4>2, CommitRows
        <5>2. a \in purgers[w].adopted => lifecycles[a] = NoLifecycle
          BY <1>2 DEF PurgersKnow
        <5>3. lifecycles[a] # NoLifecycle /\ lifecycles[a].hold => lifecycles'[a] = lifecycles[a]
          BY <1>2, <3>2, <4>2, <5>2, CommitRows DEF RowOf
        <5>4. QED BY <5>1, <5>3
      <4>3. QED BY <4>1, <4>2
    <3>3. QED BY <2>1, <3>1, <3>2 DEF PurgerWrites, Adopts
  <2>4. CASE OtherStep
    <3>1. UNCHANGED <<artifacts, sessions, purgers>>
      BY <1>2, <2>4, OtherData DEF OtherWrites
    <3>2. QED BY <3>1
  <2>5. CASE UNCHANGED methodologyVars
    BY <2>1, <2>5 DEF methodologyVars
  <2>6. QED BY <1>2, <2>2, <2>3, <2>4, <2>5, StepsSplit
<1>3. MethodologySafety /\ [MethodologyNext]_methodologyVars
        => /\ [\A p \in Proposal : Final(p)]_methodologyVars
           /\ [\A a \in Artifact : Retained(a)]_methodologyVars
           /\ [\A a \in Artifact : Held(a)]_methodologyVars
  BY <1>0, <1>1, <1>2
<1>4. MethodologySpec => /\ [][\A p \in Proposal : Final(p)]_methodologyVars
                         /\ [][\A a \in Artifact : Retained(a)]_methodologyVars
                         /\ [][\A a \in Artifact : Held(a)]_methodologyVars
  BY <1>3, MethodologyIsSafe, PTL DEF MethodologySpec
<1>5. QED
  BY <1>4 DEF RulingsStand, DecisionsAreFinal, RetentionIsKept, HoldsAreKept

-----------------------------------------------------------------------------
\* The ages that the contract sees.
ShownAges == [a \in Artifact |-> IF lifecycles[a] = NoLifecycle THEN "fresh" ELSE ages[a]]

\* A step that leaves the ages of what has a lifecycle shows none.
LEMMA SameAges ==
  ASSUME UNCHANGED lifecycles,
         \A a \in Artifact : lifecycles[a] # NoLifecycle => ages'[a] = ages[a]
  PROVE  UNCHANGED ShownAges
BY DEF ShownAges

\* A step that changes nothing else is a request that is refused.
LEMMA NothingIsRefused ==
  ASSUME UNCHANGED <<proposals, approvalLive, artifacts, lifecycles>>,
         \A a \in Artifact : lifecycles[a] # NoLifecycle => ages'[a] = ages[a]
  PROVE  Promise!Refuse
BY SameAges DEF Promise!Refuse, Promise!contractVars, ShownAges

\* A session decides, publishes, or is refused.
LEMMA SessionRefines ==
  ASSUME RecordTypes, SessionsKnow, NEW s \in Session, SessionStep(s)
  PROVE  Promise!Next
<1>0. SessionWrites(s)
  BY SessionData
<1>1. CASE UNCHANGED <<proposals, artifacts, lifecycles, ages>>
  <2>1. UNCHANGED <<proposals, approvalLive, artifacts, lifecycles, ages>>
    BY <1>0, <1>1 DEF SessionWrites
  <2>2. Promise!Refuse
    BY <2>1, NothingIsRefused
  <2>3. QED BY <2>2 DEF Promise!Next
<1>2. ASSUME NEW p \in Proposal, NEW status \in {"approved", "rejected"}, NEW user \in User,
             Decides(s, p, status, user)
      PROVE  Promise!Next
  <2>1. UNCHANGED <<approvalLive, artifacts, lifecycles, ages>>
    BY <1>0, <1>2 DEF Decides, SessionWrites
  <2>2. UNCHANGED ShownAges
    BY <2>1, SameAges
  <2>3. Promise!Decide(p, status, user)
    BY <1>2, <2>1, <2>2 DEF Decides, Promise!Decide, ShownAges
  <2>4. QED BY <2>3 DEF Promise!Next
<1>3. ASSUME NEW p \in Proposal, NEW lifecycle \in Lifecycle, NEW age \in Ages,
             Publishes(s, p, lifecycle, age)
      PROVE  Promise!Next
  <2>1. UNCHANGED <<proposals, approvalLive>>
    BY <1>0, <1>3 DEF Publishes, SessionWrites
  <2>2. lifecycle # NoLifecycle /\ ArtifactOf[p] \in Artifact
    BY MethodologyAssumption DEF Lifecycle
  <2>3. ShownAges' = [ShownAges EXCEPT ![ArtifactOf[p]] = age]
    BY <1>3, <2>2 DEF Publishes, ShownAges, RecordTypes
  <2>4. Promise!Publish(p, lifecycle, age)
    BY <1>3, <2>1, <2>3
    DEF Publishes, Promise!Publish, ShownAges, NewLifecycle, Promise!Active
  <2>5. QED
    BY <2>4 DEF Promise!Next, Promise!Lifecycle, Promise!Ages, Lifecycle, Ages
<1>4. QED
  BY <1>0, <1>1, <1>2, <1>3 DEF SessionWrites

\* The last disjunct of the contract, for constants.
LEMMA ReconcileIsNext ==
  ASSUME NEW adopted \in SUBSET Legacy, NEW age \in [adopted -> Ages],
         NEW archived \in SUBSET Artifact, NEW purged \in SUBSET Artifact,
         Promise!Reconcile(adopted, age, archived, purged)
  PROVE  Promise!Next
<1>1. \E a \in [adopted -> Promise!Ages] : Promise!Reconcile(adopted, a, archived, purged)
  BY DEF Promise!Ages, Ages
<1>2. QED
  BY <1>1 DEF Promise!Next

\* A reconciliation is one step of the contract, when it commits.
LEMMA CommitRefines ==
  ASSUME RecordTypes, PurgersKnow, NEW w \in Purger, Commits(w), UNCHANGED approvalLive
  PROVE  Promise!Next
<1> DEFINE state == purgers[w]
           adopted == state.adopted
           age == [a \in adopted |-> ages[a]]
           kept == {p \in Proposal : proposals[p].status # "approved" /\ p \notin state.scrubbed}
<1>0. \A l \in Lifecycle : l # NoLifecycle /\ [l EXCEPT !.state = "archived"] \in Lifecycle
  BY MethodologyAssumption DEF Lifecycle
<1>1. /\ state \in PurgerState /\ state.pc = "visit"
      /\ adopted \subseteq Legacy
      /\ adopted \subseteq Artifact /\ state.archived \subseteq Artifact
      /\ state.purged \subseteq Artifact
  BY DEF PurgersKnow, RecordTypes, PurgerState, Commits
<1>2. \A a \in Artifact : Promise!Adopts(adopted, a) <=> a \in adopted
  BY DEF Promise!Adopts, PurgersKnow
<1>3. /\ \A a \in Artifact : Promise!Row(adopted, a) = RowOf(w, a)
      /\ \A a \in Artifact : lifecycles[a] # NoLifecycle \/ a \in adopted =>
           Promise!Age(adopted, age, a) = ages[a]
      /\ \A a \in Artifact : lifecycles[a] = NoLifecycle /\ a \notin adopted =>
           Promise!Age(adopted, age, a) = "fresh"
  BY <1>2 DEF Promise!Row, Promise!Age, RowOf, Promise!Active, NewLifecycle
<1>4. /\ \A a \in state.archived \cup state.purged :
           /\ lifecycles[a] # NoLifecycle \/ a \in adopted
           /\ RowOf(w, a) \in Lifecycle /\ ~RowOf(w, a).hold
      /\ \A a \in state.archived : ages[a] # "fresh"
      /\ \A a \in state.purged : ages[a] = "expired"
  BY <1>1, RestingStates DEF PurgersKnow, RowOf, RecordTypes
<1>5. ShownAges' = [a \in Artifact |->
                      IF a \in state.purged THEN "fresh" ELSE Promise!Age(adopted, age, a)]
  <2>1. ASSUME NEW a \in Artifact
        PROVE  ShownAges'[a] = IF a \in state.purged THEN "fresh"
                               ELSE Promise!Age(adopted, age, a)
    <3>1. /\ ages'[a] = ages[a]
          /\ lifecycles'[a] = IF a \in state.purged THEN NoLifecycle
                              ELSE IF a \in state.archived THEN [RowOf(w, a) EXCEPT !.state = "archived"]
                              ELSE RowOf(w, a)
      BY DEF Commits
    <3>2. ShownAges'[a] = IF lifecycles'[a] = NoLifecycle THEN "fresh" ELSE ages'[a]
      BY DEF ShownAges
    <3>3. CASE a \in state.purged
      BY <3>1, <3>2, <3>3
    <3>4. CASE a \notin state.purged /\ a \in state.archived
      <4>1. lifecycles'[a] # NoLifecycle
        BY <1>0, <1>4, <3>1, <3>4
      <4>2. QED BY <1>3, <1>4, <3>1, <3>2, <3>4, <4>1
    <3>5. CASE a \notin state.purged /\ a \notin state.archived
      <4>1. lifecycles'[a] = RowOf(w, a)
        BY <3>1, <3>5
      <4>2. CASE a \in adopted
        <5>1. lifecycles'[a] # NoLifecycle
          BY <1>0, <4>1, <4>2, RestingStates DEF RowOf
        <5>2. QED BY <1>3, <3>1, <3>2, <3>5, <4>2, <5>1
      <4>3. CASE a \notin adopted
        <5>1. lifecycles'[a] = lifecycles[a]
          BY <4>1, <4>3 DEF RowOf
        <5>2. QED BY <1>3, <3>1, <3>2, <3>5, <4>3, <5>1
      <4>4. QED BY <4>2, <4>3
    <3>6. QED BY <3>3, <3>4, <3>5
  <2>2. QED BY <2>1 DEF ShownAges
<1>6. proposals' = [p \in Proposal |->
         IF ArtifactOf[p] \in state.purged /\ p \notin kept
         THEN [proposals[p] EXCEPT !.content = FALSE] ELSE proposals[p]]
  <2>1. ASSUME NEW p \in Proposal
        PROVE  proposals'[p] = IF ArtifactOf[p] \in state.purged /\ p \notin kept
                               THEN [proposals[p] EXCEPT !.content = FALSE] ELSE proposals[p]
    <3>1. proposals'[p] = IF p \in state.scrubbed THEN [proposals[p] EXCEPT !.content = FALSE]
                          ELSE proposals[p]
      BY DEF Commits
    <3>2. p \in state.scrubbed => ArtifactOf[p] \in state.purged /\ p \notin kept
      BY DEF PurgersKnow
    <3>3. p \notin state.scrubbed /\ ArtifactOf[p] \in state.purged /\ p \notin kept =>
            ~proposals[p].content
      BY <1>1 DEF PurgersKnow
    <3>4. \A r \in ProposalRecord : ~r.content => [r EXCEPT !.content = FALSE] = r
      BY DEF ProposalRecord
    <3>5. proposals[p] \in ProposalRecord
      BY DEF RecordTypes
    <3> HIDE DEF kept, state
    <3>6. QED BY <3>1, <3>2, <3>3, <3>4, <3>5
  <2>2. proposals' = [p \in Proposal |-> proposals'[p]]
    BY DEF Commits
  <2>3. QED BY <2>1, <2>2
<1>7. /\ \A a \in state.archived \cup state.purged :
           Promise!Row(adopted, a) # NoLifecycle /\ ~Promise!Row(adopted, a).hold
      /\ \A a \in state.archived : Promise!Age(adopted, age, a) # "fresh"
      /\ \A a \in state.purged : Promise!Age(adopted, age, a) = "expired"
  BY <1>0, <1>1, <1>3, <1>4
<1>8. /\ artifacts' = [a \in Artifact |-> IF a \in state.purged THEN NoDigest ELSE artifacts[a]]
      /\ lifecycles' = [a \in Artifact |->
           IF a \in state.purged THEN NoLifecycle
           ELSE IF a \in state.archived THEN [Promise!Row(adopted, a) EXCEPT !.state = "archived"]
           ELSE Promise!Row(adopted, a)]
  BY <1>3 DEF Commits
<1>9. age \in [adopted -> Ages] /\ kept \in SUBSET {p \in Proposal : proposals[p].status # "approved"}
  BY <1>1 DEF RecordTypes
<1> HIDE DEF kept, age, adopted, state
<1>10. PICK Adopted \in SUBSET Legacy, Age \in [adopted -> Ages],
            archived \in SUBSET Artifact, purged \in SUBSET Artifact :
         Adopted = adopted /\ Age = age /\ archived = state.archived /\ purged = state.purged
  BY <1>1, <1>9
<1>11. Promise!Reconcile(Adopted, Age, archived, purged)
  BY <1>5, <1>6, <1>7, <1>8, <1>9, <1>10 DEF Promise!Reconcile, ShownAges
<1>12. QED
  BY <1>10, <1>11, ReconcileIsNext

\* The age of an artifact that is adopted shows when the reconciliation commits.
LEMMA PurgerRefines ==
  ASSUME RecordTypes, PurgersKnow, NEW w \in Purger, PurgerMoves(w)
  PROVE  Promise!Next
<1>0. PurgerWrites(w)
  BY PurgerData
<1>1. CASE UNCHANGED <<proposals, artifacts, lifecycles, ages>>
  <2>1. UNCHANGED <<proposals, approvalLive, artifacts, lifecycles, ages>>
    BY <1>0, <1>1 DEF PurgerWrites
  <2>2. Promise!Refuse
    BY <2>1, NothingIsRefused
  <2>3. QED BY <2>2 DEF Promise!Next
<1>2. ASSUME NEW a \in Artifact, NEW age \in Ages, Adopts(w, a, age)
      PROVE  Promise!Next
  <2>1. /\ UNCHANGED <<proposals, approvalLive, artifacts, lifecycles>>
        /\ \A b \in Artifact : lifecycles[b] # NoLifecycle => ages'[b] = ages[b]
    BY <1>0, <1>2 DEF Adopts, PurgerWrites, RecordTypes
  <2>2. Promise!Refuse
    BY <2>1, NothingIsRefused
  <2>3. QED BY <2>2 DEF Promise!Next
<1>3. CASE Commits(w)
  BY <1>0, <1>3, CommitRefines DEF PurgerWrites
<1>4. QED
  BY <1>0, <1>1, <1>2, <1>3 DEF PurgerWrites

\* A proposal, a ruling, and the clock.
LEMMA OtherRefines ==
  ASSUME RecordTypes, OtherStep
  PROVE  Promise!Next
<1>0. OtherWrites
  BY OtherData
<1>1. ASSUME NEW p \in Proposal, proposals[p].status = "absent",
             proposals' = [proposals EXCEPT ![p].status = "pending", ![p].content = TRUE],
             UNCHANGED <<approvalLive, lifecycles, ages>>
      PROVE  Promise!Next
  <2>1. UNCHANGED ShownAges
    BY <1>1, SameAges
  <2>2. Promise!Propose(p)
    BY <1>0, <1>1, <2>1 DEF OtherWrites, Promise!Propose, ShownAges
  <2>3. QED BY <2>2 DEF Promise!Next
<1>2. ASSUME NEW p \in Proposal, proposals[p].status = "approved",
             approvalLive' = [approvalLive EXCEPT ![p] = FALSE],
             UNCHANGED <<proposals, lifecycles, ages>>
      PROVE  Promise!Next
  <2>1. UNCHANGED ShownAges
    BY <1>2, SameAges
  <2>2. Promise!Expires(p)
    BY <1>0, <1>2, <2>1 DEF OtherWrites, Promise!Expires, ShownAges
  <2>3. QED BY <2>2 DEF Promise!Next
<1>3. ASSUME NEW a \in Artifact, NEW lifecycle \in Lifecycle, Rules(a, lifecycle)
      PROVE  Promise!Next
  <2>1. lifecycle # NoLifecycle
    BY MethodologyAssumption DEF Lifecycle
  <2>2. UNCHANGED ShownAges
    BY <1>3, <2>1 DEF Rules, ShownAges, RecordTypes
  <2>3. Promise!Rule(a, lifecycle)
    BY <1>0, <1>3, <2>2 DEF Rules, OtherWrites, Promise!Rule, ShownAges
  <2>4. QED BY <2>3 DEF Promise!Next, Promise!Lifecycle, Lifecycle
<1>4. ASSUME NEW a \in Artifact, lifecycles[a] # NoLifecycle, ages[a] # "expired",
             ages' = [ages EXCEPT ![a] = Older(ages[a])],
             UNCHANGED <<proposals, approvalLive, lifecycles>>
      PROVE  Promise!Next
  <2>1. ShownAges' = [ShownAges EXCEPT ![a] = Older(ages[a])]
    BY <1>4 DEF ShownAges, RecordTypes
  <2>2. ShownAges[a] = ages[a] /\ ages[a] \in {"fresh", "archivable"}
    BY <1>4 DEF ShownAges, RecordTypes, Ages
  <2>3. Promise!Ripens(a)
    BY <1>0, <1>4, <2>1, <2>2 DEF OtherWrites, Promise!Ripens, ShownAges, Older
  <2>4. QED BY <2>3 DEF Promise!Next
<1>5. QED
  BY <1>0, <1>1, <1>2, <1>3, <1>4 DEF OtherWrites

\* PostgresStore keeps to what MethodologyContract promises: each request takes effect in
\* one step, on what is committed then, or not at all.
THEOREM MethodologyImplemented == MethodologySpec => ImplementsMethodology
<1>1. MethodologyInit => Promise!Init
  BY DEF MethodologyInit, Promise!Init
<1>2. MethodologySafety /\ [MethodologyNext]_methodologyVars
        => [Promise!Next]_(Promise!contractVars)
  <2> SUFFICES ASSUME MethodologySafety, [MethodologyNext]_methodologyVars
               PROVE  Promise!Next
    BY DEF Promise!contractVars
  <2>1. RecordTypes /\ SessionsKnow /\ PurgersKnow
    BY TypesSplit DEF MethodologySafety
  <2>2. CASE UNCHANGED methodologyVars
    <3>1. Promise!Refuse
      BY <2>2, NothingIsRefused DEF methodologyVars
    <3>2. QED BY <3>1 DEF Promise!Next
  <2>3. QED
    BY <2>1, <2>2, SessionRefines, PurgerRefines, OtherRefines, StepsSplit
<1>3. QED
  BY <1>1, <1>2, MethodologyIsSafe, PTL DEF MethodologySpec, ImplementsMethodology

=============================================================================
