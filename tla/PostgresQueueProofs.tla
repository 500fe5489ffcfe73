------------------------ MODULE PostgresQueueProofs -------------------------
(***************************************************************************)
(* Theorems about PostgresQueue, for any number of jobs, runners, tenants  *)
(* and attempts; and about FindingAudit, the findings of the same store,   *)
(* for any number of findings, writers and events.                         *)
(***************************************************************************)
EXTENDS PostgresQueue, FindingAudit, Sums

-----------------------------------------------------------------------------
(* Type correctness *)

\* Every row the statements of the queue write is a row of the table.
LEMMA RowTypes ==
  /\ NoRow \in Row
  /\ NewRow \in Row
  /\ \A row \in Row, status \in Status : Release(row, status) \in Row
  /\ \A row \in Row, token \in Nat, r \in Caller : Leased(row, token, r) \in Row
<1>1. NoRow \in Row
  BY DEF Row, NoRow, Status, Caller
<1>2. NewRow \in Row
  BY <1>1 DEF Row, NewRow, Status
<1>3. ASSUME NEW row \in Row, NEW status \in Status
      PROVE  Release(row, status) \in Row
  BY DEF Row, Release, Caller
<1>4. ASSUME NEW row \in Row, NEW token \in Nat, NEW r \in Caller
      PROVE  Leased(row, token, r) \in Row
  <2>1. \A n \in Nat : [row EXCEPT !.status = "in_flight", !.attempts = n, !.lease = "live",
                                  !.token = token, !.by = r] \in Row
    BY DEF Row, Status
  <2>2. row.attempts + 1 \in Nat
    BY DEF Row
  <2> QED
    BY <2>1, <2>2 DEF Leased
<1> QED
  BY <1>1, <1>2, <1>3, <1>4

\* The end of an enqueue call keeps the types of what it assigns.
LEMMA FinishTypes ==
  ASSUME TypeOK, NEW j \in Job, NEW state \in EnqState, NEW answer \in Job \cup {NoJob},
         Finish(j, state, answer)
  PROVE  /\ enq' \in [Job -> EnqState]
         /\ reply' \in [Job -> Job \cup {NoJob}]
         /\ lock' \in [Scope -> Job \cup {NoJob}]
BY DEF TypeOK, Finish

\* Answering a retry from the row with its key keeps the types of what it assigns.
LEMMA AnswerTypes ==
  ASSUME TypeOK, NEW j \in Job, NEW p \in Job, AnswerFrom(j, p)
  PROVE  /\ enq' \in [Job -> EnqState]
         /\ reply' \in [Job -> Job \cup {NoJob}]
         /\ lock' \in [Scope -> Job \cup {NoJob}]
<1>1. "accepted" \in EnqState /\ "refused" \in EnqState
  BY DEF EnqState
<1> QED
  BY <1>1, FinishTypes DEF AnswerFrom

\* Every statement of enqueue keeps the types.
LEMMA EnqueueTypes ==
  ASSUME TypeOK, NEW j \in Job, Enqueue(j)
  PROVE  TypeOK'
<1> USE DEF TypeOK, enqVars, leaseVars
<1>1. CASE SelectPrior(j)
  <2>1. CASE \E p \in Prior(j) : AnswerFrom(j, p)
    BY <1>1, <2>1, AnswerTypes DEF SelectPrior, Prior
  <2>2. CASE enq' = [enq EXCEPT ![j] = "insert"] /\ UNCHANGED <<reply, lock>>
    BY <1>1, <2>2 DEF SelectPrior, EnqState
  <2> QED
    BY <1>1, <2>1, <2>2 DEF SelectPrior
<1>2. CASE LockScope(j)
  BY <1>2 DEF LockScope, EnqState
<1>3. CASE FindPrior(j)
  <2>1. CASE \E p \in Prior(j) : AnswerFrom(j, p)
    BY <1>3, <2>1, AnswerTypes DEF FindPrior, Prior
  <2>2. CASE enq' = [enq EXCEPT ![j] = "check"] /\ UNCHANGED <<reply, lock>>
    BY <1>3, <2>2 DEF FindPrior, EnqState
  <2> QED
    BY <1>3, <2>1, <2>2 DEF FindPrior
<1>4. CASE CheckQuota(j)
  <2>1. CASE Finish(j, "over_quota", NoJob)
    BY <1>4, <2>1, FinishTypes DEF CheckQuota, EnqState
  <2>2. CASE enq' = [enq EXCEPT ![j] = "insert"] /\ UNCHANGED <<reply, lock>>
    BY <1>4, <2>2 DEF CheckQuota, EnqState
  <2> QED
    BY <1>4, <2>1, <2>2 DEF CheckQuota
<1>5. CASE Insert(j)
  <2>1. CASE \E p \in Prior(j) : AnswerFrom(j, p) /\ UNCHANGED jobs
    BY <1>5, <2>1, AnswerTypes DEF Insert, Prior
  <2>2. CASE jobs' = [jobs EXCEPT ![j] = NewRow] /\ Finish(j, "accepted", j)
    BY <1>5, <2>2, FinishTypes, RowTypes DEF Insert, EnqState
  <2> QED
    BY <1>5, <2>1, <2>2 DEF Insert
<1>6. CASE BreakEnqueue(j)
  BY <1>6, FinishTypes DEF BreakEnqueue, EnqState
<1> QED
  BY <1>1, <1>2, <1>3, <1>4, <1>5, <1>6 DEF Enqueue

\* The queue's steps other than enqueue only touch the rows and the leases.
LEMMA LeaseTypes ==
  ASSUME TypeOK
  PROVE  /\ \A r \in Caller, t \in Job : Dequeue(r, t) => TypeOK'
         /\ DequeueNothing => TypeOK'
         /\ \A l \in leases : Ack(l) \/ Fail(l) \/ Renew(l) => TypeOK'
         /\ ReapExpired => TypeOK'
         /\ \A j \in Job : Cancel(j) \/ Lapse(j) => TypeOK'
<1> USE DEF TypeOK, enqVars, leaseVars
<1>1. ASSUME NEW r \in Caller, NEW t \in Job, Dequeue(r, t)
      PROVE  TypeOK'
  <2> DEFINE token == minted[t] + 1
  <2>1. token \in Nat \ {0} /\ "failed" \in Status
    BY DEF Status
  <2>2. jobs' \in [Job -> Row]
    BY <1>1, <2>1, RowTypes DEF Dequeue
  <2>3. leases' \subseteq Lease
    BY <1>1, <2>1 DEF Dequeue, Lease
  <2> QED
    BY <1>1, <2>1, <2>2, <2>3 DEF Dequeue
<1>2. ASSUME DequeueNothing
      PROVE  TypeOK'
  BY <1>2, RowTypes DEF DequeueNothing, Status
<1>3. ASSUME NEW l \in leases, NEW status \in {"done", "failed"}, Settle(l, status)
      PROVE  TypeOK'
  BY <1>3, RowTypes DEF Settle, Lease, Status
<1>4. ASSUME NEW l \in leases, Renew(l)
      PROVE  TypeOK'
  BY <1>4 DEF Renew, Lease, Row
<1>5. ASSUME ReapExpired
      PROVE  TypeOK'
  BY <1>5, RowTypes DEF ReapExpired, Status
<1>6. ASSUME NEW j \in Job, Cancel(j)
      PROVE  TypeOK'
  BY <1>6, RowTypes DEF Cancel, Status
<1>7. ASSUME NEW j \in Job, Lapse(j)
      PROVE  TypeOK'
  BY <1>7 DEF Lapse, Row
<1> QED
  BY <1>1, <1>2, <1>3, <1>4, <1>5, <1>6, <1>7 DEF Ack, Fail

\* Every step keeps the types.
LEMMA NextTypes ==
  ASSUME TypeOK, [Next]_vars
  PROVE  TypeOK'
<1>1. CASE Next
  BY <1>1, EnqueueTypes, LeaseTypes DEF Next
<1>2. CASE UNCHANGED vars
  BY <1>2 DEF vars, TypeOK
<1> QED
  BY <1>1, <1>2

\* Every reachable table holds well-formed rows and every enqueue call stands
\* where the code can stand.
THEOREM TypeCorrect == Spec => []TypeOK
<1>1. Init => TypeOK
  BY RowTypes DEF Init, TypeOK, EnqState
<1>2. TypeOK /\ [Next]_vars => TypeOK'
  BY NextTypes
<1> QED
  BY <1>1, <1>2, PTL DEF Spec

-----------------------------------------------------------------------------
(* Leases *)

\* The empty table satisfies the lease invariant.
LEMMA LeaseInit == Init => LeaseInv
BY LimitsAssumption DEF Init, LeaseInv, RowInv, CopyInv, NoRow

\* What an enqueue step may do to the rows, the one fact about it that the
\* lease invariant needs: a call that has answered leaves them alone, one that
\* inserts does so once.
LEMMA EnqueueRows ==
  ASSUME TypeOK, NEW j \in Job, Enqueue(j)
  PROVE  /\ UNCHANGED <<minted, leases, settledBy>>
         /\ \A i \in Job \ {j} : enq'[i] = enq[i]
         /\ enq[j] \in {"idle", "admit", "check", "insert"}
         /\ \/ UNCHANGED jobs
            \/ /\ jobs' = [jobs EXCEPT ![j] = NewRow]
               /\ enq'[j] = "accepted"
BY DEF TypeOK, Enqueue, SelectPrior, LockScope, FindPrior, CheckQuota, Insert,
       BreakEnqueue, AnswerFrom, Finish, leaseVars

\* Submitting a job keeps the lease invariant: it inserts an unleased row.
LEMMA EnqueueKeepsLeases ==
  ASSUME TypeOK, LeaseInv, NEW j \in Job, Enqueue(j)
  PROVE  LeaseInv'
<1> USE EnqueueRows
<1>1. ASSUME NEW i \in Job
      PROVE  RowInv(i)'
  <2>1. CASE UNCHANGED jobs
    BY <2>1 DEF LeaseInv, RowInv
  <2>2. CASE jobs' = [jobs EXCEPT ![j] = NewRow] /\ enq'[j] = "accepted"
    <3>1. CASE i = j
      BY <2>2, <3>1, LimitsAssumption DEF TypeOK, LeaseInv, RowInv, NewRow, NoRow
    <3>2. CASE i # j
      BY <2>2, <3>2 DEF TypeOK, LeaseInv, RowInv
    <3> QED
      BY <3>1, <3>2
  <2> QED
    BY <2>1, <2>2
<1>2. ASSUME NEW l \in leases
      PROVE  CopyInv(l)'
  BY <1>2 DEF TypeOK, Lease, LeaseInv, CopyInv, NewRow, NoRow
<1> QED
  BY <1>1, <1>2 DEF LeaseInv

\* A row that leaves flight, or leaves the queue, keeps the invariant.
LEMMA ReleaseKeepsRow ==
  ASSUME NEW row \in Row, NEW status \in Status
  PROVE  /\ Release(row, status).status = status
         /\ Release(row, status).attempts = row.attempts
         /\ Release(row, status).lease = "none"
         /\ Release(row, status).token = 0
         /\ Release(row, status).by = NoRunner
BY DEF Row, Release

\* Most steps keep every row or release it, to the queue only below the limit,
\* and hand out nothing.
Retires ==
  /\ UNCHANGED <<enq, minted, leases>>
  /\ jobs' \in [Job -> Row]
  /\ \A j \in Job :
       \/ jobs'[j] = jobs[j]
       \/ /\ jobs[j].status \in {"queued", "in_flight"}
          /\ \/ jobs'[j] = Release(jobs[j], "done")
             \/ jobs'[j] = Release(jobs[j], "failed")
             \/ jobs'[j] = Release(jobs[j], "cancelled")
             \/ jobs'[j] = Release(jobs[j], "queued") /\ ~AtLimit(jobs[j])

\* Taking leases away from rows keeps the lease invariant.
LEMMA RetiresKeepsLeases ==
  ASSUME TypeOK, LeaseInv, Retires
  PROVE  LeaseInv'
<1>1. ASSUME NEW j \in Job
      PROVE  RowInv(j)'
  <2>1. CASE jobs'[j] = jobs[j]
    BY <2>1 DEF Retires, LeaseInv, RowInv
  <2>2. ASSUME NEW status \in {"done", "failed", "cancelled"},
               jobs'[j] = Release(jobs[j], status),
               jobs[j].status \in {"queued", "in_flight"}
        PROVE  RowInv(j)'
    <3>1. jobs[j] \in Row /\ status \in Status
      BY DEF TypeOK, Status
    <3> QED
      BY <2>2, <3>1, ReleaseKeepsRow DEF Retires, LeaseInv, RowInv
  <2>3. CASE /\ jobs'[j] = Release(jobs[j], "queued")
             /\ ~AtLimit(jobs[j])
             /\ jobs[j].status \in {"queued", "in_flight"}
    <3>1. jobs[j] \in Row /\ "queued" \in Status /\ jobs[j].attempts \in Nat
      BY DEF TypeOK, Status, Row
    <3> QED
      BY <2>3, <3>1, ReleaseKeepsRow, LimitsAssumption DEF AtLimit, Retires, LeaseInv, RowInv
  <2> QED
    BY <2>1, <2>2, <2>3 DEF Retires
<1>2. ASSUME NEW l \in leases
      PROVE  CopyInv(l)'
  <2>1. l.job \in Job
    BY DEF TypeOK, Lease
  <2>2. jobs'[l.job].status = "in_flight" => jobs'[l.job] = jobs[l.job]
    BY <2>1, ReleaseKeepsRow DEF Retires, TypeOK, Status
  <2> QED
    BY <2>1, <2>2 DEF Retires, LeaseInv, CopyInv
<1> QED
  BY <1>1, <1>2 DEF LeaseInv, Retires

\* Which statements do no more than that: a dequeue that leases nothing, ack, fail,
\* the reaper and cancel.
LEMMA RetiringSteps ==
  ASSUME TypeOK, LeaseInv
  PROVE  /\ DequeueNothing => Retires
         /\ \A l \in leases : Ack(l) \/ Fail(l) => Retires
         /\ ReapExpired => Retires
         /\ \A j \in Job : Cancel(j) => Retires
<1>1. ASSUME DequeueNothing
      PROVE  Retires
  <2>1. jobs' \in [Job -> Row]
    BY <1>1, LeaseTypes DEF TypeOK
  <2> QED
    BY <1>1, <2>1 DEF DequeueNothing, Retires, Dead, HasLapsed, enqVars, leaseVars
<1>2. ASSUME NEW l \in leases, Ack(l) \/ Fail(l)
      PROVE  Retires
  <2>1. jobs' \in [Job -> Row]
    BY <1>2, LeaseTypes DEF TypeOK
  <2> QED
    BY <1>2, <2>1 DEF Ack, Fail, Settle, Holds, Retires, TypeOK, Lease, enqVars
<1>3. ASSUME ReapExpired
      PROVE  Retires
  <2>1. jobs' \in [Job -> Row]
    BY <1>3, LeaseTypes DEF TypeOK
  <2> QED
    BY <1>3, <2>1 DEF ReapExpired, Retires, HasLapsed, enqVars, leaseVars
<1>4. ASSUME NEW j \in Job, Cancel(j)
      PROVE  Retires
  <2>1. jobs' \in [Job -> Row]
    BY <1>4, LeaseTypes DEF TypeOK
  <2> QED
    BY <1>4, <2>1 DEF Cancel, IsActive, Retires, TypeOK, enqVars, leaseVars
<1> QED
  BY <1>1, <1>2, <1>3, <1>4

\* The row that is leased: a fresh token, and the copy of it the caller gets.
LEMMA LeasedRow ==
  ASSUME NEW row \in Row, NEW token \in Nat, NEW r \in Caller
  PROVE  /\ Leased(row, token, r).status = "in_flight"
         /\ Leased(row, token, r).attempts = row.attempts + 1
         /\ Leased(row, token, r).lease = "live"
         /\ Leased(row, token, r).token = token
         /\ Leased(row, token, r).by = r
BY DEF Row, Leased

\* Leasing a row under a fresh token keeps the lease invariant.
LEMMA DequeueKeepsLeases ==
  ASSUME TypeOK, LeaseInv, NEW r \in Caller, NEW t \in Job, Dequeue(r, t)
  PROVE  LeaseInv'
<1> DEFINE token == minted[t] + 1
<1>1. /\ token \in Nat /\ token > minted[t]
      /\ jobs[t] \in Row
      /\ minted' = [minted EXCEPT ![t] = token]
      /\ enq' = enq
      /\ jobs'[t] = Leased(jobs[t], token, r)
      /\ leases' = leases \cup {[job |-> t, token |-> token, runner |-> r]}
  BY DEF Dequeue, TypeOK, enqVars
<1>2. minted[t] < MaxAttempts
  BY LimitsAssumption DEF Dequeue, Candidates, HasLapsed, AtLimit, LeaseInv, RowInv, TypeOK, Row
<1>3. \A j \in Job \ {t} : /\ minted'[j] = minted[j]
                           /\ \/ jobs'[j] = jobs[j]
                              \/ j \in Dead /\ jobs'[j] = Release(jobs[j], "failed")
  BY <1>1 DEF Dequeue, TypeOK
<1>4. jobs[t].status # "absent"
  BY DEF Dequeue, Candidates, HasLapsed
<1>5. ASSUME NEW j \in Job
      PROVE  RowInv(j)'
  <2>1. CASE j = t
    <3>1. minted'[t] = token /\ token <= MaxAttempts /\ token > 0
      BY <1>1, <1>2, LimitsAssumption DEF TypeOK
    <3>2. jobs'[t].attempts = token
      BY <1>1, LeasedRow DEF LeaseInv, RowInv
    <3>3. enq[t] \notin {"idle", "admit", "check", "insert"}
      BY <1>4 DEF LeaseInv, RowInv
    <3>4. /\ jobs'[t].status = "in_flight"
          /\ jobs'[t].token = token
          /\ jobs'[t].lease = "live"
      BY <1>1, LeasedRow
    <3> QED
      BY <1>1, <2>1, <3>1, <3>2, <3>3, <3>4 DEF RowInv
  <2>2. CASE j # t /\ jobs'[j] = jobs[j]
    BY <1>1, <1>3, <2>2 DEF LeaseInv, RowInv
  <2>3. CASE j # t /\ j \in Dead /\ jobs'[j] = Release(jobs[j], "failed")
    <3>1. jobs[j] \in Row /\ "failed" \in Status /\ jobs[j].status = "in_flight"
      BY <2>3 DEF TypeOK, Status, Dead, HasLapsed
    <3> QED
      BY <1>1, <1>3, <2>3, <3>1, ReleaseKeepsRow DEF LeaseInv, RowInv
  <2> QED
    BY <1>3, <2>1, <2>2, <2>3
<1>6. ASSUME NEW l \in leases'
      PROVE  CopyInv(l)'
  <2>1. CASE l \in leases
    <3>1. l.job \in Job /\ l.token \in Nat /\ l.token <= minted[l.job]
      BY <2>1 DEF TypeOK, Lease, LeaseInv, CopyInv
    <3>2. CASE l.job = t
      BY <1>1, <3>1, <3>2 DEF CopyInv, TypeOK
    <3>3. CASE l.job # t
      <4>1. jobs'[l.job].status = "in_flight" => jobs'[l.job] = jobs[l.job]
        BY <1>3, <3>1, <3>3, ReleaseKeepsRow DEF TypeOK, Status
      <4> QED
        BY <1>3, <2>1, <3>1, <3>3, <4>1 DEF LeaseInv, CopyInv
    <3> QED
      BY <3>2, <3>3
  <2>2. CASE l = [job |-> t, token |-> token, runner |-> r]
    BY <1>1, <2>2, LeasedRow DEF CopyInv, TypeOK
  <2> QED
    BY <1>1, <2>1, <2>2
<1> QED
  BY <1>5, <1>6 DEF LeaseInv

\* Renewing a lease and time passing it touch one field of a row in flight.
LEMMA TimeKeepsLeases ==
  ASSUME TypeOK, LeaseInv, NEW j \in Job, NEW lease \in {"live", "lapsed"},
         jobs[j].status = "in_flight",
         jobs' = [jobs EXCEPT ![j].lease = lease],
         UNCHANGED <<enqVars, leaseVars>>
  PROVE  LeaseInv'
<1>1. /\ jobs[j] \in Row
      /\ jobs'[j] = [jobs[j] EXCEPT !.lease = lease]
      /\ \A i \in Job \ {j} : jobs'[i] = jobs[i]
  BY DEF TypeOK
<1>2. /\ jobs'[j].status = jobs[j].status
      /\ jobs'[j].attempts = jobs[j].attempts
      /\ jobs'[j].token = jobs[j].token
      /\ jobs'[j].by = jobs[j].by
      /\ jobs'[j].lease = lease
  BY <1>1 DEF Row
<1>3. ASSUME NEW i \in Job
      PROVE  RowInv(i)'
  BY <1>1, <1>2 DEF LeaseInv, RowInv, enqVars, leaseVars
<1>4. ASSUME NEW l \in leases
      PROVE  CopyInv(l)'
  BY <1>1, <1>2 DEF LeaseInv, CopyInv, TypeOK, Lease, leaseVars
<1> QED
  BY <1>3, <1>4 DEF LeaseInv, leaseVars

\* Every step of the queue keeps the lease invariant.
LEMMA NextKeepsLeases ==
  ASSUME TypeOK, LeaseInv, [Next]_vars
  PROVE  LeaseInv'
<1>1. ASSUME NEW j \in Job, Enqueue(j)
      PROVE  LeaseInv'
  BY <1>1, EnqueueKeepsLeases
<1>2. ASSUME NEW j \in Job, Cancel(j)
      PROVE  LeaseInv'
  BY <1>2, RetiringSteps, RetiresKeepsLeases
<1>3. ASSUME NEW j \in Job, Lapse(j)
      PROVE  LeaseInv'
  BY <1>3, TimeKeepsLeases DEF Lapse
<1>4. ASSUME NEW r \in Caller, NEW t \in Job, Dequeue(r, t)
      PROVE  LeaseInv'
  BY <1>4, DequeueKeepsLeases
<1>5. ASSUME NEW l \in leases, Ack(l) \/ Fail(l)
      PROVE  LeaseInv'
  BY <1>5, RetiringSteps, RetiresKeepsLeases
<1>6. ASSUME NEW l \in leases, Renew(l)
      PROVE  LeaseInv'
  <2>1. l.job \in Job
    BY DEF TypeOK, Lease
  <2> QED
    BY <1>6, <2>1, TimeKeepsLeases DEF Renew, Holds
<1>7. CASE DequeueNothing \/ ReapExpired
  BY <1>7, RetiringSteps, RetiresKeepsLeases
<1>8. CASE UNCHANGED vars
  BY <1>8 DEF vars, LeaseInv, RowInv, CopyInv
<1> QED
  BY <1>1, <1>2, <1>3, <1>4, <1>5, <1>6, <1>7, <1>8 DEF Next

\* The columns of a row always agree with each other and with the copies handed out:
\* attempts counts the leases granted, a row in flight carries the latest token.
THEOREM LeaseInvariant == Spec => []LeaseInv
<1>1. TypeOK /\ LeaseInv /\ [Next]_vars => LeaseInv'
  BY NextKeepsLeases
<1> QED
  BY <1>1, LeaseInit, TypeCorrect, PTL DEF Spec

\* What the agreement of the columns says of copies and attempts.
LEMMA LeaseInvSuffices ==
  ASSUME TypeOK, LeaseInv
  PROVE  StaleLeasesAreFenced /\ HolderCanSettle /\ AttemptsBounded
<1>1. StaleLeasesAreFenced
  BY DEF TypeOK, Lease, LeaseInv, RowInv, StaleLeasesAreFenced, Holds
<1>2. HolderCanSettle
  BY DEF TypeOK, Lease, LeaseInv, RowInv, CopyInv, HolderCanSettle, Holds
<1>3. AttemptsBounded
  BY DEF LeaseInv, RowInv, AttemptsBounded
<1> QED
  BY <1>1, <1>2, <1>3

\* No copy but the one from the latest dequeue can acknowledge, fail or renew a
\* job, however many workers hold older ones.
THEOREM LeasesAreFenced == Spec => []StaleLeasesAreFenced
BY LeaseInvSuffices, TypeCorrect, LeaseInvariant, PTL

\* The caller of the latest dequeue is never refused while the job is in flight.
THEOREM HoldersCanSettle == Spec => []HolderCanSettle
BY LeaseInvSuffices, TypeCorrect, LeaseInvariant, PTL

\* No job is handed out more than max_attempts times.
THEOREM AttemptsAreBounded == Spec => []AttemptsBounded
BY LeaseInvSuffices, TypeCorrect, LeaseInvariant, PTL

\* All that the holders of leases rely on.
THEOREM LeasesAreSafe == Spec => []LeaseSafety
BY TypeCorrect, LeaseInvariant, LeasesAreFenced, HoldersCanSettle, AttemptsAreBounded, PTL
   DEF LeaseSafety

-----------------------------------------------------------------------------
(* Admission *)

\* A tenant has finitely many active rows, so they and their units can be counted.
LEMMA ActiveIsFinite ==
  ASSUME NEW table, NEW s
  PROVE  /\ IsFiniteSet(ActiveIn(table, s))
         /\ Cardinality(ActiveIn(table, s)) \in Nat
         /\ Units(ActiveIn(table, s)) \in Nat
<1>1. IsFiniteSet(ActiveIn(table, s)) /\ \A j \in ActiveIn(table, s) : UnitsOf[j] \in Nat
  BY JobsAssumption, FS_Subset DEF ActiveIn
<1>2. SumOf(UnitsOf, ActiveIn(table, s)) \in Nat
  BY <1>1, SumOfNat
<1> QED
  BY <1>1, <1>2, FS_CardinalityType DEF Units, SumOf

\* A step that activates no row leaves every tenant at most as many active ones.
LEMMA ActiveShrinks ==
  ASSUME \A j \in Job : IsActive(jobs'[j]) => IsActive(jobs[j]), NEW s
  PROVE  /\ Cardinality(ActiveIn(jobs', s)) <= Cardinality(ActiveIn(jobs, s))
         /\ Units(ActiveIn(jobs', s)) <= Units(ActiveIn(jobs, s))
<1>1. ActiveIn(jobs', s) \in SUBSET ActiveIn(jobs, s)
  BY DEF ActiveIn
<1>2. \A j \in ActiveIn(jobs, s) : UnitsOf[j] \in Nat
  BY JobsAssumption DEF ActiveIn
<1>3. SumOf(UnitsOf, ActiveIn(jobs', s)) <= SumOf(UnitsOf, ActiveIn(jobs, s))
  BY <1>1, <1>2, ActiveIsFinite, SumOfPart
<1> QED
  BY <1>1, <1>3, ActiveIsFinite, FS_Subset DEF Units, SumOf

\* What the two limits ask of the table.
WithinLimits == RunsQuotaHolds /\ ScenarioQuotaHolds

\* Every step that is not a submission's activates no row and leaves the
\* submissions alone.
ActivatesNothing ==
  /\ UNCHANGED <<enq, lock>>
  /\ \A j \in Job : IsActive(jobs'[j]) => IsActive(jobs[j])

\* Every step but those of enqueue is quiet: it activates no row.
LEMMA QuietSteps ==
  ASSUME TypeOK, LeaseInv, [Next]_vars, ~ \E j \in Job : Enqueue(j)
  PROVE  ActivatesNothing
<1>1. ASSUME NEW r \in Caller, NEW t \in Job, Dequeue(r, t)
      PROVE  ActivatesNothing
  <2>1. ASSUME NEW j \in Job, IsActive(jobs'[j])
        PROVE  IsActive(jobs[j])
    <3>1. CASE j = t
      BY <1>1, <3>1 DEF Dequeue, Candidates, HasLapsed, IsActive
    <3>2. CASE j \in Dead
      BY <3>2 DEF Dead, HasLapsed, IsActive
    <3>3. CASE j # t /\ j \notin Dead
      BY <1>1, <2>1, <3>3 DEF Dequeue
    <3> QED
      BY <3>1, <3>2, <3>3
  <2> QED
    BY <1>1, <2>1 DEF Dequeue, ActivatesNothing, enqVars
<1>2. ASSUME DequeueNothing \/ ReapExpired
      PROVE  ActivatesNothing
  BY <1>2 DEF DequeueNothing, ReapExpired, Dead, HasLapsed, IsActive, ActivatesNothing, enqVars
<1>3. ASSUME NEW l \in leases, Ack(l) \/ Fail(l) \/ Renew(l)
      PROVE  ActivatesNothing
  <2>1. /\ l.job \in Job /\ IsActive(jobs[l.job])
        /\ \A j \in Job \ {l.job} : jobs'[j] = jobs[j]
        /\ UNCHANGED <<enq, lock>>
    BY <1>3 DEF Ack, Fail, Settle, Renew, Holds, IsActive, TypeOK, Lease, enqVars
  <2> QED
    BY <2>1 DEF ActivatesNothing
<1>4. ASSUME NEW i \in Job, Cancel(i) \/ Lapse(i)
      PROVE  ActivatesNothing
  BY <1>4 DEF Cancel, Lapse, IsActive, ActivatesNothing, TypeOK, enqVars
<1>5. CASE UNCHANGED vars
  BY <1>5 DEF vars, ActivatesNothing
<1> QED
  BY <1>1, <1>2, <1>3, <1>4, <1>5 DEF Next

\* A quiet step keeps the quota and the room a transaction has checked.
LEMMA QuietKeepsQuota ==
  ASSUME TypeOK, QuotaInv, WithinLimits, ActivatesNothing
  PROVE  QuotaInv' /\ WithinLimits'
<1>1. \A s : /\ Cardinality(ActiveIn(jobs', s)) <= Cardinality(ActiveIn(jobs, s))
             /\ Units(ActiveIn(jobs', s)) <= Units(ActiveIn(jobs, s))
  BY ActiveShrinks DEF ActivatesNothing
<1>2. \A s : /\ Cardinality(ActiveIn(jobs, s)) \in Nat /\ Units(ActiveIn(jobs, s)) \in Nat
             /\ Cardinality(ActiveIn(jobs', s)) \in Nat /\ Units(ActiveIn(jobs', s)) \in Nat
  BY ActiveIsFinite
<1>3. RunsMax \in Nat /\ UnitsMax \in Nat /\ \A j \in Job : UnitsOf[j] \in Nat
  BY LimitsAssumption, JobsAssumption
<1>4. HasQuota => LockInv'
  BY DEF QuotaInv, LockInv, ActivatesNothing
<1>5. HasQuota => RoomInv'
  <2> SUFFICES ASSUME HasQuota, NEW i \in Job, enq'[i] = "insert"
               PROVE  WithinQuota(jobs', i)
    BY DEF RoomInv
  <2>1. WithinQuota(jobs, i)
    BY DEF QuotaInv, RoomInv, ActivatesNothing
  <2> QED
    BY <1>1, <1>2, <1>3, <2>1 DEF WithinQuota
<1>6. WithinLimits'
  BY <1>1, <1>2, <1>3 DEF WithinLimits, RunsQuotaHolds, ScenarioQuotaHolds
<1> QED
  BY <1>4, <1>5, <1>6 DEF QuotaInv

\* The lock: no step of one submission touches what another one holds.
LEMMA EnqueueKeepsLocks ==
  ASSUME TypeOK, HasQuota, LockInv, NEW j \in Job, Enqueue(j)
  PROVE  LockInv'
<1> SUFFICES ASSUME NEW i \in Job, enq'[i] \in {"admit", "check", "insert"},
                    ScopeOf[i] \in Scope
             PROVE  lock'[ScopeOf[i]] = i
  BY DEF LockInv
<1>1. CASE SelectPrior(j)
  BY <1>1 DEF SelectPrior
<1>2. CASE LockScope(j)
  <2>1. CASE i = j
    BY <1>2, <2>1, JobsAssumption DEF LockScope, TypeOK
  <2>2. CASE i # j
    BY <1>2, <2>2, JobsAssumption DEF LockScope, LockInv, TypeOK
  <2> QED
    BY <2>1, <2>2
<1>3. ASSUME NEW state \in {"accepted", "refused", "over_quota", "broken"}, NEW answer,
             Finish(j, state, answer)
      PROVE  lock'[ScopeOf[i]] = i
  BY <1>3 DEF Finish, LockInv, TypeOK
<1>4. CASE /\ enq' = [enq EXCEPT ![j] = "check"] /\ enq[j] = "admit"
           /\ UNCHANGED lock
  BY <1>4 DEF LockInv, TypeOK
<1>5. CASE /\ enq' = [enq EXCEPT ![j] = "insert"] /\ enq[j] = "check"
           /\ UNCHANGED lock
  BY <1>5 DEF LockInv, TypeOK
<1> QED
  BY <1>1, <1>2, <1>3, <1>4, <1>5
  DEF Enqueue, FindPrior, CheckQuota, Insert, BreakEnqueue, AnswerFrom

\* The row that is inserted takes the room it was checked for.
LEMMA InsertTakesRoom ==
  ASSUME TypeOK, NEW j \in Job, jobs' = [jobs EXCEPT ![j] = NewRow], NEW s
  PROVE  /\ ScopeOf[j] # s => ActiveIn(jobs', s) = ActiveIn(jobs, s)
         /\ Cardinality(ActiveIn(jobs', s)) <= Cardinality(ActiveIn(jobs, s)) + 1
         /\ Units(ActiveIn(jobs', s)) <= Units(ActiveIn(jobs, s)) + UnitsOf[j]
<1> DEFINE before == ActiveIn(jobs, s)
           after  == ActiveIn(jobs', s)
<1>1. after \in SUBSET (before \cup {j})
  BY DEF ActiveIn, TypeOK
<1>2. ScopeOf[j] # s => after = before
  BY DEF ActiveIn, TypeOK
<1>3. /\ IsFiniteSet(before) /\ Cardinality(before) \in Nat
      /\ Cardinality(after) \in Nat /\ Units(before) \in Nat /\ Units(after) \in Nat
  BY ActiveIsFinite
<1>4. UnitsOf[j] \in Nat /\ \A i \in before \cup {j} : UnitsOf[i] \in Nat
  BY JobsAssumption DEF ActiveIn
<1> HIDE DEF before, after
<1>5. /\ IsFiniteSet(before \cup {j})
      /\ Cardinality(before \cup {j}) <= Cardinality(before) + 1
  <2>1. /\ IsFiniteSet(before \cup {j})
        /\ \/ Cardinality(before \cup {j}) = Cardinality(before)
           \/ Cardinality(before \cup {j}) = Cardinality(before) + 1
    BY <1>3, FS_AddElement
  <2> QED
    BY <1>3, <2>1
<1>6. Cardinality(after) <= Cardinality(before \cup {j})
  BY <1>1, <1>5, FS_Subset
<1>7. Cardinality(after) <= Cardinality(before) + 1
  <2>1. Cardinality(before \cup {j}) \in Nat
    BY <1>5, FS_CardinalityType
  <2> QED
    BY <1>3, <1>5, <1>6, <2>1
<1>8. SumOf(UnitsOf, after) <= SumOf(UnitsOf, before \cup {j})
  BY <1>1, <1>4, <1>5, SumOfPart
<1>9. SumOf(UnitsOf, before \cup {j}) <= SumOf(UnitsOf, before) + UnitsOf[j]
  <2>0. SumOf(UnitsOf, before) \in Int
    BY <1>3 DEF Units, SumOf
  <2>1. CASE j \in before
    <3>1. SumOf(UnitsOf, before \cup {j}) = SumOf(UnitsOf, before)
      <4>1. before \cup {j} = before
        BY <2>1
      <4> QED
        BY <4>1
    <3> QED
      BY <1>4, <2>0, <3>1
  <2>2. CASE j \notin before
    <3>1. SumOf(UnitsOf, before \cup {j}) = SumOf(UnitsOf, before) + UnitsOf[j]
      BY <1>3, <1>4, <2>2, SumOfAdd
    <3> QED
      BY <1>4, <2>0, <3>1
  <2> QED
    BY <2>1, <2>2
<1>10. Units(after) <= Units(before) + UnitsOf[j]
  <2>1. SumOf(UnitsOf, before \cup {j}) \in Nat
    BY <1>4, <1>5, SumOfNat
  <2>2. Units(after) = SumOf(UnitsOf, after) /\ Units(before) = SumOf(UnitsOf, before)
    BY DEF Units, SumOf
  <2> QED
    BY <1>3, <1>4, <1>8, <1>9, <2>1, <2>2
<1> QED
  BY <1>2, <1>7, <1>10 DEF before, after

\* Submitting a job under the lock of its tenant keeps the quota.
LEMMA EnqueueKeepsQuota ==
  ASSUME TypeOK, QuotaInv, WithinLimits, HasQuota, NEW j \in Job, Enqueue(j)
  PROVE  RoomInv' /\ WithinLimits'
<1> USE DEF QuotaInv
<1>1. LockInv'
  BY EnqueueKeepsLocks
<1>2. RunsMax \in Nat /\ UnitsMax \in Nat /\ UnitsOf[j] \in Nat
  BY LimitsAssumption, JobsAssumption
<1>3. CASE UNCHANGED jobs
  <2>1. WithinLimits'
    BY <1>3 DEF WithinLimits, RunsQuotaHolds, ScenarioQuotaHolds
  <2>2. ASSUME NEW i \in Job, enq'[i] = "insert"
        PROVE  WithinQuota(jobs', i)
    <3>1. CASE enq[i] = "insert"
      BY <1>3, <2>2, <3>1 DEF RoomInv
    <3>2. CASE enq[i] # "insert"
      <4>1. i = j /\ WithinQuota(jobs, j)
        BY <2>2, <3>2 DEF TypeOK, Enqueue, SelectPrior, LockScope, FindPrior, CheckQuota,
                          Insert, BreakEnqueue, AnswerFrom, Finish
      <4> QED
        BY <1>3, <4>1
    <3> QED
      BY <3>1, <3>2
  <2> QED
    BY <2>1, <2>2 DEF RoomInv
<1>4. CASE Insert(j) /\ jobs' = [jobs EXCEPT ![j] = NewRow] /\ enq'[j] = "accepted"
  <2>1. WithinLimits'
    <3> SUFFICES ASSUME NEW s \in Scope
                 PROVE  /\ Cardinality(ActiveIn(jobs', s)) <= RunsMax
                        /\ Units(ActiveIn(jobs', s)) <= UnitsMax
      BY DEF WithinLimits, RunsQuotaHolds, ScenarioQuotaHolds
    <3>1. CASE ScopeOf[j] = s
      <4>1. /\ Cardinality(ActiveIn(jobs, s)) < RunsMax
            /\ Units(ActiveIn(jobs, s)) + UnitsOf[j] <= UnitsMax
        BY <1>4, <3>1, JobsAssumption DEF RoomInv, Insert, WithinQuota
      <4>2. /\ Cardinality(ActiveIn(jobs', s)) <= Cardinality(ActiveIn(jobs, s)) + 1
            /\ Units(ActiveIn(jobs', s)) <= Units(ActiveIn(jobs, s)) + UnitsOf[j]
        BY <1>4, InsertTakesRoom
      <4>3. /\ Cardinality(ActiveIn(jobs, s)) \in Nat /\ Units(ActiveIn(jobs, s)) \in Nat
            /\ Cardinality(ActiveIn(jobs', s)) \in Nat /\ Units(ActiveIn(jobs', s)) \in Nat
        BY ActiveIsFinite
      <4> QED
        BY <1>2, <4>1, <4>2, <4>3
    <3>2. CASE ScopeOf[j] # s
      BY <1>4, <3>2, InsertTakesRoom DEF WithinLimits, RunsQuotaHolds, ScenarioQuotaHolds
    <3> QED
      BY <3>1, <3>2
  <2>2. ASSUME NEW i \in Job, enq'[i] = "insert"
        PROVE  WithinQuota(jobs', i)
    <3>1. i # j /\ enq[i] = "insert" /\ WithinQuota(jobs, i)
      BY <1>4, <2>2, EnqueueRows DEF RoomInv
    <3>2. CASE ScopeOf[i] = NoScope
      BY <3>2 DEF WithinQuota
    <3>3. CASE ScopeOf[i] # NoScope
      <4>1. ScopeOf[i] \in Scope /\ ScopeOf[j] # ScopeOf[i]
        BY <1>4, <2>2, <3>1, <3>3, JobsAssumption DEF LockInv, Insert
      <4>2. ActiveIn(jobs', ScopeOf[i]) = ActiveIn(jobs, ScopeOf[i])
        BY <1>4, <4>1, InsertTakesRoom
      <4> QED
        BY <3>1, <4>2 DEF WithinQuota
    <3> QED
      BY <3>2, <3>3
  <2> QED
    BY <2>1, <2>2 DEF RoomInv
<1> QED
  BY <1>3, <1>4, EnqueueRows
  DEF Enqueue, SelectPrior, LockScope, FindPrior, CheckQuota, Insert, BreakEnqueue

\* However many API replicas admit runs at once, and whatever their workers, the
\* reaper and operators do, the limits of every tenant hold and the transactions
\* under way have room.
THEOREM QuotaInvariant == Spec => [](QuotaInv /\ WithinLimits)
<1>1. Init => QuotaInv /\ WithinLimits
  <2> SUFFICES ASSUME Init
               PROVE  QuotaInv /\ WithinLimits
    OBVIOUS
  <2>1. \A s : ActiveIn(jobs, s) = {}
    BY DEF Init, ActiveIn, IsActive, NoRow
  <2>2. Cardinality({}) = 0 /\ Units({}) = 0
    <3>1. SumOf(UnitsOf, {}) = 0
      BY SumOfEmpty
    <3> QED
      BY <3>1, FS_EmptySet DEF Units, SumOf
  <2>3. QuotaInv
    BY DEF Init, QuotaInv, LockInv, RoomInv
  <2>4. WithinLimits
    <3>1. ASSUME NEW s \in Scope
          PROVE  Cardinality(ActiveIn(jobs, s)) = 0 /\ Units(ActiveIn(jobs, s)) = 0
      BY <2>1, <2>2
    <3> QED
      BY <3>1, LimitsAssumption DEF WithinLimits, RunsQuotaHolds, ScenarioQuotaHolds
  <2> QED
    BY <2>3, <2>4
<1>2. TypeOK /\ LeaseInv /\ QuotaInv /\ WithinLimits /\ [Next]_vars
        => QuotaInv' /\ WithinLimits'
  <2> SUFFICES ASSUME TypeOK, LeaseInv, QuotaInv, WithinLimits, [Next]_vars
               PROVE  QuotaInv' /\ WithinLimits'
    OBVIOUS
  <2>1. CASE ~ \E j \in Job : Enqueue(j)
    BY <2>1, QuietSteps, QuietKeepsQuota
  <2>2. ASSUME NEW j \in Job, Enqueue(j), HasQuota
        PROVE  QuotaInv' /\ WithinLimits'
    BY <2>2, EnqueueKeepsQuota, EnqueueKeepsLocks DEF QuotaInv
  <2>3. CASE ~HasQuota
    BY <2>3 DEF QuotaInv, WithinLimits, RunsQuotaHolds, ScenarioQuotaHolds
  <2> QED
    BY <2>1, <2>2, <2>3
<1> QED
  BY <1>1, <1>2, TypeCorrect, LeaseInvariant, PTL DEF Spec

\* No tenant has more active runs than its limit.
THEOREM RunsQuotaIsKept == Spec => []RunsQuotaHolds
BY QuotaInvariant, PTL DEF WithinLimits

\* The scenarios its active runs declared never add up to more than its limit.
THEOREM ScenarioQuotaIsKept == Spec => []ScenarioQuotaHolds
BY QuotaInvariant, PTL DEF WithinLimits

-----------------------------------------------------------------------------
(* Refinement of the queue contract *)

\* The job was settled by a token that was drawn for it.
SettledInv == \A j \in Job : settledBy[j] <= minted[j]

\* A job is settled by a lease that was granted for it.
LEMMA SettledInvariant == Spec => []SettledInv
<1>1. Init => SettledInv
  BY DEF Init, SettledInv
<1>2. TypeOK /\ LeaseInv /\ SettledInv /\ [Next]_vars => SettledInv'
  <2> SUFFICES ASSUME TypeOK, LeaseInv, SettledInv, [Next]_vars
               PROVE  SettledInv'
    OBVIOUS
  <2>1. ASSUME NEW j \in Job, Enqueue(j)
        PROVE  SettledInv'
    BY <2>1, EnqueueRows DEF SettledInv
  <2>2. ASSUME NEW r \in Caller, NEW t \in Job, Dequeue(r, t)
        PROVE  SettledInv'
    BY <2>2 DEF Dequeue, SettledInv, TypeOK
  <2>3. ASSUME NEW l \in leases, Ack(l) \/ Fail(l)
        PROVE  SettledInv'
    BY <2>3 DEF Ack, Fail, Settle, SettledInv, TypeOK, Lease, LeaseInv, CopyInv
  <2>4. ASSUME UNCHANGED <<minted, settledBy>>
        PROVE  SettledInv'
    BY <2>4 DEF SettledInv
  <2> QED
    BY <2>1, <2>2, <2>3, <2>4
    DEF Next, Cancel, Lapse, Renew, DequeueNothing, ReapExpired, leaseVars, vars
<1> QED
  BY <1>1, <1>2, TypeCorrect, LeaseInvariant, PTL DEF Spec

\* The mapped state is a state of the contract.
LEMMA ContractTypes ==
  ASSUME TypeOK, LeaseInv, SettledInv
  PROVE  Contract!TypeOK
<1>1. \A j \in Job : jobs[j].status \in Status
  BY DEF TypeOK, Row
<1>2. \A j \in Job : minted[j] \in 0..MaxAttempts /\ settledBy[j] \in 0..MaxAttempts
  BY LimitsAssumption DEF TypeOK, LeaseInv, RowInv, SettledInv
<1> QED
  BY <1>1, <1>2 DEF Contract!TypeOK, Contract!Phase, Contract!Terminal, Status, TypeOK

\* Every step lets each job make a move of the contract.
LEMMA JobsMove ==
  ASSUME TypeOK, TypeOK', LeaseInv, [Next]_vars, NEW i \in Job
  PROVE  Contract!Move(i)
<1> USE DEF Contract!Move, Contract!Stays, Contract!Keeps, Contract!Goes
<1>1. ASSUME NEW j \in Job, Enqueue(j)
      PROVE  Contract!Move(i)
  <2>1. CASE UNCHANGED jobs
    BY <1>1, <2>1, EnqueueRows
  <2>2. CASE jobs' = [jobs EXCEPT ![j] = NewRow]
    <3>1. jobs[j].status = "absent"
      BY <1>1, EnqueueRows DEF LeaseInv, RowInv
    <3>2. NewRow.status = "queued"
      BY DEF NewRow, NoRow
    <3> QED
      BY <1>1, <2>2, <3>1, <3>2, EnqueueRows DEF Contract!Submit, TypeOK
  <2> QED
    BY <1>1, <2>1, <2>2, EnqueueRows
<1>2. ASSUME NEW r \in Caller, NEW t \in Job, Dequeue(r, t)
      PROVE  Contract!Move(i)
  <2>1. CASE i = t
    <3>1. jobs[t].status \in {"queued", "in_flight"} /\ minted[t] < MaxAttempts
      BY <1>2, LimitsAssumption
      DEF Dequeue, Candidates, HasLapsed, AtLimit, LeaseInv, RowInv, TypeOK, Row
    <3>2. jobs'[t].status = "in_flight"
      BY <1>2, LeasedRow DEF Dequeue, TypeOK
    <3>3. minted'[t] = minted[t] + 1 /\ settledBy' = settledBy
      BY <1>2 DEF Dequeue, TypeOK
    <3> QED
      BY <2>1, <3>1, <3>2, <3>3 DEF Contract!Grant
  <2>2. CASE i # t /\ i \in Dead
    <3>1. jobs[i].status = "in_flight" /\ ~(minted[i] < MaxAttempts)
      BY <2>2, LimitsAssumption DEF Dead, HasLapsed, AtLimit, LeaseInv, RowInv, TypeOK
    <3>2. jobs'[i].status = "failed"
      BY <1>2, <2>2, ReleaseKeepsRow DEF Dequeue, TypeOK, Status
    <3>3. minted'[i] = minted[i] /\ settledBy' = settledBy
      BY <1>2, <2>2 DEF Dequeue, TypeOK
    <3> QED
      BY <3>1, <3>2, <3>3 DEF Contract!Expire
  <2>3. CASE i # t /\ i \notin Dead
    BY <1>2, <2>3 DEF Dequeue, TypeOK
  <2> QED
    BY <2>1, <2>2, <2>3
<1>3. ASSUME DequeueNothing \/ ReapExpired
      PROVE  Contract!Move(i)
  <2>1. UNCHANGED <<minted, settledBy>>
    BY <1>3 DEF DequeueNothing, ReapExpired, leaseVars
  <2>2. CASE jobs'[i] = jobs[i]
    BY <2>1, <2>2
  <2>3. CASE jobs'[i] # jobs[i]
    <3>1. /\ HasLapsed(jobs[i])
          /\ jobs'[i] = Release(jobs[i], IF AtLimit(jobs[i]) THEN "failed" ELSE "queued")
      BY <1>3, <2>3 DEF DequeueNothing, ReapExpired, Dead
    <3>2. AtLimit(jobs[i]) <=> ~(minted[i] < MaxAttempts)
      BY LimitsAssumption DEF AtLimit, LeaseInv, RowInv, TypeOK
    <3>3. jobs'[i].status = IF minted[i] < MaxAttempts THEN "queued" ELSE "failed"
      BY <3>1, <3>2, ReleaseKeepsRow DEF TypeOK, Status
    <3> QED
      BY <2>1, <3>1, <3>3 DEF HasLapsed, Contract!Expire
  <2> QED
    BY <2>2, <2>3
<1>4. ASSUME NEW l \in leases, Ack(l) \/ Fail(l)
      PROVE  Contract!Move(i)
  <2>1. PICK status \in {"done", "failed"} : Settle(l, status)
    BY <1>4 DEF Ack, Fail
  <2>2. l.job \in Job /\ l.token = minted[l.job] /\ jobs[l.job].status = "in_flight"
    BY <2>1 DEF Settle, Holds, TypeOK, Lease, LeaseInv, RowInv
  <2>3. CASE i = l.job
    <3>1. jobs'[i].status = status
      BY <2>1, <2>2, <2>3, ReleaseKeepsRow DEF Settle, TypeOK, Status
    <3>2. settledBy'[i] = minted[i] /\ minted' = minted
      BY <2>1, <2>2, <2>3 DEF Settle, TypeOK
    <3> QED
      BY <2>2, <2>3, <3>1, <3>2 DEF Contract!Settle
  <2>4. CASE i # l.job
    BY <2>1, <2>2, <2>4 DEF Settle, TypeOK
  <2> QED
    BY <2>3, <2>4
<1>5. ASSUME NEW l \in leases, Renew(l)
      PROVE  Contract!Move(i)
  <2>1. jobs'[i].status = jobs[i].status
    BY <1>5 DEF Renew, TypeOK, Row, Lease
  <2> QED
    BY <1>5, <2>1 DEF Renew, leaseVars
<1>6. ASSUME NEW j \in Job, Lapse(j)
      PROVE  Contract!Move(i)
  <2>1. jobs'[i].status = jobs[i].status
    BY <1>6 DEF Lapse, TypeOK, Row
  <2> QED
    BY <1>6, <2>1 DEF Lapse, leaseVars
<1>7. ASSUME NEW j \in Job, Cancel(j)
      PROVE  Contract!Move(i)
  <2>1. jobs'[j].status = "cancelled"
    BY <1>7, ReleaseKeepsRow DEF Cancel, TypeOK, Status
  <2> QED
    BY <1>7, <2>1 DEF Cancel, IsActive, Contract!Cancel, leaseVars, TypeOK
<1>8. CASE UNCHANGED vars
  BY <1>8 DEF vars
<1> QED
  BY <1>1, <1>2, <1>3, <1>4, <1>5, <1>6, <1>7, <1>8 DEF Next

\* The durable queue implements the contract every queue of the control plane
\* promises.
THEOREM ImplementsContract == Spec => ImplementsLeaseQueue
<1>1. Init => Contract!Init
  BY DEF Init, NoRow, Contract!Init
<1>2. /\ TypeOK /\ LeaseInv /\ SettledInv
      /\ TypeOK' /\ LeaseInv' /\ SettledInv'
      /\ [Next]_vars
      => [Contract!Next]_(Contract!vars)
  <2> SUFFICES ASSUME TypeOK, LeaseInv, TypeOK', LeaseInv', SettledInv', [Next]_vars
               PROVE  Contract!Next
    BY DEF Contract!vars
  <2>1. \A i \in Job : Contract!Move(i)
    BY JobsMove
  <2>2. \A j \in Job : jobs'[j].status \in Status
    BY DEF TypeOK, Row
  <2>3. \A j \in Job : /\ minted'[j] \in 0..MaxAttempts
                       /\ settledBy'[j] \in 0..MaxAttempts
    BY LimitsAssumption DEF TypeOK, LeaseInv, RowInv, SettledInv
  <2> QED
    BY <2>1, <2>2, <2>3
    DEF Contract!Next, Contract!Phase, Contract!Terminal, Status, TypeOK
<1> QED
  BY <1>1, <1>2, TypeCorrect, LeaseInvariant, SettledInvariant, PTL
  DEF Spec, ImplementsLeaseQueue, Contract!Spec

-----------------------------------------------------------------------------
(* Retries *)

\* A row that is in the table stays there, and only an insert adds one.
LEMMA RowsStay ==
  ASSUME TypeOK, LeaseInv, [Next]_vars, NEW j \in Job
  PROVE  /\ jobs[j].status # "absent" => jobs'[j].status # "absent"
         /\ jobs'[j].status # "absent" =>
              jobs[j].status # "absent" \/ (Insert(j) /\ Prior(j) = {} /\ enq[j] = "insert")
<1>1. ASSUME NEW i \in Job, Enqueue(i)
      PROVE  /\ jobs[j].status # "absent" => jobs'[j].status # "absent"
             /\ jobs'[j].status # "absent" =>
                  jobs[j].status # "absent" \/ (Insert(j) /\ Prior(j) = {} /\ enq[j] = "insert")
  <2>1. CASE UNCHANGED jobs
    BY <2>1
  <2>2. CASE ~ UNCHANGED jobs
    <3>1. Insert(i) /\ Prior(i) = {} /\ jobs' = [jobs EXCEPT ![i] = NewRow]
      BY <1>1, <2>2 DEF Enqueue, SelectPrior, LockScope, FindPrior, CheckQuota, Insert, BreakEnqueue
    <3>2. NewRow.status = "queued" /\ enq[i] = "insert"
      BY <3>1 DEF NewRow, NoRow, Insert
    <3> QED
      BY <3>1, <3>2 DEF TypeOK
  <2> QED
    BY <2>1, <2>2
<1>2. CASE ~ \E i \in Job : Enqueue(i)
  <2>1. TypeOK' /\ ActivatesNothing
    BY <1>2, NextTypes, QuietSteps
  <2> QED
    BY <2>1, JobsMove DEF ActivatesNothing, IsActive, Contract!Move, Contract!Stays, Contract!Keeps,
       Contract!Goes, Contract!Submit, Contract!Grant, Contract!Expire, Contract!Settle, Contract!Cancel
<1> QED
  BY <1>1, <1>2

\* How a call is answered, if a step of it answers it.
LEMMA Answers ==
  ASSUME TypeOK, NEW j \in Job, Enqueue(j), enq'[j] = "accepted"
  PROVE  \/ \E p \in Prior(j) : PrintOf[p] = PrintOf[j] /\ reply'[j] = p /\ UNCHANGED jobs
         \/ Insert(j) /\ Prior(j) = {} /\ reply'[j] = j /\ jobs' = [jobs EXCEPT ![j] = NewRow]
<1>1. ASSUME NEW p \in Prior(j), AnswerFrom(j, p)
      PROVE  PrintOf[p] = PrintOf[j] /\ reply'[j] = p
  BY <1>1 DEF AnswerFrom, Finish, TypeOK
<1>2. ASSUME NEW state, state # "accepted", enq' = [enq EXCEPT ![j] = state]
      PROVE  FALSE
  BY <1>2 DEF TypeOK
<1>3. ASSUME NEW state, state # "accepted", Finish(j, state, NoJob)
      PROVE  FALSE
  BY <1>2, <1>3 DEF Finish
<1>4. CASE SelectPrior(j)
  BY <1>1, <1>2, <1>4 DEF SelectPrior
<1>5. CASE LockScope(j)
  BY <1>2, <1>5 DEF LockScope
<1>6. CASE FindPrior(j)
  BY <1>1, <1>2, <1>6 DEF FindPrior
<1>7. CASE CheckQuota(j)
  BY <1>2, <1>3, <1>7 DEF CheckQuota
<1>8. CASE Insert(j)
  BY <1>1, <1>8 DEF Insert, Finish, TypeOK
<1>9. CASE BreakEnqueue(j)
  BY <1>3, <1>9 DEF BreakEnqueue
<1> QED
  BY <1>4, <1>5, <1>6, <1>7, <1>8, <1>9 DEF Enqueue

\* A call that a step is not of keeps its answer.
LEMMA AnswersStay ==
  ASSUME TypeOK, [Next]_vars, NEW j \in Job, ~Enqueue(j)
  PROVE  enq'[j] = enq[j] /\ reply'[j] = reply[j]
<1>1. ASSUME NEW i \in Job, Enqueue(i)
      PROVE  enq'[j] = enq[j] /\ reply'[j] = reply[j]
  BY <1>1 DEF Enqueue, SelectPrior, LockScope, FindPrior, CheckQuota, Insert, BreakEnqueue,
              AnswerFrom, Finish, TypeOK
<1> QED
  BY <1>1 DEF Next, Dequeue, Cancel, Lapse, Ack, Fail, Settle, Renew, DequeueNothing, ReapExpired,
              enqVars, vars

\* A key comes into the table once, and answers name a row that bears it.
LEMMA NextKeepsKeys ==
  ASSUME TypeOK, LeaseInv, KeyInv, [Next]_vars
  PROVE  KeyInv'
<1>1. ASSUME NEW p \in Job, NEW q \in Job, jobs'[p].status # "absent", jobs'[q].status # "absent",
             KeyOf[p] = KeyOf[q], KeyOf[p] # NoKey
      PROVE  p = q
  <2>1. CASE jobs[p].status # "absent" /\ jobs[q].status # "absent"
    BY <1>1, <2>1 DEF KeyInv
  <2>2. ASSUME NEW i \in Job, NEW k \in Job, KeyOf[i] = KeyOf[k], KeyOf[i] # NoKey,
               jobs[i].status = "absent", jobs'[i].status # "absent", jobs'[k].status # "absent"
        PROVE  i = k
    <3>1. Insert(i) /\ Prior(i) = {} /\ enq[i] = "insert"
      BY <2>2, RowsStay
    <3>2. jobs[k].status = "absent"
      BY <2>2, <3>1 DEF Prior
    <3>3. jobs' = [jobs EXCEPT ![i] = NewRow]
      BY <2>2, <3>1 DEF Insert
    <3> QED
      BY <2>2, <3>2, <3>3 DEF TypeOK
  <2> QED
    BY <1>1, <2>1, <2>2
<1>2. ASSUME NEW j \in Job, enq'[j] = "accepted"
      PROVE  /\ reply'[j] \in Job /\ jobs'[reply'[j]].status # "absent"
             /\ KeyOf[reply'[j]] = KeyOf[j] /\ PrintOf[reply'[j]] = PrintOf[j]
  <2>1. CASE ~Enqueue(j)
    <3>1. enq[j] = "accepted" /\ reply'[j] = reply[j]
      BY <1>2, <2>1, AnswersStay
    <3> QED
      BY <3>1, RowsStay DEF KeyInv
  <2>2. CASE Enqueue(j)
    <3>1. CASE \E p \in Prior(j) : PrintOf[p] = PrintOf[j] /\ reply'[j] = p /\ UNCHANGED jobs
      BY <3>1 DEF Prior
    <3>2. CASE reply'[j] = j /\ jobs' = [jobs EXCEPT ![j] = NewRow]
      BY <3>2 DEF TypeOK, NewRow, NoRow
    <3> QED
      BY <1>2, <2>2, <3>1, <3>2, Answers
  <2> QED
    BY <2>1, <2>2
<1> QED
  BY <1>1, <1>2 DEF KeyInv

\* However many replicas take the retries of one request, and in whatever order their
\* statements reach the table: they are answered with one job, of the payload they carry.
THEOREM RetriesAreSafe == Spec => []RetrySafety
<1>1. Init => KeyInv
  BY DEF Init, KeyInv, NoRow
<1>2. TypeOK /\ LeaseInv /\ KeyInv /\ [Next]_vars => KeyInv'
  BY NextKeepsKeys
<1>3. KeyInv => RetrySafety
  BY DEF KeyInv, RetrySafety, RetriesShareOneJob
<1> QED
  BY <1>1, <1>2, <1>3, TypeCorrect, LeaseInvariant, PTL DEF Spec

\* The row that a transaction did not find is not inserted while it holds the lock.
LEMMA NextKeepsPriors ==
  ASSUME TypeOK, LeaseInv, QuotaInv, PriorInv, [Next]_vars
  PROVE  PriorInv'
<1> SUFFICES ASSUME NEW j \in Job, enq'[j] \in {"admit", "check"}
             PROVE  HasQuota /\ (enq'[j] = "check" /\ ScopeOf[j] \in Scope => Prior(j)' = {})
  BY DEF PriorInv
<1>1. CASE Enqueue(j)
  <2>1. UNCHANGED jobs
    BY <1>1, EnqueueRows
  <2>2. HasQuota /\ (enq'[j] = "check" => Prior(j) = {})
    BY <1>1 DEF Enqueue, SelectPrior, LockScope, FindPrior, CheckQuota, Insert, BreakEnqueue,
                AnswerFrom, Finish, TypeOK, PriorInv
  <2> QED
    BY <2>1, <2>2 DEF Prior
<1>2. CASE ~Enqueue(j)
  <2>1. enq[j] = enq'[j] /\ HasQuota
    BY <1>2, AnswersStay DEF PriorInv
  <2>2. ASSUME enq'[j] = "check", ScopeOf[j] \in Scope, NEW p \in Prior(j)'
        PROVE  FALSE
    <3>1. Prior(j) = {} /\ lock[ScopeOf[j]] = j
      BY <2>1, <2>2 DEF PriorInv, QuotaInv, LockInv
    <3>2. /\ p \in Job /\ KeyOf[p] = KeyOf[j] /\ KeyOf[j] # NoKey
          /\ jobs'[p].status # "absent" /\ jobs[p].status = "absent"
      BY <2>2, <3>1 DEF Prior
    <3>3. enq[p] = "insert" /\ ScopeOf[p] = ScopeOf[j]
      BY <3>2, RowsStay, KeysAssumption
    <3>4. lock[ScopeOf[j]] = p
      BY <2>1, <2>2, <3>2, <3>3 DEF QuotaInv, LockInv
    <3> QED
      BY <2>1, <2>2, <3>1, <3>3, <3>4
  <2> QED
    BY <2>1, <2>2
<1> QED
  BY <1>1, <1>2

\* Both limits of a tenant are kept, with what keeps them.
THEOREM QuotaIsSafe == Spec => []QuotaSafety
<1>1. Init => PriorInv
  BY DEF Init, PriorInv
<1>2. TypeOK /\ LeaseInv /\ QuotaInv /\ PriorInv /\ [Next]_vars => PriorInv'
  BY NextKeepsPriors
<1> QED
  BY <1>1, <1>2, TypeCorrect, LeaseInvariant, QuotaInvariant, PTL DEF Spec, QuotaSafety, WithinLimits

\* Whoever is turned away for lack of capacity had no job to be answered with.
THEOREM RetriesPrecedeQuota == Spec => RetryPrecedesQuota
<1>1. ASSUME TypeOK, PriorInv, [Next]_vars, NEW j \in Job,
             enq[j] # "over_quota", enq'[j] = "over_quota"
      PROVE  Prior(j) = {}
  <2>1. Enqueue(j)
    BY <1>1, AnswersStay
  <2>2. enq[j] = "check" /\ ~WithinQuota(jobs, j)
    BY <1>1, <2>1 DEF Enqueue, SelectPrior, LockScope, FindPrior, CheckQuota, Insert, BreakEnqueue,
                      AnswerFrom, Finish, TypeOK
  <2>3. ScopeOf[j] \in Scope
    BY <2>2, JobsAssumption DEF WithinQuota
  <2> QED
    BY <1>1, <2>2, <2>3 DEF PriorInv
<1>2. TypeOK /\ PriorInv /\ [Next]_vars
        => [\A j \in Job :
              (enq[j] # "over_quota" /\ enq'[j] = "over_quota") => Prior(j) = {}]_vars
  BY <1>1
<1> QED
  BY <1>2, TypeCorrect, QuotaIsSafe, PTL DEF Spec, QuotaSafety, RetryPrecedesQuota

-----------------------------------------------------------------------------
(* The findings and their audit *)

\* An event at the end of the log leaves every place as it was.
LEMMA LogGrows ==
  ASSUME FindingTypeOK, NEW e \in LoggedEvent, auditLog' = Append(auditLog, e)
  PROVE  /\ auditLog' \in Seq(LoggedEvent)
         /\ Len(auditLog) \in Nat
         /\ Len(auditLog') = Len(auditLog) + 1
         /\ Places' = Places \cup {Len(auditLog) + 1}
         /\ Len(auditLog) + 1 \notin Places
         /\ auditLog'[Len(auditLog) + 1] = e
         /\ \A i \in Places : auditLog'[i] = auditLog[i] /\ auditLog[i] \in LoggedEvent
<1>1. auditLog \in Seq(LoggedEvent)
  BY DEF FindingTypeOK
<1>2. /\ auditLog' \in Seq(LoggedEvent) /\ Len(auditLog) \in Nat
      /\ Len(auditLog') = Len(auditLog) + 1
  BY <1>1
<1>3. Places' = Places \cup {Len(auditLog) + 1} /\ Len(auditLog) + 1 \notin Places
  BY <1>2 DEF Places
<1>4. auditLog'[Len(auditLog) + 1] = e
  BY <1>1
<1>5. \A i \in Places : auditLog'[i] = auditLog[i] /\ auditLog[i] \in LoggedEvent
  BY <1>1 DEF Places
<1> QED
  BY <1>2, <1>3, <1>4, <1>5

\* It is linked backwards, as all of them are.
LEMMA LinksStay ==
  ASSUME FindingTypeOK, NEW e \in LoggedEvent, auditLog' = Append(auditLog, e),
         e.link \in 0..Len(auditLog)
  PROVE  auditLog' \in Seq(LoggedEvent) /\ \A i \in Places' : auditLog'[i].link < i
<1>1. ASSUME NEW i \in Places
      PROVE  auditLog'[i].link < i
  BY <1>1, LogGrows DEF FindingTypeOK
<1>2. auditLog'[Len(auditLog) + 1].link < Len(auditLog) + 1
  <2>1. Len(auditLog) \in Nat /\ auditLog'[Len(auditLog) + 1] = e
    BY LogGrows
  <2>2. e.link < Len(auditLog) + 1
    BY <2>1
  <2> QED
    BY <2>1, <2>2
<1>3. Places' = Places \cup {Len(auditLog) + 1} /\ auditLog' \in Seq(LoggedEvent)
  BY LogGrows
<1> QED
  BY <1>1, <1>2, <1>3

\* What the steps make of the state of a start stays of its kind.
LEMMA SeedingTypes ==
  ASSUME NEW row \in Seeding
  PROVE  /\ [row EXCEPT !.todo = Run] \in Seeding
         /\ \A run \in Run : [row EXCEPT !.run = run, !.done = 0, !.todo = @ \ {run}] \in Seeding
         /\ row.done < LocalEvents => [row EXCEPT !.done = @ + 1] \in Seeding
         /\ [row EXCEPT !.run = NoRun, !.done = 0] \in Seeding
<1>1. row.done \in 0..LocalEvents /\ LocalEvents \in Nat
  BY FindingAssumption DEF Seeding
<1>2. 0 \in 0..LocalEvents /\ (row.done < LocalEvents => row.done + 1 \in 0..LocalEvents)
  BY <1>1
<1>3. [row EXCEPT !.todo = Run] \in Seeding
  BY DEF Seeding
<1>4. ASSUME NEW run \in Run
      PROVE  [row EXCEPT !.run = run, !.done = 0, !.todo = @ \ {run}] \in Seeding
  BY <1>2 DEF Seeding
<1>5. row.done < LocalEvents => [row EXCEPT !.done = @ + 1] \in Seeding
  BY <1>2 DEF Seeding
<1>6. [row EXCEPT !.run = NoRun, !.done = 0] \in Seeding
  BY <1>2 DEF Seeding
<1> QED
  BY <1>3, <1>4, <1>5, <1>6

\* So does what they make of the state of a transaction.
LEMMA ChangingTypes ==
  /\ Unbegun \in Changing
  /\ \A row \in Changing, tail \in Nat : [row EXCEPT !.pc = "write", !.tail = tail] \in Changing
BY DEF Unbegun, Changing, FindingStatus

\* An event that a seed inserts is linked to the one before it in the run's file.
LEMMA SeededEvent ==
  ASSUME AuditSafety, NEW s \in Server, SeedEvent(s),
         LocalPlace(seeds[s].run, seeds[s].done) = {}
  PROVE  LET run == seeds[s].run
             seq == seeds[s].done
             link == PlaceBefore(run, seq)
             e == AuditEvent(run, seq, link, {}, "draft", "draft")
         IN /\ e \in LoggedEvent
            /\ auditLog' = Append(auditLog, e)
            /\ link \in 0..Len(auditLog)
            /\ seq = 0 => link = 0
            /\ seq # 0 => link \in LocalPlace(run, seq - 1)
<1> DEFINE run == seeds[s].run
           seq == seeds[s].done
           link == PlaceBefore(run, seq)
           e == AuditEvent(run, seq, link, {}, "draft", "draft")
<1>1. run \in Run /\ seq \in 0..LocalEvents /\ seq \in Nat /\ Len(auditLog) \in Nat
  BY FindingAssumption DEF AuditSafety, FindingTypeOK, Seeding, SeedEvent
<1>2. auditLog' = Append(auditLog, e)
  BY DEF SeedEvent
<1>3. seq = 0 => link = 0
  BY DEF PlaceBefore
<1>4. ASSUME seq # 0
      PROVE  link \in LocalPlace(run, seq - 1)
  <2>1. seq - 1 \in 0..(seq - 1)
    BY <1>4, <1>1
  <2>2. LocalPlace(run, seq - 1) # {}
    BY <2>1 DEF AuditSafety, FilesComeFirst, SeedEvent
  <2> QED
    BY <1>4, <2>2 DEF PlaceBefore
<1>5. link \in 0..Len(auditLog)
  BY <1>1, <1>3, <1>4 DEF LocalPlace, Places
<1>6. e \in LoggedEvent
  BY <1>1, <1>5 DEF AuditEvent, LoggedEvent, FindingStatus
<1> QED
  BY <1>2, <1>3, <1>4, <1>5, <1>6

\* A transaction with its tail read holds the lock, alone, and the row of its finding.
LEMMA CommittedEvent ==
  ASSUME AuditSafety, NEW w \in Writer, NEW f \in Finding, ChangeCommit(w, f)
  PROVE  LET tail == changes[w].tail
             e == AuditEvent(RunOf[f], NextSeq(tail), tail, {f}, changes[w].from, changes[w].to)
         IN /\ e \in LoggedEvent
            /\ auditLog' = Append(auditLog, e)
            /\ tail \in 0..Len(auditLog)
            /\ changes[w].to \in FindingStatus
            /\ \A i \in Places : ~IsLocal(auditLog[i]) \/ auditLog[i].run = RunOf[f] =>
                 tail # 0 /\ auditLog[i].seq <= auditLog[tail].seq
<1> DEFINE tail == changes[w].tail
           e == AuditEvent(RunOf[f], NextSeq(tail), tail, {f}, changes[w].from, changes[w].to)
<1>1. auditLog' = Append(auditLog, e)
  BY DEF ChangeCommit, Written
<1>2. /\ tail \in Nat /\ changes[w].to \in FindingStatus /\ changes[w].from \in FindingStatus
      /\ RunOf[f] \in Run /\ Len(auditLog) \in Nat
  BY FindingAssumption DEF AuditSafety, FindingTypeOK, Changing
<1>3. /\ tail <= Len(auditLog)
      /\ \A i \in Places : ~IsLocal(auditLog[i]) \/ auditLog[i].run = RunOf[f] =>
           tail # 0 /\ auditLog[i].seq <= auditLog[tail].seq
  BY DEF AuditSafety, ReadsStand, ChangeCommit
<1>4. tail \in 0..Len(auditLog)
  BY <1>2, <1>3
<1>5. NextSeq(tail) \in Nat
  <2>1. CASE tail = 0
    BY <2>1 DEF NextSeq
  <2>2. CASE tail # 0
    <3>1. tail \in 1..Len(auditLog)
      BY <2>2, <1>2, <1>4
    <3>2. auditLog[tail] \in LoggedEvent
      BY <3>1 DEF AuditSafety, FindingTypeOK
    <3> QED
      BY <2>2, <3>2 DEF NextSeq, LoggedEvent
  <2> QED
    BY <2>1, <2>2
<1>6. e \in LoggedEvent
  BY <1>2, <1>5 DEF AuditEvent, LoggedEvent
<1> QED
  BY <1>1, <1>2, <1>3, <1>4, <1>6

\* The status a request asks for, or a verification ends in, is a status.
LEMMA NextIsStatus ==
  ASSUME FindingTypeOK, NEW f \in Finding, findings[f] # "absent", NEW to \in NextStatus(f)
  PROVE  /\ to \in FindingStatus
         /\ to # findings[f] => Follows(findings[f], to) /\ Parses(f, to)
<1>1. findings[f] \in FindingStatus
  BY DEF FindingTypeOK
<1>2. CASE to \in {x \in FindingStatus : Follows(findings[f], x) /\ Parses(f, x)}
  BY <1>2
<1>3. CASE \E outcome \in {"fixed", "reproduced", "unclear"} :
             /\ to = AfterVerification(findings[f], outcome)
             /\ to # findings[f] => Follows(findings[f], to)
  <2>1. to \in {"fixed", "regressed", findings[f]}
    BY <1>3 DEF AfterVerification
  <2>2. to \in FindingStatus
    BY <2>1, <1>1 DEF FindingStatus
  <2>3. to # findings[f] => Parses(f, to)
    BY <2>1 DEF Parses
  <2> QED
    BY <1>3, <2>2, <2>3
<1> QED
  BY <1>2, <1>3 DEF NextStatus

\* Every step keeps the types of the findings and of their log.
LEMMA FindingTypes ==
  ASSUME AuditSafety, FindingNext
  PROVE  FindingTypeOK'
<1> USE FindingAssumption
<1>1. FindingTypeOK
  BY DEF AuditSafety
<1>2. ASSUME NEW s \in Server, SeedStart(s)
      PROVE  FindingTypeOK'
  <2>1. [seeds[s] EXCEPT !.todo = Run] \in Seeding
    BY <1>1, SeedingTypes DEF FindingTypeOK
  <2>2. seeds' \in [Server -> Seeding]
    BY <1>1, <1>2, <2>1 DEF FindingTypeOK, SeedStart
  <2>3. starts' \in 0..MaxSeeds
    BY <1>1, <1>2 DEF FindingTypeOK, SeedStart
  <2> QED
    BY <1>1, <1>2, <2>2, <2>3 DEF FindingTypeOK, SeedStart, Places
<1>3. ASSUME NEW s \in Server, NEW run \in Run, SeedRun(s, run)
      PROVE  FindingTypeOK'
  <2>1. [seeds[s] EXCEPT !.run = run, !.done = 0, !.todo = @ \ {run}] \in Seeding
    BY <1>1, SeedingTypes DEF FindingTypeOK
  <2>2. seeds' \in [Server -> Seeding]
    BY <1>1, <1>3, <2>1 DEF FindingTypeOK, SeedRun
  <2> QED
    BY <1>1, <1>3, <2>2 DEF FindingTypeOK, SeedRun, Places
<1>4. ASSUME NEW s \in Server, SeedEvent(s)
      PROVE  FindingTypeOK'
  <2>1. [seeds[s] EXCEPT !.done = @ + 1] \in Seeding
    BY <1>1, SeedingTypes, <1>4 DEF FindingTypeOK, SeedEvent
  <2>2. seeds' \in [Server -> Seeding]
    BY <1>1, <1>4, <2>1 DEF FindingTypeOK, SeedEvent
  <2>3. auditLog' \in Seq(LoggedEvent) /\ \A i \in Places' : auditLog'[i].link < i
    <3>1. CASE LocalPlace(seeds[s].run, seeds[s].done) # {}
      BY <1>1, <1>4, <3>1 DEF FindingTypeOK, SeedEvent, Places
    <3>2. CASE LocalPlace(seeds[s].run, seeds[s].done) = {}
      <4>1. PICK e \in LoggedEvent : auditLog' = Append(auditLog, e) /\ e.link \in 0..Len(auditLog)
        BY <1>4, <3>2, SeededEvent DEF AuditEvent
      <4> QED
        BY <1>1, <4>1, LinksStay
    <3> QED
      BY <3>1, <3>2
  <2> QED
    BY <1>1, <1>4, <2>2, <2>3 DEF FindingTypeOK, SeedEvent
<1>5. ASSUME NEW s \in Server, SeedFindings(s)
      PROVE  FindingTypeOK'
  <2>1. [seeds[s] EXCEPT !.run = NoRun, !.done = 0] \in Seeding
    BY <1>1, SeedingTypes DEF FindingTypeOK
  <2>2. seeds' \in [Server -> Seeding]
    BY <1>1, <1>5, <2>1 DEF FindingTypeOK, SeedFindings
  <2>3. findings' \in [Finding -> FindingStatus \cup {"absent"}]
    BY <1>1, <1>5 DEF FindingTypeOK, SeedFindings, FindingStatus
  <2>4. reseeded' \subseteq Finding
    BY <1>1, <1>5 DEF FindingTypeOK, SeedFindings
  <2> QED
    BY <1>1, <1>5, <2>2, <2>3, <2>4 DEF FindingTypeOK, SeedFindings, Places
<1>6. ASSUME NEW w \in Writer, NEW f \in Finding, ChangeBegin(w, f)
      PROVE  FindingTypeOK'
  <2>1. PICK to \in NextStatus(f) :
          changes' = [changes EXCEPT ![w] =
            [pc |-> "read", finding |-> {f}, from |-> findings[f], to |-> to, tail |-> 0]]
    BY <1>6 DEF ChangeBegin
  <2>2. to \in FindingStatus /\ findings[f] \in FindingStatus
    BY <1>1, <1>6, NextIsStatus DEF ChangeBegin, FindingTypeOK
  <2>3. changes' \in [Writer -> Changing]
    BY <1>1, <2>1, <2>2 DEF FindingTypeOK, Changing
  <2>4. \A v \in Writer : changes'[v].pc # "idle" <=> auditLock' = v
    BY <1>1, <1>6, <2>1 DEF FindingTypeOK, ChangeBegin, AuditLock
  <2>5. auditLock' \in Writer \cup {NoWriter}
    BY <1>6 DEF ChangeBegin, AuditLock
  <2> QED
    BY <1>1, <1>6, <2>3, <2>4, <2>5 DEF FindingTypeOK, ChangeBegin, Places
<1>7. ASSUME NEW w \in Writer, NEW f \in Finding, ReadTail(w, f)
      PROVE  FindingTypeOK'
  <2>1. PICK tail \in Nat : changes' = [changes EXCEPT ![w].pc = "write", ![w].tail = tail]
    <3>1. \A tail \in IF Places = {} THEN {0} ELSE Tails(f) : tail \in Nat
      BY <1>1 DEF FindingTypeOK, Tails, Places
    <3> QED
      BY <1>7, <3>1 DEF ReadTail
  <2>2. [changes[w] EXCEPT !.pc = "write", !.tail = tail] \in Changing
    BY <1>1, ChangingTypes DEF FindingTypeOK
  <2>3. changes' \in [Writer -> Changing]
    BY <1>1, <2>1, <2>2 DEF FindingTypeOK
  <2>4. \A v \in Writer : changes'[v].pc # "idle" <=> changes[v].pc # "idle"
    BY <1>1, <1>7, <2>1 DEF FindingTypeOK, ReadTail
  <2> QED
    BY <1>1, <1>7, <2>3, <2>4 DEF FindingTypeOK, ReadTail, Places
<1>8. ASSUME NEW w \in Writer, EndsChange(w), changes[w].pc # "idle"
      PROVE  /\ changes' \in [Writer -> Changing]
             /\ auditLock' \in Writer \cup {NoWriter}
             /\ \A v \in Writer : changes'[v].pc # "idle" <=> auditLock' = v
  BY <1>1, <1>8, ChangingTypes DEF FindingTypeOK, EndsChange, Unbegun
<1>9. ASSUME NEW w \in Writer, NEW f \in Finding, ChangeCommit(w, f)
      PROVE  FindingTypeOK'
  <2>1. PICK e \in LoggedEvent : auditLog' = Append(auditLog, e) /\ e.link \in 0..Len(auditLog)
    BY <1>9, CommittedEvent DEF AuditEvent
  <2>2. auditLog' \in Seq(LoggedEvent) /\ \A i \in Places' : auditLog'[i].link < i
    BY <1>1, <2>1, LinksStay
  <2>3. findings' \in [Finding -> FindingStatus \cup {"absent"}]
    BY <1>1, <1>9, CommittedEvent DEF FindingTypeOK, ChangeCommit
  <2>4. reseeded' \subseteq Finding
    BY <1>1, <1>9 DEF FindingTypeOK, ChangeCommit
  <2>5. EndsChange(w) /\ changes[w].pc # "idle"
    BY <1>9 DEF ChangeCommit
  <2> QED
    BY <1>1, <1>9, <1>8, <2>2, <2>3, <2>4, <2>5 DEF FindingTypeOK, ChangeCommit
<1>10. ASSUME NEW w \in Writer, ChangeAborts(w)
       PROVE  FindingTypeOK'
  BY <1>1, <1>8, <1>10 DEF FindingTypeOK, ChangeAborts, Places
<1> QED
  BY <1>2, <1>3, <1>4, <1>5, <1>6, <1>7, <1>9, <1>10 DEF FindingNext

\* Whatever is appended, the places keep their runs, their numbers and their links.
LEMMA PlacesStay ==
  ASSUME FindingTypeOK, NEW e \in LoggedEvent, auditLog' = Append(auditLog, e)
  PROVE  /\ \A tail \in 0..Len(auditLog) :
              NextSeq(tail) = IF tail = 0 THEN 0 ELSE auditLog'[tail].seq + 1
         /\ \A run \in Run, k \in Nat : LocalPlace(run, k) \subseteq LocalPlace(run, k)'
         /\ \A i \in Places : auditLog[i].link \in 0..Len(auditLog)
         /\ AuditPlaces' = IF IsLocal(e) THEN AuditPlaces ELSE AuditPlaces \cup {Len(auditLog) + 1}
         /\ \A f \in Finding :
              ChangesOf(f)' = IF e.finding = {f} THEN ChangesOf(f) \cup {Len(auditLog) + 1}
                              ELSE ChangesOf(f)
<1> DEFINE n == Len(auditLog) + 1
<1>1. /\ Places' = Places \cup {n} /\ n \notin Places /\ auditLog'[n] = e
      /\ \A i \in Places : auditLog'[i] = auditLog[i] /\ auditLog[i] \in LoggedEvent
      /\ Len(auditLog) \in Nat
  BY LogGrows
<1> HIDE DEF n
<1>2. ASSUME NEW tail \in 0..Len(auditLog)
      PROVE  NextSeq(tail) = IF tail = 0 THEN 0 ELSE auditLog'[tail].seq + 1
  <2>1. tail = 0 \/ tail \in Places
    BY <1>1 DEF Places
  <2> QED
    BY <2>1, <1>1 DEF NextSeq
<1>3. \A run \in Run, k \in Nat : LocalPlace(run, k) \subseteq LocalPlace(run, k)'
  BY <1>1 DEF LocalPlace, IsLocal
<1>4. ASSUME NEW i \in Places
      PROVE  auditLog[i].link \in 0..Len(auditLog)
  <2>1. auditLog[i].link \in Nat
    BY <1>1 DEF LoggedEvent
  <2>2. auditLog[i].link < i /\ i \in 1..Len(auditLog)
    BY DEF FindingTypeOK, Places
  <2> QED
    BY <2>1, <2>2, <1>1
<1>5. AuditPlaces' = IF IsLocal(e) THEN AuditPlaces ELSE AuditPlaces \cup {n}
  BY <1>1 DEF AuditPlaces, IsLocal
<1>6. ASSUME NEW f \in Finding
      PROVE  ChangesOf(f)' = IF e.finding = {f} THEN ChangesOf(f) \cup {n} ELSE ChangesOf(f)
  <2>1. \A i \in AuditPlaces : auditLog'[i] = auditLog[i]
    BY <1>1 DEF AuditPlaces
  <2>2. e.finding = {f} => ~IsLocal(e)
    BY DEF IsLocal
  <2>3. n \notin AuditPlaces
    BY <1>1 DEF AuditPlaces
  <2> QED
    BY <1>1, <1>5, <2>1, <2>2, <2>3 DEF ChangesOf
<1> QED
  BY <1>2, <1>3, <1>4, <1>5, <1>6 DEF n

\* An event of a file is none of the chain; one of a change goes on from its end.
LEMMA ChainGrows ==
  ASSUME AuditSafety, NEW e \in LoggedEvent, auditLog' = Append(auditLog, e),
         \/ IsLocal(e)
         \/ /\ e.seq = NextSeq(e.link) /\ e.link \in 0..Len(auditLog)
            /\ \A i \in AuditPlaces : e.link # 0 /\ auditLog[i].seq <= auditLog[e.link].seq
  PROVE  AuditDoesNotFork'
<1> DEFINE n == Len(auditLog) + 1
           After(tail) == IF tail = 0 THEN 0 ELSE auditLog'[tail].seq + 1
<1>1. /\ n \notin Places /\ auditLog'[n] = e
      /\ \A i \in Places : auditLog'[i] = auditLog[i] /\ auditLog[i] \in LoggedEvent
  BY LogGrows DEF AuditSafety
<1>2. /\ AuditPlaces' = IF IsLocal(e) THEN AuditPlaces ELSE AuditPlaces \cup {n}
      /\ \A tail \in 0..Len(auditLog) : NextSeq(tail) = After(tail)
      /\ \A i \in Places : auditLog[i].link \in 0..Len(auditLog)
  BY PlacesStay DEF AuditSafety
<1> HIDE DEF n, After
<1>3. AuditPlaces \subseteq Places
  BY DEF AuditPlaces
<1>4. ASSUME NEW i \in AuditPlaces
      PROVE  auditLog'[i].seq = After(auditLog'[i].link)
  <2>1. auditLog[i].seq = NextSeq(auditLog[i].link)
    BY DEF AuditSafety, AuditDoesNotFork
  <2> QED
    BY <2>1, <1>1, <1>2, <1>3
<1>5. CASE IsLocal(e)
  <2>1. AuditPlaces' = AuditPlaces /\ \A i \in AuditPlaces : auditLog'[i] = auditLog[i]
    BY <1>1, <1>2, <1>3, <1>5
  <2>2. \A i \in AuditPlaces' : auditLog'[i].seq = After(auditLog'[i].link)
    BY <1>4, <2>1
  <2>3. ASSUME NEW i \in AuditPlaces', NEW j \in AuditPlaces', i # j
        PROVE  auditLog'[i].link # auditLog'[j].link /\ auditLog'[i].seq # auditLog'[j].seq
    <3>1. auditLog[i].link # auditLog[j].link /\ auditLog[i].seq # auditLog[j].seq
      BY <2>1, <2>3 DEF AuditSafety, AuditDoesNotFork
    <3>2. auditLog'[i] = auditLog[i] /\ auditLog'[j] = auditLog[j]
      BY <2>1
    <3> QED
      BY <3>1, <3>2
  <2> QED
    BY <2>2, <2>3 DEF AuditDoesNotFork, NextSeq, After
<1>6. CASE ~IsLocal(e)
  <2>1. /\ e.seq = NextSeq(e.link) /\ e.link \in 0..Len(auditLog)
        /\ \A i \in AuditPlaces : e.link # 0 /\ auditLog[i].seq <= auditLog[e.link].seq
    BY <1>6
  <2>2. auditLog'[n].seq = After(auditLog'[n].link)
    BY <2>1, <1>1, <1>2
  <2>3. ASSUME NEW i \in AuditPlaces
        PROVE  auditLog[i].link # e.link /\ auditLog[i].seq # e.seq
    <3>1. e.link \in Places
      BY <2>1, <2>3 DEF Places
    <3>2. auditLog[i].seq \in Nat /\ auditLog[e.link].seq \in Nat
      BY <1>1, <1>3, <3>1 DEF LoggedEvent
    <3>3. e.seq = auditLog[e.link].seq + 1 /\ auditLog[i].seq <= auditLog[e.link].seq
      BY <2>1, <2>3 DEF NextSeq
    <3>4. auditLog[i].seq # e.seq
      BY <3>2, <3>3
    <3>5. auditLog[i].seq = NextSeq(auditLog[i].link)
      BY DEF AuditSafety, AuditDoesNotFork
    <3> QED
      BY <2>1, <3>4, <3>5
  <2>4. \A i \in AuditPlaces' : auditLog'[i].seq = After(auditLog'[i].link)
    BY <1>2, <1>4, <1>6, <2>2
  <2>5. ASSUME NEW i \in AuditPlaces', NEW j \in AuditPlaces', i # j
        PROVE  auditLog'[i].link # auditLog'[j].link /\ auditLog'[i].seq # auditLog'[j].seq
    <3>1. CASE i = n
      BY <1>1, <1>2, <1>3, <1>6, <2>3, <2>5, <3>1
    <3>2. CASE j = n
      BY <1>1, <1>2, <1>3, <1>6, <2>3, <2>5, <3>2
    <3>3. CASE i \in AuditPlaces /\ j \in AuditPlaces
      BY <1>1, <1>3, <2>5, <3>3 DEF AuditSafety, AuditDoesNotFork
    <3> QED
      BY <1>2, <1>6, <3>1, <3>2, <3>3
  <2> QED
    BY <2>4, <2>5 DEF AuditDoesNotFork, NextSeq, After
<1> QED
  BY <1>5, <1>6

\* The log of one run stays a chain when the next event has the number of its place.
LEMMA RunChainGrows ==
  ASSUME AuditSafety, NEW e \in LoggedEvent, auditLog' = Append(auditLog, e),
         (\A i \in Places : /\ auditLog[i].run = e.run /\ auditLog[i].seq = i - 1
                            /\ IsLocal(e) => IsLocal(auditLog[i]))
           => e.seq = Len(auditLog) /\ e.link = Len(auditLog)
  PROVE  RunChainHolds'
<1> DEFINE n == Len(auditLog) + 1
<1>1. /\ Places' = Places \cup {n} /\ n \notin Places /\ auditLog'[n] = e
      /\ \A i \in Places : auditLog'[i] = auditLog[i]
      /\ Len(auditLog) \in Nat
  BY LogGrows DEF AuditSafety
<1>2. n \in Nat /\ \A i \in Places : i < n /\ i \in Nat
  BY <1>1 DEF Places
<1>3. n - 1 = Len(auditLog)
  BY <1>1
<1> HIDE DEF n
<1> SUFFICES ASSUME \A i, j \in Places' : auditLog'[i].run = auditLog'[j].run,
                    \A i, j \in Places' : IsLocal(auditLog'[i]) /\ ~IsLocal(auditLog'[j]) => i < j
             PROVE  \A i \in Places' : auditLog'[i].seq = i - 1 /\ auditLog'[i].link = i - 1
  BY DEF RunChainHolds, IsLocal
<1>4. ASSUME NEW i \in Places
      PROVE  /\ auditLog'[i] = auditLog[i] /\ i \in Places' /\ n \in Places'
             /\ auditLog[i].run = e.run
  BY <1>1
<1>5. \A i, j \in Places : auditLog[i].run = auditLog[j].run
  BY <1>4
<1>6. ASSUME NEW i \in Places, NEW j \in Places, IsLocal(auditLog[i]), ~IsLocal(auditLog[j])
      PROVE  i < j
  BY <1>4, <1>6
<1>7. \A i \in Places : auditLog[i].seq = i - 1 /\ auditLog[i].link = i - 1
  <2>1. RunChainHolds
    BY DEF AuditSafety
  <2> QED
    BY <1>5, <1>6, <2>1 DEF RunChainHolds
<1>8. ASSUME NEW i \in Places, IsLocal(e)
      PROVE  IsLocal(auditLog[i])
  <2>1. ~IsLocal(auditLog[i]) => n < i
    BY <1>1, <1>4, <1>8
  <2>2. ~(n < i)
    BY <1>1, <1>2
  <2> QED
    BY <2>1, <2>2
<1>9. e.seq = n - 1 /\ e.link = n - 1
  BY <1>3, <1>4, <1>7, <1>8
<1>10. ASSUME NEW i \in Places'
       PROVE  auditLog'[i].seq = i - 1 /\ auditLog'[i].link = i - 1
  <2>1. CASE i = n
    BY <1>1, <1>9, <2>1
  <2>2. CASE i \in Places
    BY <1>4, <1>7, <2>2
  <2> QED
    BY <1>1, <2>1, <2>2
<1> QED
  BY <1>10

\* So has the event of a file, which goes after all those with a lower number ...
LEMMA SeededInOrder ==
  ASSUME AuditSafety, NEW s \in Server, SeedEvent(s),
         LocalPlace(seeds[s].run, seeds[s].done) = {},
         \A i \in Places : /\ auditLog[i].run = seeds[s].run /\ auditLog[i].seq = i - 1
                           /\ IsLocal(auditLog[i])
  PROVE  /\ seeds[s].done = Len(auditLog)
         /\ PlaceBefore(seeds[s].run, seeds[s].done) = Len(auditLog)
<1> DEFINE run == seeds[s].run
           seq == seeds[s].done
           link == PlaceBefore(run, seq)
<1>1. seq \in Nat /\ Len(auditLog) \in Nat
  BY FindingAssumption DEF AuditSafety, FindingTypeOK, Seeding
<1>2. \A k \in 0..(seq - 1) : LocalPlace(run, k) # {}
  BY DEF AuditSafety, FilesComeFirst, SeedEvent
<1>3. \A k \in Nat : \A i \in LocalPlace(run, k) : i \in 1..Len(auditLog) /\ i - 1 = k
  BY DEF LocalPlace, Places
<1>4. seq = 0 => link = 0
  BY SeededEvent
<1>5. seq # 0 => link \in LocalPlace(run, seq - 1)
  BY SeededEvent
<1>6. \A k \in 0..(Len(auditLog) - 1) : k + 1 \in LocalPlace(run, k)
  BY <1>1 DEF LocalPlace, Places
<1>7. LocalPlace(run, seq) = {}
  OBVIOUS
<1> HIDE DEF run, seq, link
<1>8. ~(seq < Len(auditLog))
  BY <1>1, <1>6, <1>7
<1>9. ~(Len(auditLog) < seq)
  <2>1. ASSUME Len(auditLog) < seq
        PROVE  FALSE
    <3>1. Len(auditLog) \in 0..(seq - 1)
      BY <1>1, <2>1
    <3>2. PICK i \in LocalPlace(run, Len(auditLog)) : TRUE
      BY <1>2, <3>1
    <3> QED
      BY <1>1, <1>3, <3>2
  <2> QED
    BY <2>1
<1>10. seq = Len(auditLog)
  BY <1>1, <1>8, <1>9
<1>11. link = seq
  BY <1>1, <1>3, <1>4, <1>5
<1> QED
  BY <1>10, <1>11 DEF run, seq, link

\* ... and that of a change, which goes after the highest.
LEMMA CommittedInOrder ==
  ASSUME AuditSafety, NEW w \in Writer, NEW f \in Finding, ChangeCommit(w, f),
         \A i \in Places : auditLog[i].run = RunOf[f] /\ auditLog[i].seq = i - 1
  PROVE  changes[w].tail = Len(auditLog) /\ NextSeq(changes[w].tail) = Len(auditLog)
<1> DEFINE tail == changes[w].tail
<1>1. /\ tail \in 0..Len(auditLog)
      /\ \A i \in Places : tail # 0 /\ auditLog[i].seq <= auditLog[tail].seq
  BY CommittedEvent
<1>2. Len(auditLog) \in Nat
  BY DEF AuditSafety, FindingTypeOK
<1> HIDE DEF tail
<1>3. CASE Len(auditLog) = 0
  BY <1>1, <1>3 DEF NextSeq, tail
<1>4. CASE Len(auditLog) # 0
  <2>1. Len(auditLog) \in Places
    BY <1>2, <1>4 DEF Places
  <2>2. tail # 0 /\ auditLog[Len(auditLog)].seq <= auditLog[tail].seq
    BY <1>1, <2>1
  <2>3. tail \in Places
    BY <1>1, <1>2, <2>2 DEF Places
  <2>4. auditLog[Len(auditLog)].seq = Len(auditLog) - 1 /\ auditLog[tail].seq = tail - 1
    BY <2>1, <2>3
  <2>5. tail = Len(auditLog)
    BY <1>1, <1>2, <2>2, <2>4
  <2>6. NextSeq(tail) = tail
    BY <1>1, <1>2, <2>2, <2>4 DEF NextSeq
  <2> QED
    BY <2>5, <2>6 DEF tail
<1> QED
  BY <1>3, <1>4

\* The status of a finding and what it was changed to go together.
LEMMA StatusStays ==
  ASSUME AuditSafety, FindingNext
  PROVE  StatusIsAudited'
<1>1. /\ FindingTypeOK
      /\ \A f \in Finding \ reseeded :
           /\ \A i \in ChangesOf(f) :
                (\A j \in ChangesOf(f) : j <= i) => findings[f] = auditLog[i].to
           /\ ChangesOf(f) = {} => findings[f] \in {"absent", "draft"}
      /\ \A f \in Finding : ChangesOf(f) # {} => findings[f] # "absent"
  BY DEF AuditSafety, StatusIsAudited, FilesComeFirst
<1>2. \A f \in Finding : \A i \in ChangesOf(f) : i \in Places /\ i \in Nat /\ i <= Len(auditLog)
  BY <1>1 DEF ChangesOf, AuditPlaces, Places, FindingTypeOK
<1>3. ASSUME findings' = findings, reseeded' = reseeded,
             \A f \in Finding : ChangesOf(f)' = ChangesOf(f),
             \A i \in Places : auditLog'[i] = auditLog[i]
      PROVE  StatusIsAudited'
  BY <1>1, <1>2, <1>3 DEF StatusIsAudited
<1>4. ASSUME auditLog' = auditLog
      PROVE  /\ \A f \in Finding : ChangesOf(f)' = ChangesOf(f)
             /\ \A i \in Places : auditLog'[i] = auditLog[i]
  BY <1>4 DEF ChangesOf, AuditPlaces, Places, IsLocal
<1>5. ASSUME auditLog' = auditLog, findings' = findings, reseeded' = reseeded
      PROVE  StatusIsAudited'
  BY <1>3, <1>4, <1>5
<1>6. ASSUME NEW s \in Server, SeedEvent(s)
      PROVE  StatusIsAudited'
  <2>1. findings' = findings /\ reseeded' = reseeded
    BY <1>6 DEF SeedEvent
  <2>2. CASE LocalPlace(seeds[s].run, seeds[s].done) # {}
    BY <1>5, <1>6, <2>1, <2>2 DEF SeedEvent
  <2>3. CASE LocalPlace(seeds[s].run, seeds[s].done) = {}
    <3>1. PICK e \in LoggedEvent : auditLog' = Append(auditLog, e) /\ e.finding = {}
      BY <1>6, <2>3, SeededEvent DEF AuditEvent
    <3>2. \A f \in Finding : ChangesOf(f)' = ChangesOf(f)
      BY <1>1, <3>1, PlacesStay
    <3>3. \A i \in Places : auditLog'[i] = auditLog[i]
      BY <1>1, <3>1, LogGrows
    <3> QED
      BY <1>3, <2>1, <3>2, <3>3
  <2> QED
    BY <2>2, <2>3
<1>7. ASSUME NEW s \in Server, SeedFindings(s)
      PROVE  StatusIsAudited'
  <2>1. /\ \A f \in Finding : ChangesOf(f)' = ChangesOf(f)
        /\ \A i \in Places : auditLog'[i] = auditLog[i]
    BY <1>4, <1>7 DEF SeedFindings
  <2>2. ASSUME NEW f \in Finding, f \notin reseeded'
        PROVE  /\ f \notin reseeded
               /\ \/ findings'[f] = findings[f]
                  \/ findings[f] = "absent" /\ findings'[f] = "draft"
    <3>1. f \notin reseeded /\ (RunOf[f] = seeds[s].run => findings[f] = "absent")
      BY <1>7, <2>2 DEF SeedFindings
    <3>2. findings'[f] = IF RunOf[f] = seeds[s].run THEN "draft" ELSE findings[f]
      BY <1>7 DEF SeedFindings
    <3> QED
      BY <3>1, <3>2
  <2> QED
    BY <1>1, <1>2, <2>1, <2>2 DEF StatusIsAudited
<1>8. ASSUME NEW w \in Writer, NEW f \in Finding, ChangeCommit(w, f)
      PROVE  StatusIsAudited'
  <2> DEFINE n == Len(auditLog) + 1
  <2>1. PICK e \in LoggedEvent :
          auditLog' = Append(auditLog, e) /\ e.finding = {f} /\ e.to = changes[w].to
    BY <1>8, CommittedEvent DEF AuditEvent
  <2>2. /\ auditLog'[n] = e /\ n \notin Places /\ n \in Nat
        /\ \A i \in Places : auditLog'[i] = auditLog[i]
    <3>1. Len(auditLog) \in Nat
      BY <1>1 DEF FindingTypeOK
    <3>2. /\ auditLog'[n] = e /\ n \notin Places
          /\ \A i \in Places : auditLog'[i] = auditLog[i]
      BY <1>1, <2>1, LogGrows
    <3> QED
      BY <3>1, <3>2
  <2>3. /\ ChangesOf(f)' = ChangesOf(f) \cup {n}
        /\ \A g \in Finding : g # f => ChangesOf(g)' = ChangesOf(g)
    <3>1. \A g \in Finding :
            ChangesOf(g)' = IF e.finding = {g} THEN ChangesOf(g) \cup {Len(auditLog) + 1}
                            ELSE ChangesOf(g)
      BY <1>1, <2>1, PlacesStay
    <3>2. \A g \in Finding : e.finding = {g} <=> g = f
      BY <2>1
    <3> QED
      BY <3>1, <3>2
  <2>4. \A g \in Finding : \A i \in ChangesOf(g) : i < n
    BY <1>1, <1>2 DEF FindingTypeOK
  <2>5. /\ findings'[f] = changes[w].to
        /\ \A g \in Finding : g # f => findings'[g] = findings[g]
        /\ reseeded' = reseeded \ {f}
    BY <1>1, <1>8 DEF FindingTypeOK, ChangeCommit
  <2> HIDE DEF n
  <2>6. ASSUME NEW i \in ChangesOf(f)', \A j \in ChangesOf(f)' : j <= i
        PROVE  findings'[f] = auditLog'[i].to
    <3>1. i = n
      BY <1>2, <2>2, <2>3, <2>4, <2>6
    <3> QED
      BY <2>1, <2>2, <2>5, <3>1
  <2>7. ChangesOf(f)' # {}
    BY <2>3
  <2>8. ASSUME NEW g \in Finding, g # f, g \notin reseeded
        PROVE  /\ \A i \in ChangesOf(g)' :
                    (\A j \in ChangesOf(g)' : j <= i) => findings'[g] = auditLog'[i].to
               /\ ChangesOf(g)' = {} => findings'[g] \in {"absent", "draft"}
    BY <1>1, <1>2, <2>2, <2>3, <2>5, <2>8
  <2> QED
    BY <2>5, <2>6, <2>7, <2>8 DEF StatusIsAudited
<1> QED
  <2>1. ASSUME NEW s \in Server, SeedStart(s) \/ \E run \in Run : SeedRun(s, run)
        PROVE  StatusIsAudited'
    BY <1>5, <2>1 DEF SeedStart, SeedRun
  <2>2. ASSUME NEW w \in Writer, NEW f \in Finding, ChangeBegin(w, f) \/ ReadTail(w, f)
        PROVE  StatusIsAudited'
    BY <1>5, <2>2 DEF ChangeBegin, ReadTail
  <2>3. ASSUME NEW w \in Writer, ChangeAborts(w)
        PROVE  StatusIsAudited'
    BY <1>5, <2>3 DEF ChangeAborts
  <2> QED
    BY <1>6, <1>7, <1>8, <2>1, <2>2, <2>3 DEF FindingNext

\* No step takes a file's event out of the log.
LEMMA FilesStay ==
  ASSUME AuditSafety, FindingNext, NEW run \in Run, NEW k \in Nat
  PROVE  LocalPlace(run, k) \subseteq LocalPlace(run, k)'
<1>1. ASSUME auditLog' = auditLog
      PROVE  LocalPlace(run, k) \subseteq LocalPlace(run, k)'
  BY <1>1 DEF LocalPlace, Places, IsLocal
<1>2. ASSUME NEW e \in LoggedEvent, auditLog' = Append(auditLog, e)
      PROVE  LocalPlace(run, k) \subseteq LocalPlace(run, k)'
  BY <1>2, PlacesStay DEF AuditSafety
<1>3. ASSUME NEW s \in Server, SeedEvent(s)
      PROVE  LocalPlace(run, k) \subseteq LocalPlace(run, k)'
  <2>1. CASE LocalPlace(seeds[s].run, seeds[s].done) # {}
    BY <1>1, <1>3, <2>1 DEF SeedEvent
  <2>2. CASE LocalPlace(seeds[s].run, seeds[s].done) = {}
    BY <1>2, <1>3, <2>2, SeededEvent
  <2> QED
    BY <2>1, <2>2
<1>4. ASSUME NEW w \in Writer, NEW f \in Finding, ChangeCommit(w, f)
      PROVE  LocalPlace(run, k) \subseteq LocalPlace(run, k)'
  BY <1>2, <1>4, CommittedEvent
<1>5. ASSUME NEW s \in Server, SeedStart(s) \/ SeedFindings(s) \/ \E r \in Run : SeedRun(s, r)
      PROVE  auditLog' = auditLog
  BY <1>5 DEF SeedStart, SeedFindings, SeedRun
<1>6. ASSUME NEW w \in Writer, NEW f \in Finding, ChangeBegin(w, f) \/ ReadTail(w, f)
      PROVE  auditLog' = auditLog
  BY <1>6 DEF ChangeBegin, ReadTail
<1>7. ASSUME NEW w \in Writer, ChangeAborts(w)
      PROVE  auditLog' = auditLog
  BY <1>7 DEF ChangeAborts
<1> QED
  BY <1>1, <1>3, <1>4, <1>5, <1>6, <1>7 DEF FindingNext

\* A start has in the log what it has done of its run's file.
LEMMA StartsHaveSeeded ==
  ASSUME AuditSafety, FindingNext, NEW s \in Server, NEW run \in Run, NEW k \in Nat,
         seeds'[s].run = run, k < seeds'[s].done
  PROVE  LocalPlace(run, k)' # {}
<1>1. FindingTypeOK /\ LocalPlace(run, k) \subseteq LocalPlace(run, k)' /\ run # NoRun
  BY FilesStay, FindingAssumption DEF AuditSafety
<1>2. /\ seeds \in [Server -> Seeding] /\ seeds[s] \in Seeding
      /\ seeds[s].done \in Nat
  BY <1>1, FindingAssumption DEF FindingTypeOK, Seeding
<1>3. ASSUME seeds[s].run = run, k < seeds[s].done
      PROVE  LocalPlace(run, k)' # {}
  <2>1. k \in 0..(seeds[s].done - 1)
    BY <1>2, <1>3
  <2>2. LocalPlace(run, k) # {}
    BY <1>1, <1>3, <2>1 DEF AuditSafety, FilesComeFirst
  <2> QED
    BY <1>1, <2>2
<1>4. CASE seeds'[s] = seeds[s]
  BY <1>3, <1>4
<1>5. CASE SeedStart(s)
  <2>1. seeds'[s] = [seeds[s] EXCEPT !.todo = Run]
    BY <1>2, <1>5 DEF SeedStart
  <2>2. seeds'[s].run = seeds[s].run /\ seeds'[s].done = seeds[s].done
    BY <1>2, <2>1 DEF Seeding
  <2> QED
    BY <1>3, <2>2
<1>6. ASSUME NEW r \in Run, SeedRun(s, r)
      PROVE  FALSE
  <2>1. seeds'[s] = [seeds[s] EXCEPT !.run = r, !.done = 0, !.todo = @ \ {r}]
    BY <1>2, <1>6 DEF SeedRun
  <2>2. seeds'[s].done = 0
    BY <1>2, <2>1 DEF Seeding
  <2> QED
    BY <2>2
<1>7. CASE SeedEvent(s)
  <2>1. seeds'[s] = [seeds[s] EXCEPT !.done = @ + 1]
    BY <1>2, <1>7 DEF SeedEvent
  <2>2. seeds'[s].run = seeds[s].run /\ seeds'[s].done = seeds[s].done + 1
    BY <1>2, <2>1 DEF Seeding
  <2>3. k < seeds[s].done \/ k = seeds[s].done
    BY <1>2, <2>2
  <2>4. CASE k = seeds[s].done /\ LocalPlace(run, k) # {}
    BY <1>1, <2>4
  <2>5. CASE k = seeds[s].done /\ LocalPlace(run, k) = {}
    <3>1. PICK e \in LoggedEvent :
            auditLog' = Append(auditLog, e) /\ IsLocal(e) /\ e.run = run /\ e.seq = k
      BY <1>7, <2>2, <2>5, SeededEvent DEF AuditEvent, IsLocal
    <3>2. Len(auditLog) + 1 \in LocalPlace(run, k)'
      BY <1>1, <3>1, LogGrows DEF LocalPlace, IsLocal
    <3> QED
      BY <3>2
  <2> QED
    BY <1>3, <2>2, <2>3, <2>4, <2>5
<1>8. CASE SeedFindings(s)
  <2>1. seeds'[s] = [seeds[s] EXCEPT !.run = NoRun, !.done = 0]
    BY <1>2, <1>8 DEF SeedFindings
  <2>2. seeds'[s].done = 0
    BY <1>2, <2>1 DEF Seeding
  <2> QED
    BY <2>2
<1> QED
  <2>1. ASSUME NEW o \in Server, o # s,
               SeedStart(o) \/ SeedEvent(o) \/ SeedFindings(o) \/ \E r \in Run : SeedRun(o, r)
        PROVE  seeds'[s] = seeds[s]
    BY <1>2, <2>1 DEF SeedStart, SeedEvent, SeedFindings, SeedRun
  <2>2. ASSUME NEW w \in Writer, NEW f \in Finding,
               ChangeBegin(w, f) \/ ReadTail(w, f) \/ ChangeCommit(w, f)
        PROVE  seeds'[s] = seeds[s]
    BY <2>2 DEF ChangeBegin, ReadTail, ChangeCommit
  <2>3. ASSUME NEW w \in Writer, ChangeAborts(w)
        PROVE  seeds'[s] = seeds[s]
    BY <2>3 DEF ChangeAborts
  <2> QED
    BY <1>4, <1>5, <1>6, <1>7, <1>8, <2>1, <2>2, <2>3 DEF FindingNext

\* What a transaction has read of its finding is still so.
LEMMA RowIsHeld ==
  ASSUME AuditSafety, NEW w \in Writer, NEW f \in Finding,
         changes[w].pc # "idle", changes[w].finding = {f}
  PROVE  /\ findings[f] # "absent"
         /\ changes[w].to # findings[f] =>
              Follows(findings[f], changes[w].to) /\ Parses(f, changes[w].to)
BY DEF AuditSafety, ReadsStand

\* A finding that a step leaves in the store was there, or its run's file is in the log.
LEMMA FindingsAppear ==
  ASSUME AuditSafety, FindingNext, NEW f \in Finding, findings[f] = "absent",
         findings'[f] # "absent"
  PROVE  /\ \A k \in 0..(LocalEvents - 1) : LocalPlace(RunOf[f], k) # {}
         /\ auditLog' = auditLog
<1>1. FindingTypeOK
  BY DEF AuditSafety
<1>2. ASSUME NEW s \in Server, SeedFindings(s)
      PROVE  /\ \A k \in 0..(LocalEvents - 1) : LocalPlace(RunOf[f], k) # {}
             /\ auditLog' = auditLog
  <2>1. RunOf[f] = seeds[s].run /\ seeds[s].run # NoRun /\ seeds[s].done = LocalEvents
    BY <1>2 DEF SeedFindings
  <2> QED
    BY <1>2, <2>1 DEF AuditSafety, FilesComeFirst, SeedFindings
<1>3. ASSUME NEW w \in Writer, NEW g \in Finding, ChangeCommit(w, g)
      PROVE  FALSE
  <2>1. f # g
    BY <1>3, RowIsHeld DEF ChangeCommit
  <2> QED
    BY <1>1, <1>3, <2>1 DEF ChangeCommit, FindingTypeOK
<1>4. findings' # findings
  OBVIOUS
<1> QED
  BY <1>2, <1>3, <1>4 DEF FindingNext, SeedStart, SeedRun, SeedEvent, ChangeBegin, ReadTail,
     ChangeAborts

\* No finding leaves the store.
LEMMA FindingsRemain ==
  ASSUME AuditSafety, FindingNext, NEW f \in Finding, findings[f] # "absent"
  PROVE  findings'[f] # "absent"
<1>1. FindingTypeOK
  BY DEF AuditSafety
<1>2. ASSUME NEW s \in Server, SeedFindings(s)
      PROVE  findings'[f] # "absent"
  BY <1>2 DEF SeedFindings
<1>3. ASSUME NEW w \in Writer, NEW g \in Finding, ChangeCommit(w, g)
      PROVE  findings'[f] # "absent"
  BY <1>1, <1>3, CommittedEvent DEF ChangeCommit, FindingTypeOK, FindingStatus
<1>4. CASE findings' = findings
  BY <1>4
<1> QED
  BY <1>2, <1>3, <1>4 DEF FindingNext, SeedStart, SeedRun, SeedEvent, ChangeBegin, ReadTail,
     ChangeAborts

\* The log is as it was, or a seed has brought an event that it did not have, or a change has.
LEMMA LogSteps ==
  ASSUME FindingNext
  PROVE  \/ auditLog' = auditLog
         \/ \E s \in Server : SeedEvent(s) /\ LocalPlace(seeds[s].run, seeds[s].done) = {}
         \/ \E w \in Writer, f \in Finding : ChangeCommit(w, f)
<1>1. ASSUME NEW s \in Server, SeedStart(s) \/ SeedFindings(s) \/ \E r \in Run : SeedRun(s, r)
      PROVE  auditLog' = auditLog
  BY <1>1 DEF SeedStart, SeedFindings, SeedRun
<1>2. ASSUME NEW w \in Writer, NEW f \in Finding, ChangeBegin(w, f) \/ ReadTail(w, f)
      PROVE  auditLog' = auditLog
  BY <1>2 DEF ChangeBegin, ReadTail
<1>3. ASSUME NEW w \in Writer, ChangeAborts(w)
      PROVE  auditLog' = auditLog
  BY <1>3 DEF ChangeAborts
<1>4. ASSUME NEW s \in Server, SeedEvent(s), LocalPlace(seeds[s].run, seeds[s].done) # {}
      PROVE  auditLog' = auditLog
  BY <1>4 DEF SeedEvent
<1> QED
  BY <1>1, <1>2, <1>3, <1>4 DEF FindingNext

\* A run's file is in the log before its findings are in the store, and they before changes.
LEMMA FilesStayFirst ==
  ASSUME AuditSafety, FindingTypeOK', FindingNext
  PROVE  FilesComeFirst'
<1>1. FindingTypeOK /\ LocalEvents \in Nat /\ RunOf \in [Finding -> Run]
  BY FindingAssumption DEF AuditSafety
<1>2. ASSUME NEW s \in Server, seeds'[s].run # NoRun, NEW k \in 0..(seeds'[s].done - 1)
      PROVE  LocalPlace(seeds[s].run, k)' # {}
  <2>1. seeds'[s].run \in Run /\ seeds'[s].done \in Nat
    BY <1>1, <1>2 DEF FindingTypeOK, Seeding
  <2>2. k \in Nat /\ k < seeds'[s].done
    BY <1>2, <2>1
  <2>3. PICK r \in Run : r = seeds'[s].run
    BY <2>1
  <2>4. LocalPlace(r, k)' # {}
    BY <2>2, <2>3, StartsHaveSeeded
  <2>5. {i \in Places' : IsLocal(auditLog'[i]) /\ auditLog'[i].run = r /\ auditLog'[i].seq = k} # {}
    BY <2>4 DEF LocalPlace, IsLocal
  <2> QED
    BY <2>3, <2>5 DEF LocalPlace, IsLocal
<1>3. ASSUME NEW f \in Finding, findings'[f] # "absent", NEW k \in 0..(LocalEvents - 1)
      PROVE  LocalPlace(RunOf[f], k)' # {}
  <2>1. LocalPlace(RunOf[f], k) # {}
    BY <1>3, FindingsAppear DEF AuditSafety, FilesComeFirst
  <2>2. RunOf[f] \in Run /\ k \in Nat
    BY <1>1
  <2> QED
    BY <2>1, <2>2, FilesStay
<1>4. ASSUME NEW f \in Finding, ChangesOf(f)' # {}
      PROVE  findings'[f] # "absent"
  <2>1. CASE findings[f] # "absent"
    BY <2>1, FindingsRemain
  <2>2. CASE findings[f] = "absent"
    <3>1. ChangesOf(f) = {}
      BY <2>2 DEF AuditSafety, FilesComeFirst
    <3>2. CASE auditLog' = auditLog
      BY <1>4, <3>1, <3>2 DEF ChangesOf, AuditPlaces, Places, IsLocal
    <3>3. ASSUME NEW s \in Server, SeedEvent(s), LocalPlace(seeds[s].run, seeds[s].done) = {}
          PROVE  FALSE
      <4>1. PICK e \in LoggedEvent : auditLog' = Append(auditLog, e) /\ e.finding = {}
        BY <3>3, SeededEvent DEF AuditEvent
      <4> QED
        BY <1>1, <1>4, <3>1, <4>1, PlacesStay
    <3>4. ASSUME NEW w \in Writer, NEW g \in Finding, ChangeCommit(w, g)
          PROVE  FALSE
      <4>1. PICK e \in LoggedEvent : auditLog' = Append(auditLog, e) /\ e.finding = {g}
        BY <3>4, CommittedEvent DEF AuditEvent
      <4>2. f # g
        BY <2>2, <3>4, RowIsHeld DEF ChangeCommit
      <4> QED
        BY <1>1, <1>4, <3>1, <4>1, <4>2, PlacesStay
    <3> QED
      BY <3>2, <3>3, <3>4, LogSteps
  <2> QED
    BY <2>1, <2>2
<1>5. ASSUME NEW i \in Places'
      PROVE  IsLocal(auditLog'[i]) \/ \E f \in Finding :
               auditLog'[i].finding = {f} /\ auditLog'[i].run = RunOf[f]
  <2>1. \A j \in Places : IsLocal(auditLog[j]) \/ \E f \in Finding :
          auditLog[j].finding = {f} /\ auditLog[j].run = RunOf[f]
    BY DEF AuditSafety, FilesComeFirst
  <2>2. CASE auditLog' = auditLog
    BY <1>5, <2>1, <2>2 DEF Places
  <2>3. ASSUME NEW e \in LoggedEvent, auditLog' = Append(auditLog, e),
               IsLocal(e) \/ \E f \in Finding : e.finding = {f} /\ e.run = RunOf[f]
        PROVE  IsLocal(auditLog'[i]) \/ \E f \in Finding :
                 auditLog'[i].finding = {f} /\ auditLog'[i].run = RunOf[f]
    <3>1. i \in Places \/ auditLog'[i] = e
      BY <1>1, <1>5, <2>3, LogGrows
    <3>2. i \in Places => auditLog'[i] = auditLog[i]
      BY <1>1, <2>3, LogGrows
    <3> QED
      BY <2>1, <2>3, <3>1, <3>2
  <2>4. ASSUME NEW s \in Server, SeedEvent(s), LocalPlace(seeds[s].run, seeds[s].done) = {}
        PROVE  \E e \in LoggedEvent : auditLog' = Append(auditLog, e) /\ IsLocal(e)
    BY <2>4, SeededEvent DEF AuditEvent, IsLocal
  <2>5. ASSUME NEW w \in Writer, NEW f \in Finding, ChangeCommit(w, f)
        PROVE  \E e \in LoggedEvent :
                 auditLog' = Append(auditLog, e) /\ e.finding = {f} /\ e.run = RunOf[f]
    BY <2>5, CommittedEvent DEF AuditEvent
  <2> QED
    BY <2>2, <2>3, <2>4, <2>5, LogSteps
<1> QED
  BY <1>2, <1>3, <1>4, <1>5 DEF FilesComeFirst, IsLocal

\* The transaction that has the lock and the row keeps what it has read.
LEMMA ReadsStillStand ==
  ASSUME AuditSafety, FindingTypeOK', FindingNext
  PROVE  ReadsStand'
<1> DEFINE Stands(w) ==
      changes'[w].pc # "idle" =>
        \E f \in Finding :
          /\ changes'[w].finding = {f} /\ findings'[f] # "absent"
          /\ changes'[w].to # findings'[f] =>
               Follows(findings'[f], changes'[w].to) /\ Parses(f, changes'[w].to)
          /\ changes'[w].pc = "write" =>
               /\ changes'[w].tail <= Len(auditLog')
               /\ \A i \in Places' : ~IsLocal(auditLog'[i]) \/ auditLog'[i].run = RunOf[f] =>
                    changes'[w].tail # 0 /\ auditLog'[i].seq <= auditLog'[changes'[w].tail].seq
<1>1. FindingTypeOK /\ LocalEvents \in Nat /\ RunOf \in [Finding -> Run]
  BY FindingAssumption DEF AuditSafety
<1>2. SUFFICES ASSUME NEW w \in Writer
               PROVE  Stands(w)
  BY DEF ReadsStand, IsLocal, Follows, Parses
<1>3. ASSUME NEW f \in Finding, changes' = changes, findings'[f] = findings[f],
             changes[w].finding = {f}, changes[w].pc # "idle", auditLog' = auditLog
      PROVE  Stands(w)
  BY <1>3 DEF AuditSafety, ReadsStand, Places
<1>4. CASE changes'[w].pc = "idle"
  BY <1>4
<1>5. CASE changes'[w].pc # "idle" /\ changes' = changes /\ findings' = findings /\ auditLog' = auditLog
  <2>1. PICK f \in Finding : changes[w].finding = {f}
    BY <1>5 DEF AuditSafety, ReadsStand
  <2> QED
    BY <1>3, <1>5, <2>1
<1>6. ASSUME NEW s \in Server, SeedFindings(s), changes'[w].pc # "idle"
      PROVE  Stands(w)
  <2>1. changes' = changes /\ auditLog' = auditLog
    BY <1>6 DEF SeedFindings
  <2>2. PICK f \in Finding : changes[w].finding = {f}
    BY <1>6, <2>1 DEF AuditSafety, ReadsStand
  <2>3. findings'[f] = findings[f]
    BY <1>6, <2>1, <2>2 DEF SeedFindings, FindingIsFree
  <2> QED
    BY <1>3, <1>6, <2>1, <2>2, <2>3
<1>7. ASSUME NEW s \in Server, SeedEvent(s), LocalPlace(seeds[s].run, seeds[s].done) = {},
             changes'[w].pc # "idle"
      PROVE  Stands(w)
  <2>1. changes' = changes /\ findings' = findings
    BY <1>7 DEF SeedEvent
  <2>2. PICK f \in Finding :
          /\ changes[w].finding = {f} /\ findings[f] # "absent"
          /\ changes[w].to # findings[f] =>
               Follows(findings[f], changes[w].to) /\ Parses(f, changes[w].to)
          /\ changes[w].pc = "write" =>
               /\ changes[w].tail <= Len(auditLog)
               /\ \A i \in Places : ~IsLocal(auditLog[i]) \/ auditLog[i].run = RunOf[f] =>
                    changes[w].tail # 0 /\ auditLog[i].seq <= auditLog[changes[w].tail].seq
    BY <1>7, <2>1 DEF AuditSafety, ReadsStand
  <2>3. PICK e \in LoggedEvent :
          /\ auditLog' = Append(auditLog, e)
          /\ IsLocal(e) /\ e.run = seeds[s].run /\ e.seq = seeds[s].done
    BY <1>7, SeededEvent DEF AuditEvent, IsLocal
  <2>4. e.run # RunOf[f]
    <3>1. seeds[s].done \in 0..(LocalEvents - 1)
      BY <1>1, <1>7 DEF FindingTypeOK, Seeding, SeedEvent
    <3> QED
      BY <1>7, <2>2, <2>3, <3>1 DEF AuditSafety, FilesComeFirst
  <2>5. /\ Places' = Places \cup {Len(auditLog) + 1} /\ Len(auditLog) \in Nat
        /\ Len(auditLog') = Len(auditLog) + 1
        /\ auditLog'[Len(auditLog) + 1] = e
        /\ \A i \in Places : auditLog'[i] = auditLog[i]
    BY <1>1, <2>3, LogGrows
  <2>6. ASSUME changes[w].pc = "write"
        PROVE  /\ changes[w].tail <= Len(auditLog')
               /\ \A i \in Places' : ~IsLocal(auditLog'[i]) \/ auditLog'[i].run = RunOf[f] =>
                    changes[w].tail # 0 /\ auditLog'[i].seq <= auditLog'[changes[w].tail].seq
    <3>1. changes[w].tail \in Nat
      BY <1>1 DEF FindingTypeOK, Changing
    <3>2. changes[w].tail <= Len(auditLog) /\ (changes[w].tail # 0 => changes[w].tail \in Places)
      BY <2>2, <2>5, <2>6, <3>1 DEF Places
    <3>3. changes[w].tail <= Len(auditLog')
      BY <2>5, <3>1, <3>2
    <3>4. ASSUME NEW i \in Places', ~IsLocal(auditLog'[i]) \/ auditLog'[i].run = RunOf[f]
          PROVE  changes[w].tail # 0 /\ auditLog'[i].seq <= auditLog'[changes[w].tail].seq
      <4>1. i \in Places
        BY <2>3, <2>4, <2>5, <3>4
      <4> QED
        BY <2>2, <2>5, <2>6, <3>2, <3>4, <4>1
    <3> QED
      BY <3>3, <3>4
  <2> QED
    BY <2>1, <2>2, <2>6
<1>8. ASSUME NEW f \in Finding, ChangeBegin(w, f)
      PROVE  Stands(w)
  <2>1. PICK to \in NextStatus(f) :
          changes' = [changes EXCEPT ![w] =
            [pc |-> "read", finding |-> {f}, from |-> findings[f], to |-> to, tail |-> 0]]
    BY <1>8 DEF ChangeBegin
  <2>2. to # findings[f] => Follows(findings[f], to) /\ Parses(f, to)
    BY <1>1, <1>8, NextIsStatus DEF ChangeBegin
  <2>3. changes'[w].pc = "read" /\ changes'[w].finding = {f} /\ changes'[w].to = to
    BY <1>1, <2>1 DEF FindingTypeOK
  <2>4. findings' = findings /\ findings[f] # "absent"
    BY <1>8 DEF ChangeBegin
  <2> QED
    BY <2>2, <2>3, <2>4
<1>9. ASSUME NEW f \in Finding, ReadTail(w, f)
      PROVE  Stands(w)
  <2>1. PICK tail \in IF Places = {} THEN {0} ELSE Tails(f) :
          changes' = [changes EXCEPT ![w].pc = "write", ![w].tail = tail]
    BY <1>9 DEF ReadTail
  <2>2. /\ changes[w].finding = {f} /\ changes[w].pc # "idle"
        /\ findings' = findings /\ auditLog' = auditLog
    BY <1>9 DEF ReadTail
  <2>3. /\ changes'[w].finding = {f} /\ changes'[w].to = changes[w].to
        /\ changes'[w].tail = tail
    <3>1. changes'[w] = [changes[w] EXCEPT !.pc = "write", !.tail = tail]
      BY <1>1, <2>1 DEF FindingTypeOK
    <3>2. changes[w] \in Changing
      BY <1>1 DEF FindingTypeOK
    <3> QED
      BY <2>2, <3>1, <3>2 DEF Changing
  <2>4. /\ findings[f] # "absent"
        /\ changes[w].to # findings[f] =>
             Follows(findings[f], changes[w].to) /\ Parses(f, changes[w].to)
    BY <2>2, RowIsHeld
  <2>5. tail <= Len(auditLog)
    BY <1>1 DEF FindingTypeOK, Tails, Places
  <2>6. \A i \in Places : tail # 0 /\ auditLog[i].seq <= auditLog[tail].seq
    BY <1>1 DEF FindingTypeOK, Tails, Places
  <2>7. Places' = Places
    BY <2>2 DEF Places
  <2> QED
    BY <2>2, <2>3, <2>4, <2>5, <2>6, <2>7
<1>10. ASSUME NEW v \in Writer, NEW f \in Finding, ChangeBegin(v, f), v # w
       PROVE  changes'[w].pc = "idle"
  BY <1>1, <1>10, FindingAssumption DEF FindingTypeOK, ChangeBegin, AuditLock
<1>11. ASSUME NEW v \in Writer, NEW f \in Finding, ReadTail(v, f), v # w
       PROVE  changes'[w].pc = "idle"
  <2>1. auditLock = v
    BY <1>1, <1>11 DEF FindingTypeOK, ReadTail
  <2>2. auditLock' = auditLock
    BY <1>11 DEF ReadTail
  <2> QED
    BY <1>11, <2>1, <2>2 DEF FindingTypeOK
<1>12. ASSUME NEW v \in Writer, EndsChange(v)
       PROVE  changes'[w].pc = "idle"
  BY <1>12, FindingAssumption DEF FindingTypeOK, EndsChange
<1> QED
  BY <1>4, <1>5, <1>6, <1>7, <1>8, <1>9, <1>10, <1>11, <1>12 DEF FindingNext, SeedStart,
     SeedRun, SeedEvent, ChangeCommit, ChangeAborts

\* Every step keeps the invariant.
LEMMA AuditSteps ==
  ASSUME AuditSafety, FindingNext
  PROVE  AuditSafety'
<1>1. FindingTypeOK' /\ StatusIsAudited' /\ FilesComeFirst' /\ ReadsStand'
  BY FindingTypes, StatusStays, FilesStayFirst, ReadsStillStand
<1>2. AuditDoesNotFork' /\ RunChainHolds'
  <2>1. CASE auditLog' = auditLog
    BY <2>1 DEF AuditSafety, AuditDoesNotFork, RunChainHolds, AuditPlaces, Places, IsLocal, NextSeq
  <2>2. ASSUME NEW s \in Server, SeedEvent(s), LocalPlace(seeds[s].run, seeds[s].done) = {}
        PROVE  AuditDoesNotFork' /\ RunChainHolds'
    <3>1. PICK e \in LoggedEvent :
            /\ auditLog' = Append(auditLog, e) /\ IsLocal(e)
            /\ e.run = seeds[s].run /\ e.seq = seeds[s].done
            /\ e.link = PlaceBefore(seeds[s].run, seeds[s].done)
      BY <2>2, SeededEvent DEF AuditEvent, IsLocal
    <3>2. AuditDoesNotFork'
      BY <3>1, ChainGrows
    <3>3. ASSUME \A i \in Places : /\ auditLog[i].run = e.run /\ auditLog[i].seq = i - 1
                                   /\ IsLocal(e) => IsLocal(auditLog[i])
          PROVE  e.seq = Len(auditLog) /\ e.link = Len(auditLog)
      BY <2>2, <3>1, <3>3, SeededInOrder
    <3>4. RunChainHolds'
      BY <3>1, <3>3, RunChainGrows
    <3> QED
      BY <3>2, <3>4
  <2>3. ASSUME NEW w \in Writer, NEW f \in Finding, ChangeCommit(w, f)
        PROVE  AuditDoesNotFork' /\ RunChainHolds'
    <3>1. PICK e \in LoggedEvent :
            /\ auditLog' = Append(auditLog, e) /\ e.run = RunOf[f]
            /\ e.seq = NextSeq(changes[w].tail) /\ e.link = changes[w].tail
      BY <2>3, CommittedEvent DEF AuditEvent
    <3>2. /\ e.link \in 0..Len(auditLog)
          /\ \A i \in AuditPlaces : e.link # 0 /\ auditLog[i].seq <= auditLog[e.link].seq
      BY <2>3, <3>1, CommittedEvent DEF AuditPlaces
    <3>3. AuditDoesNotFork'
      BY <3>1, <3>2, ChainGrows
    <3>4. ASSUME \A i \in Places : /\ auditLog[i].run = e.run /\ auditLog[i].seq = i - 1
                                   /\ IsLocal(e) => IsLocal(auditLog[i])
          PROVE  e.seq = Len(auditLog) /\ e.link = Len(auditLog)
      BY <2>3, <3>1, <3>4, CommittedInOrder
    <3>5. RunChainHolds'
      BY <3>1, <3>4, RunChainGrows
    <3> QED
      BY <3>3, <3>5
  <2> QED
    BY <2>1, <2>2, <2>3, LogSteps
<1> QED
  BY <1>1, <1>2 DEF AuditSafety

\* AuditSafety, of any number of findings, runs, requests and servers, and however the starts
\* of servers and the changes of findings interleave: transitionFindingStatus and
\* recordFindingVerification append one chain, and the log tells what became of each finding.
THEOREM AuditIsSafe == FindingSpec => []AuditSafety
<1>1. FindingInit => AuditSafety
  <2> SUFFICES ASSUME FindingInit
               PROVE  AuditSafety
    OBVIOUS
  <2>1. Places = {} /\ auditLog = <<>>
    BY DEF FindingInit, Places
  <2>2. FindingTypeOK
    <3>1. NotStarting \in Seeding /\ Unbegun \in Changing /\ Unbegun.pc = "idle"
      <4>1. 0 \in 0..LocalEvents /\ {} \in SUBSET Run
        BY FindingAssumption
      <4>2. NotStarting \in Seeding
        BY <4>1 DEF NotStarting, Seeding
      <4>3. Unbegun.pc = "idle"
        BY DEF Unbegun
      <4> QED
        BY <4>2, <4>3, ChangingTypes
    <3>2. seeds \in [Server -> Seeding] /\ changes \in [Writer -> Changing]
      BY <3>1 DEF FindingInit
    <3>3. \A w \in Writer : changes[w].pc # "idle" <=> auditLock = w
      BY <3>1, FindingAssumption DEF FindingInit
    <3>4. auditLog \in Seq(LoggedEvent) /\ starts \in 0..MaxSeeds
      BY <2>1, FindingAssumption DEF FindingInit
    <3> QED
      BY <2>1, <3>2, <3>3, <3>4 DEF FindingInit, FindingTypeOK
  <2>3. AuditDoesNotFork /\ StatusIsAudited /\ RunChainHolds /\ FilesComeFirst /\ ReadsStand
    BY <2>1 DEF FindingInit, AuditDoesNotFork, StatusIsAudited, RunChainHolds, FilesComeFirst,
       ReadsStand, AuditPlaces, ChangesOf, NotStarting, Unbegun
  <2> QED
    BY <2>2, <2>3 DEF AuditSafety
<1>2. AuditSafety /\ [FindingNext]_findingVars => AuditSafety'
  <2>1. ASSUME AuditSafety, UNCHANGED findingVars
        PROVE  AuditSafety'
    <3>1. FindingTypeOK'
      BY <2>1 DEF findingVars, AuditSafety, FindingTypeOK, Places
    <3>2. AuditDoesNotFork' /\ RunChainHolds'
      BY <2>1 DEF findingVars, AuditSafety, AuditDoesNotFork, RunChainHolds, AuditPlaces, Places,
         IsLocal, NextSeq
    <3>3. StatusIsAudited'
      BY <2>1 DEF findingVars, AuditSafety, StatusIsAudited, ChangesOf, AuditPlaces, Places, IsLocal
    <3>4. FilesComeFirst'
      <4>1. seeds' = seeds /\ findings' = findings /\ auditLog' = auditLog
        BY <2>1 DEF findingVars
      <4>2. \A s \in Server : seeds'[s].run # NoRun =>
              \A k \in 0..(seeds'[s].done - 1) :
                {i \in Places' : /\ IsLocal(auditLog'[i]) /\ auditLog'[i].run = seeds'[s].run
                                 /\ auditLog'[i].seq = k} # {}
        BY <2>1, <4>1 DEF AuditSafety, FilesComeFirst, LocalPlace, Places
      <4>3. \A f \in Finding : findings'[f] # "absent" =>
              \A k \in 0..(LocalEvents - 1) : LocalPlace(RunOf[f], k)' # {}
        <5>1. ASSUME NEW f \in Finding, NEW k \in 0..(LocalEvents - 1)
              PROVE  LocalPlace(RunOf[f], k)' = LocalPlace(RunOf[f], k)
          BY <4>1 DEF LocalPlace, Places, IsLocal
        <5> QED
          BY <2>1, <4>1, <5>1 DEF AuditSafety, FilesComeFirst
      <4>4. \A f \in Finding : ChangesOf(f)' # {} => findings'[f] # "absent"
        BY <2>1, <4>1 DEF AuditSafety, FilesComeFirst, ChangesOf, AuditPlaces, Places, IsLocal
      <4>5. \A i \in Places' : IsLocal(auditLog'[i]) \/ \E f \in Finding :
              auditLog'[i].finding = {f} /\ auditLog'[i].run = RunOf[f]
        BY <2>1, <4>1 DEF AuditSafety, FilesComeFirst, Places
      <4> QED
        BY <4>2, <4>3, <4>4, <4>5 DEF FilesComeFirst, LocalPlace, IsLocal
    <3>5. ReadsStand'
      BY <2>1 DEF findingVars, AuditSafety, ReadsStand, Places, IsLocal
    <3> QED
      BY <3>1, <3>2, <3>3, <3>4, <3>5 DEF AuditSafety
  <2> QED
    BY <2>1, AuditSteps
<1> QED
  BY <1>1, <1>2, PTL DEF FindingSpec

\* StepsAreAllowed: since a seed does not write a row that a transaction holds, the status
\* that the transaction has read is the one it replaces.
THEOREM StepsStayAllowed == FindingSpec => StepsAreAllowed
<1> DEFINE LifeGoesOn ==
      \A f \in Finding :
        findings'[f] # findings[f] =>
          \/ findings[f] = "absent"
          \/ f \in reseeded'
          \/ findings'[f] \in AllowedNext[findings[f]] /\ Parses(f, findings'[f])
<1>1. ASSUME AuditSafety, [FindingNext]_findingVars
      PROVE  LifeGoesOn
  <2> SUFFICES ASSUME NEW f \in Finding, findings'[f] # findings[f], findings[f] # "absent",
                      f \notin reseeded'
               PROVE  findings'[f] \in AllowedNext[findings[f]] /\ Parses(f, findings'[f])
    OBVIOUS
  <2>1. findings' # findings
    OBVIOUS
  <2>2. FindingTypeOK
    BY <1>1 DEF AuditSafety
  <2>3. ASSUME NEW s \in Server, SeedFindings(s)
        PROVE  FALSE
    BY <2>3 DEF SeedFindings
  <2>4. ASSUME NEW w \in Writer, NEW g \in Finding, ChangeCommit(w, g)
        PROVE  findings'[f] \in AllowedNext[findings[f]] /\ Parses(f, findings'[f])
    <3>1. f = g /\ findings'[f] = changes[w].to
      BY <2>2, <2>4 DEF ChangeCommit, FindingTypeOK
    <3> QED
      BY <1>1, <2>4, <3>1, RowIsHeld DEF ChangeCommit, Follows
  <2> QED
    BY <1>1, <2>1, <2>3, <2>4 DEF FindingNext, findingVars, SeedStart, SeedRun, SeedEvent,
       ChangeBegin, ReadTail, ChangeAborts
<1> QED
  BY <1>1, AuditIsSafe, PTL DEF FindingSpec, StepsAreAllowed

=============================================================================
