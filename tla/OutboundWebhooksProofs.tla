----------------------- MODULE OutboundWebhooksProofs -----------------------
(***************************************************************************)
(* Theorems about the two ways that events leave the control plane:        *)
(* OutboundWebhooks, for any deliveries and any finite set of dispatchers, *)
(* and LiveEvents, for any finite set of changes, any fetches and any page *)
(* of a replay.                                                            *)
(***************************************************************************)
EXTENDS OutboundWebhooks, LiveEvents, FiniteSetTheorems, TLAPS

-----------------------------------------------------------------------------
(* Type correctness *)

\* What the statements write, column by column.
LEMMA RowWrites ==
  ASSUME NEW row \in OutboxRow
  PROVE  /\ AbsentRow \in OutboxRow /\ AbsentRow.status = "absent" /\ AbsentRow.locked = FALSE
         /\ FreshRow \in OutboxRow /\ FreshRow.status = "pending" /\ FreshRow.locked = FALSE
         /\ AbsentRow.attempts = 0 /\ FreshRow.attempts = 0
         /\ ClaimedRow(row) \in OutboxRow /\ ClaimedRow(row).status = row.status
         /\ ClaimedRow(row).locked = TRUE /\ ClaimedRow(row).attempts = row.attempts + 1
         /\ DeadRow(row) \in OutboxRow /\ DeadRow(row).status = "dead"
         /\ DeadRow(row).locked = FALSE /\ DeadRow(row).attempts = row.attempts
         /\ BackoffRow(row) \in OutboxRow /\ BackoffRow(row).status = row.status
         /\ BackoffRow(row).locked = FALSE /\ BackoffRow(row).attempts = row.attempts
<1>1. /\ AbsentRow \in OutboxRow /\ AbsentRow.status = "absent" /\ AbsentRow.locked = FALSE
      /\ FreshRow \in OutboxRow /\ FreshRow.status = "pending" /\ FreshRow.locked = FALSE
      /\ AbsentRow.attempts = 0 /\ FreshRow.attempts = 0
  BY DEF OutboxRow, AbsentRow, FreshRow
<1>2. /\ ClaimedRow(row) \in OutboxRow /\ ClaimedRow(row).status = row.status
      /\ ClaimedRow(row).locked = TRUE /\ ClaimedRow(row).attempts = row.attempts + 1
  <2>1. row.attempts + 1 \in Nat
    BY DEF OutboxRow
  <2>2. ASSUME NEW n \in Nat
        PROVE  LET claimed == [row EXCEPT !.locked = TRUE, !.attempts = n]
               IN  /\ claimed \in OutboxRow /\ claimed.status = row.status
                   /\ claimed.locked = TRUE /\ claimed.attempts = n
    BY DEF OutboxRow
  <2> QED
    BY <2>1, <2>2 DEF ClaimedRow
<1>3. /\ DeadRow(row) \in OutboxRow /\ DeadRow(row).status = "dead"
      /\ DeadRow(row).locked = FALSE /\ DeadRow(row).attempts = row.attempts
  BY DEF OutboxRow, DeadRow
<1>4. /\ BackoffRow(row) \in OutboxRow /\ BackoffRow(row).status = row.status
      /\ BackoffRow(row).locked = FALSE /\ BackoffRow(row).attempts = row.attempts
  BY DEF OutboxRow, BackoffRow
<1> QED
  BY <1>1, <1>2, <1>3, <1>4

\* A row that is unlocked, made due or both.
LEMMA RowFreed ==
  ASSUME NEW row \in OutboxRow,
         NEW freed \in {[row EXCEPT !.locked = FALSE, !.due = TRUE], [row EXCEPT !.locked = FALSE]}
  PROVE  /\ freed \in OutboxRow /\ freed.status = row.status
         /\ freed.locked = FALSE /\ freed.attempts = row.attempts
BY DEF OutboxRow

LEMMA RowRipe ==
  ASSUME NEW row \in OutboxRow
  PROVE  LET ripe == [row EXCEPT !.due = TRUE]
         IN  /\ ripe \in OutboxRow /\ ripe.status = row.status
             /\ ripe.locked = row.locked /\ ripe.attempts = row.attempts
BY DEF OutboxRow

\* The state of a dispatcher, but for the numbers of attempts that the types bound.
LEMMA IdleState ==
  /\ Idle \in DispatcherState /\ Idle.pc = "idle" /\ Idle.batch = {} /\ Idle.now = NoDelivery
  /\ Idle.attempts = [d \in Delivery |-> 0]
BY DEF Idle, DispatcherState

\* Every step keeps the types.
LEMMA NextTypes == OutboxTypeOK /\ [OutboxNext]_outboxVars => OutboxTypeOK'
<1> SUFFICES ASSUME OutboxTypeOK, [OutboxNext]_outboxVars
             PROVE  OutboxTypeOK'
  OBVIOUS
<1> USE OutboxAssumption DEF OutboxTypeOK, NoCount
<1>1. CASE UNCHANGED outboxVars
  BY <1>1 DEF outboxVars
<1>2. ASSUME NEW d \in Delivery, EnqueueDelivery(d) \/ Redrive(d) \/ BecomesDue(d) \/ LockLapses(d)
      PROVE  OutboxTypeOK'
  <2>1. outbox' \in [Delivery -> OutboxRow] /\ UNCHANGED <<dispatchers, accepted>>
    <3>0. outbox[d] \in OutboxRow /\ FreshRow \in OutboxRow
      BY RowWrites
    <3>1. CASE EnqueueDelivery(d) \/ Redrive(d)
      BY <3>0, <3>1 DEF EnqueueDelivery, Redrive
    <3>2. CASE BecomesDue(d)
      BY <3>0, <3>2, RowRipe DEF BecomesDue
    <3>3. CASE LockLapses(d)
      BY <3>0, <3>3, RowFreed DEF LockLapses
    <3> QED
      BY <1>2, <3>1, <3>2, <3>3
  <2> QED
    BY <1>2, <2>1 DEF EnqueueDelivery, Redrive, BecomesDue, LockLapses
<1>3. ASSUME NEW p \in Dispatcher, DispatcherDies(p)
      PROVE  OutboxTypeOK'
  BY <1>3, IdleState DEF DispatcherDies
<1>4. ASSUME NEW p \in Dispatcher, DispatcherStep(p)
      PROVE  OutboxTypeOK'
  <2>0. /\ dispatchers[p] \in DispatcherState
        /\ dispatchers[p].now = NoDelivery <=> dispatchers[p].pc \in {"idle", "next"}
        /\ dispatchers[p].now \notin dispatchers[p].batch
    OBVIOUS
  <2>1. CASE Claim(p)
    <3>1. PICK batch \in SUBSET {d \in Delivery : Claimable(d)} :
            /\ outbox' = [d \in Delivery |->
                            IF d \in batch THEN ClaimedRow(outbox[d]) ELSE outbox[d]]
            /\ dispatchers' = [dispatchers EXCEPT ![p] =
                 [pc |-> "next", batch |-> batch, now |-> NoDelivery,
                  attempts |-> [d \in Delivery |-> IF d \in batch THEN outbox'[d].attempts ELSE 0]]]
      BY <2>1 DEF Claim
    <3>2. outbox' \in [Delivery -> OutboxRow]
      BY <3>1, RowWrites
    <3>3. [d \in Delivery |-> IF d \in batch THEN outbox'[d].attempts ELSE 0] \in [Delivery -> Nat]
      BY <3>2 DEF OutboxRow
    <3>4. /\ dispatchers' \in [Dispatcher -> DispatcherState]
          /\ dispatchers'[p].now = NoDelivery /\ dispatchers'[p].pc = "next"
          /\ dispatchers'[p].batch = batch
          /\ \A q \in Dispatcher \ {p} : dispatchers'[q] = dispatchers[q]
      BY <3>1, <3>3 DEF DispatcherState
    <3> QED
      BY <2>1, <3>2, <3>4 DEF Claim
  <2>2. ASSUME NEW d \in Delivery, Send(p, d)
        PROVE  OutboxTypeOK'
    BY <2>0, <2>2 DEF Send, DispatcherState
  <2>3. CASE Finished(p)
    BY <2>3, IdleState DEF Finished
  <2>4. ASSUME NEW pc \in {"accepted", "threw", "refused"}, Respond(p, pc)
        PROVE  OutboxTypeOK'
    <3>1. accepted' \subseteq Delivery
      BY <2>0, <2>4 DEF Respond, DispatcherState
    <3> QED
      BY <2>0, <2>4, <3>1 DEF Respond, DispatcherState
  <2>5. CASE RecordFailure(p)
    <3>1. dispatchers[p].now \in Delivery
      BY <2>0, <2>5 DEF RecordFailure, DispatcherState
    <3>2. outbox' \in [Delivery -> OutboxRow]
      BY <2>5, <3>1, RowFreed DEF RecordFailure, Updated
    <3>3. failures' \in [Delivery -> Nat]
      BY <2>5, <3>1 DEF RecordFailure
    <3>4. /\ dispatchers' \in [Dispatcher -> DispatcherState]
          /\ dispatchers'[p].pc = "refused" /\ dispatchers'[p].now = dispatchers[p].now
          /\ dispatchers'[p].batch = dispatchers[p].batch
          /\ \A q \in Dispatcher \ {p} : dispatchers'[q] = dispatchers[q]
      BY <2>0, <2>5 DEF RecordFailure, DispatcherState
    <3> QED
      BY <2>0, <2>5, <3>1, <3>2, <3>3, <3>4 DEF RecordFailure
  <2>6. CASE Delete(p) \/ WriteBack(p)
    <3>1. dispatchers[p].now \in Delivery
      BY <2>0, <2>6 DEF Delete, WriteBack, DispatcherState
    <3>0. outbox[dispatchers[p].now] \in OutboxRow
      BY <3>1
    <3>2. outbox' \in [Delivery -> OutboxRow]
      <4>1. ASSUME NEW row \in OutboxRow,
                   outbox' = outbox \/ outbox' = [outbox EXCEPT ![dispatchers[p].now] = row]
            PROVE  outbox' \in [Delivery -> OutboxRow]
        BY <4>1
      <4>2. /\ AbsentRow \in OutboxRow /\ DeadRow(outbox[dispatchers[p].now]) \in OutboxRow
            /\ BackoffRow(outbox[dispatchers[p].now]) \in OutboxRow
        BY <3>0, RowWrites
      <4> QED
        BY <2>6, <4>1, <4>2 DEF Delete, WriteBack, Updated
    <3>3. NextRow(p) /\ UNCHANGED <<accepted, requests, redrives, lockLapses, failures, crashes>>
      BY <2>6 DEF Delete, WriteBack
    <3> QED
      BY <2>0, <3>2, <3>3 DEF NextRow, DispatcherState
  <2> QED
    BY <1>4, <2>1, <2>2, <2>3, <2>4, <2>5, <2>6 DEF DispatcherStep
<1> QED
  BY <1>1, <1>2, <1>3, <1>4 DEF OutboxNext

\* Rows, dispatchers and counters keep their types.
THEOREM TypeCorrect == OutboxSpec => []OutboxTypeOK
<1>1. OutboxInit => OutboxTypeOK
  BY RowWrites, IdleState, OutboxAssumption DEF OutboxInit, OutboxTypeOK, OutboxRow, AbsentRow
<1> QED
  BY <1>1, NextTypes, PTL DEF OutboxSpec

-----------------------------------------------------------------------------
(* What a step does to the account of one row                              *)

\* The number of those who have a row, and of those who had it early.
LEMMA Sizes ==
  ASSUME NEW who, IsFiniteSet(who), NEW early \in SUBSET who
  PROVE  /\ IsFiniteSet(early)
         /\ Cardinality(who) \in Nat /\ Cardinality(early) \in Nat
         /\ Cardinality(early) <= Cardinality(who)
         /\ Cardinality(who) = 0 <=> who = {}
BY FS_CardinalityType, FS_Subset, FS_EmptySet

\* A row that is free is claimed: its attempt goes up, and p joins those who have it.
LEMMA ClaimIsPaidFor ==
  ASSUME NEW who, IsFiniteSet(who), NEW early \in SUBSET who, NEW taken \in Nat, NEW died \in Nat,
         NEW row \in OutboxRow, PaidFor(row, who, early, taken, died),
         row.status = "pending", ~row.locked,
         NEW p, p \notin who, NEW claimed \in OutboxRow,
         claimed.status = "pending", claimed.locked, claimed.attempts = row.attempts + 1,
         NEW early2,
         early2 = IF claimed.attempts < MaxSendAttempts THEN early \cup {p} ELSE early
  PROVE  PaidFor(claimed, who \cup {p}, early2, taken, died)
<1>1. Cardinality(who \cup {p}) = Cardinality(who) + 1 /\ IsFiniteSet(who \cup {p})
  BY FS_AddElement
<1>2. Cardinality(early2) = Cardinality(early) + One(claimed.attempts < MaxSendAttempts)
  BY Sizes, FS_AddElement DEF One
<1>3. Cardinality(early) <= Cardinality(who) /\ Cardinality(early) \in Nat /\ Cardinality(who) \in Nat
  BY Sizes
<1>4. who \cup {p} # {}
  OBVIOUS
<1> QED
  BY <1>1, <1>2, <1>3, <1>4, OutboxAssumption DEF PaidFor, One, OutboxRow

\* One who has the row leaves it: the row is dropped, is dead, or waits again, unlocked.
LEMMA LeavingIsPaidFor ==
  ASSUME NEW who, IsFiniteSet(who), NEW early \in SUBSET who, NEW taken \in Nat, NEW died \in Nat,
         NEW row \in OutboxRow, PaidFor(row, who, early, taken, died),
         NEW p \in who, NEW after \in OutboxRow, ~after.locked,
         \/ after.status # "pending" /\ after.attempts \in {0, row.attempts}
         \/ after.status = row.status /\ after.attempts = row.attempts /\ p \in early
  PROVE  PaidFor(after, who \ {p}, early \ {p}, taken, died)
<1>1. Cardinality(who \ {p}) = Cardinality(who) - 1
  BY FS_RemoveElement
<1>2. Cardinality(early \ {p}) = Cardinality(early) - One(p \in early)
  BY Sizes, FS_RemoveElement DEF One
<1>3. Cardinality(early) <= Cardinality(who) /\ Cardinality(early) \in Nat /\ Cardinality(who) \in Nat
  BY Sizes
<1>4. row.attempts \in Nat /\ MaxSendAttempts \in Nat
  BY OutboxAssumption DEF OutboxRow
<1> QED
  BY <1>1, <1>2, <1>3, <1>4 DEF PaidFor, One

\* One who has the row dies with it.
LEMMA DyingIsPaidFor ==
  ASSUME NEW who, IsFiniteSet(who), NEW early \in SUBSET who, NEW taken \in Nat, NEW died \in Nat,
         NEW row \in OutboxRow, PaidFor(row, who, early, taken, died),
         NEW p \in who
  PROVE  PaidFor(row, who \ {p}, early \ {p}, taken, died + 1)
<1>1. Cardinality(who \ {p}) = Cardinality(who) - 1
  BY FS_RemoveElement
<1>2. Cardinality(early \ {p}) = Cardinality(early) - One(p \in early)
  BY Sizes, FS_RemoveElement DEF One
<1>3. Cardinality(early) <= Cardinality(who) /\ Cardinality(early) \in Nat /\ Cardinality(who) \in Nat
  BY Sizes
<1>4. row.attempts \in Nat /\ MaxSendAttempts \in Nat
  BY OutboxAssumption DEF OutboxRow
<1> QED
  BY <1>1, <1>2, <1>3, <1>4 DEF PaidFor, One

\* The row is taken from those who have it, if anybody has it.
LEMMA TakingIsPaidFor ==
  ASSUME NEW who, IsFiniteSet(who), NEW early \in SUBSET who, NEW taken \in Nat, NEW died \in Nat,
         NEW row \in OutboxRow, PaidFor(row, who, early, taken, died),
         NEW after \in OutboxRow, ~after.locked,
         after.status = row.status, after.attempts = row.attempts,
         NEW taken2 \in Nat, taken2 = taken + 1 \/ (taken2 = taken /\ who = {})
  PROVE  PaidFor(after, who, early, taken2, died)
<1>3. /\ Cardinality(early) <= Cardinality(who) /\ Cardinality(early) \in Nat
      /\ Cardinality(who) \in Nat /\ (who = {} => Cardinality(who) = 0)
  BY Sizes
<1>4. row.attempts \in Nat /\ MaxSendAttempts \in Nat
  BY OutboxAssumption DEF OutboxRow
<1> QED
  BY <1>3, <1>4 DEF PaidFor, One

\* A row that is absent or dead is queued anew, whoever may still have the old one.
LEMMA QueueingIsPaidFor ==
  ASSUME NEW who, IsFiniteSet(who), NEW early \in SUBSET who, NEW taken \in Nat, NEW died \in Nat,
         NEW row \in OutboxRow, PaidFor(row, who, early, taken, died), row.status # "pending"
  PROVE  PaidFor(FreshRow, who, early, taken, died)
<1>3. /\ Cardinality(early) <= Cardinality(who) /\ Cardinality(early) \in Nat
      /\ Cardinality(who) \in Nat
  BY Sizes
<1>4. MaxSendAttempts \in Nat \ {0} /\ FreshRow.status = "pending" /\ ~FreshRow.locked
      /\ FreshRow.attempts = 0
  BY OutboxAssumption DEF FreshRow
<1> QED
  BY <1>3, <1>4 DEF PaidFor, One

-----------------------------------------------------------------------------
(* The account of every row is kept                                        *)

\* Who has a row is a finite set of dispatchers.
LEMMA HolderFacts ==
  ASSUME OutboxTypeOK, NEW d \in Delivery
  PROVE  /\ IsFiniteSet(Holders(d)) /\ EarlyHolders(d) \in SUBSET Holders(d)
         /\ outbox[d] \in OutboxRow /\ Taken(d) \in Nat /\ crashes[d] \in Nat
         /\ AtWork(d) <=> Holders(d) # {}
         /\ d # NoDelivery
<1>1. IsFiniteSet(Holders(d))
  BY OutboxAssumption, FS_Subset DEF Holders
<1> QED
  BY <1>1, OutboxAssumption DEF OutboxTypeOK, EarlyHolders, Holders, Taken, AtWork

\* The account of one row.
Account(d) ==
  /\ PaidFor(outbox[d], Holders(d), EarlyHolders(d), Taken(d), crashes[d])
  /\ Taken(d) = 0 => \A p \in Holders(d) : dispatchers[p].attempts[d] = outbox[d].attempts

\* A row that nobody alone has, and that is not taken from anybody.
LEMMA Alone ==
  ASSUME OutboxTypeOK, NEW d \in Delivery, Account(d), Taken(d) = 0,
         NEW p \in Holders(d)
  PROVE  Holders(d) = {p} /\ outbox[d].status = "pending" /\ outbox[d].locked
<1>1. /\ IsFiniteSet(Holders(d)) /\ Cardinality(Holders(d)) \in Nat
      /\ Cardinality(Holders(d)) # 0
  BY HolderFacts, Sizes
<1>2. /\ Cardinality(Holders(d)) = 1
      /\ outbox[d].status = "pending" /\ outbox[d].locked
  BY <1>1 DEF Account, PaidFor, One
<1>3. Cardinality(Holders(d) \ {p}) = 0 /\ IsFiniteSet(Holders(d) \ {p})
  BY <1>1, <1>2, FS_RemoveElement
<1> QED
  BY <1>2, <1>3, FS_EmptySet

\* Dispatchers that have the same rows with the same attempts hold the same.
LEMMA SameHolders ==
  ASSUME NEW d \in Delivery,
         \A q \in Dispatcher : HasRow(q, d)' <=> HasRow(q, d),
         \A q \in Dispatcher :
           HasRow(q, d) => dispatchers'[q].attempts[d] = dispatchers[q].attempts[d]
  PROVE  Holders(d)' = Holders(d) /\ EarlyHolders(d)' = EarlyHolders(d)
<1>1. Holders(d)' = Holders(d)
  BY DEF Holders
<1> QED
  BY <1>1 DEF EarlyHolders, Holders

\* A row that a step leaves alone keeps its account.
LEMMA AccountFrame ==
  ASSUME NEW d \in Delivery, Account(d),
         outbox'[d].status = outbox[d].status, outbox'[d].locked = outbox[d].locked,
         outbox'[d].attempts = outbox[d].attempts,
         lockLapses'[d] = lockLapses[d], failures'[d] = failures[d], crashes'[d] = crashes[d],
         \A q \in Dispatcher : HasRow(q, d)' <=> HasRow(q, d),
         \A q \in Dispatcher :
           HasRow(q, d) => dispatchers'[q].attempts[d] = dispatchers[q].attempts[d]
  PROVE  Account(d)'
<1>1. Holders(d)' = Holders(d) /\ EarlyHolders(d)' = EarlyHolders(d)
  BY SameHolders
<1>2. PaidFor(outbox[d], Holders(d), EarlyHolders(d), Taken(d), crashes[d])'
  BY <1>1 DEF Account, PaidFor, Taken
<1> QED
  BY <1>1, <1>2 DEF Account, Taken, Holders

\* What a dispatcher has when it goes on with another state.
LEMMA OthersKeep ==
  ASSUME NEW p \in Dispatcher, NEW state, OutboxTypeOK,
         dispatchers' = [dispatchers EXCEPT ![p] = state]
  PROVE  /\ \A d \in Delivery : HasRow(p, d)' <=> d \in state.batch \/ d = state.now
         /\ dispatchers'[p] = state
         /\ \A q \in Dispatcher \ {p} :
              /\ dispatchers'[q] = dispatchers[q]
              /\ \A d \in Delivery : HasRow(q, d)' <=> HasRow(q, d)
BY DEF HasRow, OutboxTypeOK

\* A dispatcher that is done with row d has the others of its batch.
LEMMA NextRowLeaves ==
  ASSUME OutboxTypeOK, NEW p \in Dispatcher, NextRow(p),
         NEW d \in Delivery, d = dispatchers[p].now
  PROVE  /\ \A q \in Dispatcher : dispatchers'[q].attempts = dispatchers[q].attempts
         /\ \A e \in Delivery \ {d}, q \in Dispatcher : HasRow(q, e)' <=> HasRow(q, e)
         /\ p \in Holders(d)
         /\ Holders(d)' = Holders(d) \ {p}
         /\ EarlyHolders(d)' = EarlyHolders(d) \ {p}
<1>1. dispatchers[p] \in DispatcherState /\ d \notin dispatchers[p].batch /\ d # NoDelivery
  BY OutboxAssumption DEF OutboxTypeOK
<1>2. /\ dispatchers'[p].batch = dispatchers[p].batch /\ dispatchers'[p].now = NoDelivery
      /\ dispatchers'[p].attempts = dispatchers[p].attempts
      /\ \A q \in Dispatcher \ {p} : dispatchers'[q] = dispatchers[q]
  BY <1>1 DEF NextRow, OutboxTypeOK, DispatcherState
<1>3. \A q \in Dispatcher : dispatchers'[q].attempts = dispatchers[q].attempts
  BY <1>2
<1>4. \A e \in Delivery, q \in Dispatcher :
        HasRow(q, e)' <=> HasRow(q, e) /\ (q # p \/ e # d)
  BY <1>1, <1>2, OutboxAssumption DEF HasRow
<1>5. p \in Holders(d)
  BY DEF Holders, HasRow
<1>6. Holders(d)' = Holders(d) \ {p}
  BY <1>4 DEF Holders
<1>7. EarlyHolders(d)' = EarlyHolders(d) \ {p}
  BY <1>3, <1>6 DEF EarlyHolders, Holders
<1> QED
  BY <1>3, <1>4, <1>5, <1>6, <1>7

\* A claim is paid for, of the rows that it takes and of the others.
LEMMA ClaimAccount ==
  ASSUME OutboxTypeOK, OutboxTypeOK', NEW d \in Delivery, Account(d),
         NEW p \in Dispatcher, Claim(p)
  PROVE  Account(d)'
<1>1. PICK batch \in SUBSET {e \in Delivery : Claimable(e)} :
        /\ outbox' = [e \in Delivery |->
                        IF e \in batch THEN ClaimedRow(outbox[e]) ELSE outbox[e]]
        /\ dispatchers' = [dispatchers EXCEPT ![p] =
             [pc |-> "next", batch |-> batch, now |-> NoDelivery,
              attempts |-> [e \in Delivery |-> IF e \in batch THEN outbox'[e].attempts ELSE 0]]]
  BY DEF Claim
<1>2. dispatchers[p].now = NoDelivery /\ dispatchers[p].batch = {}
  BY DEF Claim, OutboxTypeOK
<1>3. /\ \A e \in Delivery : HasRow(p, e)' <=> e \in batch
      /\ dispatchers'[p].attempts =
           [e \in Delivery |-> IF e \in batch THEN outbox'[e].attempts ELSE 0]
      /\ \A q \in Dispatcher \ {p} : dispatchers'[q] = dispatchers[q]
      /\ \A q \in Dispatcher \ {p} : HasRow(q, d)' <=> HasRow(q, d)
  BY <1>1, OutboxAssumption DEF HasRow, OutboxTypeOK
<1>4. UNCHANGED <<requests, redrives, lockLapses, failures, crashes>>
  BY DEF Claim, NoCount
<1>5. outbox[d] \in OutboxRow
  BY DEF OutboxTypeOK
<1>6. CASE d \notin batch
  <2>1. p \notin Holders(d) /\ ~HasRow(p, d)'
    BY <1>2, <1>3, <1>6, HolderFacts DEF Holders, HasRow
  <2>2. /\ \A q \in Dispatcher : HasRow(q, d)' <=> HasRow(q, d)
        /\ \A q \in Dispatcher :
             HasRow(q, d) => dispatchers'[q].attempts[d] = dispatchers[q].attempts[d]
    <3>1. ~HasRow(p, d)
      BY <2>1 DEF Holders
    <3> QED
      BY <1>3, <2>1, <3>1
  <2> QED
    BY <1>1, <1>4, <1>6, <2>2, AccountFrame
<1>7. CASE d \in batch
  <2>1. /\ outbox[d].status = "pending" /\ ~outbox[d].locked
        /\ outbox'[d] = ClaimedRow(outbox[d])
    BY <1>1, <1>7 DEF Claimable
  <2>2. p \notin Holders(d)
    BY <1>2, HolderFacts DEF Holders, HasRow
  <2>3. Holders(d)' = Holders(d) \cup {p}
    <3>1. HasRow(p, d)'
      BY <1>3, <1>7
    <3> QED
      BY <1>3, <3>1 DEF Holders
  <2>4. /\ outbox'[d] \in OutboxRow /\ outbox'[d].status = "pending" /\ outbox'[d].locked
        /\ outbox'[d].attempts = outbox[d].attempts + 1
    BY <1>5, <2>1, RowWrites
  <2>5. dispatchers'[p].attempts[d] = outbox'[d].attempts
    BY <1>3, <1>7
  <2>6. EarlyHolders(d)' = IF outbox'[d].attempts < MaxSendAttempts
                           THEN EarlyHolders(d) \cup {p} ELSE EarlyHolders(d)
    BY <1>3, <2>2, <2>3, <2>5 DEF EarlyHolders, Holders
  <2>7. PaidFor(outbox'[d], Holders(d)', EarlyHolders(d)', Taken(d), crashes[d])
    BY <1>5, <2>1, <2>2, <2>3, <2>4, <2>6, HolderFacts, ClaimIsPaidFor DEF Account
  <2>8. Taken(d) = 0 => Holders(d) = {}
    BY <2>1, Alone
  <2> QED
    BY <1>4, <2>3, <2>5, <2>7, <2>8 DEF Account, Taken
<1> QED
  BY <1>6, <1>7

\* So is what a dispatcher writes back when it is done with row d: the row is dropped, is
\* dead, or waits again when the attempt was not the last.
LEMMA WriteBackAccount ==
  ASSUME OutboxTypeOK, OutboxTypeOK', NEW d \in Delivery, Account(d),
         NEW p \in Dispatcher, Delete(p) \/ WriteBack(p)
  PROVE  Account(d)'
<1>1. /\ NextRow(p) /\ dispatchers[p].now \in Delivery
      /\ UNCHANGED <<requests, redrives, lockLapses, failures, crashes>>
  BY OutboxAssumption DEF Delete, WriteBack, NoCount, OutboxTypeOK, DispatcherState
<1>2. outbox[d] \in OutboxRow
  BY DEF OutboxTypeOK
<1>3. CASE d # dispatchers[p].now
  <2>1. outbox'[d] = outbox[d]
    BY <1>1, <1>3 DEF Delete, WriteBack, Updated, OutboxTypeOK
  <2>2. /\ \A q \in Dispatcher : dispatchers'[q].attempts = dispatchers[q].attempts
        /\ \A q \in Dispatcher : HasRow(q, d)' <=> HasRow(q, d)
    BY <1>1, <1>3, NextRowLeaves
  <2> QED
    BY <1>1, <2>1, <2>2, AccountFrame
<1>4. CASE d = dispatchers[p].now
  <2>1. /\ \A q \in Dispatcher : dispatchers'[q].attempts = dispatchers[q].attempts
        /\ p \in Holders(d)
        /\ Holders(d)' = Holders(d) \ {p}
        /\ EarlyHolders(d)' = EarlyHolders(d) \ {p}
    BY <1>1, <1>4, NextRowLeaves
  <2>2. /\ outbox'[d] \in OutboxRow /\ ~outbox'[d].locked
        /\ \/ outbox'[d].status # "pending" /\ outbox'[d].attempts \in {0, outbox[d].attempts}
           \/ /\ outbox'[d].status = outbox[d].status
              /\ outbox'[d].attempts = outbox[d].attempts
              /\ p \in EarlyHolders(d)
    <3>1. CASE Delete(p)
      BY <1>2, <1>4, <3>1, RowWrites DEF Delete, OutboxTypeOK
    <3>2. CASE WriteBack(p) /\ outbox[d].status = "absent"
      <4>1. outbox' = outbox /\ ~outbox[d].locked
        BY <1>4, <3>2 DEF WriteBack, Updated, Account, PaidFor
      <4> QED
        BY <1>2, <3>2, <4>1
    <3>3. CASE WriteBack(p) /\ outbox[d].status # "absent" /\ Exhausted(p, d)
      <4>1. outbox'[d] = DeadRow(outbox[d])
        BY <1>4, <3>3 DEF WriteBack, Updated, OutboxTypeOK
      <4> QED
        BY <1>2, <4>1, RowWrites
    <3>4. CASE WriteBack(p) /\ outbox[d].status # "absent" /\ ~Exhausted(p, d)
      <4>1. outbox'[d] = BackoffRow(outbox[d])
        BY <1>4, <3>4 DEF WriteBack, Updated, OutboxTypeOK
      <4>2. p \in EarlyHolders(d)
        BY <2>1, <3>4, OutboxAssumption DEF Exhausted, EarlyHolders, OutboxTypeOK, DispatcherState
      <4> QED
        BY <1>2, <4>1, <4>2, RowWrites
    <3> QED
      BY <3>1, <3>2, <3>3, <3>4
  <2>3. PaidFor(outbox'[d], Holders(d)', EarlyHolders(d)', Taken(d), crashes[d])
    BY <1>2, <2>1, <2>2, HolderFacts, LeavingIsPaidFor DEF Account
  <2>4. Taken(d) = 0 => Holders(d)' = {}
    BY <2>1, Alone
  <2> QED
    BY <1>1, <2>1, <2>3, <2>4 DEF Account, Taken
<1> QED
  BY <1>3, <1>4

\* A send that threw gives the row away, and that is counted.
LEMMA FailureAccount ==
  ASSUME OutboxTypeOK, OutboxTypeOK', NEW d \in Delivery, Account(d),
         NEW p \in Dispatcher, RecordFailure(p)
  PROVE  Account(d)'
<1>1. /\ dispatchers[p].now \in Delivery
      /\ UNCHANGED <<requests, redrives, lockLapses, crashes>>
      /\ failures' = [failures EXCEPT ![dispatchers[p].now] = @ + 1]
  BY OutboxAssumption DEF RecordFailure, OutboxTypeOK, DispatcherState
<1>2. /\ \A q \in Dispatcher : dispatchers'[q].attempts = dispatchers[q].attempts
      /\ \A q \in Dispatcher : dispatchers'[q].batch = dispatchers[q].batch
      /\ \A q \in Dispatcher : dispatchers'[q].now = dispatchers[q].now
  BY DEF RecordFailure, OutboxTypeOK, DispatcherState
<1>3. \A q \in Dispatcher : HasRow(q, d)' <=> HasRow(q, d)
  BY <1>2 DEF HasRow
<1>4. CASE d # dispatchers[p].now
  <2>1. outbox'[d] = outbox[d] /\ failures'[d] = failures[d]
    BY <1>1, <1>4 DEF RecordFailure, Updated, OutboxTypeOK
  <2> QED
    BY <1>1, <1>2, <1>3, <2>1, AccountFrame
<1>5. CASE d = dispatchers[p].now
  <2>1. outbox[d] \in OutboxRow /\ outbox'[d] \in OutboxRow
    BY DEF OutboxTypeOK
  <2>2. /\ ~outbox'[d].locked /\ outbox'[d].status = outbox[d].status
        /\ outbox'[d].attempts = outbox[d].attempts
    <3>1. CASE outbox[d].status = "absent"
      <4>1. outbox' = outbox /\ ~outbox[d].locked
        BY <1>5, <3>1 DEF RecordFailure, Updated, Account, PaidFor
      <4> QED
        BY <2>1, <4>1
    <3>2. CASE outbox[d].status # "absent"
      <4>1. outbox'[d] = [outbox[d] EXCEPT !.locked = FALSE, !.due = TRUE]
        BY <1>5, <3>2 DEF RecordFailure, Updated, OutboxTypeOK
      <4> QED
        BY <2>1, <4>1, RowFreed
    <3> QED
      BY <3>1, <3>2
  <2>3. Taken(d)' = Taken(d) + 1 /\ Taken(d) \in Nat /\ crashes'[d] = crashes[d]
    BY <1>1, <1>5 DEF Taken, OutboxTypeOK
  <2>4. Holders(d)' = Holders(d) /\ EarlyHolders(d)' = EarlyHolders(d)
    BY <1>2, <1>3, SameHolders
  <2>5. PaidFor(outbox'[d], Holders(d), EarlyHolders(d), Taken(d)', crashes[d])
    BY <2>1, <2>2, <2>3, HolderFacts, TakingIsPaidFor DEF Account
  <2> QED
    BY <2>3, <2>4, <2>5 DEF Account
<1> QED
  BY <1>4, <1>5

\* A dispatcher that dies with a row is counted.
LEMMA DeathAccount ==
  ASSUME OutboxTypeOK, OutboxTypeOK', NEW d \in Delivery, Account(d),
         NEW p \in Dispatcher, DispatcherDies(p)
  PROVE  Account(d)'
<1>1. /\ UNCHANGED <<outbox, requests, redrives, lockLapses, failures>>
      /\ dispatchers' = [dispatchers EXCEPT ![p] = Idle]
      /\ crashes'[d] = crashes[d] + IF HasRow(p, d) THEN 1 ELSE 0
  BY DEF DispatcherDies
<1>2. /\ ~HasRow(p, d)'
      /\ \A q \in Dispatcher \ {p} : dispatchers'[q] = dispatchers[q]
      /\ \A q \in Dispatcher \ {p} : HasRow(q, d)' <=> HasRow(q, d)
  BY <1>1, OthersKeep, IdleState, OutboxAssumption
<1>3. CASE ~HasRow(p, d)
  <2>1. crashes'[d] = crashes[d]
    BY <1>1, <1>3 DEF OutboxTypeOK
  <2>2. /\ \A q \in Dispatcher : HasRow(q, d)' <=> HasRow(q, d)
        /\ \A q \in Dispatcher :
             HasRow(q, d) => dispatchers'[q].attempts[d] = dispatchers[q].attempts[d]
    BY <1>2, <1>3
  <2> QED
    BY <1>1, <2>1, <2>2, AccountFrame
<1>4. CASE HasRow(p, d)
  <2>1. /\ p \in Holders(d) /\ Holders(d)' = Holders(d) \ {p}
    BY <1>2, <1>4 DEF Holders
  <2>2. EarlyHolders(d)' = EarlyHolders(d) \ {p}
    BY <1>2, <2>1 DEF EarlyHolders, Holders
  <2>3. crashes'[d] = crashes[d] + 1
    BY <1>1, <1>4
  <2>4. PaidFor(outbox[d], Holders(d)', EarlyHolders(d)', Taken(d), crashes'[d])
    BY <2>1, <2>2, <2>3, HolderFacts, DyingIsPaidFor DEF Account
  <2>5. Taken(d) = 0 => Holders(d)' = {}
    BY <2>1, Alone
  <2> QED
    BY <1>1, <2>1, <2>4, <2>5 DEF Account, Taken
<1> QED
  BY <1>3, <1>4

\* Clients, operators and the clock: a row is queued, or its lock lapses.
LEMMA RowAccount ==
  ASSUME OutboxTypeOK, OutboxTypeOK', NEW d \in Delivery, Account(d), NEW e \in Delivery,
         EnqueueDelivery(e) \/ Redrive(e) \/ BecomesDue(e) \/ LockLapses(e)
  PROVE  Account(d)'
<1>1. UNCHANGED <<dispatchers, failures, crashes>>
  BY DEF EnqueueDelivery, Redrive, BecomesDue, LockLapses, NoCount
<1>2. /\ \A q \in Dispatcher : HasRow(q, d)' <=> HasRow(q, d)
      /\ \A q \in Dispatcher : dispatchers'[q].attempts = dispatchers[q].attempts
  BY <1>1 DEF HasRow
<1>3. Holders(d)' = Holders(d) /\ EarlyHolders(d)' = EarlyHolders(d)
  BY <1>2, SameHolders
<1>4. outbox[d] \in OutboxRow /\ outbox'[d] \in OutboxRow
  BY DEF OutboxTypeOK
<1>5. CASE d # e \/ BecomesDue(e)
  <2>1. /\ outbox'[d].status = outbox[d].status /\ outbox'[d].locked = outbox[d].locked
        /\ outbox'[d].attempts = outbox[d].attempts /\ lockLapses'[d] = lockLapses[d]
    <3>1. CASE d # e
      BY <3>1 DEF EnqueueDelivery, Redrive, BecomesDue, LockLapses, NoCount, OutboxTypeOK
    <3>2. CASE d = e /\ BecomesDue(e)
      BY <1>4, <3>2, RowRipe DEF BecomesDue, NoCount, OutboxTypeOK
    <3> QED
      BY <1>5, <3>1, <3>2
  <2> QED
    BY <1>1, <1>2, <2>1, AccountFrame
<1>6. CASE d = e /\ (EnqueueDelivery(e) \/ Redrive(e))
  <2>1. outbox[d].status # "pending" /\ outbox'[d] = FreshRow /\ UNCHANGED lockLapses
    BY <1>6 DEF EnqueueDelivery, Redrive, OutboxTypeOK
  <2>2. PaidFor(FreshRow, Holders(d), EarlyHolders(d), Taken(d), crashes[d])
    BY <1>4, <2>1, HolderFacts, QueueingIsPaidFor DEF Account
  <2>3. Taken(d) = 0 => Holders(d) = {}
    BY <2>1, Alone
  <2> QED
    BY <1>1, <1>3, <2>1, <2>2, <2>3 DEF Account, Taken
<1>7. CASE d = e /\ LockLapses(e)
  <2>1. outbox'[d] = [outbox[d] EXCEPT !.locked = FALSE]
    BY <1>7 DEF LockLapses, OutboxTypeOK
  <2>2. /\ ~outbox'[d].locked /\ outbox'[d].status = outbox[d].status
        /\ outbox'[d].attempts = outbox[d].attempts
    BY <1>4, <2>1, RowFreed
  <2>3. \/ Taken(d)' = Taken(d) + 1
        \/ Taken(d)' = Taken(d) /\ Holders(d) = {}
    BY <1>1, <1>7, HolderFacts DEF LockLapses, Taken, OutboxTypeOK
  <2>4. PaidFor(outbox'[d], Holders(d), EarlyHolders(d), Taken(d)', crashes[d])
    BY <1>4, <2>2, <2>3, HolderFacts, TakingIsPaidFor DEF Account, OutboxTypeOK
  <2>5. Taken(d)' = 0 => Taken(d) = 0
    BY <2>3, HolderFacts
  <2> QED
    BY <1>1, <1>3, <2>2, <2>4, <2>5 DEF Account
<1> QED
  BY <1>5, <1>6, <1>7

\* A step of a dispatcher that writes no row keeps who has which.
LEMMA HandOverAccount ==
  ASSUME OutboxTypeOK, OutboxTypeOK', NEW d \in Delivery, Account(d), NEW p \in Dispatcher,
         \/ \E e \in Delivery : Send(p, e)
         \/ Finished(p)
         \/ \E pc \in {"accepted", "threw", "refused"} : Respond(p, pc)
  PROVE  Account(d)'
<1>1. UNCHANGED <<outbox, requests, redrives, lockLapses, failures, crashes>>
  BY DEF Send, Finished, Respond, NoCount
<1>2. \A q \in Dispatcher \ {p} : dispatchers'[q] = dispatchers[q]
  BY DEF Send, Finished, Respond, OutboxTypeOK
<1>3. HasRow(p, d)' <=> HasRow(p, d)
  <2>1. ASSUME NEW e \in Delivery, Send(p, e)
        PROVE  HasRow(p, d)' <=> HasRow(p, d)
    <3>1. dispatchers[p].now = NoDelivery /\ e \in dispatchers[p].batch
      BY <2>1 DEF Send, OutboxTypeOK
    <3>2. /\ dispatchers'[p].now = e
          /\ dispatchers'[p].batch = dispatchers[p].batch \ {e}
      <4>1. ASSUME NEW rest
            PROVE  LET sent == [dispatchers EXCEPT ![p].pc = "sending", ![p].now = e,
                                                   ![p].batch = rest]
                   IN  sent[p].now = e /\ sent[p].batch = rest
        BY DEF OutboxTypeOK, DispatcherState
      <4>2. dispatchers' = [dispatchers EXCEPT ![p].pc = "sending", ![p].now = e,
                                               ![p].batch = dispatchers[p].batch \ {e}]
        BY <2>1 DEF Send
      <4> QED
        BY <4>1, <4>2
    <3> QED
      BY <3>1, <3>2, OutboxAssumption DEF HasRow
  <2>2. CASE Finished(p)
    <3>1. dispatchers[p].now = NoDelivery /\ dispatchers[p].batch = {}
      BY <2>2 DEF Finished, OutboxTypeOK
    <3>2. dispatchers'[p].now = NoDelivery /\ dispatchers'[p].batch = {}
      BY <2>2, IdleState DEF Finished, OutboxTypeOK
    <3> QED
      BY <3>1, <3>2 DEF HasRow
  <2>3. ASSUME NEW pc \in {"accepted", "threw", "refused"}, Respond(p, pc)
        PROVE  HasRow(p, d)' <=> HasRow(p, d)
    BY <2>3 DEF Respond, HasRow, OutboxTypeOK, DispatcherState
  <2> QED
    BY <2>1, <2>2, <2>3
<1>4. HasRow(p, d) => dispatchers'[p].attempts[d] = dispatchers[p].attempts[d]
  <2>1. CASE Finished(p)
    BY <2>1, OutboxAssumption DEF Finished, HasRow, OutboxTypeOK
  <2>2. ASSUME NEW e \in Delivery, Send(p, e)
        PROVE  dispatchers'[p].attempts = dispatchers[p].attempts
    BY <2>2 DEF Send, OutboxTypeOK, DispatcherState
  <2>3. ASSUME NEW pc \in {"accepted", "threw", "refused"}, Respond(p, pc)
        PROVE  dispatchers'[p].attempts = dispatchers[p].attempts
    BY <2>3 DEF Respond, OutboxTypeOK, DispatcherState
  <2> QED
    BY <2>1, <2>2, <2>3
<1> QED
  BY <1>1, <1>2, <1>3, <1>4, AccountFrame DEF HasRow

\* What a receiver has accepted is on record before its row is dropped.
LEMMA NextAnswers ==
  ASSUME OutboxTypeOK, OutboxTypeOK', [OutboxNext]_outboxVars,
         \A p \in Dispatcher : dispatchers[p].pc = "accepted" => dispatchers[p].now \in accepted
  PROVE  /\ accepted \subseteq accepted'
         /\ \A p \in Dispatcher :
              dispatchers'[p].pc = "accepted" => dispatchers'[p].now \in accepted'
<1>1. ASSUME NEW p \in Dispatcher, NEW pc \in {"accepted", "threw", "refused"}, Respond(p, pc)
      PROVE  /\ accepted \subseteq accepted'
             /\ \A q \in Dispatcher :
                  dispatchers'[q].pc = "accepted" => dispatchers'[q].now \in accepted'
  BY <1>1 DEF Respond, OutboxTypeOK, DispatcherState
<1>2. CASE /\ accepted' = accepted
           /\ \A q \in Dispatcher :
                \/ dispatchers'[q].pc # "accepted"
                \/ dispatchers'[q] = dispatchers[q]
  BY <1>2
<1>3. CASE UNCHANGED <<dispatchers, accepted>>
  BY <1>3
<1>4. ASSUME NEW p \in Dispatcher, DispatcherDies(p) \/ Finished(p)
      PROVE  /\ accepted' = accepted
             /\ \A q \in Dispatcher :
                  dispatchers'[q].pc # "accepted" \/ dispatchers'[q] = dispatchers[q]
  BY <1>4, IdleState DEF DispatcherDies, Finished, OutboxTypeOK
<1>5. ASSUME NEW p \in Dispatcher,
             \/ Claim(p) \/ RecordFailure(p) \/ Delete(p) \/ WriteBack(p)
             \/ \E d \in Delivery : Send(p, d)
      PROVE  /\ accepted' = accepted
             /\ \A q \in Dispatcher :
                  dispatchers'[q].pc # "accepted" \/ dispatchers'[q] = dispatchers[q]
  <2>1. CASE Claim(p)
    BY <2>1 DEF Claim, OutboxTypeOK
  <2>2. CASE RecordFailure(p)
    BY <2>2 DEF RecordFailure, OutboxTypeOK, DispatcherState
  <2>3. CASE Delete(p) \/ WriteBack(p)
    BY <2>3 DEF Delete, WriteBack, NextRow, OutboxTypeOK, DispatcherState
  <2>4. ASSUME NEW d \in Delivery, Send(p, d)
        PROVE  /\ accepted' = accepted
               /\ \A q \in Dispatcher :
                    dispatchers'[q].pc # "accepted" \/ dispatchers'[q] = dispatchers[q]
    BY <2>4 DEF Send, OutboxTypeOK, DispatcherState
  <2> QED
    BY <1>5, <2>1, <2>2, <2>3, <2>4
<1> QED
  BY <1>1, <1>2, <1>3, <1>4, <1>5
    DEF OutboxNext, DispatcherStep, outboxVars, EnqueueDelivery, Redrive, BecomesDue, LockLapses

\* Every step keeps the invariant.
LEMMA NextOutboxInv == OutboxTypeOK /\ OutboxInv /\ [OutboxNext]_outboxVars => OutboxInv'
<1> SUFFICES ASSUME OutboxTypeOK, OutboxInv, [OutboxNext]_outboxVars
             PROVE  OutboxInv'
  OBVIOUS
<1>1. OutboxTypeOK'
  BY NextTypes
<1>2. ASSUME NEW d \in Delivery
      PROVE  Account(d)'
  <2>0. Account(d)
    BY DEF OutboxInv, Account
  <2>1. CASE UNCHANGED outboxVars
    BY <2>0, <2>1 DEF outboxVars, Account, PaidFor, Holders, EarlyHolders, HasRow, Taken
  <2>2. ASSUME NEW p \in Dispatcher, DispatcherStep(p) \/ DispatcherDies(p)
        PROVE  Account(d)'
    BY <1>1, <2>0, <2>2, ClaimAccount, WriteBackAccount, FailureAccount, DeathAccount,
       HandOverAccount DEF DispatcherStep
  <2>3. ASSUME NEW e \in Delivery,
               EnqueueDelivery(e) \/ Redrive(e) \/ BecomesDue(e) \/ LockLapses(e)
        PROVE  Account(d)'
    BY <1>1, <2>0, <2>3, RowAccount
  <2> QED
    BY <2>1, <2>2, <2>3 DEF OutboxNext
<1>3. \A p \in Dispatcher : dispatchers'[p].pc = "accepted" => dispatchers'[p].now \in accepted'
  BY <1>1, NextAnswers DEF OutboxInv
<1> QED
  BY <1>2, <1>3 DEF OutboxInv, Account

\* No row is there, and nobody has one.
LEMMA InitOutboxInv == OutboxInit => OutboxInv
<1> SUFFICES ASSUME OutboxInit
             PROVE  OutboxInv
  OBVIOUS
<1>1. ASSUME NEW d \in Delivery
      PROVE  Account(d)
  <2>1. Holders(d) = {} /\ EarlyHolders(d) = {}
    BY IdleState, OutboxAssumption DEF OutboxInit, Holders, EarlyHolders, HasRow
  <2>2. /\ outbox[d].status = "absent" /\ ~outbox[d].locked /\ outbox[d].attempts = 0
        /\ Taken(d) = 0 /\ crashes[d] = 0
    BY DEF OutboxInit, AbsentRow, Taken
  <2> QED
    BY <2>1, <2>2, FS_EmptySet, OutboxAssumption DEF Account, PaidFor, One
<1> QED
  BY <1>1, IdleState DEF OutboxInv, Account, OutboxInit

\* A row that is queued is there until a receiver has accepted it.
LEMMA NextLosesNothing ==
  ASSUME OutboxTypeOK, OutboxInv, NothingIsLost, [OutboxNext]_outboxVars
  PROVE  NothingIsLost'
<1>1. OutboxTypeOK' /\ accepted \subseteq accepted'
  BY NextTypes, NextAnswers DEF OutboxInv
<1>2. ASSUME NEW d \in Delivery, requests'[d] > 0, outbox'[d].status = "absent"
      PROVE  d \in accepted'
  <2>0. outbox[d] \in OutboxRow /\ outbox'[d] \in OutboxRow
    BY <1>1 DEF OutboxTypeOK
  <2>1. CASE requests'[d] = requests[d] /\ outbox[d].status = "absent"
    BY <1>1, <1>2, <2>1 DEF NothingIsLost
  <2>2. ASSUME NEW p \in Dispatcher, Delete(p), d = dispatchers[p].now
        PROVE  d \in accepted'
    BY <1>1, <2>2 DEF Delete, OutboxInv
  <2>3. ASSUME NEW p \in Dispatcher, Delete(p), d # dispatchers[p].now
        PROVE  outbox'[d] = outbox[d] /\ requests' = requests
    BY <2>3 DEF Delete, NoCount, OutboxTypeOK
  <2>4. ASSUME NEW p \in Dispatcher, RecordFailure(p) \/ WriteBack(p)
        PROVE  requests' = requests /\ outbox[d].status = "absent"
    <3>1. /\ requests' = requests
          /\ LET row == outbox[dispatchers[p].now]
             IN  outbox' \in {outbox,
                   [outbox EXCEPT ![dispatchers[p].now] = DeadRow(row)],
                   [outbox EXCEPT ![dispatchers[p].now] = BackoffRow(row)],
                   [outbox EXCEPT ![dispatchers[p].now] =
                      [row EXCEPT !.locked = FALSE, !.due = TRUE]]}
      BY <2>4 DEF RecordFailure, WriteBack, Updated, NoCount
    <3>2. \/ outbox'[d] = outbox[d]
          \/ outbox'[d] \in {DeadRow(outbox[d]), BackoffRow(outbox[d]),
                             [outbox[d] EXCEPT !.locked = FALSE, !.due = TRUE]}
      BY <3>1 DEF OutboxTypeOK
    <3>4. /\ DeadRow(outbox[d]).status = "dead"
          /\ BackoffRow(outbox[d]).status = outbox[d].status
      BY <2>0, RowWrites
    <3>5. [outbox[d] EXCEPT !.locked = FALSE, !.due = TRUE].status = outbox[d].status
      BY <2>0, RowFreed
    <3>3. outbox'[d].status \in {outbox[d].status, "dead"}
      BY <3>2, <3>4, <3>5
    <3> QED
      BY <1>2, <3>1, <3>3
  <2>5. ASSUME NEW p \in Dispatcher, Claim(p)
        PROVE  requests' = requests /\ outbox[d].status = "absent"
    <3>1. outbox'[d] \in {outbox[d], ClaimedRow(outbox[d])} /\ requests' = requests
      BY <2>5 DEF Claim, NoCount
    <3> QED
      BY <1>2, <2>0, <3>1, RowWrites
  <2>6. ASSUME NEW e \in Delivery, EnqueueDelivery(e) \/ Redrive(e)
        PROVE  requests'[d] = requests[d] /\ outbox[d].status = "absent"
    <3>1. d # e
      BY <1>2, <2>0, <2>6, RowWrites DEF EnqueueDelivery, Redrive, OutboxTypeOK
    <3> QED
      BY <1>2, <2>6, <3>1 DEF EnqueueDelivery, Redrive, OutboxTypeOK
  <2>7. ASSUME NEW e \in Delivery, BecomesDue(e) \/ LockLapses(e)
        PROVE  requests' = requests /\ outbox[d].status = "absent"
    <3>1. /\ requests' = requests
          /\ outbox'[d] \in {outbox[d], [outbox[d] EXCEPT !.due = TRUE],
                             [outbox[d] EXCEPT !.locked = FALSE]}
      BY <2>7 DEF BecomesDue, LockLapses, NoCount, OutboxTypeOK
    <3> QED
      BY <1>2, <2>0, <3>1, RowRipe, RowFreed
  <2>8. CASE requests' = requests /\ outbox' = outbox
    BY <1>2, <2>1, <2>8
  <2> QED
    BY <1>2, <2>1, <2>2, <2>3, <2>4, <2>5, <2>6, <2>7, <2>8
      DEF OutboxNext, DispatcherStep, DispatcherDies, Send, Finished, Respond, NoCount, outboxVars
<1> QED
  BY <1>2 DEF NothingIsLost

\* What the invariant says of claims, locks and attempts.
LEMMA AccountsSuffice ==
  ASSUME OutboxTypeOK, OutboxInv
  PROVE  ClaimsAreExclusive /\ LocksAreHeld /\ AttemptsArePaidFor
<1>1. \A d \in Delivery : Account(d)
  BY DEF OutboxInv, Account
<1>2. ClaimsAreExclusive
  <2> SUFFICES ASSUME NEW d \in Delivery, NEW p \in Dispatcher, NEW q \in Dispatcher,
                      p # q, HasRow(p, d), HasRow(q, d), ~(lockLapses[d] + failures[d] > 0)
               PROVE  FALSE
    BY DEF ClaimsAreExclusive
  <2>1. p \in Holders(d) /\ q \in Holders(d) /\ Taken(d) = 0
    BY HolderFacts DEF Holders, Taken, OutboxTypeOK
  <2> QED
    BY <1>1, <2>1, Alone
<1>3. LocksAreHeld
  <2> SUFFICES ASSUME NEW d \in Delivery, Taken(d) = 0
               PROVE  /\ outbox[d].locked /\ ~AtWork(d) => crashes[d] > 0
                      /\ AtWork(d) => outbox[d].locked
    BY DEF LocksAreHeld, Taken
  <2>1. outbox[d].locked /\ ~AtWork(d) => crashes[d] > 0
    BY <1>1, HolderFacts DEF Account, PaidFor
  <2> QED
    BY <1>1, <2>1, HolderFacts, Alone
<1>4. AttemptsArePaidFor
  <2> SUFFICES ASSUME NEW d \in Delivery
               PROVE  outbox[d].attempts
                        <= MaxSendAttempts + lockLapses[d] + failures[d] + crashes[d]
    BY DEF AttemptsArePaidFor
  <2>1. outbox[d].attempts <= MaxSendAttempts + Taken(d) + crashes[d]
    BY <1>1 DEF Account, PaidFor
  <2> QED
    BY <2>1, OutboxAssumption DEF Taken, OutboxTypeOK
<1> QED
  BY <1>2, <1>3, <1>4

\* However many dispatchers claim, die, are overtaken or write over each other: no delivery
\* is lost, none is in two hands that was not taken from the first, none stays locked that
\* nobody died with, and each attempt beyond the limit is paid for.
THEOREM OutboxIsSafe == OutboxSpec => []OutboxSafety
<1>1. OutboxInit => OutboxTypeOK /\ OutboxInv /\ NothingIsLost
  <2>1. OutboxInit => OutboxTypeOK
    BY RowWrites, IdleState, OutboxAssumption DEF OutboxInit, OutboxTypeOK, OutboxRow, AbsentRow
  <2>2. OutboxInit => NothingIsLost
    BY DEF OutboxInit, NothingIsLost
  <2> QED
    BY <2>1, <2>2, InitOutboxInv
<1>2. OutboxTypeOK /\ OutboxInv /\ NothingIsLost /\ [OutboxNext]_outboxVars
        => (OutboxTypeOK /\ OutboxInv /\ NothingIsLost)'
  BY NextTypes, NextOutboxInv, NextLosesNothing
<1>3. OutboxTypeOK /\ OutboxInv /\ NothingIsLost => OutboxSafety
  BY AccountsSuffice DEF OutboxSafety
<1> QED
  BY <1>1, <1>2, <1>3, PTL DEF OutboxSpec

-----------------------------------------------------------------------------
(* Dead letters *)

\* The attempts that a dispatcher tests are those of the row, unless the row was taken.
THEOREM DeadLettersAreCounted == OutboxSpec => DeadLettersAreEarned
<1>1. ASSUME OutboxTypeOK, OutboxInv, [OutboxNext]_outboxVars,
             NEW d \in Delivery, outbox[d].status = "pending", outbox'[d].status = "dead"
      PROVE  outbox[d].attempts >= MaxSendAttempts \/ lockLapses[d] + failures[d] > 0
  <2>0. outbox[d] \in OutboxRow
    BY <1>1 DEF OutboxTypeOK
  <2>1. ASSUME NEW p \in Dispatcher, WriteBack(p)
        PROVE  outbox[d].attempts >= MaxSendAttempts \/ lockLapses[d] + failures[d] > 0
    <3>1. d = dispatchers[p].now
      BY <1>1, <2>0, <2>1 DEF WriteBack, Updated, OutboxTypeOK
    <3>2. Exhausted(p, d)
      <4>1. BackoffRow(outbox[d]).status = "pending"
        BY <1>1, <2>0, RowWrites
      <4> QED
        BY <1>1, <2>1, <3>1, <4>1 DEF WriteBack, Updated, OutboxTypeOK
    <3>3. Taken(d) = 0 => dispatchers[p].attempts[d] = outbox[d].attempts
      BY <1>1, <3>1 DEF OutboxInv, Holders, HasRow
    <3>4. Taken(d) = 0 \/ lockLapses[d] + failures[d] > 0
      BY <1>1 DEF Taken, OutboxTypeOK
    <3> QED
      BY <3>2, <3>3, <3>4 DEF Exhausted
  <2>2. ASSUME NEW p \in Dispatcher, RecordFailure(p)
        PROVE  FALSE
    <3>1. [outbox[d] EXCEPT !.locked = FALSE, !.due = TRUE].status = outbox[d].status
      BY <2>0, RowFreed
    <3>2. \/ outbox'[d] = outbox[d]
          \/ outbox'[d] = [outbox[d] EXCEPT !.locked = FALSE, !.due = TRUE]
      BY <1>1, <2>2 DEF RecordFailure, Updated, OutboxTypeOK
    <3> QED
      BY <1>1, <3>1, <3>2
  <2>3. ASSUME NEW p \in Dispatcher, Claim(p) \/ Delete(p)
        PROVE  FALSE
    <3>1. outbox'[d] \in {outbox[d], ClaimedRow(outbox[d]), AbsentRow}
      BY <1>1, <2>3 DEF Claim, Delete, OutboxTypeOK
    <3> QED
      BY <1>1, <2>0, <3>1, RowWrites
  <2>4. ASSUME NEW e \in Delivery, EnqueueDelivery(e) \/ Redrive(e) \/ BecomesDue(e) \/ LockLapses(e)
        PROVE  FALSE
    <3>1. outbox'[d] \in {outbox[d], FreshRow, [outbox[d] EXCEPT !.due = TRUE],
                          [outbox[d] EXCEPT !.locked = FALSE]}
      BY <1>1, <2>4 DEF EnqueueDelivery, Redrive, BecomesDue, LockLapses, OutboxTypeOK
    <3>2. /\ FreshRow.status # "dead"
          /\ [outbox[d] EXCEPT !.due = TRUE].status = outbox[d].status
          /\ [outbox[d] EXCEPT !.locked = FALSE].status = outbox[d].status
      BY <2>0, RowWrites, RowRipe, RowFreed
    <3> QED
      BY <1>1, <3>1, <3>2
  <2>5. CASE outbox' = outbox
    BY <1>1, <2>5
  <2> QED
    BY <1>1, <2>1, <2>2, <2>3, <2>4, <2>5
      DEF OutboxNext, DispatcherStep, DispatcherDies, Send, Finished, Respond, outboxVars
<1>2. OutboxTypeOK /\ OutboxInv /\ [OutboxNext]_outboxVars
        => [\A d \in Delivery :
              outbox[d].status = "pending" /\ outbox'[d].status = "dead"
                => outbox[d].attempts >= MaxSendAttempts \/ lockLapses[d] + failures[d] > 0]_outboxVars
  BY <1>1
<1>3. OutboxInit => OutboxTypeOK /\ OutboxInv
  BY InitOutboxInv, RowWrites, IdleState, OutboxAssumption
    DEF OutboxInit, OutboxTypeOK, OutboxRow, AbsentRow
<1>4. OutboxTypeOK /\ OutboxInv /\ [OutboxNext]_outboxVars => (OutboxTypeOK /\ OutboxInv)'
  BY NextTypes, NextOutboxInv
<1> QED
  BY <1>2, <1>3, <1>4, PTL DEF OutboxSpec, DeadLettersAreEarned

-----------------------------------------------------------------------------
(* Live events: types *)

\* The numbers of the changes are natural numbers, and sets of changes are finite.
LEMMA NumbersAreNat ==
  ASSUME LiveTypeOK
  PROVE  /\ \A c \in Change : numbers[c] \in Nat
         /\ \A S \in SUBSET Change : IsFiniteSet(S) /\ Cardinality(S) \in Nat
<1>1. \A c \in Change : numbers[c] \in 0..Cardinality(Change)
  BY DEF LiveTypeOK
<1>2. IsFiniteSet(Change) /\ Cardinality(Change) \in Nat
  BY LiveAssumption, FS_CardinalityType
<1>3. ASSUME NEW S \in SUBSET Change
      PROVE  IsFiniteSet(S) /\ Cardinality(S) \in Nat
  BY <1>2, FS_Subset, FS_CardinalityType
<1> QED
  BY <1>1, <1>2, <1>3

\* Of some events, one has the lowest number.
LEMMA OneIsFirst ==
  ASSUME LiveTypeOK, NEW S \in SUBSET Change, S # {}
  PROVE  \E c \in S : \A d \in S : numbers[c] <= numbers[d]
<1> DEFINE Below(c) == {d \in S : numbers[d] < numbers[c]}
           Sets == {Below(c) : c \in S}
<1>1. Sets # {} /\ Sets \subseteq FiniteSubsetsOf(S)
  <2>1. \A T \in SUBSET S : IsFiniteSet(T)
    BY NumbersAreNat
  <2> QED
    BY <2>1 DEF FiniteSubsetsOf
<1>2. PICK x \in Sets : \A y \in Sets : <<y, x>> \notin StrictSubsetOrdering(S)
  <2>1. IsFiniteSet(S)
    BY NumbersAreNat
  <2> HIDE DEF Sets
  <2> QED
    BY <2>1, <1>1, FS_StrictSubsetOrderingWellFounded, WFMin
<1>3. PICK c \in S : x = Below(c)
  BY <1>2
<1>4. ASSUME NEW d \in S, numbers[d] < numbers[c]
      PROVE  FALSE
  <2>1. numbers[c] \in Nat /\ numbers[d] \in Nat /\ \A e \in S : numbers[e] \in Nat
    BY NumbersAreNat
  <2>2. Below(d) \subseteq Below(c) /\ d \in Below(c) /\ d \notin Below(d)
    BY <1>4, <2>1
  <2>3. <<Below(d), Below(c)>> \notin StrictSubsetOrdering(S)
    BY <1>2, <1>3
  <2>4. Below(d) \in SUBSET S /\ Below(c) \in SUBSET S
    OBVIOUS
  <2> HIDE DEF Below
  <2> QED
    BY <2>2, <2>3, <2>4 DEF StrictSubsetOrdering
<1>5. \A e \in S : numbers[e] \in Nat
  BY NumbersAreNat
<1> QED
  BY <1>4, <1>5

\* A replay that is behind an event writes something.
LEMMA PageIsNotEmpty ==
  ASSUME LiveTypeOK, NumbersInv, NEW cursor \in Change \cup {NoChange},
         NEW c \in liveEvents, After(cursor) < numbers[c]
  PROVE  RowsAfter(cursor) # {}
<1> DEFINE Later == {d \in liveEvents : After(cursor) < numbers[d]}
<1>1. PICK first \in Later : \A d \in Later : numbers[first] <= numbers[d]
  <2>1. Later \in SUBSET Change /\ Later # {}
    BY DEF LiveTypeOK
  <2> HIDE DEF Later
  <2> QED
    BY <2>1, OneIsFirst
<1>2. UpTo(cursor, first) = {first}
  <2>1. /\ first \in Change /\ liveEvents \subseteq Change
        /\ \A d \in liveEvents : numbers[d] \in Nat /\ numbers[d] # 0
        /\ \A d \in Change : numbers[first] = numbers[d] => first = d \/ numbers[first] = 0
    BY NumbersAreNat DEF LiveTypeOK, NumbersInv
  <2>2. UpTo(cursor, first) = {d \in Later : numbers[d] <= numbers[first]}
    BY DEF UpTo
  <2> QED
    BY <1>1, <2>1, <2>2
<1>3. Cardinality({first}) = 1
  BY FS_Singleton
<1>4. 1 <= ReplayLimit
  BY LiveAssumption
<1> QED
  BY <1>1, <1>2, <1>3, <1>4 DEF RowsAfter

LEMMA WhatIsWritten ==
  ASSUME LiveTypeOK, NEW events \in SUBSET liveEvents, WriteEvents(events)
  PROVE  /\ wire' \in Seq(stream.seen \cup events \cup {"open"})
         /\ Len(wire) <= Len(wire')
         /\ \A i \in 1..Len(wire) : wire'[i] = wire[i]
         /\ \A i \in DOMAIN wire' : i > Len(wire) => wire'[i] \in events \ stream.seen
         /\ \A i, j \in DOMAIN wire' : Len(wire) < i /\ i < j => wire'[i] # wire'[j]
         /\ events \ stream.seen # {} => Len(wire) < Len(wire')
<1> DEFINE new == events \ stream.seen
<1>1. PICK q \in InOrder(new) : wire' = wire \o q
  BY DEF WriteEvents, Unseen
<1>2. /\ IsFiniteSet(new) /\ Cardinality(new) \in Nat /\ (new # {} => Cardinality(new) # 0)
      /\ \A c \in new : numbers[c] \in Nat
  <2>1. new \in SUBSET Change
    BY DEF LiveTypeOK
  <2> HIDE DEF new
  <2> QED
    BY <2>1, NumbersAreNat, FS_EmptySet
<1> HIDE DEF new
<1>3. q \in [1..Cardinality(new) -> new] /\ \A i, j \in DOMAIN q : i < j => numbers[q[i]] < numbers[q[j]]
  BY DEF InOrder
<1>4. /\ q \in Seq(new) /\ Len(q) = Cardinality(new)
      /\ \A i, j \in 1..Len(q) : i < j => q[i] # q[j]
  BY <1>2, <1>3
<1>5. wire \in Seq(stream.seen \cup {"open"})
  BY DEF LiveTypeOK
<1>6. /\ Len(wire') = Len(wire) + Len(q) /\ Len(wire) \in Nat /\ Len(q) \in Nat
      /\ DOMAIN wire' = 1..Len(wire')
      /\ \A i \in 1..Len(wire) : wire'[i] = wire[i]
      /\ \A i \in 1..Len(wire') : i > Len(wire) => i - Len(wire) \in 1..Len(q) /\ wire'[i] = q[i - Len(wire)]
  <2>1. ASSUME NEW T, NEW p \in Seq(T), NEW s \in Seq(T)
        PROVE  /\ Len(p \o s) = Len(p) + Len(s) /\ Len(p) \in Nat /\ Len(s) \in Nat
               /\ DOMAIN (p \o s) = 1..Len(p \o s)
               /\ \A i \in 1..Len(p) : (p \o s)[i] = p[i]
               /\ \A i \in 1..Len(p \o s) :
                    i > Len(p) => i - Len(p) \in 1..Len(s) /\ (p \o s)[i] = s[i - Len(p)]
    OBVIOUS
  <2>2. wire \in Seq(stream.seen \cup new \cup {"open"}) /\ q \in Seq(stream.seen \cup new \cup {"open"})
    BY <1>4, <1>5
  <2> QED
    BY ONLY <1>1, <2>1, <2>2
<1>7. wire' \in Seq(stream.seen \cup events \cup {"open"})
  <2>1. wire \in Seq(stream.seen \cup events \cup {"open"}) /\ q \in Seq(stream.seen \cup events \cup {"open"})
    BY <1>4, <1>5 DEF new
  <2> QED
    BY <1>1, <2>1
<1>8. \A i \in DOMAIN wire' : i > Len(wire) => wire'[i] \in new
  BY <1>4, <1>6
<1>9. ASSUME NEW i \in DOMAIN wire', NEW j \in DOMAIN wire', Len(wire) < i, i < j
      PROVE  wire'[i] # wire'[j]
  <2>1. i - Len(wire) < j - Len(wire) /\ j > Len(wire)
    BY <1>6, <1>9
  <2> QED
    BY <1>4, <1>6, <1>9, <2>1
<1>10. new # {} => Len(wire) < Len(wire')
  BY <1>2, <1>4, <1>6
<1>11. Len(wire) <= Len(wire')
  BY <1>6
<1> QED
  BY <1>6, <1>7, <1>8, <1>9, <1>10, <1>11 DEF new

\* And it keeps an event from being written twice.
LEMMA WritingKeepsTheWire ==
  ASSUME LiveTypeOK, NEW events \in SUBSET liveEvents, WriteEvents(events),
         stream'.seen = stream.seen \cup events
  PROVE  /\ wire' \in Seq(stream'.seen \cup {"open"})
         /\ \A i \in DOMAIN wire' :
              /\ wire'[i] = "open" => i = 1
              /\ \A j \in DOMAIN wire' : i # j => wire'[i] # wire'[j]
<1>1. /\ Len(wire) \in Nat /\ Len(wire') \in Nat /\ Len(wire) <= Len(wire')
      /\ DOMAIN wire = 1..Len(wire) /\ DOMAIN wire' = 1..Len(wire')
      /\ wire' \in Seq(stream'.seen \cup {"open"})
  <2>1. wire' \in Seq(stream'.seen \cup {"open"}) /\ Len(wire) <= Len(wire')
    BY WhatIsWritten
  <2>2. wire \in Seq(stream.seen \cup {"open"})
    BY DEF LiveTypeOK
  <2> QED
    BY <2>1, <2>2
<1>2. /\ \A i \in 1..Len(wire) : wire'[i] = wire[i]
      /\ \A i \in DOMAIN wire' : i > Len(wire) => wire'[i] \in events \ stream.seen
      /\ \A i, j \in DOMAIN wire' : Len(wire) < i /\ i < j => wire'[i] # wire'[j]
  BY WhatIsWritten
<1>3. /\ \A i \in 1..Len(wire) : wire[i] \in stream.seen \cup {"open"}
      /\ \A i \in 1..Len(wire) : wire[i] = "open" => i = 1
      /\ \A i, j \in 1..Len(wire) : i # j => wire[i] # wire[j]
      /\ "open" \notin events
  <2>1. wire \in Seq(stream.seen \cup {"open"}) /\ events \subseteq Change
    BY DEF LiveTypeOK
  <2>2. \A i \in 1..Len(wire) : wire[i] \in stream.seen \cup {"open"}
    BY <2>1
  <2>3. /\ \A i \in 1..Len(wire) : wire[i] = "open" => i = 1
        /\ \A i, j \in 1..Len(wire) : i # j => wire[i] # wire[j]
    BY <1>1 DEF LiveTypeOK
  <2>4. "open" \notin events
    BY <2>1, LiveAssumption
  <2> QED
    BY <2>2, <2>3, <2>4
<1>4. ASSUME NEW i \in DOMAIN wire'
      PROVE  /\ wire'[i] = "open" => i = 1
             /\ \A j \in DOMAIN wire' : i < j => wire'[i] # wire'[j]
  <2>1. i \in 1..Len(wire) \/ i > Len(wire)
    BY <1>1
  <2>2. wire'[i] = "open" => i = 1
    BY <1>2, <1>3, <2>1
  <2>3. ASSUME NEW j \in DOMAIN wire', i < j
        PROVE  wire'[i] # wire'[j]
    <3>1. j \in 1..Len(wire) \/ j > Len(wire)
      BY <1>1
    <3>2. CASE i > Len(wire)
      BY <1>2, <2>3, <3>2
    <3>3. CASE i \in 1..Len(wire) /\ j > Len(wire)
      BY <1>2, <1>3, <3>3
    <3>4. CASE i \in 1..Len(wire) /\ j \in 1..Len(wire)
      BY <1>1, <1>2, <1>3, <2>3, <3>4
    <3> QED
      BY <2>1, <3>1, <3>2, <3>3, <3>4
  <2> QED
    BY <2>2, <2>3
<1>5. ASSUME NEW i \in DOMAIN wire', NEW j \in DOMAIN wire', i # j
      PROVE  wire'[i] # wire'[j]
  <2>1. i < j \/ j < i
    BY <1>1, <1>5
  <2> QED
    BY <1>4, <2>1
<1> QED
  BY <1>1, <1>4, <1>5

\* What a step does to the record of the connection.
LEMMA StreamWrites ==
  ASSUME LiveTypeOK
  PROVE  LET Stream == [pc : {"closed", "open", "subscribed", "replaying", "live"},
                        after : Change \cup {NoChange},
                        seen : SUBSET liveEvents, rows : SUBSET liveEvents]
         IN  /\ ClosedStream \in Stream
             /\ ClosedStream.pc = "closed" /\ ClosedStream.seen = {}
             /\ \A after \in Change \cup {NoChange} :
                  LET s == [ClosedStream EXCEPT !.pc = "open", !.after = after]
                  IN  s \in Stream /\ s.pc = "open" /\ s.after = after /\ s.seen = {}
             /\ LET s == [stream EXCEPT !.pc = "subscribed"]
                IN  /\ s \in Stream /\ s.pc = "subscribed" /\ s.after = stream.after
                    /\ s.seen = stream.seen /\ s.rows = stream.rows
             /\ \A rows \in SUBSET liveEvents :
                  LET s == [stream EXCEPT !.pc = "replaying", !.rows = rows]
                  IN  /\ s \in Stream /\ s.pc = "replaying" /\ s.after = stream.after
                      /\ s.seen = stream.seen /\ s.rows = rows
             /\ LET s == [stream EXCEPT !.pc = "live", !.rows = {}]
                IN  /\ s \in Stream /\ s.pc = "live" /\ s.after = stream.after
                    /\ s.seen = stream.seen /\ s.rows = {}
             /\ \A c \in liveEvents :
                  LET s == [stream EXCEPT !.seen = @ \cup {c}]
                  IN  /\ s \in Stream /\ s.pc = stream.pc /\ s.after = stream.after
                      /\ s.seen = stream.seen \cup {c} /\ s.rows = stream.rows
             /\ LET s == [stream EXCEPT !.pc = "live", !.seen = @ \cup stream.rows, !.rows = {}]
                IN  /\ s \in Stream /\ s.pc = "live" /\ s.after = stream.after
                    /\ s.seen = stream.seen \cup stream.rows /\ s.rows = {}
<1>1. stream \in [pc : {"closed", "open", "subscribed", "replaying", "live"},
                  after : Change \cup {NoChange},
                  seen : SUBSET liveEvents, rows : SUBSET liveEvents]
  BY DEF LiveTypeOK
<1> QED
  BY <1>1 DEF ClosedStream

\* The next number is above all that were given, and within the type.
LEMMA NextNumber ==
  ASSUME LiveTypeOK, NumbersInv, NEW c \in Change, numbers[c] = 0,
         numbers' = [numbers EXCEPT ![c] = Cardinality({d \in Change : numbers[d] # 0}) + 1]
  PROVE  /\ numbers' \in [Change -> 0..Cardinality(Change)]
         /\ numbers'[c] # 0
         /\ \A d \in Change : d # c => numbers'[d] = numbers[d] /\ numbers[d] < numbers'[c]
         /\ \A d \in Change : numbers'[d] <= Cardinality({e \in Change : numbers'[e] # 0})
<1> DEFINE Numbered == {d \in Change : numbers[d] # 0}
<1>1. /\ IsFiniteSet(Numbered) /\ Cardinality(Numbered) \in Nat
      /\ IsFiniteSet(Change) /\ Cardinality(Change) \in Nat
      /\ \A d \in Change : numbers[d] \in Nat
  <2>1. Numbered \in SUBSET Change /\ Change \in SUBSET Change
    OBVIOUS
  <2> HIDE DEF Numbered
  <2> QED
    BY <2>1, NumbersAreNat
<1>2. c \notin Numbered /\ Numbered \cup {c} \in SUBSET Change
  OBVIOUS
<1>3. \A d \in Change : numbers[d] <= Cardinality(Numbered)
  BY DEF NumbersInv
<1>4. numbers \in [Change -> 0..Cardinality(Change)]
  BY DEF LiveTypeOK
<1>5. numbers' = [numbers EXCEPT ![c] = Cardinality(Numbered) + 1]
  OBVIOUS
<1>6. {e \in Change : numbers'[e] # 0} = Numbered \cup {c}
  BY <1>1, <1>4, <1>5
<1> HIDE DEF Numbered
<1>7. Cardinality(Numbered \cup {c}) = Cardinality(Numbered) + 1
  BY <1>1, <1>2, FS_AddElement
<1>8. Cardinality(Numbered \cup {c}) <= Cardinality(Change)
  BY <1>1, <1>2, FS_Subset
<1>9. numbers' \in [Change -> 0..Cardinality(Change)]
  BY <1>1, <1>4, <1>5, <1>7, <1>8
<1>10. /\ numbers'[c] = Cardinality(Numbered) + 1
       /\ \A d \in Change : d # c => numbers'[d] = numbers[d] /\ numbers[d] < numbers'[c]
  <2>1. numbers'[c] = Cardinality(Numbered) + 1 /\ \A d \in Change : d # c => numbers'[d] = numbers[d]
    BY <1>4, <1>5
  <2>2. \A d \in Change : numbers[d] < Cardinality(Numbered) + 1
    BY <1>1, <1>3
  <2> QED
    BY <2>1, <2>2
<1>11. \A d \in Change : numbers'[d] <= Cardinality(Numbered) + 1
  BY <1>1, <1>3, <1>10
<1> QED
  BY <1>1, <1>6, <1>7, <1>9, <1>10, <1>11

PublisherStep(c) == Mutate(c) \/ Number(c) \/ StoreEvent(c) \/ Notify(c) \/ PublishFails(c)

StreamStep ==
  \/ Deliver \/ LoseNotices
  \/ Connect \/ Subscribe \/ ReplaySelect \/ ReplayWrite \/ ReplayFails \/ Disconnect

LEMMA PublisherTypes ==
  ASSUME LiveTypeOK, NumbersInv, NEW c \in Change, PublisherStep(c)
  PROVE  LiveTypeOK'
<1>1. /\ publishers' \in [Change -> {"todo", "changed", "numbered", "stored", "done"}]
      /\ applied' \subseteq Change /\ liveEvents' \subseteq Change /\ excused' \in BOOLEAN
      /\ liveEvents \subseteq liveEvents'
  BY DEF PublisherStep, Mutate, Number, StoreEvent, Notify, PublishFails, PublisherAt, Notifiable,
         LiveTypeOK
<1>2. /\ stream' = stream /\ wire' = wire /\ client' = client
      /\ fetches' = fetches /\ projection' = projection
  BY DEF PublisherStep, Mutate, Number, StoreEvent, Notify, PublishFails, NoClient
<1>3. numbers' \in [Change -> 0..Cardinality(Change)]
  <2>1. CASE Number(c)
    <3>1. numbers[c] = 0
      BY <2>1 DEF Number, PublisherAt, NumbersInv
    <3> QED
      BY <2>1, <3>1, NextNumber DEF Number
  <2>2. CASE numbers' = numbers
    BY <2>2 DEF LiveTypeOK
  <2> QED
    BY <2>1, <2>2 DEF PublisherStep, Mutate, StoreEvent, Notify, PublishFails
<1>4. notices' \in Seq(liveEvents')
  <2>1. notices \in Seq(liveEvents')
    BY <1>1 DEF LiveTypeOK
  <2>2. CASE Notify(c)
    <3>1. c \in liveEvents'
      BY <1>1, <2>2 DEF Notify, Notifiable, PublisherAt, NumbersInv
    <3> QED
      BY <2>1, <2>2, <3>1 DEF Notify
  <2>3. CASE notices' = notices
    BY <2>1, <2>3
  <2> QED
    BY <2>2, <2>3 DEF PublisherStep, Mutate, Number, StoreEvent, PublishFails
<1>5. stream' \in [pc : {"closed", "open", "subscribed", "replaying", "live"},
                   after : Change \cup {NoChange},
                   seen : SUBSET liveEvents', rows : SUBSET liveEvents']
  BY <1>1, <1>2 DEF LiveTypeOK
<1> QED
  BY <1>1, <1>2, <1>3, <1>4, <1>5 DEF LiveTypeOK

LEMMA StreamTypes ==
  ASSUME LiveTypeOK, StreamStep
  PROVE  LiveTypeOK'
<1> DEFINE Stream == [pc : {"closed", "open", "subscribed", "replaying", "live"},
                      after : Change \cup {NoChange},
                      seen : SUBSET liveEvents, rows : SUBSET liveEvents]
           Written == /\ wire' \in Seq(stream'.seen \cup {"open"})
                      /\ \A i \in DOMAIN wire' :
                           /\ wire'[i] = "open" => i = 1
                           /\ \A j \in DOMAIN wire' : i # j => wire'[i] # wire'[j]
<1>1. UNCHANGED <<applied, publishers, numbers, liveEvents, fetches, projection>>
  BY DEF StreamStep, Deliver, LoseNotices, Connect, Subscribe, ReplaySelect, ReplayWrite,
         ReplayFails, Disconnect, NoServer, NoClient
<1>2. /\ notices' \in Seq(liveEvents) /\ excused' \in BOOLEAN
      /\ client' \in [recovering : BOOLEAN, last : Change \cup {NoChange}]
  <2>1. CASE Deliver \/ LoseNotices
    <3>1. notices' \in Seq(liveEvents)
      <4>1. notices \in Seq(liveEvents)
        BY DEF LiveTypeOK
      <4>2. (notices' = Tail(notices) /\ notices # <<>>) \/ notices' = <<>>
        BY <2>1 DEF Deliver, LoseNotices
      <4>3. ASSUME NEW S, NEW q \in Seq(S)
            PROVE  <<>> \in Seq(S) /\ (q # <<>> => Tail(q) \in Seq(S) /\ Head(q) \in S)
        OBVIOUS
      <4> QED
        BY <4>1, <4>2, <4>3
    <3> QED
      BY <2>1, <3>1 DEF Deliver, LoseNotices, NoClient, LiveTypeOK
  <2>2. CASE Disconnect
    BY <2>2 DEF Disconnect, LiveTypeOK
  <2>3. CASE Connect \/ Subscribe \/ ReplaySelect \/ ReplayWrite \/ ReplayFails
    BY <2>3 DEF Connect, Subscribe, ReplaySelect, ReplayWrite, ReplayFails, NoClient, LiveTypeOK
  <2> QED
    BY <2>1, <2>2, <2>3 DEF StreamStep
<1>3. /\ stream \in Stream /\ stream.rows \in SUBSET liveEvents /\ RowsAfter(stream.after) \in SUBSET liveEvents
      /\ client.last \in Change \cup {NoChange}
  BY DEF LiveTypeOK, RowsAfter
<1>4. stream' \in Stream /\ Written
  <2>1. CASE Deliver /\ Listening
    <3>1. Head(notices) \in liveEvents
      BY <2>1 DEF Deliver, LiveTypeOK
    <3>2. stream' \in Stream /\ stream'.seen = stream.seen \cup {Head(notices)}
      <4>1. stream' = [stream EXCEPT !.seen = @ \cup {Head(notices)}]
        BY <2>1 DEF Deliver
      <4> QED
        BY <3>1, <4>1, StreamWrites
    <3> QED
      BY <2>1, <3>1, <3>2, WritingKeepsTheWire DEF Deliver
  <2>2. CASE stream' = stream /\ wire' = wire
    BY <2>2 DEF LiveTypeOK
  <2>3. CASE Connect
    <3>1. stream' \in Stream
      BY <1>3, <2>3, StreamWrites DEF Connect
    <3>2. wire' = <<"open">>
      BY <2>3 DEF Connect
    <3> QED
      BY <3>1, <3>2
  <2>4. CASE Subscribe \/ ReplaySelect \/ ReplayFails
    <3>1. stream' \in Stream /\ stream'.seen = stream.seen
      <4>1. CASE Subscribe
        BY <4>1, StreamWrites DEF Subscribe
      <4>2. CASE ReplaySelect
        <5>1. stream' = [stream EXCEPT !.pc = "replaying", !.rows = RowsAfter(stream.after)]
          BY <4>2 DEF ReplaySelect
        <5> QED
          BY <1>3, <5>1, StreamWrites
      <4>3. CASE ReplayFails
        BY <4>3, StreamWrites DEF ReplayFails
      <4> QED
        BY <2>4, <4>1, <4>2, <4>3
    <3>2. wire' = wire
      BY <2>4 DEF Subscribe, ReplaySelect, ReplayFails
    <3> QED
      BY <3>1, <3>2 DEF LiveTypeOK
  <2>5. CASE ReplayWrite
    <3>1. stream' \in Stream /\ stream'.seen = stream.seen \cup stream.rows
      BY <1>3, <2>5, StreamWrites DEF ReplayWrite
    <3> QED
      BY <1>3, <2>5, <3>1, WritingKeepsTheWire DEF ReplayWrite
  <2>6. CASE Disconnect
    <3>1. stream' \in Stream /\ wire' = <<>>
      BY <2>6, StreamWrites DEF Disconnect
    <3> QED
      BY <3>1
  <2> QED
    BY <2>1, <2>2, <2>3, <2>4, <2>5, <2>6 DEF StreamStep, Deliver, LoseNotices
<1> QED
  BY <1>1, <1>2, <1>4 DEF LiveTypeOK

ClientStep ==
  \/ Opened \/ Receive
  \/ \E f \in Fetch : FetchRead(f) \/ FetchShow(f) \/ FetchFails(f)

\* A step of the client changes no more than one fetch.
LEMMA FetchWrites ==
  ASSUME LiveTypeOK, FetchesInv, ClientStep
  PROVE  /\ fetches' \in [Fetch -> [pc : {"none", "sent", "read"}, read : SUBSET Change]]
         /\ \A f \in Fetch :
              /\ fetches'[f].read \subseteq applied
              /\ fetches'[f].pc # "read" => fetches'[f].read = {}
         /\ projection' \subseteq applied
<1> DEFINE Request == [pc : {"none", "sent", "read"}, read : SUBSET Change]
           Sound(r) == r.read \subseteq applied /\ (r.pc # "read" => r.read = {})
<1>1. /\ fetches \in [Fetch -> Request] /\ applied \subseteq Change /\ projection \subseteq applied
      /\ \A f \in Fetch : Sound(fetches[f])
  BY DEF LiveTypeOK, FetchesInv
<1>2. /\ NoFetch \in Request /\ Sound(NoFetch)
      /\ [NoFetch EXCEPT !.pc = "sent"] \in Request /\ Sound([NoFetch EXCEPT !.pc = "sent"])
      /\ [pc |-> "read", read |-> applied] \in Request /\ Sound([pc |-> "read", read |-> applied])
  BY <1>1 DEF NoFetch
<1>3. ASSUME NEW f \in Fetch, NEW r \in Request, Sound(r), fetches' = [fetches EXCEPT ![f] = r]
      PROVE  fetches' \in [Fetch -> Request] /\ \A g \in Fetch : Sound(fetches'[g])
  <2> HIDE DEF Request, Sound
  <2> QED
    BY <1>1, <1>3
<1>4. ASSUME StartFetch
      PROVE  fetches' \in [Fetch -> Request] /\ \A g \in Fetch : Sound(fetches'[g])
  <2>1. PICK f \in Fetch : fetches[f] = NoFetch /\ fetches' = [fetches EXCEPT ![f].pc = "sent"]
    BY <1>4 DEF StartFetch
  <2>2. fetches' = [fetches EXCEPT ![f] = [NoFetch EXCEPT !.pc = "sent"]]
    BY <1>1, <2>1
  <2> QED
    BY <1>2, <1>3, <2>2
<1>5. fetches' \in [Fetch -> Request] /\ \A g \in Fetch : Sound(fetches'[g])
  <2>1. CASE Opened \/ Receive
    BY <1>1, <1>4, <2>1 DEF Opened, Receive
  <2>2. ASSUME NEW f \in Fetch, FetchRead(f)
        PROVE  fetches' = [fetches EXCEPT ![f] = [pc |-> "read", read |-> applied]]
    BY <2>2 DEF FetchRead
  <2>3. ASSUME NEW f \in Fetch, FetchShow(f) \/ FetchFails(f)
        PROVE  fetches' = [fetches EXCEPT ![f] = NoFetch]
    BY <2>3 DEF FetchShow, FetchFails
  <2> HIDE DEF Request, Sound
  <2> QED
    BY <1>2, <1>3, <2>1, <2>2, <2>3 DEF ClientStep
<1>6. projection' \subseteq applied
  <2>1. ASSUME NEW f \in Fetch, FetchShow(f)
        PROVE  projection' \subseteq applied
    BY <1>1, <2>1 DEF FetchShow
  <2> QED
    BY <1>1, <2>1 DEF ClientStep, Opened, Receive, FetchRead, FetchFails
<1> QED
  BY <1>5, <1>6

\* What is received is the first of the wire.
LEMMA WireMoves ==
  ASSUME LiveTypeOK, wire # <<>>
  PROVE  /\ Head(wire) = wire[1] /\ Head(wire) \in stream.seen \cup {"open"}
         /\ Tail(wire) \in Seq(stream.seen \cup {"open"})
         /\ DOMAIN Tail(wire) = 1..Len(Tail(wire))
         /\ \A i \in DOMAIN Tail(wire) : i + 1 \in DOMAIN wire /\ Tail(wire)[i] = wire[i + 1]
         /\ \A i \in DOMAIN wire : i # 1 => i - 1 \in DOMAIN Tail(wire) /\ Tail(wire)[i - 1] = wire[i]
<1>1. ASSUME NEW S, NEW q \in Seq(S), q # <<>>
      PROVE  /\ Head(q) = q[1] /\ Head(q) \in S /\ Tail(q) \in Seq(S)
             /\ DOMAIN Tail(q) = 1..Len(Tail(q))
             /\ \A i \in DOMAIN Tail(q) : i + 1 \in DOMAIN q /\ Tail(q)[i] = q[i + 1]
             /\ \A i \in DOMAIN q : i # 1 => i - 1 \in DOMAIN Tail(q) /\ Tail(q)[i - 1] = q[i]
  BY <1>1
<1>2. wire \in Seq(stream.seen \cup {"open"})
  BY DEF LiveTypeOK
<1> QED
  BY <1>1, <1>2

LEMMA ClientTypes ==
  ASSUME LiveTypeOK, FetchesInv, ClientStep
  PROVE  LiveTypeOK'
<1>1. UNCHANGED <<applied, publishers, numbers, liveEvents, notices, stream>>
  BY DEF ClientStep, Opened, Receive, FetchRead, FetchShow, FetchFails, NoServer
<1>2. /\ fetches' \in [Fetch -> [pc : {"none", "sent", "read"}, read : SUBSET Change]]
      /\ projection' \subseteq Change
  BY FetchWrites DEF LiveTypeOK
<1>3. excused' \in BOOLEAN
  BY DEF ClientStep, Opened, Receive, FetchRead, FetchShow, FetchFails, StartFetch, LiveTypeOK
<1>4. client' \in [recovering : BOOLEAN, last : Change \cup {NoChange}]
  <2>1. CASE Receive
    <3>1. Head(wire) \in Change
      BY <2>1, WireMoves DEF Receive, LiveTypeOK
    <3> QED
      BY <2>1, <3>1 DEF Receive, LiveTypeOK
  <2>2. CASE Opened
    BY <2>2 DEF Opened, LiveTypeOK
  <2> QED
    BY <2>1, <2>2 DEF ClientStep, FetchRead, FetchShow, FetchFails, LiveTypeOK
<1>5. /\ wire' \in Seq(stream'.seen \cup {"open"})
      /\ \A i \in DOMAIN wire' :
           /\ wire'[i] = "open" => i = 1
           /\ \A j \in DOMAIN wire' : i # j => wire'[i] # wire'[j]
  <2>1. CASE wire' = wire
    BY <1>1, <2>1 DEF LiveTypeOK
  <2>2. CASE wire # <<>> /\ wire' = Tail(wire)
    <3>1. /\ wire' \in Seq(stream'.seen \cup {"open"})
          /\ \A i \in DOMAIN wire' : i \in Nat /\ i >= 1 /\ i + 1 \in DOMAIN wire /\ wire'[i] = wire[i + 1]
      BY <1>1, <2>2, WireMoves
    <3>2. \A i \in DOMAIN wire :
            /\ wire[i] = "open" => i = 1
            /\ \A j \in DOMAIN wire : i # j => wire[i] # wire[j]
      BY DEF LiveTypeOK
    <3> QED
      BY <3>1, <3>2
  <2> QED
    BY <2>1, <2>2 DEF ClientStep, Opened, Receive, FetchRead, FetchShow, FetchFails
<1> QED
  BY <1>1, <1>2, <1>3, <1>4, <1>5 DEF LiveTypeOK

LEMMA NextLiveTypes ==
  ASSUME LiveTypeOK, NumbersInv, FetchesInv, [LiveNext]_liveVars
  PROVE  LiveTypeOK'
<1>1. ASSUME NEW c \in Change, PublisherStep(c)
      PROVE  LiveTypeOK'
  BY <1>1, PublisherTypes
<1>2. CASE StreamStep
  BY <1>2, StreamTypes
<1>3. CASE ClientStep
  BY <1>3, ClientTypes
<1>4. CASE UNCHANGED liveVars
  BY <1>4 DEF liveVars, LiveTypeOK
<1> QED
  BY <1>1, <1>2, <1>3, <1>4 DEF LiveNext, PublisherStep, StreamStep, ClientStep

-----------------------------------------------------------------------------
(* Live events: the invariants *)

LEMMA NextNumbers ==
  ASSUME LiveTypeOK, NumbersInv, [LiveNext]_liveVars
  PROVE  NumbersInv'
<1>1. ASSUME UNCHANGED <<applied, publishers, numbers, liveEvents>>
      PROVE  NumbersInv'
  BY <1>1 DEF NumbersInv
<1>2. StreamStep \/ ClientStep \/ UNCHANGED liveVars => UNCHANGED <<applied, publishers, numbers, liveEvents>>
  BY DEF StreamStep, Deliver, LoseNotices, Connect, Subscribe, ReplaySelect, ReplayWrite,
         ReplayFails, Disconnect, ClientStep, Opened, Receive, FetchRead, FetchShow, FetchFails,
         NoServer, liveVars
<1>3. ASSUME NEW c \in Change, PublisherStep(c)
      PROVE  NumbersInv'
  <2>1. /\ publishers \in [Change -> {"todo", "changed", "numbered", "stored", "done"}]
        /\ applied = {d \in Change : publishers[d] # "todo"}
        /\ \A d \in Change : numbers[d] \in Nat
    BY NumbersAreNat DEF LiveTypeOK, NumbersInv
  <2>2. CASE Number(c)
    <3>1. numbers[c] = 0 /\ publishers[c] = "changed"
      BY <2>2 DEF Number, PublisherAt, NumbersInv
    <3>2. /\ numbers'[c] # 0
          /\ \A d \in Change : d # c => numbers'[d] = numbers[d] /\ numbers[d] < numbers'[c]
          /\ \A d \in Change : numbers'[d] <= Cardinality({e \in Change : numbers'[e] # 0})
      BY <2>2, <3>1, NextNumber DEF Number
    <3>3. /\ publishers' = [publishers EXCEPT ![c] = "numbered"]
          /\ applied' = applied /\ liveEvents' = liveEvents
      BY <2>2 DEF Number, PublisherAt
    <3>4. applied' = {d \in Change : publishers'[d] # "todo"}
      BY <2>1, <3>1, <3>3
    <3>5. \A d \in Change :
            /\ publishers'[d] \in {"todo", "changed"} => numbers'[d] = 0
            /\ publishers'[d] = "numbered" => numbers'[d] # 0
            /\ publishers'[d] = "stored" => d \in liveEvents'
            /\ d \in liveEvents' => numbers'[d] # 0
      BY <2>1, <3>1, <3>2, <3>3 DEF NumbersInv
    <3>6. \A d, e \in Change : numbers'[d] = numbers'[e] => d = e \/ numbers'[d] = 0
      <4>1. numbers'[c] \in Nat
        BY <2>2, <3>1, NextNumber DEF Number
      <4>2. \A d, e \in Change : numbers[d] = numbers[e] => d = e \/ numbers[d] = 0
        BY DEF NumbersInv
      <4>3. ASSUME NEW d \in Change, NEW e \in Change, numbers'[d] = numbers'[e], d # e
            PROVE  numbers'[d] = 0
        <5>1. CASE d # c /\ e # c
          BY <3>2, <4>2, <4>3, <5>1
        <5>2. CASE d = c
          BY <2>1, <3>2, <4>1, <4>3, <5>2
        <5>3. CASE e = c
          BY <2>1, <3>2, <4>1, <4>3, <5>3
        <5> QED
          BY <5>1, <5>2, <5>3
      <4> QED
        BY <4>3
    <3> QED
      BY <3>2, <3>4, <3>5, <3>6 DEF NumbersInv
  <2>3. CASE Mutate(c) \/ StoreEvent(c) \/ Notify(c) \/ PublishFails(c)
    <3>1. numbers' = numbers
      BY <2>3 DEF Mutate, StoreEvent, Notify, PublishFails
    <3>2. applied' = {d \in Change : publishers'[d] # "todo"}
      BY <2>1, <2>3 DEF Mutate, StoreEvent, Notify, PublishFails, PublisherAt, Notifiable
    <3>3. \A d \in Change :
            /\ publishers'[d] \in {"todo", "changed"} => numbers'[d] = 0
            /\ publishers'[d] = "numbered" => numbers'[d] # 0
            /\ publishers'[d] = "stored" => d \in liveEvents'
            /\ d \in liveEvents' => numbers'[d] # 0
      <4>1. \A d \in Change :
              /\ publishers[d] \in {"todo", "changed"} => numbers[d] = 0
              /\ publishers[d] = "numbered" => numbers[d] # 0
              /\ publishers[d] = "stored" => d \in liveEvents
              /\ d \in liveEvents => numbers[d] # 0
        BY DEF NumbersInv
      <4>2. CASE Mutate(c) \/ Notify(c) \/ PublishFails(c)
        <5>1. /\ liveEvents' = liveEvents
              /\ \A d \in Change : d # c => publishers'[d] = publishers[d]
              /\ publishers'[c] \notin {"numbered", "stored"} /\ (publishers'[c] = "changed" => publishers[c] = "todo")
              /\ publishers'[c] # "todo"
          BY <2>1, <4>2 DEF Mutate, Notify, PublishFails, PublisherAt, Notifiable
        <5> QED
          BY <3>1, <4>1, <5>1
      <4>3. CASE StoreEvent(c)
        <5>1. /\ liveEvents' = liveEvents \cup {c} /\ publishers[c] = "numbered"
              /\ \A d \in Change : d # c => publishers'[d] = publishers[d]
              /\ publishers'[c] = "stored"
          BY <2>1, <4>3 DEF StoreEvent, PublisherAt
        <5> QED
          BY <3>1, <4>1, <5>1
      <4> QED
        BY <2>3, <4>2, <4>3
    <3> QED
      BY <3>1, <3>2, <3>3 DEF NumbersInv
  <2> QED
    BY <1>3, <2>2, <2>3 DEF PublisherStep
<1> QED
  BY <1>1, <1>2, <1>3 DEF LiveNext, PublisherStep, StreamStep, ClientStep

LEMMA NextFetches ==
  ASSUME LiveTypeOK, FetchesInv, [LiveNext]_liveVars
  PROVE  FetchesInv'
<1>1. ASSUME NEW c \in Change, PublisherStep(c)
      PROVE  FetchesInv'
  <2>1. applied \subseteq applied' /\ fetches' = fetches /\ projection' = projection
    BY <1>1 DEF PublisherStep, Mutate, Number, StoreEvent, Notify, PublishFails, NoClient
  <2> QED
    BY <2>1 DEF FetchesInv
<1>2. CASE StreamStep \/ UNCHANGED liveVars
  <2>1. UNCHANGED <<applied, fetches, projection>>
    BY <1>2 DEF StreamStep, Deliver, LoseNotices, Connect, Subscribe, ReplaySelect, ReplayWrite,
           ReplayFails, Disconnect, NoServer, NoClient, liveVars
  <2> QED
    BY <2>1 DEF FetchesInv
<1>3. CASE ClientStep
  <2>1. applied' = applied
    BY <1>3 DEF ClientStep, Opened, Receive, FetchRead, FetchShow, FetchFails, NoServer
  <2> QED
    BY <1>3, <2>1, FetchWrites DEF FetchesInv
<1> QED
  BY <1>1, <1>2, <1>3 DEF LiveNext, PublisherStep, StreamStep, ClientStep

LEMMA NextCursor ==
  ASSUME LiveTypeOK, CursorIsFound, [LiveNext]_liveVars
  PROVE  CursorIsFound'
<1>1. CASE Receive
  <2>1. Head(wire) \in liveEvents
    BY <1>1, WireMoves DEF Receive, LiveTypeOK
  <2> QED
    BY <1>1, <2>1 DEF Receive, NoServer, CursorIsFound, LiveTypeOK
<1>2. ASSUME client'.last = client.last, liveEvents \subseteq liveEvents'
      PROVE  CursorIsFound'
  BY <1>2 DEF CursorIsFound
<1>3. ASSUME NEW c \in Change, PublisherStep(c)
      PROVE  client'.last = client.last /\ liveEvents \subseteq liveEvents'
  BY <1>3 DEF PublisherStep, Mutate, Number, StoreEvent, Notify, PublishFails, NoClient
<1>4. CASE StreamStep \/ UNCHANGED liveVars
  BY <1>2, <1>4 DEF StreamStep, Deliver, LoseNotices, Connect, Subscribe, ReplaySelect, ReplayWrite,
         ReplayFails, Disconnect, NoServer, NoClient, liveVars, LiveTypeOK
<1>5. CASE Opened
  BY <1>2, <1>5 DEF Opened, NoServer, LiveTypeOK
<1>6. ASSUME NEW f \in Fetch, FetchRead(f) \/ FetchShow(f) \/ FetchFails(f)
      PROVE  client'.last = client.last /\ liveEvents \subseteq liveEvents'
  BY <1>6 DEF FetchRead, FetchShow, FetchFails, NoServer
<1> QED
  BY <1>1, <1>2, <1>3, <1>4, <1>5, <1>6 DEF LiveNext, PublisherStep, StreamStep

\* What is written goes behind what is there.
LEMMA HeadStays ==
  ASSUME LiveTypeOK, NEW events \in SUBSET liveEvents, WriteEvents(events), wire # <<>>
  PROVE  wire' # <<>> /\ Head(wire') = Head(wire)
<1>1. /\ wire \in Seq(stream.seen \cup {"open"}) /\ wire' \in Seq(stream.seen \cup events \cup {"open"})
      /\ Len(wire) <= Len(wire') /\ \A i \in 1..Len(wire) : wire'[i] = wire[i]
  BY WhatIsWritten DEF LiveTypeOK
<1>2. ASSUME NEW S, NEW T, NEW p \in Seq(S), NEW q \in Seq(T), p # <<>>, Len(p) <= Len(q),
             \A i \in 1..Len(p) : q[i] = p[i]
      PROVE  q # <<>> /\ Head(q) = Head(p)
  <2>1. Len(p) >= 1 /\ Len(q) >= 1
    BY <1>2
  <2> QED
    BY <1>2, <2>1
<1> QED
  BY <1>1, <1>2

LEMMA NextStream ==
  ASSUME LiveTypeOK, StreamInv, [LiveNext]_liveVars
  PROVE  StreamInv'
<1>1. /\ stream.rows \in SUBSET liveEvents /\ RowsAfter(stream.after) \in SUBSET liveEvents
      /\ client.last \in Change \cup {NoChange} /\ wire \in Seq(stream.seen \cup {"open"})
  BY DEF LiveTypeOK, RowsAfter
<1>2. ASSUME UNCHANGED <<stream, wire, client>>
      PROVE  StreamInv'
  BY <1>2 DEF StreamInv
<1>3. ASSUME NEW c \in Change, PublisherStep(c)
      PROVE  UNCHANGED <<stream, wire, client>>
  BY <1>3 DEF PublisherStep, Mutate, Number, StoreEvent, Notify, PublishFails, NoClient
<1>4. ASSUME NEW f \in Fetch, FetchRead(f) \/ FetchShow(f) \/ FetchFails(f)
      PROVE  UNCHANGED <<stream, wire, client>>
  BY <1>4 DEF FetchRead, FetchShow, FetchFails
<1>5. CASE Deliver /\ Listening
  <2>1. Head(notices) \in liveEvents /\ UNCHANGED client
    BY <1>5 DEF Deliver, NoClient, LiveTypeOK
  <2>2. stream' = [stream EXCEPT !.seen = @ \cup {Head(notices)}] /\ WriteEvents({Head(notices)})
    BY <1>5 DEF Deliver
  <2>3. stream'.pc = stream.pc /\ stream'.seen # {}
    BY <2>1, <2>2, StreamWrites
  <2>4. wire # <<>> => wire' # <<>> /\ Head(wire') = Head(wire)
    BY <2>1, <2>2, HeadStays
  <2> QED
    BY <1>5, <2>1, <2>3, <2>4 DEF StreamInv, Listening
<1>6. CASE (Deliver /\ ~Listening) \/ LoseNotices \/ UNCHANGED liveVars
  BY <1>2, <1>6 DEF Deliver, LoseNotices, NoClient, liveVars
<1>7. CASE Connect
  <2>1. /\ stream'.pc = "open" /\ stream'.seen = {} /\ stream'.after = client.last
        /\ wire' = <<"open">> /\ client' = client
    BY <1>1, <1>7, StreamWrites DEF Connect, NoClient
  <2> QED
    BY <2>1 DEF StreamInv
<1>8. CASE Subscribe \/ ReplaySelect \/ ReplayFails
  <2>1. /\ stream'.seen = stream.seen /\ stream'.after = stream.after
        /\ stream'.pc \in {"subscribed", "replaying", "live"} /\ stream.pc # "closed"
        /\ UNCHANGED <<wire, client>>
    <3>1. CASE Subscribe
      BY <3>1, StreamWrites DEF Subscribe, NoClient
    <3>2. CASE ReplaySelect
      <4>1. stream' = [stream EXCEPT !.pc = "replaying", !.rows = RowsAfter(stream.after)]
        BY <3>2 DEF ReplaySelect
      <4>2. stream'.seen = stream.seen /\ stream'.after = stream.after /\ stream'.pc = "replaying"
        BY <1>1, <4>1, StreamWrites
      <4> QED
        BY <3>2, <4>2 DEF ReplaySelect, NoClient
    <3>3. CASE ReplayFails
      BY <3>3, StreamWrites DEF ReplayFails, NoClient
    <3> QED
      BY <1>8, <3>1, <3>2, <3>3
  <2> QED
    BY <2>1 DEF StreamInv
<1>9. CASE ReplayWrite
  <2>1. /\ stream'.seen = stream.seen \cup stream.rows /\ stream'.after = stream.after
        /\ stream'.pc = "live" /\ stream.pc = "replaying" /\ client' = client
        /\ WriteEvents(stream.rows)
    BY <1>9, StreamWrites DEF ReplayWrite, NoClient
  <2>2. wire # <<>> => wire' # <<>> /\ Head(wire') = Head(wire)
    BY <1>1, <2>1, HeadStays
  <2> QED
    BY <2>1, <2>2 DEF StreamInv
<1>10. CASE Disconnect
  <2>1. /\ stream'.pc = "closed" /\ stream'.seen = {} /\ wire' = <<>> /\ client'.recovering = TRUE
    BY <1>10, StreamWrites DEF Disconnect, LiveTypeOK
  <2> QED
    BY <2>1 DEF StreamInv
<1>11. CASE Opened
  <2>1. /\ stream' = stream /\ client'.recovering = FALSE /\ client'.last = client.last
        /\ wire # <<>>
    BY <1>11 DEF Opened, LiveTypeOK
  <2> QED
    BY <2>1 DEF StreamInv
<1>12. CASE Receive
  <2>1. stream.pc # "closed" /\ ~client.recovering
    BY <1>12 DEF Receive, StreamInv, LiveTypeOK
  <2>2. stream.seen # {}
    BY <1>12, WireMoves DEF Receive
  <2>3. stream' = stream /\ client'.recovering = client.recovering
    BY <1>12 DEF Receive, LiveTypeOK
  <2> QED
    BY <2>1, <2>2, <2>3 DEF StreamInv
<1> QED
  BY <1>2, <1>3, <1>4, <1>5, <1>6, <1>7, <1>8, <1>9, <1>10, <1>11, <1>12
    DEF LiveNext, PublisherStep

-----------------------------------------------------------------------------
(* Live events: what is not shown is on its way *)

\* Every change that is not shown is on its way.
Covered == ~excused => \A c \in applied \ projection : ChangeInv(c)

\* The numbers of the events that are stored stay, and a new one is above them.
LEMMA NumbersStay ==
  ASSUME LiveTypeOK, NumbersInv, NEW c \in Change, PublisherStep(c)
  PROVE  /\ \A d \in liveEvents : numbers'[d] = numbers[d]
         /\ \A d \in Change : numbers'[d] = numbers[d] \/ \A e \in liveEvents : numbers'[e] < numbers'[d]
<1>1. CASE Number(c)
  <2>1. numbers[c] = 0 /\ c \notin liveEvents /\ liveEvents \subseteq Change
    BY <1>1 DEF Number, PublisherAt, NumbersInv, LiveTypeOK
  <2>2. \A d \in Change : d # c => numbers'[d] = numbers[d] /\ numbers[d] < numbers'[c]
    BY <1>1, <2>1, NextNumber DEF Number
  <2> QED
    BY <2>1, <2>2
<1>2. CASE numbers' = numbers
  BY <1>2
<1> QED
  BY <1>1, <1>2 DEF PublisherStep, Mutate, StoreEvent, Notify, PublishFails

\* A cursor behind which a replay will look is that of the client, and it is stored.
LEMMA CursorIsStored ==
  ASSUME LiveTypeOK, StreamInv, CursorIsFound, stream.pc # "closed", stream.seen = {}
  PROVE  stream.after = client.last /\ stream.after \in liveEvents \cup {NoChange}
BY DEF StreamInv, CursorIsFound, LiveTypeOK

LEMMA PublishersCover ==
  ASSUME LiveTypeOK, NumbersInv, StreamInv, CursorIsFound, Covered,
         NEW c \in Change, PublisherStep(c)
  PROVE  Covered'
<1> SUFFICES ASSUME ~excused', NEW d \in applied' \ projection'
             PROVE  ChangeInv(d)'
  BY DEF Covered
<1>1. /\ UNCHANGED <<stream, wire, client, fetches, projection>> /\ liveEvents \subseteq liveEvents'
      /\ excused' = excused /\ ~PublishFails(c) /\ d \in Change
  BY DEF PublisherStep, Mutate, Number, StoreEvent, Notify, PublishFails, NoClient, LiveTypeOK
<1>2. CASE Mutate(c) /\ d = c
  <2>1. publishers[c] = "todo" /\ publishers'[c] = "changed" /\ numbers'[c] = numbers[c]
    BY <1>2 DEF Mutate, PublisherAt, LiveTypeOK
  <2>2. numbers[c] = 0 /\ c \notin liveEvents
    BY <2>1 DEF NumbersInv
  <2>3. c \notin stream'.seen
    BY <1>1, <2>2 DEF LiveTypeOK
  <2>4. Noticed(c)'
    BY <2>1 DEF Noticed
  <2> QED
    BY <1>2, <2>1, <2>2, <2>3, <2>4 DEF ChangeInv
<1>3. CASE ~(Mutate(c) /\ d = c)
  <2>1. d \in applied \ projection
    BY <1>1, <1>3 DEF PublisherStep, Mutate, Number, StoreEvent, Notify
  <2>2. ChangeInv(d)
    BY <1>1, <2>1 DEF Covered
  <2>3. (Fetched(d)' <=> Fetched(d)) /\ (Hinted' <=> Hinted)
    BY <1>1 DEF Fetched, Hinted
  <2>4. Noticed(d) => Noticed(d)'
    <3>1. ASSUME NEW i \in DOMAIN notices, notices[i] = d
          PROVE  i \in DOMAIN notices' /\ notices'[i] = d
      <4>1. CASE Notify(c)
        <5>1. ASSUME NEW S, NEW q \in Seq(S), NEW x
              PROVE  \A k \in DOMAIN q : k \in DOMAIN Append(q, x) /\ Append(q, x)[k] = q[k]
          OBVIOUS
        <5>2. notices \in Seq(liveEvents) /\ notices' = Append(notices, c)
          BY <4>1 DEF Notify, LiveTypeOK
        <5> QED
          BY <3>1, <5>1, <5>2
      <4>2. CASE notices' = notices
        BY <3>1, <4>2
      <4> QED
        BY <1>1, <4>1, <4>2 DEF PublisherStep, Mutate, Number, StoreEvent
    <3>2. CASE publishers[d] \in {"changed", "numbered", "stored"} /\ ~(Notify(c) /\ d = c)
      <4>1. publishers'[d] \in {"changed", "numbered", "stored"}
        BY <1>1, <1>3, <3>2
          DEF PublisherStep, Mutate, Number, StoreEvent, Notify, PublisherAt, Notifiable, LiveTypeOK
      <4> QED
        BY <4>1 DEF Noticed
    <3>3. CASE Notify(c) /\ d = c
      <4>1. ASSUME NEW S, NEW q \in Seq(S), NEW x
            PROVE  Len(q) + 1 \in DOMAIN Append(q, x) /\ Append(q, x)[Len(q) + 1] = x
        OBVIOUS
      <4>2. notices \in Seq(liveEvents) /\ notices' = Append(notices, c)
        BY <3>3 DEF Notify, LiveTypeOK
      <4> QED
        BY <3>3, <4>1, <4>2 DEF Noticed
    <3> QED
      BY <3>1, <3>2, <3>3 DEF Noticed
  <2>5. Replayed(d) => Replayed(d)'
    <3>1. ASSUME Replayed(d), stream.pc # "closed", After(stream.after) < numbers[d]
          PROVE  After(stream.after)' < numbers'[d]
      <4>1. stream.after \in liveEvents \cup {NoChange} /\ d \in liveEvents
        BY <3>1, CursorIsStored DEF Replayed
      <4>2. numbers'[d] = numbers[d] /\ (stream.after # NoChange => numbers'[stream.after] = numbers[stream.after])
        BY <4>1, NumbersStay
      <4> QED
        BY <1>1, <3>1, <4>2 DEF After
    <3> QED
      BY <1>1, <3>1 DEF Replayed
  <2>6. ASSUME numbers'[d] # 0, client'.last # NoChange
        PROVE  Fetched(d)' \/ numbers'[client'.last] < numbers'[d]
    <3>1. client.last \in liveEvents
      BY <1>1, <2>6 DEF CursorIsFound
    <3>2. numbers'[client.last] = numbers[client.last]
      BY <3>1, NumbersStay
    <3>3. numbers'[d] = numbers[d] \/ numbers'[client.last] < numbers'[d]
      BY <1>1, <3>1, NumbersStay
    <3> QED
      BY <1>1, <2>2, <2>3, <2>6, <3>2, <3>3 DEF ChangeInv
  <2> QED
    BY <1>1, <2>2, <2>3, <2>4, <2>5, <2>6 DEF ChangeInv
<1> QED
  BY <1>2, <1>3

\* What is written is a hint, or was one before.
LEMMA WritingHints ==
  ASSUME LiveTypeOK, NEW events \in SUBSET liveEvents, WriteEvents(events)
  PROVE  Hinted \/ events \ stream.seen # {} => Hinted'
<1>1. /\ Len(wire) \in Nat /\ Len(wire') \in Nat /\ Len(wire) <= Len(wire')
      /\ DOMAIN wire = 1..Len(wire) /\ DOMAIN wire' = 1..Len(wire')
      /\ \A i \in 1..Len(wire) : wire'[i] = wire[i]
      /\ \A i \in DOMAIN wire' : i > Len(wire) => wire'[i] \in events
  <2>1. wire' \in Seq(stream.seen \cup events \cup {"open"}) /\ Len(wire) <= Len(wire')
    BY WhatIsWritten
  <2>2. wire \in Seq(stream.seen \cup {"open"})
    BY DEF LiveTypeOK
  <2>3. /\ \A i \in 1..Len(wire) : wire'[i] = wire[i]
        /\ \A i \in DOMAIN wire' : i > Len(wire) => wire'[i] \in events
    BY WhatIsWritten
  <2> QED
    BY <2>1, <2>2, <2>3
<1>2. CASE Hinted
  BY <1>1, <1>2 DEF Hinted
<1>3. CASE events \ stream.seen # {}
  <2>1. Len(wire') > Len(wire)
    BY <1>3, WhatIsWritten
  <2>2. Len(wire') \in DOMAIN wire'
    BY <1>1, <2>1
  <2>3. wire'[Len(wire')] # "open"
    BY <1>1, <2>1, <2>2, LiveAssumption DEF LiveTypeOK
  <2> QED
    BY <2>2, <2>3 DEF Hinted
<1> QED
  BY <1>2, <1>3

\* A notification that a connection does not take yet is for a change that its replay finds.
LEMMA MissedIsReplayed ==
  ASSUME LiveTypeOK, NumbersInv, StreamInv, CursorIsFound, NEW d \in liveEvents, ChangeInv(d), ~Listening
  PROVE  Fetched(d) \/ client.recovering \/ stream.pc = "live" \/ Replayed(d)
<1>1. stream.pc \in {"closed", "open", "live"} /\ numbers[d] \in Nat /\ numbers[d] # 0
  BY NumbersAreNat DEF Listening, LiveTypeOK, NumbersInv
<1>2. CASE stream.pc = "closed"
  BY <1>2 DEF StreamInv, Replayed
<1>3. CASE stream.pc = "open"
  <2>1. stream.seen = {} /\ stream.after = client.last
    BY <1>3 DEF StreamInv
  <2>2. Fetched(d) \/ After(stream.after) < numbers[d]
    BY <1>1, <2>1 DEF ChangeInv, After
  <2> QED
    BY <1>3, <2>1, <2>2 DEF Replayed
<1> QED
  BY <1>1, <1>2, <1>3

LEMMA StreamCovers ==
  ASSUME LiveTypeOK, NumbersInv, StreamInv, CursorIsFound, Covered, StreamStep
  PROVE  Covered'
<1> SUFFICES ASSUME ~excused', NEW d \in applied' \ projection'
             PROVE  ChangeInv(d)'
  BY DEF Covered
<1>1. /\ UNCHANGED <<applied, publishers, numbers, liveEvents, fetches, projection>>
      /\ ~excused /\ client'.last = client.last
      /\ (client.recovering => client'.recovering)
  BY DEF StreamStep, Deliver, LoseNotices, Connect, Subscribe, ReplaySelect, ReplayWrite,
         ReplayFails, Disconnect, NoServer, NoClient, LiveTypeOK
<1>2. ChangeInv(d)
  BY <1>1 DEF Covered
<1>3. /\ Fetched(d)' <=> Fetched(d)
      /\ numbers'[d] # 0 /\ client'.last # NoChange => Fetched(d)' \/ numbers'[client'.last] < numbers'[d]
  BY <1>1, <1>2 DEF Fetched, ChangeInv
<1>4. SUFFICES ASSUME ~Fetched(d), ~client.recovering
               PROVE  /\ Hinted' \/ client'.recovering \/ Noticed(d)' \/ Replayed(d)'
                      /\ d \in stream'.seen => Hinted' \/ client'.recovering
  BY <1>1, <1>3 DEF ChangeInv
<1>5. Hinted \/ Noticed(d) \/ Replayed(d)
  BY <1>2, <1>4 DEF ChangeInv
<1>6. d \in stream.seen => Hinted
  BY <1>2, <1>4 DEF ChangeInv
<1>7. /\ stream.rows \in SUBSET liveEvents /\ RowsAfter(stream.after) \in SUBSET liveEvents
      /\ client.last \in Change \cup {NoChange} /\ notices \in Seq(liveEvents)
  BY DEF LiveTypeOK, RowsAfter
<1>8. CASE Deliver
  <2>1. notices # <<>> /\ notices' = Tail(notices) /\ client' = client
    BY <1>8 DEF Deliver, NoClient
  <2>2. Head(notices) \in liveEvents
    BY <1>7, <2>1
  <2>3. Noticed(d) => Noticed(d)' \/ d = Head(notices)
    <3>1. ASSUME NEW i \in DOMAIN notices, notices[i] = d, d # Head(notices)
          PROVE  i - 1 \in DOMAIN notices' /\ notices'[i - 1] = d
      <4>1. ASSUME NEW S, NEW q \in Seq(S), q # <<>>, NEW k \in DOMAIN q, q[k] # Head(q)
            PROVE  k - 1 \in DOMAIN Tail(q) /\ Tail(q)[k - 1] = q[k]
        BY <4>1
      <4> QED
        BY <1>7, <2>1, <3>1, <4>1
    <3> QED
      BY <1>1, <3>1 DEF Noticed
  <2>4. CASE Listening
    <3>1. stream' = [stream EXCEPT !.seen = @ \cup {Head(notices)}] /\ WriteEvents({Head(notices)})
      BY <1>8, <2>4 DEF Deliver
    <3>2. stream'.seen = stream.seen \cup {Head(notices)}
      BY <2>2, <3>1, StreamWrites
    <3>3. Hinted \/ Head(notices) \notin stream.seen => Hinted'
      BY <2>2, <3>1, WritingHints
    <3>4. Replayed(d) => Hinted'
      BY <3>3 DEF Replayed
    <3> QED
      BY <1>5, <1>6, <2>3, <3>2, <3>3, <3>4
  <2>5. CASE ~Listening
    <3>1. stream' = stream /\ wire' = wire
      BY <1>8, <2>5 DEF Deliver
    <3>2. (Hinted' <=> Hinted) /\ (Replayed(d)' <=> Replayed(d))
      BY <1>1, <2>1, <3>1 DEF Hinted, Replayed, After
    <3>3. d = Head(notices) => Replayed(d)
      BY <1>2, <1>4, <2>2, <2>5, MissedIsReplayed DEF Listening
    <3> QED
      BY <1>5, <1>6, <2>3, <3>1, <3>2, <3>3
  <2> QED
    BY <2>4, <2>5
<1>9. CASE LoseNotices
  BY <1>9 DEF LoseNotices
<1>10. ASSUME notices' = notices
       PROVE  Noticed(d)' <=> Noticed(d)
  BY <1>1, <1>10 DEF Noticed
<1>11. CASE Connect
  <2>1. /\ stream'.pc = "open" /\ stream'.seen = {} /\ stream'.after = client.last
        /\ stream.pc = "closed" /\ notices' = notices
    BY <1>7, <1>11, StreamWrites DEF Connect
  <2>2. ~Hinted
    BY <2>1 DEF StreamInv, Hinted
  <2>3. Replayed(d) => Replayed(d)'
    <3>1. ASSUME Replayed(d)
          PROVE  After(stream.after)' < numbers'[d]
      <4>1. d \in liveEvents /\ client.last = NoChange /\ numbers[d] \in Nat /\ numbers[d] # 0
        BY <2>1, <3>1, NumbersAreNat DEF Replayed, LiveTypeOK, NumbersInv
      <4> QED
        BY <1>1, <2>1, <4>1 DEF After
    <3> QED
      BY <1>1, <2>1, <3>1 DEF Replayed
  <2> QED
    BY <1>5, <1>10, <2>1, <2>2, <2>3
<1>12. CASE Subscribe
  <2>1. /\ stream'.pc = "subscribed" /\ stream.pc = "open" /\ stream'.seen = stream.seen
        /\ stream'.after = stream.after /\ wire' = wire /\ notices' = notices
    BY <1>12, StreamWrites DEF Subscribe
  <2>2. Replayed(d) => Replayed(d)'
    BY <1>1, <2>1 DEF Replayed, After
  <2> QED
    BY <1>5, <1>6, <1>10, <2>1, <2>2 DEF Hinted
<1>13. CASE ReplaySelect
  <2>1. stream' = [stream EXCEPT !.pc = "replaying", !.rows = RowsAfter(stream.after)]
    BY <1>13 DEF ReplaySelect
  <2>2. /\ stream'.pc = "replaying" /\ stream'.seen = stream.seen /\ stream'.rows = RowsAfter(stream.after)
        /\ stream.pc = "subscribed" /\ wire' = wire /\ notices' = notices
    BY <1>7, <1>13, <2>1, StreamWrites DEF ReplaySelect
  <2>3. Replayed(d) => Replayed(d)'
    <3>1. ASSUME Replayed(d)
          PROVE  RowsAfter(stream.after) # {}
      <4>1. /\ stream.after \in Change \cup {NoChange} /\ d \in liveEvents
            /\ After(stream.after) < numbers[d]
        BY <2>2, <3>1 DEF Replayed, LiveTypeOK
      <4> QED
        BY <4>1, PageIsNotEmpty
    <3> QED
      BY <1>1, <2>2, <3>1 DEF Replayed
  <2> QED
    BY <1>5, <1>6, <1>10, <2>2, <2>3 DEF Hinted
<1>14. CASE ReplayWrite
  <2>1. /\ stream'.seen = stream.seen \cup stream.rows /\ stream.pc = "replaying"
        /\ WriteEvents(stream.rows) /\ notices' = notices
    BY <1>14, StreamWrites DEF ReplayWrite
  <2>2. Hinted \/ stream.rows \ stream.seen # {} => Hinted'
    BY <1>7, <2>1, WritingHints
  <2>3. Replayed(d) => Hinted'
    BY <2>1, <2>2 DEF Replayed
  <2> QED
    BY <1>5, <1>6, <1>10, <2>1, <2>2, <2>3
<1>15. CASE ReplayFails
  BY <1>15 DEF ReplayFails
<1>16. CASE Disconnect
  BY <1>16 DEF Disconnect, LiveTypeOK
<1> QED
  BY <1>8, <1>9, <1>11, <1>12, <1>13, <1>14, <1>15, <1>16 DEF StreamStep

LEMMA ClientCovers ==
  ASSUME LiveTypeOK, FetchesInv, Covered, ClientStep
  PROVE  Covered'
<1> SUFFICES ASSUME ~excused', NEW d \in applied' \ projection'
             PROVE  ChangeInv(d)'
  BY DEF Covered
<1>1. UNCHANGED <<applied, publishers, numbers, liveEvents, notices, stream>>
  BY DEF ClientStep, Opened, Receive, FetchRead, FetchShow, FetchFails, NoServer
<1>2. CASE StartFetch
  <2>1. Fetched(d)'
    <3>1. PICK f \in Fetch : fetches' = [fetches EXCEPT ![f].pc = "sent"]
      BY <1>2 DEF StartFetch
    <3>2. fetches'[f].pc = "sent"
      BY <3>1 DEF LiveTypeOK
    <3> QED
      BY <3>2 DEF Fetched
  <2> QED
    BY <2>1 DEF ChangeInv
<1>3. ASSUME ~excused, d \notin projection, client'.last = client.last,
             client.recovering => client'.recovering, Hinted => Hinted', Fetched(d) => Fetched(d)'
      PROVE  ChangeInv(d)'
  <2>1. ChangeInv(d)
    BY <1>1, <1>3 DEF Covered
  <2>2. (Noticed(d)' <=> Noticed(d)) /\ (Replayed(d)' <=> Replayed(d))
    BY <1>1, <1>3 DEF Noticed, Replayed, After
  <2> QED
    BY <1>1, <1>3, <2>1, <2>2 DEF ChangeInv
<1>4. CASE Opened /\ ~client.recovering
  <2>1. /\ wire # <<>> /\ wire' = Tail(wire) /\ Head(wire) = "open"
        /\ UNCHANGED <<fetches, projection, excused>>
        /\ client'.last = client.last
    BY <1>4 DEF Opened, LiveTypeOK
  <2>2. Hinted => Hinted'
    <3>1. ASSUME NEW i \in DOMAIN wire, wire[i] # "open"
          PROVE  i - 1 \in DOMAIN wire' /\ wire'[i - 1] # "open"
      BY <2>1, <3>1, WireMoves
    <3> QED
      BY <3>1 DEF Hinted
  <2>3. Fetched(d) => Fetched(d)'
    BY <2>1 DEF Fetched
  <2> QED
    BY <1>3, <1>4, <2>1, <2>2, <2>3
<1>5. ASSUME NEW f \in Fetch, FetchRead(f)
      PROVE  ChangeInv(d)'
  <2>1. UNCHANGED <<wire, client, projection, excused>>
    BY <1>5 DEF FetchRead
  <2>2. fetches'[f].read = applied
    BY <1>5 DEF FetchRead, LiveTypeOK
  <2>3. Fetched(d)'
    BY <1>1, <2>2 DEF Fetched
  <2> QED
    BY <1>3, <2>1, <2>3 DEF Hinted
<1>6. ASSUME NEW f \in Fetch, FetchShow(f)
      PROVE  ChangeInv(d)'
  <2>1. /\ UNCHANGED <<wire, client>> /\ ~excused /\ projection \subseteq fetches[f].read
        /\ projection' = fetches[f].read /\ fetches[f].pc = "read"
        /\ \A g \in Fetch : g # f => fetches'[g] = fetches[g]
    BY <1>6 DEF FetchShow, LiveTypeOK
  <2>2. Fetched(d) => Fetched(d)'
    BY <2>1 DEF Fetched
  <2> QED
    BY <1>3, <2>1, <2>2 DEF Hinted
<1>7. ASSUME NEW f \in Fetch, FetchFails(f)
      PROVE  FALSE
  BY <1>7 DEF FetchFails
<1> QED
  BY <1>2, <1>4, <1>5, <1>6, <1>7 DEF ClientStep, Opened, Receive

\* When all is quiet, nothing is on its way.
LEMMA QuietIsCurrent ==
  ASSUME LiveTypeOK, LiveInv
  PROVE  ProjectionIsCurrent
<1> SUFFICES ASSUME Quiet, ~excused
             PROVE  applied \subseteq projection
  BY DEF ProjectionIsCurrent, LiveInv, FetchesInv
<1>1. SUFFICES ASSUME NEW d \in applied \ projection
               PROVE  FALSE
  OBVIOUS
<1>2. Fetched(d) \/ Hinted \/ client.recovering \/ Noticed(d) \/ Replayed(d)
  BY DEF LiveInv, ChangeInv
<1>3. ~Fetched(d)
  BY DEF Quiet, Fetched, NoFetch
<1>4. ~Hinted /\ ~client.recovering
  BY DEF Quiet, Hinted, LiveInv, StreamInv
<1>5. ~Noticed(d)
  BY DEF Quiet, Noticed, LiveTypeOK, LiveInv, NumbersInv
<1>6. ~Replayed(d)
  BY DEF Quiet, Replayed
<1> QED
  BY <1>2, <1>3, <1>4, <1>5, <1>6

\* Screens catch up with the server, whatever is lost, late or out of order, and the cursors
\* that clients come back with are found: for any number of changes and fetches and any page.
THEOREM LiveIsSafe == LiveSpec => []LiveSafety
<1>1. LiveInit => LiveTypeOK /\ LiveInv
  <2> SUFFICES ASSUME LiveInit
               PROVE  LiveTypeOK /\ LiveInv
    OBVIOUS
  <2>1. /\ IsFiniteSet({}) /\ {d \in Change : numbers[d] # 0} = {} /\ Cardinality({}) = 0
        /\ Cardinality(Change) \in Nat
    BY FS_EmptySet, FS_CardinalityType, LiveAssumption DEF LiveInit
  <2>2. fetches \in [Fetch -> [pc : {"none", "sent", "read"}, read : SUBSET Change]]
        /\ \A f \in Fetch : fetches[f].read = {}
    BY DEF LiveInit, NoFetch
  <2>3. stream \in [pc : {"closed", "open", "subscribed", "replaying", "live"},
                    after : Change \cup {NoChange}, seen : SUBSET liveEvents, rows : SUBSET liveEvents]
        /\ stream.pc = "closed" /\ stream.seen = {}
    BY DEF LiveInit, ClosedStream
  <2>4. LiveTypeOK
    <3>1. /\ numbers \in [Change -> 0..Cardinality(Change)]
          /\ publishers \in [Change -> {"todo", "changed", "numbered", "stored", "done"}]
      BY <2>1 DEF LiveInit
    <3>2. /\ notices \in Seq(liveEvents) /\ wire \in Seq(stream.seen \cup {"open"}) /\ DOMAIN wire = {}
      BY DEF LiveInit
    <3>3. client \in [recovering : BOOLEAN, last : Change \cup {NoChange}] /\ excused \in BOOLEAN
      BY DEF LiveInit
    <3> QED
      BY <2>2, <2>3, <3>1, <3>2, <3>3 DEF LiveInit, LiveTypeOK
  <2>5. NumbersInv
    <3>1. \A c \in Change : publishers[c] = "todo" /\ numbers[c] = 0
      BY DEF LiveInit
    <3>2. liveEvents = {} /\ applied = {}
      BY DEF LiveInit
    <3> QED
      BY <2>1, <3>1, <3>2 DEF NumbersInv
  <2>6. StreamInv /\ FetchesInv /\ CursorIsFound
    BY <2>2, <2>3 DEF LiveInit, StreamInv, FetchesInv, CursorIsFound
  <2> QED
    BY <2>4, <2>5, <2>6 DEF LiveInv, LiveInit
<1>2. LiveTypeOK /\ LiveInv /\ [LiveNext]_liveVars => (LiveTypeOK /\ LiveInv)'
  <2> SUFFICES ASSUME LiveTypeOK, LiveInv, [LiveNext]_liveVars
               PROVE  (LiveTypeOK /\ LiveInv)'
    OBVIOUS
  <2>1. NumbersInv /\ StreamInv /\ FetchesInv /\ CursorIsFound /\ Covered
    BY DEF LiveInv, Covered
  <2>2. LiveTypeOK' /\ NumbersInv' /\ StreamInv' /\ FetchesInv' /\ CursorIsFound'
    BY <2>1, NextLiveTypes, NextNumbers, NextStream, NextFetches, NextCursor
  <2>3. Covered'
    <3>1. CASE UNCHANGED liveVars
      BY <2>1, <3>1 DEF liveVars, Covered, ChangeInv, Fetched, Hinted, Noticed, Replayed, After
    <3> QED
      BY <2>1, <3>1, PublishersCover, StreamCovers, ClientCovers
        DEF LiveNext, PublisherStep, StreamStep, ClientStep
  <2> QED
    BY <2>2, <2>3 DEF LiveInv, Covered
<1>3. LiveTypeOK /\ LiveInv => LiveSafety
  BY QuietIsCurrent DEF LiveSafety, LiveInv
<1> QED
  BY <1>1, <1>2, <1>3, PTL DEF LiveSpec

=============================================================================
