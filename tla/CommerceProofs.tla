--------------------------- MODULE CommerceProofs ----------------------------
(***************************************************************************)
(* Theorems about commerce, for any finite sets of calls: the ledgers      *)
(* (WebhookLedger, TenderLedger, PromotionLedger), ApprovalGate, the       *)
(* reference merchant and the journeys that judge one.  They share no      *)
(* state; what is common to their proofs is in Sums.                       *)
(***************************************************************************)
EXTENDS Integers, WebhookLedger, TenderLedger, PromotionLedger, ApprovalGate,
        CommerceReference, CommerceJourney, Sums

-----------------------------------------------------------------------------
(* The effect ledger of inbound webhooks *)

(* Effect ledger: type correctness *)

\* No row has the type of a row.
LEMMA NoEffectRowShape ==
  /\ NoRow \in Row
  /\ NoRow.event = NoEvent /\ NoRow.status = "absent" /\ NoRow.lapsed = FALSE
BY DEF NoRow, Row

\* What the statements that change a row write, column by column.
LEMMA EffectRowWrites ==
  ASSUME NEW r \in Row, NEW b \in BOOLEAN
  PROVE  /\ [r EXCEPT !.lapsed = b] \in Row
         /\ [r EXCEPT !.lapsed = b].event = r.event
         /\ [r EXCEPT !.lapsed = b].status = r.status
         /\ [r EXCEPT !.lapsed = b].lapsed = b
         /\ [r EXCEPT !.status = "completed", !.lapsed = FALSE] \in Row
         /\ [r EXCEPT !.status = "completed", !.lapsed = FALSE].event = r.event
         /\ [r EXCEPT !.status = "completed", !.lapsed = FALSE].status = "completed"
BY DEF Row

\* The row of a new claim.
LEMMA NewEffectRow ==
  ASSUME NEW d \in Delivery
  PROVE  /\ [event |-> EventOf[d], status |-> "processing", lapsed |-> FALSE] \in Row
         /\ EventOf[d] # NoEvent
BY DeliveriesAssumption DEF Row

\* Every step keeps the types.
LEMMA WebhookNextTypes == TypeOK /\ [Next]_vars => TypeOK'
<1> SUFFICES ASSUME TypeOK, [Next]_vars
             PROVE  TypeOK'
  OBVIOUS
<1> USE DEF TypeOK, history
<1>1. CASE UNCHANGED vars
  BY <1>1 DEF vars
<1>2. CASE Lapse
  <2>1. row' \in Row /\ row'.event = row.event /\ row'.status = row.status
    BY <1>2, EffectRowWrites DEF Lapse
  <2> QED
    BY <1>2, <2>1 DEF Lapse
<1>3. ASSUME NEW d \in Delivery, DeliveryStep(d)
      PROVE  TypeOK'
  <2> USE DEF Pc, Goto
  <2>1. CASE Insert(d)
    BY <2>1, NewEffectRow DEF Insert, Granted
  <2>2. CASE Read(d)
    BY <2>2 DEF Read
  <2>3. CASE Reclaim(d)
    <3>1. row' \in Row /\ row'.event = row.event /\ row'.status = row.status
      BY <2>3, EffectRowWrites DEF Reclaim
    <3> QED
      BY <2>3, <3>1 DEF Reclaim, Granted
  <2>4. CASE RunEffect(d) \/ EffectThrows(d) \/ Crash(d)
    BY <2>4 DEF RunEffect, EffectThrows, Crash
  <2>5. CASE Complete(d) \/ BreakComplete(d)
    <3>1. CASE InProcess(EventOf[d]) /\ Completed
      <4>1. row' \in Row /\ row'.event = row.event /\ row'.status = "completed"
        BY <3>1, EffectRowWrites DEF Completed
      <4> QED
        BY <2>5, <3>1, <4>1 DEF Complete, BreakComplete, InProcess
    <3>2. CASE UNCHANGED row
      BY <2>5, <3>2 DEF Complete, BreakComplete
    <3> QED
      BY <2>5, <3>1, <3>2 DEF Complete, BreakComplete
  <2>6. CASE Release(d)
    BY <2>6, NoEffectRowShape DEF Release
  <2> QED
    BY <1>3, <2>1, <2>2, <2>3, <2>4, <2>5, <2>6 DEF DeliveryStep
<1> QED
  BY <1>1, <1>2, <1>3 DEF Next

\* The row, the deliveries and the counters keep their types.
THEOREM WebhookTypeCorrect == Spec => []TypeOK
<1>1. Init => TypeOK
  BY NoEffectRowShape DEF Init, TypeOK, Pc
<1> QED
  BY <1>1, WebhookNextTypes, PTL DEF Spec

-----------------------------------------------------------------------------
(* Effect ledger: claims are paid for *)

\* Every step keeps the account.
LEMMA WebhookNextPaid == TypeOK /\ PaidInv /\ [Next]_vars => PaidInv'
<1> SUFFICES ASSUME TypeOK, PaidInv, [Next]_vars
             PROVE  PaidInv'
  OBVIOUS
<1>0. grants \in Nat /\ excuses \in Nat
  BY DEF TypeOK
<1>1. CASE UNCHANGED vars
  BY <1>1 DEF vars, history, PaidInv
<1>2. CASE Lapse
  <2>1. row'.status = "processing" /\ row'.lapsed = TRUE
    BY <1>2, EffectRowWrites DEF Lapse, TypeOK
  <2> QED
    BY <1>0, <1>2, <2>1 DEF Lapse, PaidInv
<1>3. ASSUME NEW d \in Delivery, DeliveryStep(d)
      PROVE  PaidInv'
  <2>1. CASE row' = row /\ grants' = grants /\ excuses' = excuses
    BY <2>1 DEF PaidInv
  <2>2. CASE Insert(d) /\ row = NoRow
    <3>1. /\ row.status = "absent" /\ row'.status = "processing" /\ row'.lapsed = FALSE
          /\ grants' = grants + 1 /\ excuses' = excuses
      BY <2>2 DEF Insert, Granted, NoRow
    <3> QED
      BY <1>0, <3>1 DEF PaidInv
  <2>3. CASE Reclaim(d) /\ InProcess(EventOf[d]) /\ row.lapsed
    <3>1. /\ row.status = "processing" /\ row'.status = "processing" /\ row'.lapsed = FALSE
          /\ grants' = grants + 1 /\ excuses' = excuses
      BY <2>3, EffectRowWrites DEF Reclaim, Granted, InProcess, TypeOK
    <3> QED
      BY <1>0, <2>3, <3>1 DEF PaidInv
  <2>4. CASE InProcess(EventOf[d]) /\ Completed /\ grants' = grants /\ excuses' = excuses
    <3>1. row.status = "processing" /\ row'.status = "completed"
      BY <2>4, EffectRowWrites DEF InProcess, Completed, TypeOK
    <3> QED
      BY <1>0, <2>4, <3>1 DEF PaidInv
  <2>5. CASE Release(d) /\ InProcess(EventOf[d])
    <3>1. /\ row.status = "processing" /\ row'.status = "absent"
          /\ grants' = grants /\ excuses' = excuses + 1
      BY <2>5, NoEffectRowShape DEF Release, InProcess
    <3> QED
      BY <1>0, <3>1 DEF PaidInv
  <2> QED
    BY <1>3, <2>1, <2>2, <2>3, <2>4, <2>5
       DEF DeliveryStep, Insert, Read, Reclaim, RunEffect, EffectThrows, Complete,
           BreakComplete, Release, Crash, history
<1> QED
  BY <1>1, <1>2, <1>3 DEF Next

\* The inductive invariant.
THEOREM ClaimInvariant == Spec => []PaidInv
<1>1. Init => PaidInv
  BY DEF Init, PaidInv, NoRow
<1> QED
  BY <1>1, WebhookTypeCorrect, WebhookNextPaid, PTL DEF Spec

\* However deliveries race, crash and come again, every claim but the first is paid
\* for by a lease that lapsed or a claim that was released.
THEOREM ClaimsArePaidFor == Spec => []ClaimsAreEarned
<1>1. TypeOK /\ PaidInv => ClaimsAreEarned
  BY DEF TypeOK, PaidInv, ClaimsAreEarned
<1> QED
  BY <1>1, WebhookTypeCorrect, ClaimInvariant, PTL

\* One more delivery may run the effect only when one more claim is granted.
LEMMA WebhookNextClaimants ==
  ASSUME TypeOK, ClaimantInv, [Next]_vars
  PROVE  ClaimantInv'
<1>1. /\ IsFiniteSet(Claimants) /\ IsFiniteSet(Claimants')
      /\ Cardinality(Claimants) \in Nat /\ grants \in Nat
  <2>1. Claimants \subseteq Delivery /\ Claimants' \subseteq Delivery
    BY WebhookNextTypes DEF TypeOK, Claimants
  <2> QED
    BY <2>1, DeliveriesAssumption, FS_Subset, FS_CardinalityType DEF TypeOK
<1>2. CASE Claimants' \subseteq Claimants /\ grants' = grants
  <2>1. Cardinality(Claimants') <= Cardinality(Claimants) /\ Cardinality(Claimants') \in Nat
    BY <1>1, <1>2, FS_Subset, FS_CardinalityType
  <2> QED
    BY <1>1, <1>2, <2>1 DEF ClaimantInv
<1>3. ASSUME NEW d \in Delivery, Claimants' \subseteq Claimants \cup {d}, grants' = grants + 1
      PROVE  ClaimantInv'
  <2>1. /\ Cardinality(Claimants \cup {d}) <= Cardinality(Claimants) + 1
        /\ Cardinality(Claimants \cup {d}) \in Nat /\ IsFiniteSet(Claimants \cup {d})
    <3>1. /\ IsFiniteSet(Claimants \cup {d})
          /\ \/ Cardinality(Claimants \cup {d}) = Cardinality(Claimants)
             \/ Cardinality(Claimants \cup {d}) = Cardinality(Claimants) + 1
      BY <1>1, FS_AddElement
    <3> QED
      BY <1>1, <3>1
  <2>2. Cardinality(Claimants') <= Cardinality(Claimants \cup {d})
    BY <1>3, <2>1, FS_Subset
  <2>3. Cardinality(Claimants') \in Nat
    BY <1>1, FS_CardinalityType
  <2> QED
    BY <1>1, <1>3, <2>1, <2>2, <2>3 DEF ClaimantInv
<1>4. CASE Lapse \/ UNCHANGED vars
  BY <1>2, <1>4 DEF Lapse, vars, history, Claimants
<1>5. ASSUME NEW d \in Delivery, DeliveryStep(d)
      PROVE  ClaimantInv'
  <2>1. CASE grants' = grants
    <3>1. Claimants' \subseteq Claimants
      BY <1>5, <2>1
      DEF DeliveryStep, Insert, Granted, Read, Reclaim, RunEffect, EffectThrows, Complete,
          BreakComplete, Release, Crash, Goto, history, Claimants, TypeOK
    <3> QED
      BY <1>2, <2>1, <3>1
  <2>2. CASE grants' # grants
    <3>1. Granted(d)
      BY <1>5, <2>2
      DEF DeliveryStep, Insert, Read, Reclaim, RunEffect, EffectThrows, Complete,
          BreakComplete, Release, Crash, history
    <3>2. Claimants' \subseteq Claimants \cup {d} /\ grants' = grants + 1
      BY <3>1 DEF Granted, Goto, Claimants, TypeOK
    <3> QED
      BY <1>3, <3>2
  <2> QED
    BY <2>1, <2>2
<1> QED
  BY <1>4, <1>5 DEF Next

\* A row goes only with a release, and a claim is granted only in the row of its event.
LEMMA WebhookNextEvent ==
  ASSUME TypeOK, OneEventUntilReleased, [Next]_vars
  PROVE  OneEventUntilReleased'
<1> SUFFICES ASSUME \A d \in Delivery : pc'[d] # "released"
             PROVE  \A d \in Claimants' : row'.event = EventOf[d]
  BY DEF OneEventUntilReleased
<1>1. CASE UNCHANGED vars
  BY <1>1 DEF vars, history, Claimants, OneEventUntilReleased
<1>2. CASE Lapse
  <2>1. row'.event = row.event
    BY <1>2, EffectRowWrites DEF Lapse, TypeOK
  <2> QED
    BY <1>2, <2>1 DEF Lapse, Claimants, OneEventUntilReleased
<1>3. ASSUME NEW d \in Delivery, DeliveryStep(d)
      PROVE  \A i \in Claimants' : row'.event = EventOf[i]
  <2>1. \E state \in Pc : Goto(d, state) /\ pc[d] # "released"
    BY <1>3 DEF DeliveryStep, Insert, Granted, Read, Reclaim, RunEffect, EffectThrows, Complete,
          BreakComplete, Release, Crash, Pc
  <2>2. \A i \in Delivery : pc[i] # "released"
    BY <2>1 DEF Goto, TypeOK
  <2>3. \A i \in Claimants : row.event = EventOf[i]
    BY <2>2 DEF OneEventUntilReleased
  <2>4. CASE Insert(d) /\ row = NoRow
    <3>1. Claimants = {}
      <4>1. \A i \in Claimants : EventOf[i] \in Event /\ EventOf[i] = NoEvent
        BY <2>3, <2>4, DeliveriesAssumption DEF NoRow, Claimants, TypeOK
      <4> QED
        BY <4>1, DeliveriesAssumption
    <3>2. Claimants' \subseteq {d} /\ row'.event = EventOf[d]
      BY <2>4, <3>1 DEF Insert, Granted, Goto, NoRow, Claimants, TypeOK
    <3> QED
      BY <3>2
  <2>5. CASE Reclaim(d) /\ InProcess(EventOf[d]) /\ row.lapsed
    <3>1. row'.event = row.event /\ row.event = EventOf[d]
      BY <2>5, EffectRowWrites DEF Reclaim, InProcess, TypeOK
    <3>2. Claimants' \subseteq Claimants \cup {d}
      BY <2>5 DEF Reclaim, Granted, Goto, Claimants, TypeOK
    <3> QED
      BY <2>3, <3>1, <3>2
  <2>6. CASE ~(Insert(d) /\ row = NoRow) /\ ~(Reclaim(d) /\ InProcess(EventOf[d]) /\ row.lapsed)
    <3>1. Claimants' \subseteq Claimants
      BY <1>3, <2>6
      DEF DeliveryStep, Insert, Read, Reclaim, RunEffect, EffectThrows, Complete,
          BreakComplete, Release, Crash, Goto, history, Claimants, TypeOK
    <3>2. row' = row \/ Completed
      <4>1. CASE Release(d)
        BY <4>1 DEF Release, Goto, TypeOK
      <4>2. CASE ~Release(d)
        BY <1>3, <2>6, <4>2
        DEF DeliveryStep, Insert, Read, Reclaim, RunEffect, EffectThrows, Complete,
            BreakComplete, Crash
      <4> QED
        BY <4>1, <4>2
    <3>3. row'.event = row.event
      BY <3>2, EffectRowWrites DEF Completed, TypeOK
    <3> QED
      BY <2>3, <3>1, <3>3
  <2> QED
    BY <2>4, <2>5, <2>6
<1> QED
  BY <1>1, <1>2, <1>3 DEF Next

\* The types, the accounts of claims and of effects, and the event of a key.
THEOREM ClaimsAreSafe == Spec => []ClaimSafety
<1>1. Init => ClaimantInv /\ OneEventUntilReleased
  <2>1. Init => Claimants = {}
    BY DEF Init, Claimants
  <2> QED
    BY <2>1, FS_EmptySet DEF Init, ClaimantInv, OneEventUntilReleased
<1>2. Spec => []ClaimantInv
  BY <1>1, WebhookTypeCorrect, WebhookNextClaimants, PTL DEF Spec
<1>3. Spec => []OneEventUntilReleased
  BY <1>1, WebhookTypeCorrect, WebhookNextEvent, PTL DEF Spec
<1>4. TypeOK /\ ClaimsAreEarned /\ ClaimantInv => EffectsAreEarned
  <2> SUFFICES ASSUME TypeOK, ClaimsAreEarned, ClaimantInv
               PROVE  EffectsAreEarned
    OBVIOUS
  <2>1. Claimants \subseteq Delivery /\ effects \subseteq Claimants
    BY DEF TypeOK, Claimants
  <2>2. IsFiniteSet(Claimants) /\ IsFiniteSet(effects)
    BY <2>1, DeliveriesAssumption, FS_Subset
  <2>3. /\ Cardinality(effects) <= Cardinality(Claimants)
        /\ Cardinality(effects) \in Nat /\ Cardinality(Claimants) \in Nat
    BY <2>1, <2>2, FS_Subset, FS_CardinalityType
  <2> QED
    BY <2>3 DEF TypeOK, ClaimsAreEarned, ClaimantInv, EffectsAreEarned
<1> QED
  BY <1>2, <1>3, <1>4, WebhookTypeCorrect, ClaimInvariant, ClaimsArePaidFor, PTL DEF ClaimSafety

-----------------------------------------------------------------------------
(* Effect ledger: completed effects *)

\* No delivery is granted the claim of a completed effect or comes to run it, and none
\* removes its row.
THEOREM CompletedStays == Spec => CompletedIsFinal
<1> DEFINE Final == row' = row /\ grants' = grants /\ Claimants' \subseteq Claimants
<1>1. ASSUME TypeOK, Next, row.status = "completed"
      PROVE  Final
  <2>1. CASE Lapse
    BY <1>1, <2>1 DEF Lapse, Claimants
  <2>2. ASSUME NEW d \in Delivery, DeliveryStep(d)
        PROVE  Final
    <3>1. row # NoRow /\ ~InProcess(EventOf[d])
      BY <1>1 DEF NoRow, InProcess
    <3>2. row' = row /\ grants' = grants
      BY <2>2, <3>1
         DEF DeliveryStep, Insert, Read, Reclaim, RunEffect, EffectThrows, Complete,
             BreakComplete, Release, Crash, history
    <3>3. \A e \in Delivery : pc'[e] = "running" => pc[e] = "running"
      BY <1>1, <2>2, <3>1
         DEF DeliveryStep, Insert, Read, Reclaim, RunEffect, EffectThrows, Complete,
             BreakComplete, Release, Crash, Goto, TypeOK
    <3>4. effects' \subseteq effects \cup {e \in Delivery : pc[e] = "running"}
      BY <2>2
         DEF DeliveryStep, Insert, Read, Reclaim, Granted, RunEffect, EffectThrows, Complete,
             BreakComplete, Release, Crash, history
    <3> QED
      BY <3>2, <3>3, <3>4 DEF Claimants
  <2> QED
    BY <1>1, <2>1, <2>2 DEF Next
<1>2. TypeOK /\ [Next]_vars => [row.status = "completed" => Final]_vars
  BY <1>1
<1> QED
  BY <1>2, WebhookTypeCorrect, PTL DEF Spec, CompletedIsFinal

-----------------------------------------------------------------------------
(* The tender ledger *)

InTransaction == {"find", "read", "decide", "commit"}

\* The types.
TenderShape ==
  /\ entries \subseteq {EntryOf[r] : r \in Request}
  /\ answers \in [Request -> Answer]
  /\ tenderPc \in [Request -> InTransaction \cup {"lock", "done"}]
  /\ cardLock \in [Card -> Request \cup {NoRequest}]
  /\ \A c \in Card : cardLock[c] # NoRequest => CardOf(cardLock[c]) = c
  /\ DOMAIN cardRead = Request
  /\ \A r \in Request : tenderPc[r] \notin {"decide", "commit"} => cardRead[r] = Nothing

\* A transaction has the lock of its card from its first statement to its end.
LocksAreOwned ==
  \A r \in Request : tenderPc[r] \in InTransaction <=> cardLock[CardOf(r)] = r

\* Once it has looked, its operation is not on the card, and one that commits may.
OperationsAreNew ==
  \A r \in Request :
    /\ tenderPc[r] \in {"read", "decide", "commit"} => Prior(EntryOf[r]) = {}
    /\ tenderPc[r] = "commit" => CurrencyAgrees(r) /\ Covered(r)

AnsweredWhenDone ==
  \A r \in Request : answers[r] = "none" <=> tenderPc[r] # "done"

\* A conflict is with an entry of the card.
TenderConflictsAreReal ==
  \A r \in Request : answers[r] = "conflict" => Prior(EntryOf[r]) # {}

TenderInv ==
  /\ TenderShape /\ LocksAreOwned /\ OperationsAreNew /\ ReadsAreCurrent
  /\ AnsweredWhenDone /\ TenderConflictsAreReal /\ CardsAreConsistent /\ AnswersAreTrue

-----------------------------------------------------------------------------
(* Tender ledger: lemmas *)

\* A request has a card, and is one.
LEMMA CardsOfRequests == \A r \in Request : CardOf(r) \in Card /\ r # NoRequest
BY TenderAssumption DEF CardOf

\* What was read says whether the currencies agree.
LEMMA ReadingShape ==
  ASSUME NEW reading, NEW a, NEW b, reading = [agrees |-> a, balance |-> b]
  PROVE  reading.agrees = a /\ reading.balance = b
OBVIOUS

\* What the reads of a card say is a matter of the entries of that card.
LEMMA ReadsAreOfEntries ==
  ASSUME NEW e, NEW entry, entry.card # e.card, entries' = entries \cup {e}
  PROVE  /\ Prior(entry)' = Prior(entry)
         /\ OtherCurrency(entry)' <=> OtherCurrency(entry)
         /\ Balance(entry.card)' = Balance(entry.card)
<1>1. EntriesOf(entry.card)' = EntriesOf(entry.card)
  BY DEF EntriesOf
<1>2. Prior(entry)' = Prior(entry) /\ (OtherCurrency(entry)' <=> OtherCurrency(entry))
  BY <1>1 DEF Prior, OtherCurrency
<1>3. Balance(entry.card)' = Balance(entry.card)
  BY <1>1 DEF Balance
<1> QED
  BY <1>2, <1>3

\* What is read depends on the entries alone.
LEMMA ReadsOfSameEntries ==
  ASSUME NEW entry, entries' = entries
  PROVE  /\ Prior(entry)' = Prior(entry)
         /\ OtherCurrency(entry)' <=> OtherCurrency(entry)
         /\ Balance(entry.card)' = Balance(entry.card)
<1>1. EntriesOf(entry.card)' = EntriesOf(entry.card)
  BY DEF EntriesOf
<1>2. Prior(entry)' = Prior(entry) /\ (OtherCurrency(entry)' <=> OtherCurrency(entry))
  BY <1>1 DEF Prior, OtherCurrency
<1>3. Balance(entry.card)' = Balance(entry.card)
  BY <1>1 DEF Balance
<1> QED
  BY <1>2, <1>3

-----------------------------------------------------------------------------
(* Tender ledger: locks *)

\* What a transaction does to the program counters and the locks: it begins, goes on or ends.
Begins(r) ==
  /\ tenderPc[r] = "lock"
  /\ tenderPc' = [tenderPc EXCEPT ![r] = "find"]
  /\ LockCard(r)

GoesOn(r) ==
  /\ tenderPc[r] \in InTransaction
  /\ \E at \in InTransaction : tenderPc' = [tenderPc EXCEPT ![r] = at]
  /\ cardLock' = cardLock

GetsDone(r) ==
  /\ tenderPc[r] \in InTransaction
  /\ tenderPc' = [tenderPc EXCEPT ![r] = "done"]
  /\ Unlock(r)

\* A step moves one request on, and no lock but its own.
LEMMA StepMoves ==
  ASSUME NEW r \in Request,
         \/ Begin(r) \/ FindOperation(r) \/ ReadCard(r) \/ Decide(r) \/ Commit(r) \/ Rollback(r)
  PROVE  Begins(r) \/ GoesOn(r) \/ GetsDone(r)
BY DEF Begin, FindOperation, ReadCard, Decide, Commit, Rollback, Proceed, EndWith, Begins,
       GoesOn, GetsDone, InTransaction

\* Locks stay with their holders.
LEMMA MovesKeepLocks ==
  ASSUME TenderShape, LocksAreOwned, NEW r \in Request, Begins(r) \/ GoesOn(r) \/ GetsDone(r)
  PROVE  LocksAreOwned'
<1> USE CardsOfRequests DEF TenderShape, InTransaction
<1> SUFFICES ASSUME NEW s \in Request
             PROVE  tenderPc'[s] \in InTransaction <=> cardLock'[CardOf(s)] = s
  BY DEF LocksAreOwned, CardOf
<1>1. tenderPc[s] \in InTransaction <=> cardLock[CardOf(s)] = s
  BY DEF LocksAreOwned
<1>2. tenderPc[r] \in InTransaction <=> cardLock[CardOf(r)] = r
  BY DEF LocksAreOwned
<1>3. CASE Begins(r)
  BY <1>1, <1>2, <1>3 DEF Begins, LockCard
<1>4. CASE GoesOn(r)
  BY <1>1, <1>2, <1>4 DEF GoesOn
<1>5. CASE GetsDone(r)
  BY <1>1, <1>2, <1>5 DEF GetsDone, Unlock
<1> QED
  BY <1>3, <1>4, <1>5

\* Every step keeps the shape of the ledger.
LEMMA StepsKeepShape == TenderShape /\ [TenderNext]_tenderVars => TenderShape'
<1> SUFFICES ASSUME TenderShape, [TenderNext]_tenderVars
             PROVE  TenderShape'
  OBVIOUS
<1> USE DEF TenderShape
<1>1. CASE UNCHANGED tenderVars
  BY <1>1 DEF tenderVars
<1>2. ASSUME NEW r \in Request,
             \/ Begin(r) \/ FindOperation(r) \/ ReadCard(r) \/ Decide(r) \/ Commit(r)
             \/ Rollback(r)
      PROVE  TenderShape'
  <2>1. CardOf(r) \in Card
    BY CardsOfRequests
  <2>2. tenderPc' \in [Request -> InTransaction \cup {"lock", "done"}]
    BY <1>2, StepMoves DEF Begins, GoesOn, GetsDone, InTransaction
  <2>3. cardLock' \in [Card -> Request \cup {NoRequest}]
    BY <1>2, <2>1, StepMoves DEF Begins, GoesOn, GetsDone, LockCard, Unlock
  <2>4. entries' \subseteq {EntryOf[s] : s \in Request}
    BY <1>2 DEF Begin, FindOperation, ReadCard, Decide, Commit, Rollback
  <2>5. answers' \in [Request -> Answer]
    BY <1>2 DEF Begin, FindOperation, ReadCard, Decide, Commit, Rollback, EndWith, Proceed,
                Answer
  <2>6. DOMAIN cardRead' = Request
    BY <1>2 DEF Begin, FindOperation, ReadCard, Decide, Commit, Rollback, EndWith, Proceed
  <2>7. \A c \in Card : cardLock'[c] # NoRequest => CardOf(cardLock'[c]) = c
    BY <1>2, <2>1, StepMoves DEF Begins, GoesOn, GetsDone, LockCard, Unlock
  <2>8. ASSUME NEW s \in Request, tenderPc'[s] \notin {"decide", "commit"}
        PROVE  cardRead'[s] = Nothing
    BY <1>2, <2>8 DEF Begin, FindOperation, ReadCard, Decide, Commit, Rollback, EndWith, Proceed
  <2> QED
    BY <2>2, <2>3, <2>4, <2>5, <2>6, <2>7, <2>8 DEF CardOf
<1> QED
  BY <1>1, <1>2 DEF TenderNext

-----------------------------------------------------------------------------
(* Tender ledger: what a step leaves alone *)

\* The step of a request, and what it may write.
LEMMA TenderStepOfOne ==
  ASSUME TenderShape, NEW r \in Request,
         \/ Begin(r) \/ FindOperation(r) \/ ReadCard(r) \/ Decide(r) \/ Commit(r) \/ Rollback(r)
  PROVE  /\ \A s \in Request \ {r} :
              /\ tenderPc'[s] = tenderPc[s] /\ answers'[s] = answers[s]
              /\ cardRead'[s] = cardRead[s]
         /\ entries' = entries \/ (Commit(r) /\ entries' = entries \cup {EntryOf[r]})
BY DEF Begin, FindOperation, ReadCard, Decide, Commit, Rollback, Proceed, EndWith, TenderShape

\* The card of a transaction that is past its first statement is written by nobody else.
LEMMA CardIsKept ==
  ASSUME TenderShape, LocksAreOwned, NEW r \in Request, NEW s \in Request \ {r},
         \/ Begin(r) \/ FindOperation(r) \/ ReadCard(r) \/ Decide(r) \/ Commit(r) \/ Rollback(r),
         tenderPc[s] \in InTransaction
  PROVE  /\ Prior(EntryOf[s])' = Prior(EntryOf[s])
         /\ OtherCurrency(EntryOf[s])' <=> OtherCurrency(EntryOf[s])
         /\ Balance(CardOf(s))' = Balance(CardOf(s))
<1>1. CASE entries' = entries
  BY <1>1, ReadsOfSameEntries DEF CardOf
<1>2. CASE Commit(r) /\ entries' = entries \cup {EntryOf[r]}
  <2>1. tenderPc[r] \in InTransaction
    BY <1>2 DEF Commit, InTransaction
  <2>2. CardOf(r) # CardOf(s)
    BY <2>1 DEF LocksAreOwned
  <2> QED
    BY <1>2, <2>2, ReadsAreOfEntries DEF CardOf
<1> QED
  BY <1>1, <1>2, TenderStepOfOne

-----------------------------------------------------------------------------
(* Tender ledger: the inductive invariant *)

\* The entry that a transaction commits keeps its card in order: it is new there, in the
\* card's currency.
LEMMA CommitIsConsistent ==
  ASSUME TenderInv, NEW r \in Request, Commit(r)
  PROVE  \A e \in EntriesOf(CardOf(r)) :
           e.currency = EntryOf[r].currency /\ e.operation # EntryOf[r].operation
<1>1. cardRead[r].agrees
  BY DEF TenderInv, OperationsAreNew, CurrencyAgrees, Commit
<1>2. ~OtherCurrency(EntryOf[r])
  <2>1. cardRead[r] = [agrees |-> ~OtherCurrency(EntryOf[r]), balance |-> Balance(CardOf(r))]
    BY DEF TenderInv, ReadsAreCurrent, Commit
  <2> QED
    BY <1>1, <2>1, ReadingShape
<1>3. Prior(EntryOf[r]) = {}
  BY DEF Commit
<1> QED
  BY <1>2, <1>3 DEF OtherCurrency, Prior, CardOf, EntriesOf

\* A step of one request keeps the invariant.
LEMMA TenderStepKeepsInv ==
  ASSUME TenderInv, TenderShape', LocksAreOwned', NEW r \in Request,
         \/ Begin(r) \/ FindOperation(r) \/ ReadCard(r) \/ Decide(r) \/ Commit(r) \/ Rollback(r)
  PROVE  TenderInv'
<1> USE DEF TenderInv
<1>1. OperationsAreNew'
  <2> SUFFICES ASSUME NEW s \in Request
               PROVE  /\ tenderPc'[s] \in {"read", "decide", "commit"} => Prior(EntryOf[s])' = {}
                      /\ tenderPc'[s] = "commit" => CurrencyAgrees(s)' /\ Covered(s)'
    BY DEF OperationsAreNew
  <2>1. /\ tenderPc[s] \in {"read", "decide", "commit"} => Prior(EntryOf[s]) = {}
        /\ tenderPc[s] = "commit" => CurrencyAgrees(s) /\ Covered(s)
    BY DEF OperationsAreNew
  <2>2. CASE s # r
    BY <2>1, <2>2, TenderStepOfOne, CardIsKept DEF CurrencyAgrees, Covered, InTransaction
  <2>3. CASE s = r
    <3>1. CASE FindOperation(r) /\ Prior(EntryOf[r]) = {}
      BY <2>3, <3>1, ReadsOfSameEntries
         DEF FindOperation, Proceed, EndWith, TenderShape
    <3>2. CASE ReadCard(r)
      BY <2>1, <2>3, <3>2, ReadsOfSameEntries DEF ReadCard, Proceed, TenderShape
    <3>3. CASE Decide(r) /\ CurrencyAgrees(r) /\ Covered(r)
      BY <2>1, <2>3, <3>3, ReadsOfSameEntries
         DEF Decide, Proceed, EndWith, TenderShape, CurrencyAgrees, Covered
    <3>4. CASE tenderPc'[r] \in {"find", "done"}
      BY <2>3, <3>4
    <3> QED
      BY <3>1, <3>2, <3>3, <3>4
         DEF Begin, FindOperation, Decide, Commit, Rollback, EndWith, TenderShape
  <2> QED
    BY <2>2, <2>3
<1>2. ReadsAreCurrent'
  <2> SUFFICES ASSUME NEW s \in Request, tenderPc'[s] \in {"decide", "commit"}
               PROVE  /\ cardLock'[CardOf(s)] = s
                      /\ cardRead'[s] = [agrees |-> ~OtherCurrency(EntryOf[s])',
                                         balance |-> Balance(CardOf(s))']
    BY DEF ReadsAreCurrent, CardOf
  <2>1. cardLock'[CardOf(s)] = s
    BY DEF LocksAreOwned, InTransaction, CardOf
  <2>2. CASE s # r
    <3>1. tenderPc[s] = tenderPc'[s] /\ cardRead'[s] = cardRead[s]
      BY <2>2, TenderStepOfOne
    <3>2. cardRead[s] = [agrees |-> ~OtherCurrency(EntryOf[s]), balance |-> Balance(CardOf(s))]
      BY <3>1 DEF ReadsAreCurrent
    <3>3. /\ OtherCurrency(EntryOf[s])' <=> OtherCurrency(EntryOf[s])
          /\ Balance(CardOf(s))' = Balance(CardOf(s))
      BY <2>2, <3>1, CardIsKept DEF InTransaction
    <3>4. OtherCurrency(EntryOf[s]) \in BOOLEAN /\ OtherCurrency(EntryOf[s])' \in BOOLEAN
      BY DEF OtherCurrency
    <3> QED
      BY <2>1, <3>1, <3>2, <3>3, <3>4
  <2>3. CASE s = r
    <3>1. /\ OtherCurrency(EntryOf[s])' <=> OtherCurrency(EntryOf[s])
          /\ Balance(CardOf(s))' = Balance(CardOf(s))
      <4>1. entries' = entries
        BY <2>3 DEF Begin, FindOperation, ReadCard, Decide, Commit, Rollback, EndWith, TenderShape
      <4> QED
        BY <4>1, ReadsOfSameEntries DEF CardOf
    <3>2. OtherCurrency(EntryOf[s]) \in BOOLEAN /\ OtherCurrency(EntryOf[s])' \in BOOLEAN
      BY DEF OtherCurrency
    <3>3. cardRead'[s] = [agrees |-> ~OtherCurrency(EntryOf[s]), balance |-> Balance(CardOf(s))]
      BY <2>3 DEF Begin, FindOperation, ReadCard, Decide, Commit, Rollback, EndWith, Proceed,
                  TenderShape, ReadsAreCurrent
    <3> QED
      BY <2>1, <3>1, <3>2, <3>3
  <2> QED
    BY <2>2, <2>3
<1>3. AnsweredWhenDone'
  BY DEF AnsweredWhenDone, Begin, FindOperation, ReadCard, Decide, Commit, Rollback, EndWith,
         Proceed, TenderShape
<1>4. entries \subseteq entries'
  BY TenderStepOfOne
<1>5. \A s \in Request : Prior(EntryOf[s]) \subseteq Prior(EntryOf[s])'
  BY <1>4 DEF Prior, EntriesOf
<1>6. TenderConflictsAreReal'
  <2>1. answers'[r] = "conflict" => answers[r] = "conflict" \/ Prior(EntryOf[r]) # {}
    BY DEF Begin, FindOperation, ReadCard, Decide, Commit, Rollback, EndWith, Proceed, TenderShape
  <2>2. \A s \in Request \ {r} : answers'[s] = answers[s]
    BY TenderStepOfOne
  <2> QED
    BY <1>5, <2>1, <2>2 DEF TenderConflictsAreReal
<1>7. CardsAreConsistent'
  <2>1. CASE entries' = entries
    BY <2>1 DEF CardsAreConsistent
  <2>2. CASE Commit(r) /\ entries' = entries \cup {EntryOf[r]}
    BY <2>2, CommitIsConsistent DEF CardsAreConsistent, EntriesOf, CardOf
  <2> QED
    BY <2>1, <2>2, TenderStepOfOne
<1>8. AnswersAreTrue'
  <2>1. ASSUME NEW s \in Request, answers'[s] = "conflict"
        PROVE  EntryOf[s] \notin entries'
    <3>1. EntryOf[s] \notin entries /\ Prior(EntryOf[s]) # {}
      <4>1. CASE answers[s] = "conflict"
        BY <4>1 DEF AnswersAreTrue, TenderConflictsAreReal
      <4>2. CASE s = r /\ FindOperation(r) /\ Prior(EntryOf[r]) # {}
        <5>1. PICK prior \in Prior(EntryOf[r]) : prior # EntryOf[r]
          BY <2>1, <4>2 DEF FindOperation, EndWith, SameEntry, TenderShape
        <5> QED
          BY <4>2, <5>1 DEF CardsAreConsistent, Prior, EntriesOf
      <4> QED
        BY <2>1, <4>1, <4>2, TenderStepOfOne
           DEF Begin, FindOperation, ReadCard, Decide, Commit, Rollback, EndWith, Proceed,
               TenderShape
    <3>2. CASE Commit(r) /\ entries' = entries \cup {EntryOf[r]}
      BY <3>1, <3>2 DEF Commit
    <3> QED
      BY <3>1, <3>2, TenderStepOfOne
  <2>2. ASSUME NEW s \in Request, answers'[s] \in {"applied", "duplicate"}
        PROVE  EntryOf[s] \in entries'
    <3>1. CASE s # r
      BY <1>4, <2>2, <3>1, TenderStepOfOne DEF AnswersAreTrue
    <3>2. CASE s = r /\ answers[r] \in {"applied", "duplicate"}
      BY <1>4, <3>2 DEF AnswersAreTrue
    <3>3. CASE s = r /\ Commit(r)
      BY <3>3 DEF Commit
    <3>4. CASE s = r /\ FindOperation(r) /\ answers[r] \notin {"applied", "duplicate"}
      BY <2>2, <3>4 DEF FindOperation, EndWith, Proceed, SameEntry, TenderShape, Prior, EntriesOf
    <3> QED
      BY <2>2, <3>1, <3>2, <3>3, <3>4
         DEF Begin, ReadCard, Decide, Rollback, EndWith, Proceed, TenderShape
  <2>3. ASSUME NEW s \in Request, NEW u \in Request, s # u, answers'[s] = "applied",
               answers'[u] = "applied"
        PROVE  EntryOf[s] # EntryOf[u]
    <3>1. \A v \in Request : answers'[v] = "applied" => answers[v] = "applied" \/ (v = r /\ Commit(r))
      BY TenderStepOfOne DEF Begin, FindOperation, ReadCard, Decide, Commit, Rollback, EndWith, Proceed,
                       TenderShape
    <3>2. Commit(r) => EntryOf[r] \notin entries
      BY DEF Commit, Prior, EntriesOf
    <3> QED
      BY <2>3, <3>1, <3>2 DEF AnswersAreTrue
  <2>4. ASSUME NEW e \in entries'
        PROVE  \E s \in Request : EntryOf[s] = e /\ answers'[s] \in {"applied", "threw"}
    <3>1. CASE e \in entries
      <4>1. PICK s \in Request : EntryOf[s] = e /\ answers[s] \in {"applied", "threw"}
        BY <3>1 DEF AnswersAreTrue
      <4>2. tenderPc[r] # "done"
        BY DEF Begin, FindOperation, ReadCard, Decide, Commit, Rollback
      <4>3. s # r
        BY <4>1, <4>2 DEF AnsweredWhenDone
      <4> QED
        BY <4>1, <4>3, TenderStepOfOne
    <3>2. CASE Commit(r) /\ e = EntryOf[r]
      BY <3>2 DEF Commit, EndWith, TenderShape
    <3> QED
      BY <3>1, <3>2, TenderStepOfOne
  <2> QED
    BY <2>1, <2>2, <2>3, <2>4 DEF AnswersAreTrue
<1> QED
  BY <1>1, <1>2, <1>3, <1>6, <1>7, <1>8

\* Every step keeps the invariant.
LEMMA TenderNextKeepsInv == TenderInv /\ [TenderNext]_tenderVars => TenderInv'
<1> SUFFICES ASSUME TenderInv, [TenderNext]_tenderVars
             PROVE  TenderInv'
  OBVIOUS
<1>1. TenderShape'
  BY StepsKeepShape DEF TenderInv
<1>2. CASE UNCHANGED tenderVars
  <2>1. \A r \in Request :
          /\ Prior(EntryOf[r])' = Prior(EntryOf[r])
          /\ OtherCurrency(EntryOf[r])' <=> OtherCurrency(EntryOf[r])
          /\ Balance(CardOf(r))' = Balance(CardOf(r))
    BY <1>2, ReadsOfSameEntries DEF tenderVars, CardOf
  <2>2. OperationsAreNew' /\ TenderConflictsAreReal'
    BY <1>2, <2>1 DEF tenderVars, TenderInv, OperationsAreNew, TenderConflictsAreReal, CurrencyAgrees,
                      Covered
  <2>3. ReadsAreCurrent'
    <3> SUFFICES ASSUME NEW r \in Request, tenderPc[r] \in {"decide", "commit"}
                 PROVE  /\ cardLock[CardOf(r)] = r
                        /\ cardRead[r] = [agrees |-> ~OtherCurrency(EntryOf[r])',
                                          balance |-> Balance(CardOf(r))']
      BY <1>2 DEF tenderVars, ReadsAreCurrent, CardOf
    <3>1. OtherCurrency(EntryOf[r]) \in BOOLEAN /\ OtherCurrency(EntryOf[r])' \in BOOLEAN
      BY DEF OtherCurrency
    <3> QED
      BY <2>1, <3>1 DEF TenderInv, ReadsAreCurrent
  <2> QED
    BY <1>1, <1>2, <2>2, <2>3
       DEF tenderVars, TenderInv, LocksAreOwned, CardOf, AnsweredWhenDone, CardsAreConsistent,
           AnswersAreTrue
<1>3. ASSUME NEW r \in Request,
             \/ Begin(r) \/ FindOperation(r) \/ ReadCard(r) \/ Decide(r) \/ Commit(r)
             \/ Rollback(r)
      PROVE  TenderInv'
  <2>1. LocksAreOwned'
    BY <1>3, StepMoves, MovesKeepLocks DEF TenderInv
  <2> QED
    BY <1>1, <1>3, <2>1, TenderStepKeepsInv
<1> QED
  BY <1>2, <1>3 DEF TenderNext

\* The invariant holds of an empty ledger.
LEMMA TenderInitHasInv == TenderInit => TenderInv
<1> SUFFICES ASSUME TenderInit
             PROVE  TenderInv
  OBVIOUS
<1>1. TenderShape /\ LocksAreOwned
  BY CardsOfRequests DEF TenderInit, ContractInit, TenderShape, LocksAreOwned, InTransaction, Answer
<1> QED
  BY <1>1 DEF TenderInit, ContractInit, TenderInv, OperationsAreNew, ReadsAreCurrent,
              AnsweredWhenDone, TenderConflictsAreReal, CardsAreConsistent, AnswersAreTrue

\* However the transactions of a card interleave, retry and fail, what one has read holds until
\* it commits, a card stays in one currency with one entry per operation, and callers are told
\* what is so.
THEOREM TendersAreSafe == TenderSpec => []TenderSafety
<1>1. TenderInv => TenderSafety
  BY DEF TenderInv, TenderSafety, TenderShape, TenderTypeOK, LocksAreOwned, InTransaction
<1> QED
  BY <1>1, TenderInitHasInv, TenderNextKeepsInv, PTL DEF TenderSpec

-----------------------------------------------------------------------------
(* Tender ledger: refinement *)

\* The step that a request's statement is for the atomic ledger.
LEMMA StepRefines ==
  ASSUME TenderInv, NEW r \in Request,
         \/ Begin(r) \/ FindOperation(r) \/ ReadCard(r) \/ Decide(r) \/ Commit(r) \/ Rollback(r)
  PROVE  Serve(r) \/ UNCHANGED contractVars
<1>1. answers[r] = "none" <=> tenderPc[r] # "done"
  BY DEF TenderInv, AnsweredWhenDone
<1>2. CASE Begin(r) \/ ReadCard(r)
  BY <1>2 DEF Begin, ReadCard, Proceed, contractVars
<1>3. CASE FindOperation(r)
  <2>1. CASE Prior(EntryOf[r]) = {}
    BY <1>3, <2>1 DEF FindOperation, Proceed, contractVars
  <2>2. ASSUME NEW prior \in Prior(EntryOf[r]),
               EndWith(r, IF SameEntry(prior, EntryOf[r]) THEN "duplicate" ELSE "conflict")
        PROVE  Repeat(r)
    <3>1. CASE prior = EntryOf[r]
      BY <1>3, <2>2, <3>1 DEF FindOperation, EndWith, SameEntry, Repeat
    <3>2. CASE prior # EntryOf[r]
      <4>1. EntryOf[r] \notin Prior(EntryOf[r])
        BY <3>2 DEF TenderInv, CardsAreConsistent, Prior, EntriesOf
      <4> QED
        BY <1>3, <2>2, <3>2, <4>1 DEF FindOperation, EndWith, SameEntry, Repeat
    <3> QED
      BY <3>1, <3>2
  <2> QED
    BY <1>1, <1>3, <2>1, <2>2 DEF FindOperation, Serve
<1>4. CASE Decide(r) \/ Commit(r)
  <2>1. cardRead[r] = [agrees |-> ~OtherCurrency(EntryOf[r]), balance |-> Balance(CardOf(r))]
    BY <1>4 DEF Decide, Commit, TenderInv, ReadsAreCurrent
  <2>2. /\ CurrencyAgrees(r) <=> ~OtherCurrency(EntryOf[r])
        /\ cardRead[r].balance = Balance(CardOf(r))
    <3>1. cardRead[r].balance = Balance(CardOf(r))
      BY <2>1, ReadingShape
    <3>2. cardRead[r].agrees <=> ~OtherCurrency(EntryOf[r])
      BY <2>1, ReadingShape
    <3> QED
      BY <3>1, <3>2 DEF CurrencyAgrees
  <2>3. Prior(EntryOf[r]) = {}
    BY <1>4 DEF Decide, Commit, TenderInv, OperationsAreNew
  <2>4. CASE Commit(r)
    <3>1. CurrencyAgrees(r) /\ Covered(r)
      BY <2>4 DEF Commit, TenderInv, OperationsAreNew
    <3>2. Apply(r)
      BY <2>2, <2>3, <2>4, <3>1 DEF Commit, EndWith, Apply, Covered, CardOf
    <3> QED
      BY <1>1, <2>4, <3>2 DEF Commit, Serve
  <2>5. CASE Decide(r) /\ ~CurrencyAgrees(r)
    BY <1>1, <2>2, <2>3, <2>5 DEF Decide, EndWith, Refuse, Serve
  <2>6. CASE Decide(r) /\ CurrencyAgrees(r) /\ ~Covered(r)
    BY <1>1, <2>2, <2>3, <2>6 DEF Decide, EndWith, Refuse, Serve, Covered, CardOf
  <2>7. CASE Decide(r) /\ CurrencyAgrees(r) /\ Covered(r)
    BY <2>7 DEF Decide, Proceed, contractVars
  <2> QED
    BY <1>4, <2>4, <2>5, <2>6, <2>7
<1>5. CASE Rollback(r)
  BY <1>1, <1>5 DEF Rollback, EndWith, Fail, Serve
<1> QED
  BY <1>2, <1>3, <1>4, <1>5

\* The transactions of the PostgreSQL ledger take effect as if each call was served in one
\* step: no interleaving, lost answer or rollback shows.
THEOREM TransactionsAreAtomic == TenderSpec => LedgerIsAtomic
<1>1. TenderInit => ContractInit
  BY DEF TenderInit
<1>2. TenderInv /\ [TenderNext]_tenderVars => [ContractNext]_contractVars
  BY StepRefines DEF TenderNext, tenderVars, contractVars, ContractNext
<1> QED
  BY <1>1, <1>2, TenderInitHasInv, TenderNextKeepsInv, PTL DEF TenderSpec, LedgerIsAtomic, ContractSpec

-----------------------------------------------------------------------------
(* Tender ledger: the balance *)

Requested == {EntryOf[r] : r \in Request}

\* What an entry adds to the balance of its card.
Worth == [e \in Requested |-> IF e.kind = "credit" THEN e.amount ELSE -e.amount]

\* What an entry is worth is an integer.
LEMMA WorthIsInt == \A e \in Requested : Worth[e] \in Int
BY TenderAssumption DEF Worth, Requested

\* The equation that Total is computed by.
Totals(g, es) ==
  g = [s \in SUBSET es |->
         IF s = {} THEN 0
         ELSE (IF Pick(s).kind = "credit" THEN Pick(s).amount ELSE -Pick(s).amount)
                + g[s \ {Pick(s)}]]

\* A balance is the sum that Sums is about.
LEMMA TotalIsSum ==
  ASSUME NEW es \in SUBSET Requested
  PROVE  IsFiniteSet(es) /\ Total(es) = SumOf(Worth, es)
<1>1. IsFiniteSet(es)
  <2>1. IsFiniteSet(Requested)
    <3>1. [r \in Request |-> EntryOf[r]] \in Surjection(Request, Requested)
      BY DEF Surjection, Requested
    <3> QED
      BY <3>1, TenderAssumption, FS_Surjection
  <2> QED
    BY <2>1, FS_Subset
<1>2. ASSUME NEW g
      PROVE  Totals(g, es) <=> Adds(g, Worth, es)
  <2>1. \A s \in SUBSET es : s # {} =>
          Worth[Pick(s)] = IF Pick(s).kind = "credit" THEN Pick(s).amount ELSE -Pick(s).amount
    BY PickIsIn DEF Worth
  <2>2. [s \in SUBSET es |->
           IF s = {} THEN 0
           ELSE (IF Pick(s).kind = "credit" THEN Pick(s).amount ELSE -Pick(s).amount)
                  + g[s \ {Pick(s)}]]
          = [s \in SUBSET es |-> IF s = {} THEN 0 ELSE Worth[Pick(s)] + g[s \ {Pick(s)}]]
    BY <2>1
  <2> QED
    BY <2>2 DEF Totals, Adds
<1>3. \E g : Adds(g, Worth, es)
  BY <1>1, AddsExists
<1> DEFINE t == CHOOSE g : Totals(g, es)
           a == CHOOSE g : Adds(g, Worth, es)
<1>4. Totals(t, es) /\ Adds(a, Worth, es)
  BY <1>2, <1>3
<1>5. t = a
  <2> HIDE DEF t, a
  <2> QED
    BY <1>1, <1>2, <1>4, AddsOneWay
<1>6. Total(es) = t[es]
  BY DEF Total, Totals, MapThenSumSet, MapThenFoldSet, Pick
<1> QED
  BY <1>1, <1>5, <1>6, SumIsChosen

\* The entry that a transaction commits changes its card's balance by its worth.
LEMMA CommitMovesBalance ==
  ASSUME TenderInv, NEW r \in Request, Commit(r)
  PROVE  /\ Balance(CardOf(r)) \in Int
         /\ Balance(CardOf(r))' = Balance(CardOf(r)) + Worth[EntryOf[r]]
<1> DEFINE before == EntriesOf(CardOf(r))
<1>1. before \in SUBSET Requested /\ EntryOf[r] \in Requested
  BY DEF EntriesOf, Requested, TenderInv, TenderShape
<1>2. EntriesOf(CardOf(r))' = before \cup {EntryOf[r]}
  BY DEF EntriesOf, Commit, CardOf
<1>3. EntryOf[r] \notin before
  BY CommitIsConsistent
<1>4. IsFiniteSet(before) /\ Total(before) = SumOf(Worth, before)
  BY <1>1, TotalIsSum
<1>5. before \cup {EntryOf[r]} \in SUBSET Requested
  BY <1>1
<1>6. Total(before \cup {EntryOf[r]}) = SumOf(Worth, before \cup {EntryOf[r]})
  BY <1>5, TotalIsSum
<1>7. \A e \in before : Worth[e] \in Int
  BY <1>1, WorthIsInt
<1>8. Worth[EntryOf[r]] \in Int
  BY <1>1, WorthIsInt
<1>9. SumOf(Worth, before \cup {EntryOf[r]}) = SumOf(Worth, before) + Worth[EntryOf[r]]
  <2> HIDE DEF before
  <2> QED
    BY <1>3, <1>4, <1>7, <1>8, SumOfAdd
<1>10. SumOf(Worth, before) \in Int
  <2> HIDE DEF before
  <2> QED
    BY <1>4, <1>7, SumOfInt
<1>11. Balance(CardOf(r)) = Total(before) /\ Balance(CardOf(r))' = Total(before \cup {EntryOf[r]})
  BY <1>2 DEF Balance
<1> QED
  BY <1>4, <1>6, <1>9, <1>10, <1>11

\* Every step keeps the balances covered.
LEMMA NextKeepsBalance ==
  TenderInv /\ NoOverdraft /\ [TenderNext]_tenderVars => NoOverdraft'
<1> SUFFICES ASSUME TenderInv, NoOverdraft, [TenderNext]_tenderVars, NEW c \in Card
             PROVE  Balance(c)' >= 0
  BY DEF NoOverdraft
<1>1. Balance(c) >= 0
  BY DEF NoOverdraft
<1>2. CASE entries' = entries
  BY <1>1, <1>2 DEF Balance, EntriesOf
<1>3. ASSUME NEW r \in Request, Commit(r), entries' = entries \cup {EntryOf[r]}
      PROVE  Balance(c)' >= 0
  <2>1. CASE CardOf(r) # c
    <3>1. EntriesOf(c)' = EntriesOf(c)
      BY <1>3, <2>1 DEF EntriesOf, CardOf
    <3> QED
      BY <1>1, <3>1 DEF Balance
  <2>2. CASE CardOf(r) = c
    <3>1. Balance(c) \in Int /\ Balance(c)' = Balance(c) + Worth[EntryOf[r]]
      BY <1>3, <2>2, CommitMovesBalance
    <3>2. /\ EntryOf[r].amount \in Nat
          /\ Worth[EntryOf[r]] = IF EntryOf[r].kind = "credit" THEN EntryOf[r].amount
                                                              ELSE -EntryOf[r].amount
      BY TenderAssumption DEF Worth, Requested
    <3>3. CASE EntryOf[r].kind = "credit"
      BY <1>1, <3>1, <3>2, <3>3
    <3>4. CASE EntryOf[r].kind # "credit"
      <4>1. EntryOf[r].kind = "redeem"
        BY <3>4, TenderAssumption
      <4>2. Covered(r)
        BY <1>3 DEF TenderInv, OperationsAreNew, Commit
      <4>3. cardRead[r] = [agrees |-> ~OtherCurrency(EntryOf[r]), balance |-> Balance(CardOf(r))]
        BY <1>3 DEF TenderInv, ReadsAreCurrent, Commit
      <4>4. cardRead[r].balance = Balance(c)
        BY <2>2, <4>3, ReadingShape
      <4>5. Balance(c) >= EntryOf[r].amount
        BY <4>1, <4>2, <4>4 DEF Covered, Covers
      <4>6. Balance(c)' = Balance(c) + (-EntryOf[r].amount)
        BY <3>1, <3>2, <3>4
      <4> QED
        BY <3>1, <3>2, <4>5, <4>6
    <3> QED
      BY <3>3, <3>4
  <2> QED
    BY <2>1, <2>2
<1>4. CASE UNCHANGED tenderVars
  BY <1>2, <1>4 DEF tenderVars
<1>5. CASE TenderNext
  <2>1. TenderShape
    BY DEF TenderInv
  <2>2. PICK r \in Request :
          \/ Begin(r) \/ FindOperation(r) \/ ReadCard(r) \/ Decide(r) \/ Commit(r) \/ Rollback(r)
    BY <1>5 DEF TenderNext
  <2>3. entries' = entries \/ (Commit(r) /\ entries' = entries \cup {EntryOf[r]})
    BY <2>1, <2>2, TenderStepOfOne
  <2> QED
    BY <1>2, <1>3, <2>3
<1> QED
  BY <1>4, <1>5

\* "Concurrent redemption cannot overspend the balance": no card is ever worth less than
\* nothing, whatever redemptions race for it.
THEOREM CardsAreNotOverdrawn == TenderSpec => []NoOverdraft
<1>1. TenderInit => NoOverdraft
  <2> SUFFICES ASSUME TenderInit, NEW c \in Card
               PROVE  Balance(c) >= 0
    BY DEF NoOverdraft
  <2>1. EntriesOf(c) = {}
    BY DEF TenderInit, ContractInit, EntriesOf
  <2>2. Total({}) = SumOf(Worth, {})
    BY TotalIsSum
  <2>3. SumOf(Worth, {}) = 0
    BY SumOfEmpty
  <2>4. Balance(c) = 0
    BY <2>1, <2>2, <2>3 DEF Balance
  <2> QED
    BY <2>4
<1> QED
  BY <1>1, TenderInitHasInv, TenderNextKeepsInv, NextKeepsBalance, PTL DEF TenderSpec

-----------------------------------------------------------------------------
(* The promotion ledger *)

InClaim == {"find", "count", "insert"}

\* A claim that is about to insert has room for its redemption.
RoomIsThere ==
  \A r \in Claimant :
    claimPc[r] = "insert" => Cardinality(RedemptionsOf(CodeOf[r])) < CapOf[r]

\* A conflict is with a redemption of the same id.
ClaimConflictsAreReal ==
  \A r \in Claimant : claimAnswers[r] = "conflict" => SameId(r) # {}

PromotionInv ==
  /\ PromotionTypeOK /\ IsFiniteSet(redeemed) /\ RoomIsThere /\ ClaimConflictsAreReal
  /\ CapIsHard /\ RedemptionsAreSingleUse

ClaimStep(r) ==
  \/ BeginClaim(r) \/ FindRedemption(r) \/ CountRedemptions(r)
  \/ InsertRedemption(r) \/ RollbackClaim(r)

Inserts(r) ==
  /\ claimPc[r] = "insert" /\ SameId(r) = {}
  /\ redeemed' = redeemed \cup {OwnRedemption(r)}
  /\ claimPc' = [claimPc EXCEPT ![r] = "done"]

-----------------------------------------------------------------------------
(* Promotion ledger: lemmas *)

\* The columns of a claimant's own redemption.
LEMMA OwnFields ==
  ASSUME NEW r \in Claimant
  PROVE  /\ OwnRedemption(r).code = CodeOf[r] /\ OwnRedemption(r).id = RedemptionOf[r]
         /\ CodeOf[r] \in Code /\ CapOf[r] \in Nat \ {0} /\ r # NoClaimant
BY PromotionAssumption DEF OwnRedemption, Redemption

\* A step is of one claim, and adds at most its own redemption, under an id that is free.
LEMMA ClaimStepOfOne ==
  ASSUME PromotionTypeOK, NEW r \in Claimant, ClaimStep(r)
  PROVE  /\ \A s \in Claimant \ {r} :
              claimPc'[s] = claimPc[s] /\ claimAnswers'[s] = claimAnswers[s]
         /\ redeemed' = redeemed \/ Inserts(r)
BY DEF ClaimStep, BeginClaim, FindRedemption, CountRedemptions, InsertRedemption, RollbackClaim,
       ContinueClaim, AnswerClaim, PromotionTypeOK, Inserts, IdIsTaken

\* A step of one claimant keeps the types.
LEMMA ClaimStepKeepsTypes ==
  ASSUME PromotionTypeOK, NEW r \in Claimant, ClaimStep(r)
  PROVE  PromotionTypeOK'
<1> USE OwnFields DEF PromotionTypeOK
<1>1. /\ claimPc' \in [Claimant -> {"lock", "find", "count", "insert", "done"}]
      /\ claimAnswers' \in [Claimant -> ClaimAnswer]
      /\ redeemed' \subseteq {OwnRedemption(s) : s \in Claimant}
  BY DEF ClaimStep, BeginClaim, FindRedemption, CountRedemptions, InsertRedemption, RollbackClaim,
         ContinueClaim, AnswerClaim, ClaimAnswer
<1>2. codeLock' \in [Code -> Claimant \cup {NoClaimant}]
  BY DEF ClaimStep, BeginClaim, FindRedemption, CountRedemptions, InsertRedemption, RollbackClaim,
         ContinueClaim, AnswerClaim, ReleaseCode
<1>3. ASSUME NEW s \in Claimant
      PROVE  claimPc'[s] \in InClaim <=> codeLock'[CodeOf[s]] = s
  <2>1. claimPc[s] \in InClaim <=> codeLock[CodeOf[s]] = s
    BY DEF InClaim
  <2>2. claimPc[r] \in InClaim <=> codeLock[CodeOf[r]] = r
    BY DEF InClaim
  <2>3. CASE BeginClaim(r)
    BY <2>1, <2>2, <2>3 DEF BeginClaim, CodeIsFree, InClaim
  <2>4. CASE codeLock' = codeLock /\ claimPc[r] \in InClaim /\ claimPc'[r] \in InClaim
    BY <2>1, <2>2, <2>4, ClaimStepOfOne
  <2>5. CASE claimPc[r] \in InClaim /\ claimPc'[r] = "done" /\ ReleaseCode(r)
    BY <2>1, <2>2, <2>5, ClaimStepOfOne DEF ReleaseCode, InClaim
  <2> QED
    BY <2>3, <2>4, <2>5
       DEF ClaimStep, FindRedemption, CountRedemptions, InsertRedemption, RollbackClaim,
           ContinueClaim, AnswerClaim, InClaim
<1> QED
  BY <1>1, <1>2, <1>3 DEF InClaim, OwnRedemption, Redemption

\* The claims of a code take turns.
LEMMA ClaimsTakeTurns ==
  ASSUME PromotionTypeOK, NEW r \in Claimant, NEW s \in Claimant, CodeOf[r] = CodeOf[s],
         claimPc[r] \in InClaim, claimPc[s] \in InClaim
  PROVE  r = s
BY DEF PromotionTypeOK, InClaim

\* Inserting a redemption adds one to those of its code and leaves the other codes alone.
LEMMA InsertCounts ==
  ASSUME PromotionInv, NEW r \in Claimant, Inserts(r)
  PROVE  /\ IsFiniteSet(redeemed')
         /\ Cardinality(RedemptionsOf(CodeOf[r])') = Cardinality(RedemptionsOf(CodeOf[r])) + 1
         /\ Cardinality(RedemptionsOf(CodeOf[r])) \in Nat
         /\ \A c \in Code \ {CodeOf[r]} : RedemptionsOf(c)' = RedemptionsOf(c)
<1> DEFINE own == OwnRedemption(r)
<1>1. own \notin redeemed
  BY OwnFields DEF Inserts, SameId
<1>2. RedemptionsOf(CodeOf[r])' = RedemptionsOf(CodeOf[r]) \cup {own}
  BY OwnFields DEF Inserts, RedemptionsOf
<1>3. IsFiniteSet(RedemptionsOf(CodeOf[r]))
  BY FS_Subset DEF PromotionInv, RedemptionsOf
<1>4. own \notin RedemptionsOf(CodeOf[r])
  BY <1>1 DEF RedemptionsOf
<1>5. /\ Cardinality(RedemptionsOf(CodeOf[r]) \cup {own}) = Cardinality(RedemptionsOf(CodeOf[r])) + 1
      /\ Cardinality(RedemptionsOf(CodeOf[r])) \in Nat
  BY <1>3, <1>4, FS_AddElement, FS_CardinalityType
<1>6. IsFiniteSet(redeemed')
  BY FS_AddElement DEF PromotionInv, Inserts
<1>7. \A c \in Code \ {CodeOf[r]} : RedemptionsOf(c)' = RedemptionsOf(c)
  BY OwnFields DEF Inserts, RedemptionsOf
<1> QED
  BY <1>2, <1>5, <1>6, <1>7

-----------------------------------------------------------------------------
(* Promotion ledger: the inductive invariant *)

\* A step of one claimant keeps the invariant.
LEMMA ClaimStepKeepsInv ==
  ASSUME PromotionInv, NEW r \in Claimant, ClaimStep(r)
  PROVE  PromotionInv'
<1>0. PromotionTypeOK /\ PromotionTypeOK'
  BY ClaimStepKeepsTypes DEF PromotionInv
<1>1. IsFiniteSet(redeemed')
  BY <1>0, ClaimStepOfOne, InsertCounts DEF PromotionInv
<1>2. RoomIsThere'
  <2> SUFFICES ASSUME NEW s \in Claimant, claimPc'[s] = "insert"
               PROVE  Cardinality(RedemptionsOf(CodeOf[s])') < CapOf[s]
    BY DEF RoomIsThere
  <2>1. CASE Inserts(r)
    <3>1. s # r
      BY <1>0, <2>1 DEF Inserts, PromotionTypeOK
    <3>2. claimPc[s] = "insert"
      BY <1>0, <3>1, ClaimStepOfOne
    <3>3. CodeOf[s] # CodeOf[r]
      BY <1>0, <2>1, <3>1, <3>2, ClaimsTakeTurns DEF Inserts, InClaim
    <3> QED
      BY <2>1, <3>2, <3>3, InsertCounts, OwnFields DEF PromotionInv, RoomIsThere
  <2>2. CASE redeemed' = redeemed
    <3>1. RedemptionsOf(CodeOf[s])' = RedemptionsOf(CodeOf[s])
      BY <2>2 DEF RedemptionsOf
    <3>2. CASE claimPc[s] = "insert"
      BY <3>1, <3>2 DEF PromotionInv, RoomIsThere
    <3>3. CASE s = r /\ claimPc[r] # "insert"
      <4>1. CountRedemptions(r) /\ ~IsExhausted(r)
        BY <1>0, <3>3
           DEF ClaimStep, BeginClaim, FindRedemption, CountRedemptions, InsertRedemption,
               RollbackClaim, ContinueClaim, AnswerClaim, PromotionTypeOK
      <4>2. Cardinality(RedemptionsOf(CodeOf[r])) \in Nat
        <5>1. IsFiniteSet(RedemptionsOf(CodeOf[r]))
          BY FS_Subset DEF PromotionInv, RedemptionsOf
        <5> QED
          BY <5>1, FS_CardinalityType
      <4> QED
        BY <3>1, <3>3, <4>1, <4>2, OwnFields DEF IsExhausted
    <3> QED
      BY <1>0, <3>2, <3>3, ClaimStepOfOne
  <2> QED
    BY <1>0, <2>1, <2>2, ClaimStepOfOne
<1>3. redeemed \subseteq redeemed'
  BY <1>0, ClaimStepOfOne DEF Inserts
<1>4. ClaimConflictsAreReal'
  <2>1. \A s \in Claimant : SameId(s) \subseteq SameId(s)'
    BY <1>3 DEF SameId
  <2>2. claimAnswers'[r] = "conflict" => claimAnswers[r] = "conflict" \/ SameId(r) # {}
    BY <1>0 DEF ClaimStep, BeginClaim, FindRedemption, CountRedemptions, InsertRedemption,
                RollbackClaim, ContinueClaim, AnswerClaim, PromotionTypeOK
  <2> QED
    BY <1>0, <2>1, <2>2, ClaimStepOfOne DEF PromotionInv, ClaimConflictsAreReal
<1>5. CapIsHard'
  <2> SUFFICES ASSUME NEW c \in Code, RedemptionsOf(c)' # {}
               PROVE  \E s \in Claimant :
                        CodeOf[s] = c /\ Cardinality(RedemptionsOf(c)') <= CapOf[s]
    BY DEF CapIsHard
  <2>1. CASE RedemptionsOf(c)' = RedemptionsOf(c)
    BY <2>1 DEF PromotionInv, CapIsHard
  <2>2. CASE Inserts(r) /\ c = CodeOf[r]
    <3>1. Cardinality(RedemptionsOf(CodeOf[r])) < CapOf[r]
      BY <2>2 DEF PromotionInv, RoomIsThere, Inserts
    <3>2. Cardinality(RedemptionsOf(c)') <= CapOf[r]
      BY <2>2, <3>1, InsertCounts, OwnFields
    <3> QED
      BY <2>2, <3>2
  <2> QED
    BY <1>0, <2>1, <2>2, ClaimStepOfOne, InsertCounts DEF RedemptionsOf
<1>6. RedemptionsAreSingleUse'
  <2>1. ASSUME NEW x \in redeemed', NEW y \in redeemed', x.id = y.id
        PROVE  x = y
    BY <1>0, <2>1, ClaimStepOfOne, OwnFields
       DEF PromotionInv, RedemptionsAreSingleUse, Inserts, SameId
  <2>2. ASSUME NEW s \in Claimant, claimAnswers'[s] \in {"claimed", "duplicate"}
        PROVE  OwnRedemption(s) \in redeemed'
    <3>1. CASE claimAnswers[s] \in {"claimed", "duplicate"}
      BY <1>3, <3>1 DEF PromotionInv, RedemptionsAreSingleUse
    <3>2. CASE s = r /\ claimAnswers[r] \notin {"claimed", "duplicate"}
      BY <1>0, <2>2, <3>2
         DEF ClaimStep, BeginClaim, FindRedemption, CountRedemptions, InsertRedemption,
             RollbackClaim, ContinueClaim, AnswerClaim, PromotionTypeOK, SameId
    <3> QED
      BY <1>0, <2>2, <3>1, <3>2, ClaimStepOfOne
  <2>3. ASSUME NEW s \in Claimant, claimAnswers'[s] = "conflict"
        PROVE  OwnRedemption(s) \notin redeemed'
    <3>1. OwnRedemption(s) \notin redeemed /\ SameId(s) # {}
      <4>1. CASE claimAnswers[s] = "conflict"
        BY <4>1 DEF PromotionInv, RedemptionsAreSingleUse, ClaimConflictsAreReal
      <4>2. CASE s = r /\ claimAnswers[r] # "conflict"
        BY <1>0, <2>3, <4>2, OwnFields
           DEF ClaimStep, BeginClaim, FindRedemption, CountRedemptions, InsertRedemption,
               RollbackClaim, ContinueClaim, AnswerClaim, PromotionTypeOK, SameId
      <4> QED
        BY <1>0, <2>3, <4>1, <4>2, ClaimStepOfOne
    <3>2. ASSUME Inserts(r)
          PROVE  RedemptionOf[s] # RedemptionOf[r]
      BY <3>1, <3>2 DEF Inserts, SameId
    <3> QED
      BY <1>0, <3>1, <3>2, ClaimStepOfOne, OwnFields DEF Inserts
  <2>4. ASSUME NEW s \in Claimant, NEW u \in Claimant \ {s}, claimAnswers'[s] = "claimed",
               claimAnswers'[u] = "claimed"
        PROVE  RedemptionOf[s] # RedemptionOf[u]
    <3>1. \A v \in Claimant :
            claimAnswers'[v] = "claimed" => claimAnswers[v] = "claimed" \/ (v = r /\ Inserts(r))
      BY <1>0, ClaimStepOfOne
         DEF ClaimStep, BeginClaim, FindRedemption, CountRedemptions, InsertRedemption,
             RollbackClaim, ContinueClaim, AnswerClaim, PromotionTypeOK, Inserts, IdIsTaken
    <3>2. ASSUME NEW v \in Claimant, claimAnswers[v] = "claimed", Inserts(r)
          PROVE  RedemptionOf[v] # RedemptionOf[r]
      BY <3>2, OwnFields DEF PromotionInv, RedemptionsAreSingleUse, Inserts, SameId
    <3> QED
      BY <2>4, <3>1, <3>2 DEF PromotionInv, RedemptionsAreSingleUse
  <2> QED
    BY <2>1, <2>2, <2>3, <2>4 DEF RedemptionsAreSingleUse, OwnRedemption
<1> QED
  BY <1>0, <1>1, <1>2, <1>4, <1>5, <1>6 DEF PromotionInv

\* Every step keeps the invariant.
LEMMA ClaimNextKeepsInv == PromotionInv /\ [PromotionNext]_promotionVars => PromotionInv'
<1> SUFFICES ASSUME PromotionInv, [PromotionNext]_promotionVars
             PROVE  PromotionInv'
  OBVIOUS
<1>1. CASE UNCHANGED promotionVars
  BY <1>1 DEF promotionVars, PromotionInv, PromotionTypeOK, RoomIsThere, ClaimConflictsAreReal,
              CapIsHard, RedemptionsAreSingleUse, RedemptionsOf, SameId, OwnRedemption
<1> QED
  BY <1>1, ClaimStepKeepsInv DEF PromotionNext, ClaimStep

\* However claims race under their locks, over codes that share ids, and fail, no code is
\* redeemed beyond the cap of a claim, an id is redeemed once, and claims are told so.
THEOREM PromotionsAreSafe == PromotionSpec => []PromotionSafety
<1>1. PromotionInit => PromotionInv
  <2> SUFFICES ASSUME PromotionInit
               PROVE  PromotionInv
    OBVIOUS
  <2>1. IsFiniteSet(redeemed)
    BY FS_EmptySet DEF PromotionInit
  <2> QED
    BY <2>1, OwnFields
       DEF PromotionInit, PromotionInv, PromotionTypeOK, RoomIsThere, ClaimConflictsAreReal,
           CapIsHard, RedemptionsAreSingleUse, RedemptionsOf, ClaimAnswer
<1>2. PromotionInv => PromotionSafety
  BY DEF PromotionInv, PromotionSafety
<1> QED
  BY <1>1, <1>2, ClaimNextKeepsInv, PTL DEF PromotionSpec

-----------------------------------------------------------------------------
(* The approval gate *)

\* A write that got past prepare carries an approval of its own call, and only writes wait for
\* the ledger, if there is one.
PastPrepare ==
  /\ \A t \in Attempt :
       gatePc[t] \in {"insert", "select"} => t \notin Reads /\ Bound(t) /\ Durable(t)
  /\ \A t \in Writes : Bound(t)

\* What a write has consumed: the row of its approval, or the note of its process.
UsesAreNoted ==
  \A t \in Writes :
    /\ Durable(t) => approvals[ApprovalOf[t]] = CallOf[t]
    /\ ~Durable(t) => <<ReplicaOf[t], ApprovalOf[t]>> \in consumed

GateInv ==
  /\ GateTypeOK /\ executions \subseteq Attempt /\ PastPrepare /\ UsesAreNoted
  /\ ApprovalIsSingleUse /\ OnlyWritesSpend /\ ReadsAreAllowed /\ ResultsAreHonest

GateStep(t) ==
  \/ Denied(t) \/ AuthorizeRead(t) \/ AuthorizeInMemory(t) \/ Authorize(t)
  \/ InsertClaim(t) \/ SelectClaim(t) \/ ExecutorReturns(t)

-----------------------------------------------------------------------------
(* Approval gate: lemmas *)

\* An approval is bound to its call.
LEMMA BoundApprovals ==
  ASSUME NEW t \in Attempt, Bound(t)
  PROVE  /\ ApprovalOf[t] \in Approval /\ GrantOf[ApprovalOf[t]] = CallOf[t]
         /\ CallOf[t] # NoCall
BY GateAssumption DEF Bound, Approval

\* Every step of an attempt is an end, an advance or the start of its executor, and touches
\* no other attempt.
LEMMA GateStepOfOne ==
  ASSUME GateTypeOK, NEW t \in Attempt, GateStep(t)
  PROVE  /\ \A u \in Attempt \ {t} : gatePc'[u] = gatePc[u] /\ gateResult'[u] = gateResult[u]
         /\ executions' \in {executions, executions \cup {t}}
         /\ mutations' \in {mutations, mutations \cup {t}}
         /\ expired' = expired
BY DEF GateStep, Denied, AuthorizeRead, AuthorizeInMemory, Authorize, InsertClaim, SelectClaim,
       ExecutorReturns, Ends, GoOn, Execute, GateTypeOK

\* A step of one execution keeps the types.
LEMMA GateStepKeepsTypes ==
  ASSUME GateTypeOK, executions \subseteq Attempt, NEW t \in Attempt, GateStep(t)
  PROVE  GateTypeOK' /\ executions' \subseteq Attempt
<1> USE DEF GateTypeOK
<1>1. executions' \subseteq Attempt
  BY GateStepOfOne
<1>2. /\ gatePc' \in [Attempt -> {"start", "insert", "select", "execute", "done"}]
      /\ gateResult' \in
           [Attempt -> {"none", "denied", "threw", "committed", "not_committed", "unknown"}]
  BY DEF GateStep, Denied, AuthorizeRead, AuthorizeInMemory, Authorize, InsertClaim, SelectClaim,
         ExecutorReturns, Ends, GoOn, Execute, ThrownResult
<1>3. approvals' \in [Approval -> {CallOf[u] : u \in Attempt} \cup {NoCall}]
  BY DEF GateStep, Denied, AuthorizeRead, AuthorizeInMemory, Authorize, InsertClaim, SelectClaim,
         ExecutorReturns
<1>4. consumed' \subseteq {ReplicaOf[u] : u \in Attempt} \X Approval
  BY BoundApprovals
     DEF GateStep, Denied, AuthorizeRead, AuthorizeInMemory, Authorize, InsertClaim, SelectClaim,
         ExecutorReturns, PreparedWrite
<1>5. mutations' \subseteq executions'
  BY DEF GateStep, Denied, AuthorizeRead, AuthorizeInMemory, Authorize, InsertClaim, SelectClaim,
         ExecutorReturns, Ends, GoOn, Execute, ThrownResult
<1>6. ASSUME NEW u \in Attempt
      PROVE  /\ gateResult'[u] = "none" <=> gatePc'[u] # "done"
             /\ u \in executions' <=>
                  gatePc'[u] = "execute"
                    \/ gateResult'[u] \in {"committed", "not_committed", "unknown"}
  BY GateStepOfOne
     DEF GateStep, Denied, AuthorizeRead, AuthorizeInMemory, Authorize, InsertClaim, SelectClaim,
         ExecutorReturns, Ends, GoOn, Execute, ThrownResult
<1> QED
  BY <1>1, <1>2, <1>3, <1>4, <1>5, <1>6, GateStepOfOne

\* Rows and notes stay: what an execution has consumed cannot be had again.
LEMMA UsesAreKept ==
  ASSUME GateTypeOK, NEW t \in Attempt, GateStep(t)
  PROVE  /\ consumed \subseteq consumed'
         /\ \A p \in Approval : approvals[p] # NoCall => approvals'[p] = approvals[p]
BY DEF GateStep, Denied, AuthorizeRead, AuthorizeInMemory, Authorize, InsertClaim, SelectClaim,
       ExecutorReturns, RowIsFree, GateTypeOK

-----------------------------------------------------------------------------
(* Approval gate: the inductive invariant *)

\* The step that starts the executor of a write takes an approval that nobody has used so far
\* where this attempt is served.
LEMMA StartTakesApproval ==
  ASSUME GateInv, NEW t \in Attempt \ Reads, GateStep(t), t \notin executions,
         t \in executions'
  PROVE  /\ Bound(t)
         /\ Durable(t) => approvals[ApprovalOf[t]] = NoCall /\ approvals'[ApprovalOf[t]] = CallOf[t]
         /\ ~Durable(t) => /\ <<ReplicaOf[t], ApprovalOf[t]>> \notin consumed
                           /\ <<ReplicaOf[t], ApprovalOf[t]>> \in consumed'
<1>1. CASE AuthorizeInMemory(t)
  BY <1>1 DEF AuthorizeInMemory, PreparedWrite
<1>2. CASE InsertClaim(t)
  <2>1. Durable(t) /\ Bound(t)
    BY <1>2 DEF InsertClaim, GateInv, PastPrepare
  <2>2. ApprovalOf[t] \in Approval
    BY <2>1, BoundApprovals
  <2> QED
    BY <1>2, <2>1, <2>2 DEF InsertClaim, RowIsFree, GateInv, GateTypeOK
<1> QED
  BY <1>1, <1>2, GateAssumption
     DEF GateStep, Denied, AuthorizeRead, PreparedRead, Authorize, SelectClaim, ExecutorReturns

\* What was let through stays so, and a call that threw is over.
LEMMA SpentStaysSpent ==
  ASSUME GateTypeOK, NEW t \in Attempt, GateStep(t), NEW u \in Attempt,
         u \in executions \/ gateResult[u] = "threw"
  PROVE  u \in executions' \/ gateResult'[u] = "threw"
<1>1. CASE u \in executions
  BY <1>1, GateStepOfOne
<1>2. CASE gateResult[u] = "threw"
  <2>1. gatePc[u] = "done"
    BY <1>2 DEF GateTypeOK
  <2>2. u # t
    BY <2>1
       DEF GateStep, Denied, AuthorizeRead, AuthorizeInMemory, Authorize, InsertClaim, SelectClaim,
           ExecutorReturns
  <2> QED
    BY <1>2, <2>2, GateStepOfOne
<1> QED
  BY <1>1, <1>2

\* The row of an approval is written by a write that it was given for.
LEMMA GateStepSpends ==
  ASSUME GateInv, NEW t \in Attempt, GateStep(t), NEW p \in Approval, approvals'[p] # NoCall
  PROVE  \E u \in Attempt \ Reads :
           /\ ApprovalOf[u] = p /\ CallOf[u] = approvals'[p] /\ GrantOf[p] = approvals'[p]
           /\ u \in executions' \/ gateResult'[u] = "threw"
<1> USE DEF GateInv
<1>1. CASE approvals[p] # NoCall
  <2>1. approvals'[p] = approvals[p]
    BY <1>1, UsesAreKept
  <2>2. PICK u \in Attempt \ Reads :
          /\ ApprovalOf[u] = p /\ CallOf[u] = approvals[p] /\ GrantOf[p] = approvals[p]
          /\ u \in executions \/ gateResult[u] = "threw"
    BY <1>1 DEF OnlyWritesSpend
  <2>3. u \in executions' \/ gateResult'[u] = "threw"
    BY <2>2, SpentStaysSpent
  <2> QED
    BY <2>1, <2>2, <2>3
<1>2. CASE approvals[p] = NoCall
  <2>1. InsertClaim(t)
    BY <1>2
       DEF GateStep, Denied, AuthorizeRead, AuthorizeInMemory, Authorize, SelectClaim,
           ExecutorReturns
  <2>2. t \notin Reads /\ Bound(t)
    BY <2>1 DEF InsertClaim, PastPrepare
  <2>3. ApprovalOf[t] = p /\ approvals'[p] = CallOf[t]
    BY <1>2, <2>1 DEF InsertClaim, GateTypeOK
  <2>4. t \in executions' \/ gateResult'[t] = "threw"
    BY <1>2, <2>1, <2>3 DEF InsertClaim, Execute, Ends, GateTypeOK, RowIsFree
  <2> QED
    BY <2>2, <2>3, <2>4 DEF Bound
<1> QED
  BY <1>1, <1>2

\* The note of a process is made by a write that it lets through.
LEMMA GateStepNotes ==
  ASSUME GateInv, NEW t \in Attempt, GateStep(t), NEW use \in consumed'
  PROVE  \E u \in Writes' : ~Durable(u)' /\ use = <<ReplicaOf[u], ApprovalOf[u]>>
<1> USE DEF GateInv
<1>1. CASE use \in consumed
  BY <1>1, GateStepOfOne DEF OnlyWritesSpend, Writes, Durable
<1>2. CASE use \notin consumed
  <2>1. AuthorizeInMemory(t)
    BY <1>2
       DEF GateStep, Denied, AuthorizeRead, Authorize, InsertClaim, SelectClaim, ExecutorReturns
  <2> QED
    BY <1>2, <2>1 DEF AuthorizeInMemory, PreparedWrite, Execute, Writes, Durable
<1> QED
  BY <1>1, <1>2

\* A step of one execution keeps the invariant.
LEMMA GateStepKeepsInv ==
  ASSUME GateInv, NEW t \in Attempt, GateStep(t)
  PROVE  GateInv'
<1> USE DEF GateInv
<1>1. GateTypeOK' /\ executions' \subseteq Attempt
  BY GateStepKeepsTypes
<1>2. PastPrepare'
  <2>1. ASSUME NEW u \in Attempt, gatePc'[u] \in {"insert", "select"}
        PROVE  u \notin Reads /\ Bound(u) /\ Durable(u)
    <3>1. CASE u # t
      BY <2>1, <3>1, GateStepOfOne DEF PastPrepare
    <3>2. CASE u = t
      BY <2>1, <3>2
         DEF PastPrepare, GateStep, Denied, AuthorizeRead, AuthorizeInMemory, Authorize,
             InsertClaim, SelectClaim, ExecutorReturns, Ends, GoOn, Execute, PreparedWrite,
             GateTypeOK
    <3> QED
      BY <3>1, <3>2
  <2>2. ASSUME NEW u \in Writes'
        PROVE  Bound(u)
    BY <2>2, GateStepOfOne, StartTakesApproval DEF PastPrepare, Writes
  <2> QED
    BY <2>1, <2>2 DEF PastPrepare, Bound, Durable
<1>3. UsesAreNoted'
  <2> SUFFICES ASSUME NEW u \in Writes'
               PROVE  /\ Durable(u) => approvals'[ApprovalOf[u]] = CallOf[u]
                      /\ ~Durable(u) => <<ReplicaOf[u], ApprovalOf[u]>> \in consumed'
    BY DEF UsesAreNoted, Durable
  <2>1. CASE u \in executions
    <3>1. u \in Writes /\ u \in Attempt /\ Bound(u)
      BY <2>1 DEF PastPrepare, Writes
    <3> QED
      BY <2>1, <3>1, BoundApprovals, UsesAreKept DEF UsesAreNoted
  <2>2. CASE u \notin executions
    BY <2>2, GateStepOfOne, StartTakesApproval DEF Writes
  <2> QED
    BY <2>1, <2>2
<1>4. ApprovalIsSingleUse'
  <2>1. ASSUME t \notin executions, t \in Writes', NEW u \in Writes,
               ApprovalOf[t] = ApprovalOf[u]
        PROVE  ~(Durable(t) /\ Durable(u)) /\ ReplicaOf[t] # ReplicaOf[u]
    <3> t \in Attempt \ Reads /\ t \in executions'
      BY <2>1 DEF Writes
    <3>1. u \in Attempt /\ Bound(u)
      BY <2>1 DEF PastPrepare, Writes
    <3>2. ~(Durable(t) /\ Durable(u))
      <4>1. Durable(t) => approvals[ApprovalOf[t]] = NoCall
        BY <2>1, StartTakesApproval
      <4>2. Durable(u) => approvals[ApprovalOf[u]] = CallOf[u] /\ CallOf[u] # NoCall
        BY <2>1, <3>1, BoundApprovals DEF UsesAreNoted
      <4> QED
        BY <2>1, <4>1, <4>2
    <3>3. ~(~Durable(t) /\ ~Durable(u) /\ ReplicaOf[t] = ReplicaOf[u])
      BY <2>1, StartTakesApproval DEF UsesAreNoted
    <3> QED
      BY <3>2, <3>3 DEF Durable
  <2>2. ApprovalIsSingleUse
    OBVIOUS
  <2> QED
    BY <2>1, <2>2, GateStepOfOne DEF ApprovalIsSingleUse, Durable, Writes
<1>5. ResultsAreHonest'
  <2> SUFFICES ASSUME NEW u \in Attempt
               PROVE  /\ gateResult'[u] = "committed" => u \in mutations'
                      /\ u \in mutations' => gateResult'[u] \in {"committed", "unknown"}
    BY DEF ResultsAreHonest
  <2>1. CASE u # t
    BY <2>1, GateStepOfOne DEF ResultsAreHonest
  <2>2. CASE u = t
    BY <2>2
       DEF ResultsAreHonest, GateStep, Denied, AuthorizeRead, AuthorizeInMemory, Authorize,
           InsertClaim, SelectClaim, ExecutorReturns, Ends, GoOn, Execute, ThrownResult, GateTypeOK
  <2> QED
    BY <2>1, <2>2
<1>6. OnlyWritesSpend'
  BY GateStepSpends, GateStepNotes DEF OnlyWritesSpend
<1>7. ReadsAreAllowed'
  <2> SUFFICES ASSUME NEW u \in executions' \cap Reads
               PROVE  u \in AllowedReads /\ ApprovalOf[u] \in Approval
    BY DEF ReadsAreAllowed, Approval
  <2>1. CASE u \in executions
    BY <2>1 DEF ReadsAreAllowed
  <2>2. CASE u \notin executions
    <3>1. u = t
      BY <2>2, GateStepOfOne
    <3>2. gatePc[t] \notin {"insert", "select"}
      BY <3>1 DEF PastPrepare
    <3>3. AuthorizeRead(t)
      BY <2>2, <3>1, <3>2
         DEF GateStep, Denied, AuthorizeInMemory, Authorize, InsertClaim, SelectClaim,
             ExecutorReturns, PreparedWrite
    <3> QED
      BY <2>2, <3>1, <3>3, GateAssumption
         DEF AuthorizeRead, PreparedRead, HasApproval, Approval
  <2> QED
    BY <2>1, <2>2
<1> QED
  BY <1>1, <1>2, <1>3, <1>4, <1>5, <1>6, <1>7

\* Every step keeps the invariant.
LEMMA GateNextKeepsInv == GateInv /\ [GateNext]_gateVars => GateInv'
<1> SUFFICES ASSUME GateInv, [GateNext]_gateVars
             PROVE  GateInv'
  OBVIOUS
<1> USE DEF GateInv, GateTypeOK, PastPrepare, UsesAreNoted, ApprovalIsSingleUse,
            OnlyWritesSpend, ReadsAreAllowed, ResultsAreHonest, Writes, Bound, Durable
<1>1. CASE UNCHANGED gateVars
  BY <1>1 DEF gateVars
<1>2. ASSUME NEW p \in Approval, Expires(p)
      PROVE  GateInv'
  BY <1>2 DEF Expires
<1> QED
  BY <1>1, <1>2, GateStepKeepsInv DEF GateNext, GateStep

\* However attempts race over replicas, fail and are tried again, no two run an executor on one
\* approval as writes unless a process without a ledger is involved, every write has the approval
\* of a human for that very call, nothing but a write spends one, a read that is let through is of
\* an allowed tool and came with an approval, though it claims none and may come again, and no
\* ambiguity is told as a success or a refusal.
THEOREM GateIsSafe == GateSpec => []GateSafety
<1>1. GateInit => GateInv
  BY DEF GateInit, GateInv, GateTypeOK, PastPrepare, UsesAreNoted, ApprovalIsSingleUse,
         OnlyWritesSpend, ReadsAreAllowed, Writes, ResultsAreHonest
<1>2. GateInv => GateSafety
  <2> SUFFICES ASSUME GateInv
               PROVE  WritesAreApproved
    BY DEF GateInv, GateSafety
  <2>1. \A t \in Writes : t \in Attempt /\ Bound(t)
    BY DEF GateInv, PastPrepare, Writes
  <2> QED
    BY <2>1, BoundApprovals DEF GateInv, UsesAreNoted, WritesAreApproved
<1> QED
  BY <1>1, <1>2, GateNextKeepsInv, PTL DEF GateSpec

-----------------------------------------------------------------------------
(* The reference merchant *)

\* What an element at the end makes of a sequence.
LEMMA Appended ==
  ASSUME NEW T, NEW q \in Seq(T), NEW e \in T
  PROVE  /\ Append(q, e) \in Seq(T) /\ Len(Append(q, e)) = Len(q) + 1
         /\ DOMAIN Append(q, e) = DOMAIN q \cup {Len(q) + 1}
         /\ Len(q) + 1 \notin DOMAIN q /\ Len(q) \in Nat
         /\ \A i \in DOMAIN q : Append(q, e)[i] = q[i]
         /\ Append(q, e)[Len(q) + 1] = e
OBVIOUS

\* What another element in its place does.
LEMMA Replaced ==
  ASSUME NEW T, NEW q \in Seq(T), NEW i \in DOMAIN q, NEW e \in T
  PROVE  /\ [q EXCEPT ![i] = e] \in Seq(T) /\ Len([q EXCEPT ![i] = e]) = Len(q)
         /\ DOMAIN [q EXCEPT ![i] = e] = DOMAIN q
         /\ \A j \in DOMAIN q : [q EXCEPT ![i] = e][j] = IF j = i THEN e ELSE q[j]
OBVIOUS

\* A sequence has finitely many places.
LEMMA PlacesAreFinite ==
  ASSUME NEW T, NEW q \in Seq(T)
  PROVE  IsFiniteSet(DOMAIN q)
<1>1. DOMAIN q = 1 .. Len(q) /\ Len(q) \in Nat
  OBVIOUS
<1>2. QED
  BY <1>1, FS_Interval

\* SumOver is the sum that Sums is about.
LEMMA SumOverIsSumOf == \A w, S : SumOver(w, S) = SumOf(w, S)
BY DEF SumOver, SumOf

\* The amounts of the shop are natural numbers.
LEMMA TotalsAreNat ==
  ASSUME NEW lines \in Lines
  PROVE  TotalOf(lines) \in Nat
<1> DEFINE w == [s \in Sku |-> lines[s] * Price[s]]
<1>1. \A s \in Sku : w[s] \in Nat
  <2>1. \A a, b \in Nat : a * b \in Nat
    OBVIOUS
  <2>2. QED BY <2>1, ShopAssumption DEF Lines
<1> HIDE DEF w
<1>2. SumOf(w, Sku) \in Nat
  BY <1>1, ShopAssumption, SumOfNat
<1>3. QED
  BY <1>2, SumOverIsSumOf DEF TotalOf, w

\* An order earns a natural number of points.
LEMMA PointsAreNat ==
  ASSUME NEW total \in Nat
  PROVE  PointsFor(total) \in Nat
<1>1. total \div 100 \in Nat
  OBVIOUS
<1>2. \E x \in {1, total \div 100} : \A y \in {1, total \div 100} : x >= y
  BY <1>1
<1>3. Max({1, total \div 100}) \in {1, total \div 100}
  BY <1>2 DEF Max
<1>4. QED
  BY <1>1, <1>3 DEF PointsFor

-----------------------------------------------------------------------------
\* The books before and after a call, part by part: what a call does is one of these.
CartsChange ==
  /\ shopCarts' \in Seq(CartRec)
  /\ \A i \in DOMAIN shopCarts :
       /\ i \in DOMAIN shopCarts'
       /\ shopCarts[i].status = "checked_out" => shopCarts'[i] = shopCarts[i]
  /\ UNCHANGED <<shopOrders, shopCommitted, shopPoints, shopRefunds, shopReturns,
                 checkoutMemo, refundMemo, cancelMemo, returnMemo>>

Sells(c, i, key) == OwnCart(c, i) /\ ~Known(checkoutMemo, key) /\ PlaceOrder(c, i, key)

\* An order that more has been refunded of.
PaysBack(old, new, amount) ==
  /\ new.owner = old.owner /\ new.cart = old.cart /\ new.lines = old.lines
  /\ new.total = old.total
  /\ new.refunded = old.refunded + amount /\ new.refunded <= new.total
  /\ new.payment = IF new.refunded = new.total THEN "refunded" ELSE "partially_refunded"

OnlyOrders == UNCHANGED <<shopCarts, shopCommitted, shopPoints, checkoutMemo>>

\* The order changes and the refund is recorded; a cancellation refunds everything.
Pays(o, amount, key, new) ==
  /\ o \in DOMAIN shopOrders /\ amount \in Nat \ {0}
  /\ key \in Key \cup {RefundKeyOf[k] : k \in Key}
  /\ ~Known(refundMemo, key)
  /\ new \in OrderRec /\ PaysBack(shopOrders[o], new, amount)
  /\ shopOrders' = [shopOrders EXCEPT ![o] = new]
  /\ RecordRefund(o, amount, key)
  /\ OnlyOrders /\ UNCHANGED <<shopReturns, returnMemo>>
  /\ \/ cancelMemo' = cancelMemo /\ new.status # "cancelled"
     \/ /\ \E k \in Key, reason \in Reason :
             cancelMemo' = cancelMemo \cup {[key |-> k, payload |-> <<o, reason>>]}
        /\ new.refunded = new.total

\* The amount had been refunded under that key.
Marks(o, new) ==
  /\ o \in DOMAIN shopOrders
  /\ new = [shopOrders[o] EXCEPT !.status = "cancelled"]
  /\ shopOrders' = [shopOrders EXCEPT ![o] = new]
  /\ \E m \in refundMemo : m.payload = <<o, shopOrders[o].total>>
  /\ \E k \in Key, reason \in Reason :
       cancelMemo' = cancelMemo \cup {[key |-> k, payload |-> <<o, reason>>]}
  /\ OnlyOrders /\ UNCHANGED <<shopReturns, returnMemo, shopRefunds, refundMemo>>

Returns ==
  /\ \E key \in Key : \E payload : returnMemo' = returnMemo \cup {[key |-> key, payload |-> payload]}
  /\ UNCHANGED <<shopCarts, shopOrders, shopCommitted, shopPoints, shopRefunds,
                 checkoutMemo, refundMemo, cancelMemo>>

ShopStep ==
  \/ UNCHANGED shopVars
  \/ CartsChange
  \/ \E c \in Customer, key \in Key : \E i \in DOMAIN shopCarts : Sells(c, i, key)
  \/ \E o, amount, key, new : Pays(o, amount, key, new)
  \/ \E o, new : Marks(o, new)
  \/ Returns

\* The records of the shop, one by one.
LEMMA RecordsOfShop ==
  ASSUME ShopTypeOK
  PROVE  /\ \A i \in DOMAIN shopCarts : shopCarts[i] \in CartRec
         /\ \A o \in DOMAIN shopOrders :
              /\ shopOrders[o] \in OrderRec
              /\ shopOrders[o].lines \in Lines
              /\ shopOrders[o].total \in Nat /\ shopOrders[o].refunded \in Nat
         /\ \A r \in DOMAIN shopRefunds :
              shopRefunds[r].order \in Nat /\ shopRefunds[r].amount \in Nat
<1>1. ASSUME NEW T, NEW q \in Seq(T), NEW i \in DOMAIN q
      PROVE  q[i] \in T
  BY <1>1
<1>2. \A i \in DOMAIN shopCarts : shopCarts[i] \in CartRec
  BY <1>1 DEF ShopTypeOK
<1>3. \A o \in DOMAIN shopOrders : shopOrders[o] \in OrderRec
  BY <1>1 DEF ShopTypeOK
<1>4. \A r \in DOMAIN shopRefunds : shopRefunds[r] \in [order : Nat, amount : Nat]
  BY <1>1 DEF ShopTypeOK
<1>5. \A e \in OrderRec : e.lines \in Lines /\ e.total \in Nat /\ e.refunded \in Nat
  BY DEF OrderRec
<1>6. QED
  BY <1>2, <1>3, <1>4, <1>5

\* What a refund makes of an order.
LEMMA RefundPaysBack ==
  ASSUME ShopTypeOK, RefundsReconcile, CancelledIsCompensated,
         NEW o \in DOMAIN shopOrders, NEW amount \in Nat \ {0}, Refundable(o, amount)
  PROVE  /\ RefundedOrder(o, amount) \in OrderRec
         /\ PaysBack(shopOrders[o], RefundedOrder(o, amount), amount)
         /\ RefundedOrder(o, amount).status # "cancelled"
<1> DEFINE old == shopOrders[o]
           sum == old.refunded + amount
           full == sum = old.total
           new == [old EXCEPT !.refunded = sum,
                              !.payment  = IF full THEN "refunded" ELSE "partially_refunded",
                              !.status   = IF full THEN "refunded" ELSE @]
<1>1. old \in OrderRec /\ sum \in Nat /\ sum <= old.total
  BY RecordsOfShop DEF Refundable
<1>2. old.status # "cancelled"
  <2>1. old.status = "cancelled" => old.refunded = old.total
    BY DEF CancelledIsCompensated
  <2>2. old.refunded + amount <= old.total /\ old.refunded \in Nat /\ old.total \in Nat
    BY <1>1 DEF Refundable, OrderRec
  <2>3. QED BY <2>1, <2>2
<1>3. RefundedOrder(o, amount) = new
  BY DEF RefundedOrder
<1> HIDE DEF old, sum, full
<1>4. /\ new \in OrderRec
      /\ new.owner = old.owner /\ new.cart = old.cart /\ new.lines = old.lines
      /\ new.total = old.total /\ new.refunded = sum
      /\ new.payment = IF full THEN "refunded" ELSE "partially_refunded"
      /\ new.status = IF full THEN "refunded" ELSE old.status
  BY <1>1 DEF OrderRec
<1> HIDE DEF new
<1>5. PaysBack(old, new, amount)
  BY <1>1, <1>4 DEF PaysBack, full, sum
<1>6. QED
  BY <1>2, <1>3, <1>4, <1>5 DEF old

\* What a call about carts does: a cart changes, or an order is placed.
LEMMA CartSteps ==
  ASSUME ShopTypeOK, NEW c \in Customer, CartCall(c)
  PROVE  ShopStep
<1>1. CASE CreateCart(c)
  <2> DEFINE cart == [owner |-> c, lines |-> NoLines, status |-> "open"]
  <2>1. cart \in CartRec
    BY DEF CartRec, Lines, NoLines
  <2>2. shopCarts' = Append(shopCarts, cart)
    BY <1>1 DEF CreateCart
  <2> HIDE DEF cart
  <2>3. /\ shopCarts' \in Seq(CartRec)
        /\ \A i \in DOMAIN shopCarts : i \in DOMAIN shopCarts' /\ shopCarts'[i] = shopCarts[i]
    BY <2>1, <2>2, Appended DEF ShopTypeOK
  <2>4. CartsChange
    BY <1>1, <2>3 DEF CreateCart, CartsChange
  <2>5. QED BY <2>4 DEF ShopStep
<1>2. ASSUME NEW i \in DOMAIN shopCarts, NEW s \in Sku, NEW quantity \in 1..MaxQuantity,
             AddLine(c, i, s, quantity)
      PROVE  ShopStep
  <2> DEFINE cart == [shopCarts[i] EXCEPT !.lines[s] = @ + quantity]
  <2>1. shopCarts[i] \in CartRec /\ shopCarts[i].status = "open" /\ quantity \in Nat
    BY <1>2, ShopAssumption DEF ShopTypeOK, AddLine
  <2>2. cart \in CartRec
    BY <2>1 DEF CartRec, Lines
  <2>3. shopCarts' = [shopCarts EXCEPT ![i] = cart]
    BY <1>2 DEF AddLine
  <2> HIDE DEF cart
  <2>4. /\ shopCarts' \in Seq(CartRec) /\ DOMAIN shopCarts' = DOMAIN shopCarts
        /\ \A j \in DOMAIN shopCarts : j # i => shopCarts'[j] = shopCarts[j]
    BY <2>2, <2>3, Replaced DEF ShopTypeOK
  <2>5. CartsChange
    BY <1>2, <2>1, <2>4 DEF AddLine, CartsChange
  <2>6. QED BY <2>5 DEF ShopStep
<1>3. ASSUME NEW i \in DOMAIN shopCarts, NEW key \in Key, Checkout(c, i, key)
      PROVE  ShopStep
  BY <1>3 DEF Checkout, Replay, Sells, ShopStep
<1>4. QED
  BY <1>1, <1>2, <1>3 DEF CartCall

\* What a call about orders does: it pays back, marks, or requests a return.
LEMMA OrderSteps ==
  ASSUME ShopTypeOK, RefundsReconcile, CancelledIsCompensated, NEW c \in Customer, OrderCall(c)
  PROVE  ShopStep
<1>1. ASSUME NEW o \in DOMAIN shopOrders, NEW key \in Key, NEW amount \in Amounts,
             Refund(c, o, amount, key)
      PROVE  ShopStep
  <2>1. CASE Replay(refundMemo, key, <<o, amount>>)
    BY <2>1 DEF Replay, ShopStep
  <2>2. CASE ~Replay(refundMemo, key, <<o, amount>>)
    <3> DEFINE new == RefundedOrder(o, amount)
    <3>1. amount \in Nat \ {0}
      <4>1. \A n \in Nat : n \div 2 \in Nat
        OBVIOUS
      <4>2. \A p \in DOMAIN shopOrders : shopOrders[p].total \in Nat
        BY RecordsOfShop
      <4>3. amount \in Nat
        BY <4>1, <4>2 DEF Amounts
      <4>4. QED BY <1>1, <4>3 DEF Refund
    <3>2. Refundable(o, amount)
      BY <1>1, <2>2 DEF Refund
    <3>3. new \in OrderRec /\ PaysBack(shopOrders[o], new, amount) /\ new.status # "cancelled"
      BY <3>1, <3>2, RefundPaysBack
    <3>4. /\ ~Known(refundMemo, key) /\ shopOrders' = [shopOrders EXCEPT ![o] = new]
          /\ RecordRefund(o, amount, key)
          /\ UNCHANGED <<shopCarts, shopCommitted, shopPoints, shopReturns,
                         checkoutMemo, cancelMemo, returnMemo>>
      BY <1>1, <2>2 DEF Refund
    <3> HIDE DEF new
    <3>5. key \in Key \cup {RefundKeyOf[k] : k \in Key} /\ cancelMemo' = cancelMemo
      BY <3>4
    <3>6. OnlyOrders /\ UNCHANGED <<shopReturns, returnMemo>>
      BY <3>4 DEF OnlyOrders
    <3>7. Pays(o, amount, key, new)
      BY <3>1, <3>3, <3>4, <3>5, <3>6 DEF Pays
    <3>8. QED BY <3>7 DEF ShopStep
  <2>3. QED BY <2>1, <2>2
<1>2. ASSUME NEW o \in DOMAIN shopOrders, NEW key \in Key, NEW reason \in Reason,
             Cancel(c, o, reason, key)
      PROVE  ShopStep
  <2> DEFINE total == shopOrders[o].total
             rkey == RefundKeyOf[key]
             paid == RefundedOrder(o, total)
             new == [paid EXCEPT !.status = "cancelled"]
             marked == [shopOrders[o] EXCEPT !.status = "cancelled"]
  <2>1. CASE Replay(cancelMemo, key, <<o, reason>>)
    BY <2>1 DEF Replay, ShopStep
  <2>2. CASE ~Replay(cancelMemo, key, <<o, reason>>)
    <3>1. /\ total > 0 /\ CompensatedOrder(o, key)
          /\ cancelMemo' = cancelMemo \cup {[key |-> key, payload |-> <<o, reason>>]}
          /\ UNCHANGED <<shopCarts, shopCommitted, shopPoints, shopReturns,
                         checkoutMemo, returnMemo>>
      BY <1>2, <2>2 DEF Cancel
    <3>2. CASE /\ [key |-> rkey, payload |-> <<o, total>>] \in refundMemo
               /\ shopOrders' = [shopOrders EXCEPT ![o].status = "cancelled"]
               /\ UNCHANGED <<shopRefunds, refundMemo>>
      <4>1. shopOrders' = [shopOrders EXCEPT ![o] = marked]
        BY <3>2
      <4>2. \E m \in refundMemo : m.payload = <<o, total>>
        BY <3>2
      <4>3. Marks(o, marked)
        BY <3>1, <3>2, <4>1, <4>2 DEF Marks, OnlyOrders
      <4>4. QED BY <4>3 DEF ShopStep
    <3>3. CASE /\ ~Known(refundMemo, rkey)
               /\ Refundable(o, total)
               /\ shopOrders' = [shopOrders EXCEPT ![o] = new]
               /\ RecordRefund(o, total, rkey)
      <4>1. total \in Nat \ {0} /\ shopOrders[o].refunded \in Nat
        BY <3>1, RecordsOfShop
      <4>2. paid \in OrderRec /\ PaysBack(shopOrders[o], paid, total)
        BY <3>3, <4>1, RefundPaysBack
      <4>3. shopOrders[o].refunded = 0
        BY <3>3, <4>1 DEF Refundable
      <4>4. /\ new \in OrderRec /\ new.refunded = paid.refunded /\ new.total = paid.total
            /\ new.owner = paid.owner /\ new.cart = paid.cart /\ new.lines = paid.lines
            /\ new.payment = paid.payment
        BY <4>2 DEF OrderRec
      <4>5. PaysBack(shopOrders[o], new, total) /\ new.refunded = new.total
        BY <4>1, <4>2, <4>3, <4>4 DEF PaysBack
      <4> HIDE DEF new, total
      <4>6. rkey \in Key \cup {RefundKeyOf[k] : k \in Key}
        OBVIOUS
      <4>7. OnlyOrders /\ UNCHANGED <<shopReturns, returnMemo>>
        BY <3>1 DEF OnlyOrders
      <4>8. Pays(o, total, rkey, new)
        BY <3>1, <3>3, <4>1, <4>4, <4>5, <4>6, <4>7 DEF Pays
      <4>9. QED BY <4>8 DEF ShopStep
    <3>4. QED BY <3>1, <3>2, <3>3 DEF CompensatedOrder
  <2>3. QED BY <2>1, <2>2
<1>3. ASSUME NEW o \in DOMAIN shopOrders, NEW key \in Key, NEW lines, NEW amount,
             RequestReturn(c, o, lines, amount, key)
      PROVE  ShopStep
  BY <1>3 DEF RequestReturn, Replay, Returns, ShopStep
<1>4. QED
  BY <1>1, <1>2, <1>3 DEF OrderCall

\* The books after a sale.
LEMMA SaleEffect ==
  ASSUME ShopTypeOK, NEW c \in Customer, NEW key \in Key, NEW i \in DOMAIN shopCarts,
         Sells(c, i, key)
  PROVE  LET n == Len(shopOrders) + 1
             lines == shopCarts[i].lines
         IN /\ lines \in Lines /\ TotalOf(lines) \in Nat
            /\ InStock(lines)
            /\ shopOrders' \in Seq(OrderRec) /\ Len(shopOrders') = n
            /\ DOMAIN shopOrders' = DOMAIN shopOrders \cup {n} /\ n \notin DOMAIN shopOrders
            /\ \A o \in DOMAIN shopOrders : shopOrders'[o] = shopOrders[o]
            /\ shopOrders'[n] =
                 [owner |-> c, cart |-> i, lines |-> lines, total |-> TotalOf(lines),
                  refunded |-> 0, payment |-> "captured", status |-> "paid"]
            /\ shopCarts' \in Seq(CartRec) /\ DOMAIN shopCarts' = DOMAIN shopCarts
            /\ \A j \in DOMAIN shopCarts : j # i => shopCarts'[j] = shopCarts[j]
            /\ shopCarts[i].status = "open" /\ shopCarts[i].owner = c
            /\ shopCarts'[i].status = "checked_out"
            /\ shopCarts'[i].lines = lines /\ shopCarts'[i].owner = c
            /\ shopCommitted' = [s \in Sku |-> shopCommitted[s] + lines[s]]
            /\ shopPoints' = [shopPoints EXCEPT ![c] = @ + PointsFor(TotalOf(lines))]
            /\ \A m \in checkoutMemo : m.key # key
            /\ checkoutMemo' = checkoutMemo \cup {[key |-> key, payload |-> CheckoutPayload(c, i)]}
            /\ UNCHANGED <<shopRefunds, shopReturns, refundMemo, cancelMemo, returnMemo>>
<1> DEFINE n == Len(shopOrders) + 1
           lines == shopCarts[i].lines
           order == [owner |-> c, cart |-> i, lines |-> lines, total |-> TotalOf(lines),
                     refunded |-> 0, payment |-> "captured", status |-> "paid"]
           cart == [shopCarts[i] EXCEPT !.status = "checked_out"]
<1>1. shopCarts[i] \in CartRec /\ lines \in Lines
  BY RecordsOfShop DEF CartRec
<1>2. TotalOf(lines) \in Nat
  BY <1>1, TotalsAreNat
<1>3. i \in Nat
  BY DEF ShopTypeOK
<1>4. order \in OrderRec
  BY <1>1, <1>2, <1>3 DEF OrderRec
<1>5. /\ cart \in CartRec /\ cart.status = "checked_out"
      /\ cart.lines = lines /\ cart.owner = shopCarts[i].owner
  BY <1>1 DEF CartRec
<1>6. shopOrders' = Append(shopOrders, order) /\ shopCarts' = [shopCarts EXCEPT ![i] = cart]
  BY DEF Sells, PlaceOrder, CloseCart
<1> DEFINE order0 == order
           cart0 == cart
<1>7. /\ shopOrders' \in Seq(OrderRec) /\ Len(shopOrders') = n
      /\ DOMAIN shopOrders' = DOMAIN shopOrders \cup {n} /\ n \notin DOMAIN shopOrders
      /\ \A o \in DOMAIN shopOrders : shopOrders'[o] = shopOrders[o]
      /\ shopOrders'[n] = order0
  <2>1. order0 \in OrderRec /\ shopOrders' = Append(shopOrders, order0)
    BY <1>4, <1>6
  <2> HIDE DEF order0, order
  <2>2. QED BY <2>1, Appended DEF ShopTypeOK
<1>8. /\ shopCarts' \in Seq(CartRec) /\ DOMAIN shopCarts' = DOMAIN shopCarts
      /\ \A j \in DOMAIN shopCarts : shopCarts'[j] = IF j = i THEN cart0 ELSE shopCarts[j]
  <2>1. cart0 \in CartRec /\ shopCarts' = [shopCarts EXCEPT ![i] = cart0]
    BY <1>5, <1>6
  <2> HIDE DEF cart0, cart
  <2>2. QED BY <2>1, Replaced DEF ShopTypeOK
<1>9. /\ InStock(lines) /\ shopCarts[i].status = "open" /\ shopCarts[i].owner = c
      /\ shopCommitted' = [s \in Sku |-> shopCommitted[s] + lines[s]]
      /\ shopPoints' = [shopPoints EXCEPT ![c] = @ + PointsFor(TotalOf(lines))]
      /\ \A m \in checkoutMemo : m.key # key
      /\ checkoutMemo' = checkoutMemo \cup {[key |-> key, payload |-> CheckoutPayload(c, i)]}
      /\ UNCHANGED <<shopRefunds, shopReturns, refundMemo, cancelMemo, returnMemo>>
  BY DEF Sells, PlaceOrder, OwnCart, Known, EarnPoints
<1> HIDE DEF cart, order
<1>10. shopOrders'[n] = order /\ shopCarts'[i] = cart
  BY <1>7, <1>8
<1>11. QED
  BY <1>1, <1>2, <1>5, <1>7, <1>8, <1>9, <1>10 DEF order

\* The orders after a refund or a cancellation.
LEMMA OrderEffect ==
  ASSUME ShopTypeOK, NEW o \in DOMAIN shopOrders, NEW new \in OrderRec,
         shopOrders' = [shopOrders EXCEPT ![o] = new]
  PROVE  /\ shopOrders' \in Seq(OrderRec) /\ Len(shopOrders') = Len(shopOrders)
         /\ DOMAIN shopOrders' = DOMAIN shopOrders
         /\ \A p \in DOMAIN shopOrders : shopOrders'[p] = IF p = o THEN new ELSE shopOrders[p]
BY Replaced DEF ShopTypeOK

\* The order after a cancellation that moves no money.
LEMMA MarkEffect ==
  ASSUME ShopTypeOK, BooksAreKept, RefundsReconcile, NEW o, NEW new, Marks(o, new)
  PROVE  /\ new \in OrderRec /\ new.status = "cancelled"
         /\ new.owner = shopOrders[o].owner /\ new.cart = shopOrders[o].cart
         /\ new.lines = shopOrders[o].lines /\ new.total = shopOrders[o].total
         /\ new.refunded = shopOrders[o].refunded /\ new.payment = shopOrders[o].payment
         /\ new.refunded = new.total
         /\ shopOrders[o].status = "cancelled" => new = shopOrders[o]
<1>1. shopOrders[o] \in OrderRec /\ o \in DOMAIN shopOrders
  BY RecordsOfShop DEF Marks
<1>2. /\ new \in OrderRec /\ new.status = "cancelled"
      /\ new.owner = shopOrders[o].owner /\ new.cart = shopOrders[o].cart
      /\ new.lines = shopOrders[o].lines /\ new.total = shopOrders[o].total
      /\ new.refunded = shopOrders[o].refunded /\ new.payment = shopOrders[o].payment
      /\ shopOrders[o].status = "cancelled" => new = shopOrders[o]
  BY <1>1 DEF Marks, OrderRec
<1>3. PICK m \in refundMemo : m.payload = <<o, shopOrders[o].total>>
  BY DEF Marks
<1>4. shopOrders[o].total <= shopOrders[o].refunded
  <2>1. m.payload[2] \in 1 .. shopOrders[m.payload[1]].refunded
    BY DEF BooksAreKept
  <2>2. m.payload[1] = o /\ m.payload[2] = shopOrders[o].total
    BY <1>3
  <2>3. QED BY <2>1, <2>2
<1>5. shopOrders[o].refunded <= shopOrders[o].total
  BY <1>1 DEF RefundsReconcile
<1>6. shopOrders[o].total \in Nat /\ shopOrders[o].refunded \in Nat
  BY <1>1, RecordsOfShop
<1>7. QED
  BY <1>2, <1>4, <1>5, <1>6

\* The refunds after one more.
LEMMA RefundEffect ==
  ASSUME ShopTypeOK, NEW o, NEW amount, NEW key, NEW new, Pays(o, amount, key, new)
  PROVE  LET n == Len(shopRefunds) + 1
         IN /\ shopRefunds' \in Seq([order : Nat, amount : Nat]) /\ Len(shopRefunds') = n
            /\ DOMAIN shopRefunds' = DOMAIN shopRefunds \cup {n} /\ n \notin DOMAIN shopRefunds
            /\ \A r \in DOMAIN shopRefunds : shopRefunds'[r] = shopRefunds[r]
            /\ shopRefunds'[n].order = o /\ shopRefunds'[n].amount = amount
            /\ \A m \in refundMemo : m.key # key
            /\ refundMemo' = refundMemo \cup {[key |-> key, payload |-> <<o, amount>>]}
            /\ key \in Key \cup {RefundKeyOf[k] : k \in Key}
<1> DEFINE refund == [order |-> o, amount |-> amount]
<1>1. refund \in [order : Nat, amount : Nat] /\ refund.order = o /\ refund.amount = amount
  <2>1. o \in Nat /\ amount \in Nat
    BY DEF Pays, ShopTypeOK
  <2>2. QED BY <2>1
<1>2. /\ shopRefunds' = Append(shopRefunds, refund)
      /\ \A m \in refundMemo : m.key # key
      /\ refundMemo' = refundMemo \cup {[key |-> key, payload |-> <<o, amount>>]}
      /\ key \in Key \cup {RefundKeyOf[k] : k \in Key}
  BY DEF Pays, RecordRefund, Known
<1> HIDE DEF refund
<1>3. QED
  BY <1>1, <1>2, Appended DEF ShopTypeOK

\* A cart that is created or filled leaves the books alone: those of orders are closed.
LEMMA CartsKeepBooks ==
  ASSUME ShopSafety, CartsChange
  PROVE  ShopSafety'
<1>1. /\ ShopTypeOK /\ BooksAreKept /\ StockMatchesOrders /\ RefundsReconcile
      /\ CancelledIsCompensated /\ PointsAreEarned /\ CartsSellOnce
  BY DEF ShopSafety
<1>2. UNCHANGED <<shopOrders, shopCommitted, shopPoints, shopRefunds, shopReturns,
                  checkoutMemo, refundMemo, cancelMemo, returnMemo>>
  BY DEF CartsChange
<1>3. ShopTypeOK'
  BY <1>1, <1>2 DEF CartsChange, ShopTypeOK
<1>4. \A o \in DOMAIN shopOrders :
        /\ shopOrders[o].cart \in DOMAIN shopCarts'
        /\ shopCarts[shopOrders[o].cart].status = "checked_out"
        /\ shopCarts'[shopOrders[o].cart] = shopCarts[shopOrders[o].cart]
  BY <1>1 DEF CartsChange, BooksAreKept
<1>5. BooksAreKept'
  BY <1>1, <1>2, <1>4 DEF BooksAreKept
<1>6. CartsSellOnce'
  BY <1>1, <1>2, <1>4 DEF CartsSellOnce
<1>7. StockMatchesOrders' /\ RefundsReconcile' /\ CancelledIsCompensated' /\ PointsAreEarned'
  BY <1>1, <1>2
     DEF StockMatchesOrders, RefundsReconcile, CancelledIsCompensated, PointsAreEarned
<1>8. QED
  BY <1>3, <1>5, <1>6, <1>7 DEF ShopSafety

\* A sale takes what is left in stock, earns its points once and closes the cart.
LEMMA SaleKeepsBooks ==
  ASSUME ShopSafety, NEW c \in Customer, NEW key \in Key, NEW i \in DOMAIN shopCarts,
         Sells(c, i, key)
  PROVE  ShopSafety'
<1> DEFINE n == Len(shopOrders) + 1
           lines == shopCarts[i].lines
           total == TotalOf(lines)
           order == [owner |-> c, cart |-> i, lines |-> lines, total |-> total,
                     refunded |-> 0, payment |-> "captured", status |-> "paid"]
           memo == [key |-> key, payload |-> CheckoutPayload(c, i)]
<1>1. /\ ShopTypeOK /\ BooksAreKept /\ StockMatchesOrders /\ RefundsReconcile
      /\ CancelledIsCompensated /\ PointsAreEarned /\ CartsSellOnce
  BY DEF ShopSafety
<1>2. /\ lines \in Lines /\ total \in Nat
      /\ InStock(lines)
      /\ shopOrders' \in Seq(OrderRec) /\ Len(shopOrders') = n
      /\ DOMAIN shopOrders' = DOMAIN shopOrders \cup {n} /\ n \notin DOMAIN shopOrders
      /\ \A o \in DOMAIN shopOrders : shopOrders'[o] = shopOrders[o]
      /\ shopOrders'[n] = order
      /\ shopCarts' \in Seq(CartRec) /\ DOMAIN shopCarts' = DOMAIN shopCarts
      /\ \A j \in DOMAIN shopCarts : j # i => shopCarts'[j] = shopCarts[j]
      /\ shopCarts[i].status = "open" /\ shopCarts[i].owner = c
      /\ shopCarts'[i].status = "checked_out"
      /\ shopCarts'[i].lines = lines /\ shopCarts'[i].owner = c
      /\ shopCommitted' = [s \in Sku |-> shopCommitted[s] + lines[s]]
      /\ shopPoints' = [shopPoints EXCEPT ![c] = @ + PointsFor(total)]
      /\ \A m \in checkoutMemo : m.key # key
      /\ checkoutMemo' = checkoutMemo \cup {memo}
      /\ UNCHANGED <<shopRefunds, shopReturns, refundMemo, cancelMemo, returnMemo>>
  BY <1>1, SaleEffect
<1>3. /\ order.owner = c /\ order.cart = i /\ order.lines = lines /\ order.total = total
      /\ order.refunded = 0 /\ order.payment = "captured" /\ order.status = "paid"
      /\ memo.key = key
  OBVIOUS
<1>4. IsFiniteSet(DOMAIN shopOrders) /\ Len(shopOrders) \in Nat
  BY <1>1, PlacesAreFinite DEF ShopTypeOK
<1> HIDE DEF order, memo, lines, total
<1>5. ShopTypeOK'
  <2>1. PointsFor(total) \in Nat
    BY <1>2, PointsAreNat
  <2>2. shopPoints' \in [Customer -> Nat]
    BY <1>1, <1>2, <2>1 DEF ShopTypeOK
  <2>3. shopCommitted' \in [Sku -> Nat]
    BY <1>1, <1>2 DEF ShopTypeOK, Lines
  <2>4. Cardinality(checkoutMemo') = Len(shopOrders')
    <3>1. memo \notin checkoutMemo
      BY <1>2, <1>3
    <3>2. Cardinality(checkoutMemo') = Cardinality(checkoutMemo) + 1
      BY <1>1, <1>2, <3>1, FS_AddElement DEF BooksAreKept
    <3>3. QED BY <1>1, <1>2, <3>2 DEF ShopTypeOK
  <2>5. \A m \in (checkoutMemo \cup cancelMemo \cup returnMemo)' : m.key \in Key
    BY <1>1, <1>2, <1>3 DEF ShopTypeOK
  <2>6. QED BY <1>1, <1>2, <2>2, <2>3, <2>4, <2>5 DEF ShopTypeOK
<1>6. \A o \in DOMAIN shopOrders :
        /\ shopOrders[o].cart \in DOMAIN shopCarts /\ shopOrders[o].cart # i
        /\ shopCarts'[shopOrders[o].cart] = shopCarts[shopOrders[o].cart]
  <2>1. \A o \in DOMAIN shopOrders :
          /\ shopOrders[o].cart \in DOMAIN shopCarts
          /\ shopCarts[shopOrders[o].cart].status = "checked_out"
    BY <1>1 DEF BooksAreKept
  <2>2. QED BY <1>2, <2>1
<1>7. BooksAreKept'
  <2>1. IsFiniteSet(checkoutMemo')
    BY <1>1, <1>2, FS_AddElement DEF BooksAreKept
  <2>2. \A o \in DOMAIN shopOrders' :
          /\ shopOrders'[o].cart \in DOMAIN shopCarts'
          /\ shopCarts'[shopOrders'[o].cart].status = "checked_out"
    BY <1>1, <1>2, <1>3, <1>6 DEF BooksAreKept
  <2>3. \A m \in refundMemo' :
          /\ m.payload[1] \in DOMAIN shopOrders'
          /\ m.payload[2] \in 1 .. shopOrders'[m.payload[1]].refunded
    BY <1>1, <1>2 DEF BooksAreKept
  <2>4. \A r \in DOMAIN shopRefunds' : shopRefunds'[r].order \in DOMAIN shopOrders'
    BY <1>1, <1>2 DEF BooksAreKept
  <2>5. IsFiniteSet(refundMemo')
    BY <1>1, <1>2 DEF BooksAreKept
  <2>6. QED BY <2>1, <2>2, <2>3, <2>4, <2>5 DEF BooksAreKept
<1>8. StockMatchesOrders'
  <2>1. SUFFICES ASSUME NEW s \in Sku
                 PROVE  /\ shopCommitted'[s] =
                             SumOver([o \in DOMAIN shopOrders' |-> shopOrders'[o].lines[s]],
                                     DOMAIN shopOrders')
                        /\ shopCommitted'[s] <= OnHand[s]
    BY DEF StockMatchesOrders
  <2> DEFINE v == [o \in DOMAIN shopOrders |-> shopOrders[o].lines[s]]
             w == [o \in DOMAIN shopOrders' |-> shopOrders'[o].lines[s]]
  <2>2. /\ w[n] = lines[s] /\ lines[s] \in Nat
        /\ \A o \in DOMAIN shopOrders : w[o] = v[o] /\ v[o] \in Int
    <3>1. \A o \in DOMAIN shopOrders : shopOrders[o].lines \in Lines
      BY <1>1, RecordsOfShop
    <3>2. QED BY <1>2, <1>3, <3>1 DEF Lines
  <2>3. shopCommitted[s] = SumOver(v, DOMAIN shopOrders) /\ shopCommitted[s] <= OnHand[s]
    BY <1>1 DEF StockMatchesOrders
  <2>4. shopCommitted'[s] = shopCommitted[s] + lines[s]
    BY <1>2
  <2> HIDE DEF v
  <2>5. SumOver(w, DOMAIN shopOrders') = SumOver(v, DOMAIN shopOrders) + lines[s]
    <3> HIDE DEF w, n
    <3>1. SumOf(w, DOMAIN shopOrders \cup {n}) = SumOf(w, DOMAIN shopOrders) + w[n]
      <4>1. w[n] \in Int /\ \A o \in DOMAIN shopOrders : w[o] \in Int
        BY <2>2
      <4>2. QED BY <1>2, <1>4, <4>1, SumOfAdd
    <3>2. SumOf(v, DOMAIN shopOrders) = SumOf(w, DOMAIN shopOrders)
      BY <1>4, <2>2, SumOfSame
    <3>3. QED BY <1>2, <2>2, <3>1, <3>2, SumOverIsSumOf
  <2>6. shopCommitted'[s] <= OnHand[s]
    <3>1. shopCommitted[s] \in Nat /\ OnHand[s] \in Nat
      BY <1>1, ShopAssumption DEF ShopTypeOK
    <3>2. lines[s] > 0 => OnHand[s] - shopCommitted[s] >= lines[s]
      BY <1>2 DEF InStock
    <3>3. QED BY <2>2, <2>3, <2>4, <3>1, <3>2
  <2>7. QED BY <2>3, <2>4, <2>5, <2>6
<1>9. RefundsReconcile'
  <2>1. ASSUME NEW o \in DOMAIN shopOrders
        PROVE  shopOrders'[o] = shopOrders[o] /\ shopRefunds' = shopRefunds
    BY <1>2
  <2>2. ASSUME NEW o \in DOMAIN shopOrders', o \notin DOMAIN shopOrders
        PROVE  /\ o = n /\ {r \in DOMAIN shopRefunds' : shopRefunds'[r].order = o} = {}
               /\ shopOrders'[o].refunded = 0 /\ shopOrders'[o].total \in Nat
               /\ shopOrders'[o].payment = "captured"
    BY <1>1, <1>2, <1>3, <2>2 DEF BooksAreKept
  <2>3. SumOver([r \in DOMAIN shopRefunds' |-> shopRefunds'[r].amount], {}) = 0
    BY SumOfEmpty, SumOverIsSumOf
  <2>4. SUFFICES ASSUME NEW o \in DOMAIN shopOrders'
                 PROVE  LET made == {r \in DOMAIN shopRefunds' : shopRefunds'[r].order = o}
                            paid == shopOrders'[o]
                        IN /\ SumOver([r \in DOMAIN shopRefunds' |-> shopRefunds'[r].amount], made)
                                = paid.refunded
                           /\ paid.refunded <= paid.total
                           /\ paid.total > 0 =>
                                paid.payment = IF paid.refunded = paid.total THEN "refunded"
                                               ELSE IF paid.refunded > 0
                                               THEN "partially_refunded" ELSE "captured"
    BY DEF RefundsReconcile
  <2>5. CASE o \in DOMAIN shopOrders
    BY <1>1, <2>1, <2>5 DEF RefundsReconcile
  <2>6. CASE o \notin DOMAIN shopOrders
    <3> DEFINE w == [r \in DOMAIN shopRefunds' |-> shopRefunds'[r].amount]
               made == {r \in DOMAIN shopRefunds' : shopRefunds'[r].order = o}
    <3>1. made = {} /\ SumOver(w, {}) = 0
      BY <2>2, <2>3, <2>6
    <3> HIDE DEF w, made
    <3>2. SumOver(w, made) = shopOrders'[o].refunded
      BY <2>2, <2>6, <3>1
    <3>3. /\ shopOrders'[o].refunded <= shopOrders'[o].total
          /\ shopOrders'[o].refunded = 0 /\ shopOrders'[o].payment = "captured"
      BY <2>2, <2>6
    <3>4. QED BY <3>2, <3>3 DEF w, made
  <2>7. QED BY <2>5, <2>6
<1>10. CancelledIsCompensated'
  BY <1>1, <1>2, <1>3 DEF CancelledIsCompensated
<1>11. PointsAreEarned'
  <2>1. SUFFICES ASSUME NEW d \in Customer
                 PROVE  shopPoints'[d] =
                          SumOver([o \in DOMAIN shopOrders' |-> PointsFor(shopOrders'[o].total)],
                                  {o \in DOMAIN shopOrders' : shopOrders'[o].owner = d})
    BY DEF PointsAreEarned
  <2> DEFINE v == [o \in DOMAIN shopOrders |-> PointsFor(shopOrders[o].total)]
             w == [o \in DOMAIN shopOrders' |-> PointsFor(shopOrders'[o].total)]
             mine == {o \in DOMAIN shopOrders : shopOrders[o].owner = d}
             mineNow == {o \in DOMAIN shopOrders' : shopOrders'[o].owner = d}
  <2>2. /\ w[n] = PointsFor(total) /\ w[n] \in Int
        /\ \A o \in mine : v[o] \in Int /\ w[o] = v[o]
        /\ IsFiniteSet(mine) /\ n \notin mine
    <3>1. \A o \in DOMAIN shopOrders : shopOrders[o].total \in Nat
      BY <1>1, RecordsOfShop
    <3>2. \A k \in Nat : PointsFor(k) \in Int
      BY PointsAreNat
    <3>3. IsFiniteSet(mine)
      BY <1>4, FS_Subset
    <3>4. QED BY <1>2, <1>3, <3>1, <3>2, <3>3
  <2>3. shopPoints[d] = SumOver(v, mine)
    BY <1>1 DEF PointsAreEarned
  <2>4. mineNow = IF d = c THEN mine \cup {n} ELSE mine
    BY <1>2, <1>3
  <2>5. shopPoints'[d] = IF d = c THEN shopPoints[d] + PointsFor(total) ELSE shopPoints[d]
    BY <1>1, <1>2 DEF ShopTypeOK
  <2> HIDE DEF v, w, mine, mineNow, n
  <2>6. SumOver(w, mine \cup {n}) = SumOver(v, mine) + w[n] /\ SumOver(w, mine) = SumOver(v, mine)
    <3>1. SumOf(w, mine \cup {n}) = SumOf(w, mine) + w[n]
      <4>1. \A o \in mine : w[o] \in Int
        BY <2>2
      <4>2. QED BY <2>2, <4>1, SumOfAdd
    <3>2. SumOf(v, mine) = SumOf(w, mine)
      BY <2>2, SumOfSame
    <3>3. QED BY <3>1, <3>2, SumOverIsSumOf
  <2>7. shopPoints'[d] = SumOver(w, mineNow)
    BY <2>2, <2>3, <2>4, <2>5, <2>6
  <2>8. QED BY <2>7 DEF w, mineNow
<1>12. CartsSellOnce'
  <2>1. \A o1, o2 \in DOMAIN shopOrders' : shopOrders'[o1].cart = shopOrders'[o2].cart => o1 = o2
    BY <1>1, <1>2, <1>3, <1>6 DEF CartsSellOnce
  <2>2. \A o \in DOMAIN shopOrders' :
          /\ shopCarts'[shopOrders'[o].cart].lines = shopOrders'[o].lines
          /\ shopCarts'[shopOrders'[o].cart].owner = shopOrders'[o].owner
    BY <1>1, <1>2, <1>3, <1>6 DEF CartsSellOnce
  <2>3. \A m1, m2 \in checkoutMemo' : m1.key = m2.key => m1 = m2
    BY <1>1, <1>2, <1>3 DEF CartsSellOnce
  <2>4. QED BY <2>1, <2>2, <2>3 DEF CartsSellOnce
<1>13. QED
  BY <1>5, <1>7, <1>8, <1>9, <1>10, <1>11, <1>12 DEF ShopSafety

\* What sells nothing changes neither the stock, the points nor the carts: the books of
\* sales keep their sums when every order keeps what it sold, cost and whose it is.
LEMMA SalesStay ==
  ASSUME ShopSafety, OnlyOrders, shopOrders' \in Seq(OrderRec),
         DOMAIN shopOrders' = DOMAIN shopOrders,
         \A p \in DOMAIN shopOrders :
           /\ shopOrders'[p].owner = shopOrders[p].owner
           /\ shopOrders'[p].cart = shopOrders[p].cart
           /\ shopOrders'[p].lines = shopOrders[p].lines
           /\ shopOrders'[p].total = shopOrders[p].total
  PROVE  StockMatchesOrders' /\ PointsAreEarned' /\ CartsSellOnce'
<1>1. /\ ShopTypeOK /\ StockMatchesOrders /\ PointsAreEarned /\ CartsSellOnce
      /\ UNCHANGED <<shopCarts, shopCommitted, shopPoints, checkoutMemo>>
  BY DEF ShopSafety, OnlyOrders
<1>2. IsFiniteSet(DOMAIN shopOrders)
  BY <1>1, PlacesAreFinite DEF ShopTypeOK
<1>3. StockMatchesOrders'
  <2>1. ASSUME NEW s \in Sku
        PROVE  SumOver([p \in DOMAIN shopOrders' |-> shopOrders'[p].lines[s]], DOMAIN shopOrders')
                 = SumOver([p \in DOMAIN shopOrders |-> shopOrders[p].lines[s]], DOMAIN shopOrders)
    <3> DEFINE v == [p \in DOMAIN shopOrders |-> shopOrders[p].lines[s]]
               w == [p \in DOMAIN shopOrders' |-> shopOrders'[p].lines[s]]
    <3>1. \A p \in DOMAIN shopOrders : w[p] = v[p]
      OBVIOUS
    <3> HIDE DEF v, w
    <3>2. SumOf(v, DOMAIN shopOrders) = SumOf(w, DOMAIN shopOrders)
      BY <1>2, <3>1, SumOfSame
    <3>3. SumOver(w, DOMAIN shopOrders') = SumOver(v, DOMAIN shopOrders)
      BY <3>2, SumOverIsSumOf
    <3>4. QED BY <3>3 DEF v, w
  <2>2. QED BY <1>1, <2>1 DEF StockMatchesOrders
<1>4. PointsAreEarned'
  <2>1. SUFFICES ASSUME NEW d \in Customer
                 PROVE  shopPoints'[d] =
                          SumOver([p \in DOMAIN shopOrders' |-> PointsFor(shopOrders'[p].total)],
                                  {p \in DOMAIN shopOrders' : shopOrders'[p].owner = d})
    BY DEF PointsAreEarned
  <2> DEFINE v == [p \in DOMAIN shopOrders |-> PointsFor(shopOrders[p].total)]
             w == [p \in DOMAIN shopOrders' |-> PointsFor(shopOrders'[p].total)]
             mine == {p \in DOMAIN shopOrders : shopOrders[p].owner = d}
             mineNow == {p \in DOMAIN shopOrders' : shopOrders'[p].owner = d}
  <2>2. mineNow = mine /\ IsFiniteSet(mine) /\ \A p \in mine : w[p] = v[p]
    <3>1. IsFiniteSet(mine)
      BY <1>2, FS_Subset
    <3>2. QED BY <3>1
  <2>3. shopPoints[d] = SumOver(v, mine) /\ shopPoints'[d] = shopPoints[d]
    BY <1>1 DEF PointsAreEarned
  <2> HIDE DEF v, w, mine, mineNow
  <2>4. SumOf(v, mine) = SumOf(w, mine)
    BY <2>2, SumOfSame
  <2>5. shopPoints'[d] = SumOver(w, mineNow)
    BY <2>2, <2>3, <2>4, SumOverIsSumOf
  <2>6. QED BY <2>5 DEF w, mineNow
<1>5. CartsSellOnce'
  BY <1>1 DEF CartsSellOnce
<1>6. QED
  BY <1>3, <1>4, <1>5

\* A refund leaves the money of other orders alone and adds up with what its order had back.
LEMMA PayKeepsBooks ==
  ASSUME ShopSafety, NEW o, NEW amount, NEW key, NEW new, Pays(o, amount, key, new)
  PROVE  ShopSafety'
<1> DEFINE n == Len(shopRefunds) + 1
           old == shopOrders[o]
           memo == [key |-> key, payload |-> <<o, amount>>]
<1>1. /\ ShopTypeOK /\ BooksAreKept /\ StockMatchesOrders /\ RefundsReconcile
      /\ CancelledIsCompensated /\ PointsAreEarned /\ CartsSellOnce
  BY DEF ShopSafety
<1>2. /\ o \in DOMAIN shopOrders /\ amount \in Nat \ {0} /\ new \in OrderRec
      /\ shopOrders' = [shopOrders EXCEPT ![o] = new]
      /\ OnlyOrders /\ UNCHANGED <<shopReturns, returnMemo>>
      /\ \/ cancelMemo' = cancelMemo /\ new.status # "cancelled"
         \/ /\ \E k \in Key, reason \in Reason :
                 cancelMemo' = cancelMemo \cup {[key |-> k, payload |-> <<o, reason>>]}
            /\ new.refunded = new.total
  BY DEF Pays
<1>3. /\ new.owner = old.owner /\ new.cart = old.cart /\ new.lines = old.lines
      /\ new.total = old.total
      /\ new.refunded = old.refunded + amount /\ new.refunded <= new.total
      /\ new.payment = IF new.refunded = new.total THEN "refunded" ELSE "partially_refunded"
  BY DEF Pays, PaysBack
<1>4. /\ shopOrders' \in Seq(OrderRec) /\ Len(shopOrders') = Len(shopOrders)
      /\ DOMAIN shopOrders' = DOMAIN shopOrders
      /\ \A p \in DOMAIN shopOrders : shopOrders'[p] = IF p = o THEN new ELSE shopOrders[p]
  BY <1>1, <1>2, OrderEffect
<1>5. /\ shopRefunds' \in Seq([order : Nat, amount : Nat]) /\ Len(shopRefunds') = n
      /\ DOMAIN shopRefunds' = DOMAIN shopRefunds \cup {n} /\ n \notin DOMAIN shopRefunds
      /\ \A r \in DOMAIN shopRefunds : shopRefunds'[r] = shopRefunds[r]
      /\ shopRefunds'[n].order = o /\ shopRefunds'[n].amount = amount
      /\ \A m \in refundMemo : m.key # key
      /\ refundMemo' = refundMemo \cup {memo}
      /\ key \in Key \cup {RefundKeyOf[k] : k \in Key}
  BY <1>1, RefundEffect
<1>6. /\ UNCHANGED <<shopCarts, shopCommitted, shopPoints, checkoutMemo>>
      /\ old.refunded \in Nat /\ old.total \in Nat
  BY <1>1, <1>2, RecordsOfShop DEF OnlyOrders
<1>7. memo.key = key /\ memo.payload = <<o, amount>>
  OBVIOUS
<1>8. IsFiniteSet(DOMAIN shopRefunds) /\ Len(shopRefunds) \in Nat
  BY <1>1, PlacesAreFinite DEF ShopTypeOK
<1> HIDE DEF memo, old
<1>9. \A p \in DOMAIN shopOrders :
        /\ shopOrders'[p].owner = shopOrders[p].owner
        /\ shopOrders'[p].cart = shopOrders[p].cart
        /\ shopOrders'[p].lines = shopOrders[p].lines
        /\ shopOrders'[p].total = shopOrders[p].total
        /\ shopOrders[p].refunded <= shopOrders'[p].refunded
  <2>1. \A p \in DOMAIN shopOrders : shopOrders[p].refunded \in Nat
    BY <1>1, RecordsOfShop
  <2>2. QED BY <1>2, <1>3, <1>4, <1>6, <2>1 DEF old
<1>10. ShopTypeOK'
  <2>1. Cardinality(refundMemo') = Len(shopRefunds')
    <3>1. memo \notin refundMemo
      BY <1>5, <1>7
    <3>2. Cardinality(refundMemo') = Cardinality(refundMemo) + 1
      BY <1>1, <1>5, <3>1, FS_AddElement DEF BooksAreKept
    <3>3. QED BY <1>1, <1>5, <3>2 DEF ShopTypeOK
  <2>2. \A m \in refundMemo' : m.key \in Key \cup {RefundKeyOf[k] : k \in Key}
    BY <1>1, <1>5, <1>7 DEF ShopTypeOK
  <2>3. \A m \in cancelMemo' : m.key \in Key
    BY <1>1, <1>2 DEF ShopTypeOK
  <2>4. QED BY <1>1, <1>2, <1>4, <1>5, <1>6, <2>1, <2>2, <2>3 DEF ShopTypeOK
<1>11. BooksAreKept'
  <2>1. IsFiniteSet(refundMemo') /\ IsFiniteSet(checkoutMemo')
    BY <1>1, <1>5, <1>6, FS_AddElement DEF BooksAreKept
  <2>2. \A r \in DOMAIN shopRefunds' : shopRefunds'[r].order \in DOMAIN shopOrders'
    BY <1>1, <1>2, <1>4, <1>5 DEF BooksAreKept
  <2>3. ASSUME NEW m \in refundMemo'
        PROVE  /\ m.payload[1] \in DOMAIN shopOrders'
               /\ m.payload[2] \in 1 .. shopOrders'[m.payload[1]].refunded
    <3>1. CASE m \in refundMemo
      <4>1. /\ m.payload[1] \in DOMAIN shopOrders
            /\ m.payload[2] \in 1 .. shopOrders[m.payload[1]].refunded
        BY <1>1, <3>1 DEF BooksAreKept
      <4>2. shopOrders[m.payload[1]].refunded \in Nat
        BY <1>1, <4>1, RecordsOfShop
      <4>3. CASE m.payload[1] = o
        <5>1. m.payload[2] \in 1 .. old.refunded
          BY <4>1, <4>3 DEF old
        <5>2. shopOrders'[o].refunded = old.refunded + amount
          BY <1>2, <1>3, <1>4
        <5>3. QED BY <1>2, <1>4, <1>6, <4>3, <5>1, <5>2
      <4>4. CASE m.payload[1] # o
        BY <1>4, <4>1, <4>4
      <4>5. QED BY <4>3, <4>4
    <3>2. CASE m = memo
      <4>1. m.payload[1] = o /\ m.payload[2] = amount
        BY <1>7, <3>2
      <4>2. shopOrders'[o].refunded = old.refunded + amount
        BY <1>2, <1>3, <1>4
      <4>3. QED BY <1>2, <1>4, <1>6, <4>1, <4>2
    <3>3. QED BY <1>5, <3>1, <3>2
  <2>4. \A p \in DOMAIN shopOrders' :
          /\ shopOrders'[p].cart \in DOMAIN shopCarts'
          /\ shopCarts'[shopOrders'[p].cart].status = "checked_out"
    BY <1>1, <1>4, <1>6, <1>9 DEF BooksAreKept
  <2>5. QED BY <2>1, <2>2, <2>3, <2>4 DEF BooksAreKept
<1>12. StockMatchesOrders' /\ PointsAreEarned' /\ CartsSellOnce'
  BY <1>2, <1>4, <1>9, SalesStay
<1>13. RefundsReconcile'
  <2>1. SUFFICES ASSUME NEW p \in DOMAIN shopOrders
                 PROVE  LET made == {r \in DOMAIN shopRefunds' : shopRefunds'[r].order = p}
                            paid == shopOrders'[p]
                        IN /\ SumOver([r \in DOMAIN shopRefunds' |-> shopRefunds'[r].amount], made)
                                = paid.refunded
                           /\ paid.refunded <= paid.total
                           /\ paid.total > 0 =>
                                paid.payment = IF paid.refunded = paid.total THEN "refunded"
                                               ELSE IF paid.refunded > 0
                                               THEN "partially_refunded" ELSE "captured"
    BY <1>4 DEF RefundsReconcile
  <2> DEFINE v == [r \in DOMAIN shopRefunds |-> shopRefunds[r].amount]
             w == [r \in DOMAIN shopRefunds' |-> shopRefunds'[r].amount]
             made == {r \in DOMAIN shopRefunds : shopRefunds[r].order = p}
             madeNow == {r \in DOMAIN shopRefunds' : shopRefunds'[r].order = p}
  <2>2. /\ SumOver(v, made) = shopOrders[p].refunded
        /\ shopOrders[p].refunded <= shopOrders[p].total
        /\ shopOrders[p].total > 0 =>
             shopOrders[p].payment =
               IF shopOrders[p].refunded = shopOrders[p].total THEN "refunded"
               ELSE IF shopOrders[p].refunded > 0 THEN "partially_refunded" ELSE "captured"
    BY <1>1 DEF RefundsReconcile
  <2>3. /\ w[n] = amount /\ w[n] \in Int
        /\ \A r \in made : v[r] \in Int /\ w[r] = v[r]
        /\ IsFiniteSet(made) /\ n \notin made
    <3>1. \A r \in DOMAIN shopRefunds : shopRefunds[r].amount \in Nat
      BY <1>1, RecordsOfShop
    <3>2. IsFiniteSet(made)
      BY <1>8, FS_Subset
    <3>3. QED BY <1>2, <1>5, <3>1, <3>2
  <2>4. madeNow = IF p = o THEN made \cup {n} ELSE made
    BY <1>5
  <2> HIDE DEF v, w, made, madeNow, n
  <2>5. SumOver(w, made \cup {n}) = SumOver(v, made) + w[n] /\ SumOver(w, made) = SumOver(v, made)
    <3>1. SumOf(w, made \cup {n}) = SumOf(w, made) + w[n]
      <4>1. \A r \in made : w[r] \in Int
        BY <2>3
      <4>2. QED BY <2>3, <4>1, SumOfAdd
    <3>2. SumOf(v, made) = SumOf(w, made)
      BY <2>3, SumOfSame
    <3>3. QED BY <3>1, <3>2, SumOverIsSumOf
  <2>6. CASE p = o
    <3>1. shopOrders'[p] = new /\ shopOrders[p] = old
      BY <1>4, <2>6 DEF old
    <3>2. SumOver(w, madeNow) = shopOrders'[p].refunded
      BY <1>3, <2>2, <2>3, <2>4, <2>5, <2>6, <3>1
    <3>3. new.refunded > 0 /\ new.refunded <= new.total
      BY <1>2, <1>3, <1>6
    <3>4. QED BY <1>3, <3>1, <3>2, <3>3 DEF w, madeNow
  <2>7. CASE p # o
    <3>1. shopOrders'[p] = shopOrders[p]
      BY <1>4, <2>7
    <3>2. SumOver(w, madeNow) = shopOrders'[p].refunded
      BY <2>2, <2>4, <2>5, <2>7, <3>1
    <3>3. QED BY <2>2, <3>1, <3>2 DEF w, madeNow
  <2>8. QED BY <2>6, <2>7
<1>14. CancelledIsCompensated'
  <2>1. SUFFICES ASSUME NEW p \in DOMAIN shopOrders, shopOrders'[p].status = "cancelled"
                 PROVE  /\ shopOrders'[p].refunded = shopOrders'[p].total
                        /\ \E m \in cancelMemo' : m.payload[1] = p
    BY <1>4 DEF CancelledIsCompensated
  <2>2. CASE p = o
    <3>1. shopOrders'[p] = new /\ new.status = "cancelled"
      BY <1>4, <2>1, <2>2
    <3>2. PICK k \in Key, reason \in Reason :
            cancelMemo' = cancelMemo \cup {[key |-> k, payload |-> <<o, reason>>]}
      BY <1>2, <3>1
    <3>3. [key |-> k, payload |-> <<o, reason>>].payload[1] = o
      OBVIOUS
    <3>4. QED BY <1>2, <2>2, <3>1, <3>2, <3>3
  <2>3. CASE p # o
    <3>1. shopOrders'[p] = shopOrders[p] /\ cancelMemo \subseteq cancelMemo'
      BY <1>2, <1>4, <2>3
    <3>2. QED BY <1>1, <2>1, <3>1 DEF CancelledIsCompensated
  <2>4. QED BY <2>2, <2>3
<1>15. QED
  BY <1>10, <1>11, <1>12, <1>13, <1>14 DEF ShopSafety

\* An order whose amount had gone back already is marked, and no money moves.
LEMMA MarkKeepsBooks ==
  ASSUME ShopSafety, NEW o, NEW new, Marks(o, new)
  PROVE  ShopSafety'
<1>1. /\ ShopTypeOK /\ BooksAreKept /\ RefundsReconcile /\ CancelledIsCompensated
  BY DEF ShopSafety
<1>2. /\ new \in OrderRec
      /\ new.owner = shopOrders[o].owner /\ new.cart = shopOrders[o].cart
      /\ new.lines = shopOrders[o].lines /\ new.total = shopOrders[o].total
      /\ new.refunded = shopOrders[o].refunded /\ new.payment = shopOrders[o].payment
      /\ new.refunded = new.total
  BY <1>1, MarkEffect
<1>3. /\ o \in DOMAIN shopOrders /\ shopOrders' = [shopOrders EXCEPT ![o] = new]
      /\ \E k \in Key, reason \in Reason :
           cancelMemo' = cancelMemo \cup {[key |-> k, payload |-> <<o, reason>>]}
      /\ OnlyOrders /\ UNCHANGED <<shopReturns, returnMemo, shopRefunds, refundMemo>>
  BY DEF Marks
<1>4. UNCHANGED <<shopCarts, shopCommitted, shopPoints, checkoutMemo>>
  BY <1>3 DEF OnlyOrders
<1>5. /\ shopOrders' \in Seq(OrderRec) /\ Len(shopOrders') = Len(shopOrders)
      /\ DOMAIN shopOrders' = DOMAIN shopOrders
      /\ \A p \in DOMAIN shopOrders : shopOrders'[p] = IF p = o THEN new ELSE shopOrders[p]
  BY <1>1, <1>2, <1>3, OrderEffect
<1>6. \A p \in DOMAIN shopOrders :
        /\ shopOrders'[p].owner = shopOrders[p].owner
        /\ shopOrders'[p].cart = shopOrders[p].cart
        /\ shopOrders'[p].lines = shopOrders[p].lines
        /\ shopOrders'[p].total = shopOrders[p].total
        /\ shopOrders'[p].refunded = shopOrders[p].refunded
        /\ shopOrders'[p].payment = shopOrders[p].payment
  BY <1>2, <1>5
<1>7. ShopTypeOK'
  <2>1. \A m \in cancelMemo' : m.key \in Key
    BY <1>1, <1>3 DEF ShopTypeOK
  <2>2. QED BY <1>1, <1>3, <1>4, <1>5, <2>1 DEF ShopTypeOK
<1>8. BooksAreKept'
  BY <1>1, <1>3, <1>4, <1>5, <1>6 DEF BooksAreKept
<1>9. StockMatchesOrders' /\ PointsAreEarned' /\ CartsSellOnce'
  BY <1>3, <1>5, <1>6, SalesStay
<1>10. RefundsReconcile'
  <2>1. SUFFICES ASSUME NEW p \in DOMAIN shopOrders
                 PROVE  LET made == {r \in DOMAIN shopRefunds : shopRefunds[r].order = p}
                            paid == shopOrders'[p]
                        IN /\ SumOver([r \in DOMAIN shopRefunds |-> shopRefunds[r].amount], made)
                                = paid.refunded
                           /\ paid.refunded <= paid.total
                           /\ paid.total > 0 =>
                                paid.payment = IF paid.refunded = paid.total THEN "refunded"
                                               ELSE IF paid.refunded > 0
                                               THEN "partially_refunded" ELSE "captured"
    BY <1>3, <1>5 DEF RefundsReconcile
  <2>2. QED BY <1>1, <1>6 DEF RefundsReconcile
<1>11. CancelledIsCompensated'
  <2>1. PICK k \in Key, reason \in Reason :
          cancelMemo' = cancelMemo \cup {[key |-> k, payload |-> <<o, reason>>]}
    BY <1>3
  <2>2. [key |-> k, payload |-> <<o, reason>>].payload[1] = o
    OBVIOUS
  <2>3. SUFFICES ASSUME NEW p \in DOMAIN shopOrders, shopOrders'[p].status = "cancelled"
                 PROVE  /\ shopOrders'[p].refunded = shopOrders'[p].total
                        /\ \E m \in cancelMemo' : m.payload[1] = p
    BY <1>5 DEF CancelledIsCompensated
  <2>4. CASE p = o
    BY <1>2, <1>5, <2>1, <2>2, <2>4
  <2>5. CASE p # o
    BY <1>1, <1>5, <2>1, <2>3, <2>5 DEF CancelledIsCompensated
  <2>6. QED BY <2>4, <2>5
<1>12. QED
  BY <1>7, <1>8, <1>9, <1>10, <1>11 DEF ShopSafety

\* A return that is requested touches no book but its own.
LEMMA ReturnKeepsBooks ==
  ASSUME ShopSafety, Returns
  PROVE  ShopSafety'
<1>1. /\ ShopTypeOK /\ BooksAreKept /\ StockMatchesOrders /\ RefundsReconcile
      /\ CancelledIsCompensated /\ PointsAreEarned /\ CartsSellOnce
  BY DEF ShopSafety
<1>2. /\ \E key \in Key : \E payload : returnMemo' = returnMemo \cup {[key |-> key, payload |-> payload]}
      /\ UNCHANGED <<shopCarts, shopOrders, shopCommitted, shopPoints, shopRefunds,
                     checkoutMemo, refundMemo, cancelMemo>>
  BY DEF Returns
<1>3. \A m \in returnMemo' : m.key \in Key
  BY <1>1, <1>2 DEF ShopTypeOK
<1>4. ShopTypeOK'
  BY <1>1, <1>2, <1>3 DEF ShopTypeOK
<1>5. BooksAreKept' /\ CartsSellOnce' /\ CancelledIsCompensated'
  BY <1>1, <1>2 DEF BooksAreKept, CartsSellOnce, CancelledIsCompensated
<1>6. StockMatchesOrders' /\ RefundsReconcile' /\ PointsAreEarned'
  BY <1>1, <1>2 DEF StockMatchesOrders, RefundsReconcile, PointsAreEarned
<1>7. QED
  BY <1>4, <1>5, <1>6 DEF ShopSafety

\* A shop that opens has sold nothing.
LEMMA ShopOpensSafe == ShopInit => ShopSafety
<1>1. SUFFICES ASSUME ShopInit PROVE ShopSafety
  OBVIOUS
<1>2. /\ shopCarts = <<>> /\ shopOrders = <<>> /\ shopRefunds = <<>>
      /\ shopCommitted = [s \in Sku |-> 0] /\ shopPoints = [c \in Customer |-> 0]
      /\ checkoutMemo = {} /\ refundMemo = {} /\ cancelMemo = {} /\ returnMemo = {}
      /\ DOMAIN shopOrders = {} /\ DOMAIN shopRefunds = {}
  BY <1>1 DEF ShopInit
<1>3. Cardinality({}) = 0 /\ IsFiniteSet({}) /\ \A w : SumOver(w, {}) = 0
  BY FS_EmptySet, SumOfEmpty, SumOverIsSumOf
<1>4. ShopTypeOK
  BY <1>2, <1>3 DEF ShopTypeOK
<1>5. BooksAreKept /\ RefundsReconcile /\ CancelledIsCompensated /\ CartsSellOnce
  BY <1>2, <1>3 DEF BooksAreKept, RefundsReconcile, CancelledIsCompensated, CartsSellOnce
<1>6. StockMatchesOrders
  BY <1>2, <1>3, ShopAssumption DEF StockMatchesOrders
<1>7. PointsAreEarned
  <2>1. ASSUME NEW c \in Customer
        PROVE  {o \in DOMAIN shopOrders : shopOrders[o].owner = c} = {} /\ shopPoints[c] = 0
    BY <1>2
  <2>2. QED BY <1>3, <2>1 DEF PointsAreEarned
<1>8. QED
  BY <1>4, <1>5, <1>6, <1>7 DEF ShopSafety

\* Every call, of whatever customer, is one of the steps.
LEMMA CallsAreSteps ==
  ASSUME ShopSafety, [ShopNext]_shopVars
  PROVE  ShopStep
<1>1. ShopTypeOK /\ RefundsReconcile /\ CancelledIsCompensated
  BY DEF ShopSafety
<1>2. ASSUME NEW c \in Customer, CartCall(c)
      PROVE  ShopStep
  BY <1>1, <1>2, CartSteps
<1>3. ASSUME NEW c \in Customer, OrderCall(c)
      PROVE  ShopStep
  BY <1>1, <1>3, OrderSteps
<1>4. CASE UNCHANGED shopVars
  BY <1>4 DEF ShopStep
<1>5. QED
  BY <1>2, <1>3, <1>4 DEF ShopNext

\* Whatever the step, the books agree after it.
LEMMA StepsKeepBooks ==
  ASSUME ShopSafety, ShopStep
  PROVE  ShopSafety'
<1>1. CASE UNCHANGED shopVars
  <2>1. ShopTypeOK' /\ BooksAreKept' /\ CartsSellOnce'
    BY <1>1 DEF shopVars, ShopSafety, ShopTypeOK, BooksAreKept, CartsSellOnce
  <2>2. StockMatchesOrders' /\ PointsAreEarned'
    BY <1>1 DEF shopVars, ShopSafety, StockMatchesOrders, PointsAreEarned
  <2>3. RefundsReconcile' /\ CancelledIsCompensated'
    BY <1>1 DEF shopVars, ShopSafety, RefundsReconcile, CancelledIsCompensated
  <2>4. QED BY <2>1, <2>2, <2>3 DEF ShopSafety
<1>2. CASE CartsChange
  BY <1>2, CartsKeepBooks
<1>3. ASSUME NEW c \in Customer, NEW key \in Key, NEW i \in DOMAIN shopCarts, Sells(c, i, key)
      PROVE  ShopSafety'
  BY <1>3, SaleKeepsBooks
<1>4. ASSUME NEW o, NEW amount, NEW key, NEW new, Pays(o, amount, key, new)
      PROVE  ShopSafety'
  BY <1>4, PayKeepsBooks
<1>5. ASSUME NEW o, NEW new, Marks(o, new)
      PROVE  ShopSafety'
  BY <1>5, MarkKeepsBooks
<1>6. CASE Returns
  BY <1>6, ReturnKeepsBooks
<1>7. QED
  BY <1>1, <1>2, <1>3, <1>4, <1>5, <1>6 DEF ShopStep

\* Whatever customers call and retry, the books of the reference merchant agree: stock is
\* committed once per order and never beyond what is on hand, refunds add up to what the
\* payment says and never beyond the captured amount, a cancelled order was compensated in
\* full, points are those the orders earned, and a cart is sold once.
THEOREM ShopIsSafe == ShopSpec => []ShopSafety
<1>1. ShopInit => ShopSafety
  BY ShopOpensSafe
<1>2. ShopSafety /\ [ShopNext]_shopVars => ShopSafety'
  BY CallsAreSteps, StepsKeepBooks
<1>3. QED
  BY <1>1, <1>2, PTL DEF ShopSpec

\* What a step does to an order that was placed.
LEMMA StepsWindDown ==
  ASSUME ShopSafety, ShopStep, NEW o \in DOMAIN shopOrders
  PROVE  /\ shopOrders'[o].lines = shopOrders[o].lines
         /\ shopOrders'[o].total = shopOrders[o].total
         /\ shopOrders'[o].refunded >= shopOrders[o].refunded
         /\ shopOrders[o].status = "cancelled" => shopOrders'[o] = shopOrders[o]
<1>1. ShopTypeOK /\ BooksAreKept /\ RefundsReconcile /\ CancelledIsCompensated
  BY DEF ShopSafety
<1>2. \A p \in DOMAIN shopOrders : shopOrders[p].total \in Nat /\ shopOrders[p].refunded \in Nat
  BY <1>1, RecordsOfShop
<1>3. CASE shopOrders' = shopOrders
  BY <1>2, <1>3
<1>4. ASSUME NEW c \in Customer, NEW key \in Key, NEW i \in DOMAIN shopCarts, Sells(c, i, key)
      PROVE  shopOrders'[o] = shopOrders[o]
  BY <1>1, <1>4, SaleEffect
<1>5. ASSUME NEW p, NEW new, shopOrders' = [shopOrders EXCEPT ![p] = new],
             p \in DOMAIN shopOrders, new \in OrderRec
      PROVE  shopOrders'[o] = IF o = p THEN new ELSE shopOrders[o]
  BY <1>1, <1>5, OrderEffect
<1>6. ASSUME NEW p, NEW amount, NEW key, NEW new, Pays(p, amount, key, new)
      PROVE  /\ shopOrders'[o].lines = shopOrders[o].lines
             /\ shopOrders'[o].total = shopOrders[o].total
             /\ shopOrders'[o].refunded >= shopOrders[o].refunded
             /\ shopOrders[o].status = "cancelled" => shopOrders'[o] = shopOrders[o]
  <2>1. /\ p \in DOMAIN shopOrders /\ amount \in Nat \ {0} /\ new \in OrderRec
        /\ shopOrders' = [shopOrders EXCEPT ![p] = new]
        /\ new.lines = shopOrders[p].lines /\ new.total = shopOrders[p].total
        /\ new.refunded = shopOrders[p].refunded + amount /\ new.refunded <= new.total
    BY <1>6 DEF Pays, PaysBack
  <2>2. shopOrders'[o] = IF o = p THEN new ELSE shopOrders[o]
    BY <1>5, <2>1
  <2>3. shopOrders[p].status # "cancelled"
    <3>1. shopOrders[p].refunded # shopOrders[p].total
      BY <1>2, <2>1
    <3>2. QED BY <1>1, <2>1, <3>1 DEF CancelledIsCompensated
  <2>4. QED BY <1>2, <2>1, <2>2, <2>3
<1>7. ASSUME NEW p, NEW new, Marks(p, new)
      PROVE  /\ shopOrders'[o].lines = shopOrders[o].lines
             /\ shopOrders'[o].total = shopOrders[o].total
             /\ shopOrders'[o].refunded >= shopOrders[o].refunded
             /\ shopOrders[o].status = "cancelled" => shopOrders'[o] = shopOrders[o]
  <2>1. /\ new \in OrderRec /\ new.lines = shopOrders[p].lines /\ new.total = shopOrders[p].total
        /\ new.refunded = shopOrders[p].refunded
        /\ shopOrders[p].status = "cancelled" => new = shopOrders[p]
    BY <1>1, <1>7, MarkEffect
  <2>2. p \in DOMAIN shopOrders /\ shopOrders' = [shopOrders EXCEPT ![p] = new]
    BY <1>7 DEF Marks
  <2>3. shopOrders'[o] = IF o = p THEN new ELSE shopOrders[o]
    BY <1>5, <2>1, <2>2
  <2>4. QED BY <1>2, <2>1, <2>3
<1>8. QED
  <2>1. UNCHANGED shopVars \/ CartsChange \/ Returns => shopOrders' = shopOrders
    BY DEF shopVars, CartsChange, Returns
  <2>2. QED BY <1>2, <1>3, <1>4, <1>6, <1>7, <2>1 DEF ShopStep

\* What an order sold and cost never changes, money that went back to the customer stays
\* with them, and no refund, retry or second cancellation reaches an order once cancelled.
THEOREM OrdersWindDown == ShopSpec => OrdersOnlyWindDown
<1> DEFINE WindsDown ==
      \A o \in DOMAIN shopOrders :
        LET before == shopOrders[o]
            after  == shopOrders'[o]
        IN /\ after.lines = before.lines /\ after.total = before.total
           /\ after.refunded >= before.refunded
           /\ before.status = "cancelled" => after = before
<1>1. ShopSafety /\ [ShopNext]_shopVars => [WindsDown]_shopVars
  BY CallsAreSteps, StepsWindDown
<1>2. QED
  BY <1>1, ShopIsSafe, PTL DEF ShopSpec, OrdersOnlyWindDown

-----------------------------------------------------------------------------
(* The journeys *)

\* The suite has three journeys, one of each kind.
LEMMA SuiteOrder ==
  /\ Suite[1] = "checkout" /\ Suite[2] = "refund" /\ Suite[3] = "cancellation"
  /\ Len(Suite) = 3 /\ \A i \in 1..3 : Suite[i] \in Kind
  /\ \A i, j \in 1..3 : Suite[i] = Suite[j] => i = j
  /\ \A k \in Kind : \E i \in 1..3 : Suite[i] = k
<1>1. Suite[1] = "checkout" /\ Suite[2] = "refund" /\ Suite[3] = "cancellation" /\ Len(Suite) = 3
  BY DEF Suite
<1>2. \A i \in 1..3 : i = 1 \/ i = 2 \/ i = 3
  OBVIOUS
<1>3. QED
  BY <1>1, <1>2 DEF Kind

\* A call is awaited.
Calls == {"capabilities", "before", "cart", "first", "retry", "after"}

\* What a journey that ends must have for its outcome to be earned.
Earned(status, complete) ==
  /\ status \in {"pass", "error", "unsupported"} /\ complete \in BOOLEAN
  /\ status = "pass" =>
       /\ complete /\ journeyEffects'[Now] > 0 /\ Now \notin journeyFaults'
       /\ Now = "checkout" => journeyEffects'[Now] = 1
  /\ status = "error" =>
       journeyMerchant' # "replays" \/ Now \in journeyFaults' \/ journeyOthers' > 0

\* The journey that runs is the only one that writes and throws.
OnlyNow ==
  /\ journeyEffects' \in [Kind -> 0..2] /\ journeyStock' \in Nat
  /\ journeyMerchant' \in Merchant
  /\ \A k \in Kind \ {Now} : journeyEffects'[k] = journeyEffects[k]
  /\ journeyFaults' = journeyFaults \/ journeyFaults' = journeyFaults \cup {Now}
  /\ UNCHANGED <<journeyFirst, journeyBefore, journeyOthers>>

\* A journey that ends with an outcome that is earned keeps what its suite promises.
LEMMA EndIsEarned ==
  ASSUME JourneySafety, journeyPc \in Calls, NEW status, NEW complete,
         End(status, complete), Earned(status, complete), OnlyNow
  PROVE  JourneySafety'
<1> DEFINE outcome == [status |-> status, complete |-> complete]
<1>1. JourneyTypeOK /\ PhasesAreKept /\ CheckoutPassIsExactlyOnce
  BY DEF JourneySafety
<1>2. journeyNow \in 1..3 /\ Now = Suite[journeyNow] /\ Now \in Kind
  BY <1>1, SuiteOrder DEF JourneyTypeOK, Now
<1>3. /\ journeyOutcome' = [journeyOutcome EXCEPT ![Now] = outcome]
      /\ suiteOutcome' = suiteOutcome
      /\ outcome.status = status /\ outcome.complete = complete /\ outcome \in Outcome
  BY DEF End, Earned, Outcome
<1> HIDE DEF outcome
<1>4. /\ \/ journeyNow = 3 /\ journeyPc' = "suite" /\ journeyNow' = 3
         \/ journeyNow < 3 /\ journeyPc' = "capabilities" /\ journeyNow' = journeyNow + 1
      /\ journeyPc \notin {"suite", "done"}
  BY <1>2, SuiteOrder DEF End, Calls
<1>5. JourneyTypeOK'
  <2>1. journeyOutcome' \in [Kind -> Outcome]
    BY <1>1, <1>2, <1>3 DEF JourneyTypeOK
  <2>2. journeyNow' \in 1..3 /\ journeyPc' \in {"capabilities", "suite"}
    BY <1>2, <1>4
  <2>3. journeyFaults' \subseteq Kind
    BY <1>1, <1>2 DEF JourneyTypeOK, OnlyNow
  <2>4. QED BY <1>1, <1>3, <2>1, <2>2, <2>3 DEF JourneyTypeOK, OnlyNow
<1>6. \A i \in 1..3 : Judged(i)' <=> Judged(i) \/ i = journeyNow
  BY <1>2, <1>4 DEF Judged
<1>7. journeyOutcome'[Now] = outcome /\ \A k \in Kind \ {Now} : journeyOutcome'[k] = journeyOutcome[k]
  BY <1>1, <1>2, <1>3 DEF JourneyTypeOK
<1>8. PhasesAreKept'
  <2>1. ASSUME NEW i \in 1..3
        PROVE  LET k == Suite[i]
               IN IF Judged(i)'
                  THEN /\ journeyOutcome'[k].status # "none"
                       /\ journeyOutcome'[k].status = "pass" =>
                            /\ journeyOutcome'[k].complete /\ journeyEffects'[k] > 0
                            /\ k \notin journeyFaults'
                  ELSE /\ journeyOutcome'[k] = NoOutcome /\ k \notin journeyFaults'
                       /\ i > journeyNow' \/ journeyPc' \notin {"retry", "after"} =>
                            journeyEffects'[k] = 0
    <3>1. CASE i = journeyNow
      BY <1>2, <1>3, <1>6, <1>7, <3>1 DEF Earned
    <3>2. CASE i # journeyNow
      <4>1. Suite[i] \in Kind \ {Now}
        BY <1>2, <3>2, SuiteOrder
      <4>2. i > journeyNow => ~Judged(i)
        BY <1>2, <1>4, <3>2 DEF Judged
      <4>3. ~Judged(i) => i > journeyNow
        BY <1>2, <1>4, <3>2 DEF Judged
      <4>4. /\ journeyOutcome'[Suite[i]] = journeyOutcome[Suite[i]]
            /\ journeyEffects'[Suite[i]] = journeyEffects[Suite[i]]
            /\ Suite[i] \in journeyFaults' <=> Suite[i] \in journeyFaults
        BY <1>7, <4>1 DEF OnlyNow
      <4>5. QED BY <1>1, <1>6, <3>2, <4>3, <4>4 DEF PhasesAreKept
    <3>3. QED BY <3>1, <3>2
  <2>2. /\ journeyPc' \in {"suite", "done"} => journeyNow' = 3
        /\ journeyPc' \notin {"before", "cart", "first", "retry", "after", "done"}
        /\ suiteOutcome' = NoOutcome
    BY <1>1, <1>3, <1>4 DEF PhasesAreKept
  <2>3. QED BY <2>1, <2>2 DEF PhasesAreKept
<1>9. CheckoutPassIsExactlyOnce'
  <2>1. CASE Now = "checkout"
    BY <1>3, <1>7, <2>1 DEF CheckoutPassIsExactlyOnce, Earned
  <2>2. CASE Now # "checkout"
    BY <1>1, <1>7, <2>2 DEF CheckoutPassIsExactlyOnce, OnlyNow, Kind
  <2>3. QED BY <2>1, <2>2
<1>10. SuitePassIsEarned'
  BY <1>1, <1>3, <1>4 DEF PhasesAreKept, SuitePassIsEarned, NoOutcome
<1>11. SoundMerchantIsNotFailed'
  <2>1. JustJudged' = {Now}
    BY <1>2, <1>4 DEF JustJudged, Now
  <2>2. QED BY <1>3, <1>7, <2>1 DEF SoundMerchantIsNotFailed, Earned
<1>12. QED
  BY <1>5, <1>8, <1>9, <1>10, <1>11 DEF JourneySafety

\* What the next call of a journey finds: the writes that were made and, of a checkout,
\* the stock that grew by them.
AtNextCall ==
  /\ journeyPc' \in {"before", "cart", "first", "retry", "after"}
  /\ journeyPc' \in {"before", "after"} => journeyNow = 1
  /\ journeyPc' \notin {"retry", "after"} => journeyEffects'[Now] = 0
  /\ journeyPc' = "retry" => journeyEffects'[Now] = 1 /\ journeyFirst' = 1
  /\ journeyPc' = "after" =>
       journeyEffects'[Now] > 0 /\ (journeyMerchant' = "replays" => journeyEffects'[Now] = 1)
  /\ Now = "checkout" /\ journeyPc' # "before" =>
       /\ journeyStock' >= journeyBefore' + journeyEffects'["checkout"] * Quantity
       /\ journeyOthers' = 0 =>
            journeyStock' = journeyBefore' + journeyEffects'["checkout"] * Quantity

\* So does a journey that goes on to its next call.
LEMMA NextCallIsMet ==
  ASSUME JourneySafety, journeyPc \in Calls, AtNextCall,
         UNCHANGED <<journeyNow, journeyOutcome, suiteOutcome, journeyFaults, journeyOthers>>,
         journeyEffects' \in [Kind -> 0..2], journeyStock' \in Nat, journeyBefore' \in Nat,
         journeyFirst' \in Nat, journeyMerchant' \in Merchant,
         \A k \in Kind \ {Now} : journeyEffects'[k] = journeyEffects[k]
  PROVE  JourneySafety'
<1>1. JourneyTypeOK /\ PhasesAreKept /\ CheckoutPassIsExactlyOnce
  BY DEF JourneySafety
<1>2. /\ journeyNow \in 1..3 /\ Now = Suite[journeyNow] /\ Now \in Kind
      /\ Now' = Now /\ journeyPc \notin {"suite", "done"}
  BY <1>1, SuiteOrder DEF JourneyTypeOK, Now, Calls
<1>3. JourneyTypeOK'
  BY <1>1 DEF JourneyTypeOK, AtNextCall
<1>4. \A i \in 1..3 : (Judged(i)' <=> Judged(i)) /\ (Judged(i) <=> i < journeyNow)
  BY <1>2 DEF Judged, AtNextCall
<1>5. ~Judged(journeyNow) /\ journeyOutcome[Now] = NoOutcome /\ Now \notin journeyFaults
  BY <1>1, <1>2, <1>4 DEF PhasesAreKept
<1>6. PhasesAreKept'
  <2>1. ASSUME NEW i \in 1..3
        PROVE  LET k == Suite[i]
               IN IF Judged(i)'
                  THEN /\ journeyOutcome'[k].status # "none"
                       /\ journeyOutcome'[k].status = "pass" =>
                            /\ journeyOutcome'[k].complete /\ journeyEffects'[k] > 0
                            /\ k \notin journeyFaults'
                  ELSE /\ journeyOutcome'[k] = NoOutcome /\ k \notin journeyFaults'
                       /\ i > journeyNow' \/ journeyPc' \notin {"retry", "after"} =>
                            journeyEffects'[k] = 0
    <3>1. CASE i = journeyNow
      BY <1>2, <1>4, <1>5, <3>1 DEF AtNextCall
    <3>2. CASE i # journeyNow
      <4>1. Suite[i] \in Kind \ {Now}
        BY <1>2, <3>2, SuiteOrder
      <4>2. journeyEffects'[Suite[i]] = journeyEffects[Suite[i]]
        BY <4>1
      <4>3. ~Judged(i) => i > journeyNow
        BY <1>2, <1>4, <3>2
      <4>4. QED BY <1>1, <1>4, <3>2, <4>2, <4>3 DEF PhasesAreKept
    <3>3. QED BY <3>1, <3>2
  <2>2. suiteOutcome' = NoOutcome /\ journeyPc' \notin {"capabilities", "suite", "done"}
    BY <1>1, <1>2 DEF PhasesAreKept, AtNextCall
  <2>3. Now' = "checkout" /\ journeyPc' \in {"cart", "first", "retry", "after"} =>
          journeyStock' >= Grown' /\ (journeyOthers' = 0 => journeyStock' = Grown')
    BY <1>2 DEF AtNextCall, Grown
  <2>4. /\ journeyPc' \in {"before", "after"} => journeyNow' = 1
        /\ journeyPc' = "retry" => journeyEffects'[Now'] = 1 /\ journeyFirst' = 1
        /\ journeyPc' = "after" =>
             /\ journeyEffects'[Now'] > 0
             /\ journeyMerchant' = "replays" => journeyEffects'[Now'] = 1
    BY <1>2 DEF AtNextCall
  <2>5. QED BY <2>1, <2>2, <2>3, <2>4 DEF PhasesAreKept
<1>7. CheckoutPassIsExactlyOnce'
  <2>1. CASE Now = "checkout"
    BY <1>5, <2>1 DEF CheckoutPassIsExactlyOnce, NoOutcome
  <2>2. CASE Now # "checkout"
    BY <1>1, <2>2 DEF CheckoutPassIsExactlyOnce, Kind
  <2>3. QED BY <2>1, <2>2
<1>8. SuitePassIsEarned'
  BY <1>1, <1>2 DEF PhasesAreKept, SuitePassIsEarned, NoOutcome
<1>9. SoundMerchantIsNotFailed'
  BY DEF SoundMerchantIsNotFailed, JustJudged, AtNextCall
<1>10. QED
  BY <1>3, <1>6, <1>7, <1>8, <1>9 DEF JourneySafety

\* The journey that runs has not been judged, and what it has written is known.
LEMMA NowIsOpen ==
  ASSUME JourneySafety, journeyPc \in Calls
  PROVE  /\ Now \in Kind /\ journeyEffects[Now] \in 0..2
         /\ journeyNow \in 1..3 /\ (Now = "checkout" <=> journeyNow = 1)
         /\ Now \notin journeyFaults /\ journeyOutcome[Now] = NoOutcome
         /\ journeyPc \in {"before", "after"} => journeyNow = 1
         /\ journeyPc \notin {"retry", "after"} => journeyEffects[Now] = 0
         /\ journeyPc = "retry" => journeyEffects[Now] = 1 /\ journeyFirst = 1
         /\ journeyPc = "after" =>
              journeyEffects[Now] > 0 /\ (journeyMerchant = "replays" => journeyEffects[Now] = 1)
         /\ Now = "checkout" /\ journeyPc \in {"cart", "first", "retry", "after"} =>
              /\ journeyStock >= journeyBefore + journeyEffects["checkout"] * Quantity
              /\ journeyOthers = 0 =>
                   journeyStock = journeyBefore + journeyEffects["checkout"] * Quantity
<1>1. JourneyTypeOK /\ PhasesAreKept
  BY DEF JourneySafety
<1>2. /\ journeyNow \in 1..3 /\ Now = Suite[journeyNow] /\ Now \in Kind
      /\ (Now = "checkout" <=> journeyNow = 1)
  BY <1>1, SuiteOrder DEF JourneyTypeOK, Now
<1>3. ~Judged(journeyNow)
  BY <1>2 DEF Judged, Calls
<1>4. /\ journeyOutcome[Now] = NoOutcome /\ Now \notin journeyFaults
      /\ journeyPc \notin {"retry", "after"} => journeyEffects[Now] = 0
  BY <1>1, <1>2, <1>3 DEF PhasesAreKept
<1>5. journeyEffects[Now] \in 0..2
  BY <1>1, <1>2 DEF JourneyTypeOK
<1>6. QED
  BY <1>1, <1>2, <1>4, <1>5 DEF PhasesAreKept, Grown

\* A write is one more under the journey's key.
LEMMA WriteEffect ==
  ASSUME JourneySafety, journeyPc \in {"first", "retry"}, Write
  PROVE  /\ journeyEffects' \in [Kind -> 0..2] /\ journeyStock' \in Nat
         /\ journeyEffects'[Now] = journeyEffects[Now] + 1
         /\ \A k \in Kind \ {Now} : journeyEffects'[k] = journeyEffects[k]
         /\ journeyStock' = IF Now = "checkout" THEN journeyStock + Quantity ELSE journeyStock
<1>1. JourneyTypeOK /\ Now \in Kind /\ journeyEffects[Now] \in 0..1
  BY NowIsOpen DEF JourneySafety, Calls
<1>2. journeyEffects' = [journeyEffects EXCEPT ![Now] = journeyEffects[Now] + 1]
  BY DEF Write
<1>3. journeyEffects[Now] + 1 \in 0..2
  BY <1>1
<1>4. QED
  BY <1>1, <1>2, <1>3, JourneyAssumption DEF JourneyTypeOK, Write

\* What a journey keeps when nothing is written.
LEMMA NothingWritten ==
  ASSUME JourneySafety, NoWrite
  PROVE  /\ journeyEffects' \in [Kind -> 0..2] /\ journeyStock' \in Nat
         /\ \A k \in Kind : journeyEffects'[k] = journeyEffects[k]
         /\ journeyStock' = journeyStock
BY DEF JourneySafety, JourneyTypeOK, NoWrite

\* The amounts of stock that the phases speak of.
LEMMA StockOfWrites ==
  ASSUME JourneySafety
  PROVE  /\ journeyStock \in Nat /\ journeyBefore \in Nat /\ journeyFirst \in Nat
         /\ journeyMerchant \in Merchant /\ journeyOthers \in Nat
         /\ Quantity \in Nat \ {0}
         /\ 0 * Quantity = 0 /\ 1 * Quantity = Quantity /\ 2 * Quantity = Quantity + Quantity
BY JourneyAssumption DEF JourneySafety, JourneyTypeOK

\* The evidence is there or it is not.
LEMMA RecordedOrNot ==
  ASSUME Now \in Kind, NEW call
  PROVE  Recorded(call) \in BOOLEAN
<1>1. CASE Now = "checkout"
  <2>1. Recorded(call) = (call \notin {"capabilities", "before"})
    BY <1>1 DEF Recorded
  <2>2. QED BY <2>1
<1>2. CASE Now = "refund"
  <2>1. Recorded(call) = (call \in {"first", "retry"})
    BY <1>2 DEF Recorded
  <2>2. QED BY <2>1
<1>3. CASE Now = "cancellation"
  <2>1. Recorded(call) = FALSE
    BY <1>3 DEF Recorded
  <2>2. QED BY <2>1
<1>4. QED
  BY <1>1, <1>2, <1>3 DEF Kind

\* Asking for the capabilities ends the journey or begins it.
LEMMA CapabilitiesKeep ==
  ASSUME JourneySafety, Capabilities
  PROVE  JourneySafety'
<1>1. journeyPc = "capabilities" /\ journeyPc \in Calls
  BY DEF Capabilities, Calls
<1>2. NoWrite /\ UNCHANGED <<journeyFirst, journeyBefore, journeyOthers, journeyFaults>>
  BY DEF Capabilities
<1>3. CASE End("unsupported", FALSE) /\ UNCHANGED journeyMerchant
  <2>1. OnlyNow
    BY <1>2, <1>3, NothingWritten, StockOfWrites DEF OnlyNow
  <2>2. Earned("unsupported", FALSE)
    BY DEF Earned
  <2>3. QED BY <1>1, <1>3, <2>1, <2>2, EndIsEarned
<1>4. CASE /\ Continue(IF Now = "checkout" THEN "before" ELSE "cart")
           /\ \E m \in Merchant : journeyMerchant' = m
  <2>1. AtNextCall
    BY <1>1, <1>2, <1>4, NowIsOpen, NothingWritten DEF AtNextCall, Continue
  <2>2. QED
    BY <1>1, <1>2, <1>4, <2>1, NothingWritten, StockOfWrites, NextCallIsMet DEF Continue
<1>5. QED
  BY <1>3, <1>4 DEF Capabilities

\* The first observation is what the stock is.
LEMMA ReadBeforeKeeps ==
  ASSUME JourneySafety, ReadBefore
  PROVE  JourneySafety'
<1>1. /\ journeyPc = "before" /\ journeyPc \in Calls /\ Continue("cart") /\ NoWrite
      /\ journeyBefore' = journeyStock
      /\ UNCHANGED <<journeyMerchant, journeyFirst, journeyOthers, journeyFaults>>
  BY DEF ReadBefore, Calls
<1>2. AtNextCall
  BY <1>1, NowIsOpen, NothingWritten, StockOfWrites DEF AtNextCall, Continue
<1>3. QED
  BY <1>1, <1>2, NothingWritten, StockOfWrites, NextCallIsMet DEF Continue

\* The cart is filled, and other journeys buy theirs under a key of their own.
LEMMA FillCartKeeps ==
  ASSUME JourneySafety, FillCart
  PROVE  JourneySafety'
<1>1. /\ journeyPc = "cart" /\ journeyPc \in Calls /\ Continue("first")
      /\ journeyStock' = IF Now = "checkout" THEN journeyStock ELSE journeyStock + Quantity
      /\ UNCHANGED <<journeyEffects, journeyMerchant, journeyFirst, journeyBefore,
                     journeyOthers, journeyFaults>>
  BY DEF FillCart, Calls
<1>2. journeyEffects' \in [Kind -> 0..2] /\ journeyStock' \in Nat
  BY <1>1, StockOfWrites DEF JourneySafety, JourneyTypeOK
<1>3. AtNextCall
  BY <1>1, NowIsOpen DEF AtNextCall, Continue
<1>4. QED
  BY <1>1, <1>2, <1>3, StockOfWrites, NextCallIsMet DEF Continue

\* The first use of the key writes.
LEMMA FirstCallKeeps ==
  ASSUME JourneySafety, FirstCall
  PROVE  JourneySafety'
<1>1. /\ journeyPc = "first" /\ journeyPc \in Calls /\ Write /\ Continue("retry")
      /\ journeyFirst' = journeyEffects'[Now]
      /\ UNCHANGED <<journeyMerchant, journeyBefore, journeyOthers, journeyFaults>>
  BY DEF FirstCall, Calls
<1>2. /\ journeyEffects' \in [Kind -> 0..2] /\ journeyStock' \in Nat
      /\ journeyEffects'[Now] = 1 /\ journeyEffects[Now] = 0
      /\ \A k \in Kind \ {Now} : journeyEffects'[k] = journeyEffects[k]
      /\ journeyStock' = IF Now = "checkout" THEN journeyStock + Quantity ELSE journeyStock
  BY <1>1, NowIsOpen, WriteEffect
<1>3. AtNextCall
  <2>1. Now = "checkout" =>
          /\ journeyStock' >= journeyBefore + 1 * Quantity
          /\ journeyOthers = 0 => journeyStock' = journeyBefore + 1 * Quantity
    <3>1. Now = "checkout" =>
            /\ journeyStock >= journeyBefore + 0 * Quantity
            /\ journeyOthers = 0 => journeyStock = journeyBefore + 0 * Quantity
      BY <1>1, <1>2, NowIsOpen
    <3>2. QED BY <1>2, <3>1, StockOfWrites
  <2>2. QED BY <1>1, <1>2, <2>1 DEF AtNextCall, Continue
<1>4. QED
  BY <1>1, <1>2, <1>3, StockOfWrites, NextCallIsMet DEF Continue

\* The answer to a repeated key differs only when the merchant made the write again.
LEMMA RetryKeeps ==
  ASSUME JourneySafety, Retry
  PROVE  JourneySafety'
<1> DEFINE answer == IF journeyMerchant = "repeats" THEN journeyEffects'[Now] ELSE journeyFirst
<1>1. /\ journeyPc = "retry" /\ journeyPc \in Calls
      /\ IF journeyMerchant = "replays" THEN NoWrite ELSE Write
      /\ IF ~SameAnswer(answer) THEN End("error", Recorded("retry"))
         ELSE IF Now = "checkout" THEN Continue("after")
         ELSE End("pass", TRUE)
      /\ UNCHANGED <<journeyMerchant, journeyFirst, journeyBefore, journeyOthers, journeyFaults>>
  BY DEF Retry, Calls
<1>2. /\ Now \in Kind /\ journeyEffects[Now] = 1 /\ journeyFirst = 1 /\ Now \notin journeyFaults
      /\ (Now = "checkout" <=> journeyNow = 1)
  BY <1>1, NowIsOpen
<1>3. /\ journeyEffects' \in [Kind -> 0..2] /\ journeyStock' \in Nat
      /\ journeyEffects'[Now] = IF journeyMerchant = "replays" THEN 1 ELSE 2
      /\ \A k \in Kind \ {Now} : journeyEffects'[k] = journeyEffects[k]
      /\ journeyStock' = IF Now = "checkout" /\ journeyMerchant # "replays"
                         THEN journeyStock + Quantity ELSE journeyStock
  <2>1. CASE journeyMerchant = "replays"
    BY <1>1, <1>2, <2>1, NothingWritten
  <2>2. CASE journeyMerchant # "replays"
    BY <1>1, <1>2, <2>2, WriteEffect
  <2>3. QED BY <2>1, <2>2
<1>4. OnlyNow
  BY <1>1, <1>3, StockOfWrites DEF OnlyNow
<1>5. CASE ~SameAnswer(answer)
  <2>1. journeyMerchant # "replays"
    BY <1>5 DEF SameAnswer
  <2>2. Recorded("retry") \in BOOLEAN
    BY <1>2, RecordedOrNot
  <2>3. Earned("error", Recorded("retry"))
    BY <1>1, <2>1, <2>2 DEF Earned
  <2>4. QED BY <1>1, <1>4, <1>5, <2>3, EndIsEarned
<1>6. CASE SameAnswer(answer) /\ Now = "checkout"
  <2>1. Continue("after")
    BY <1>1, <1>6
  <2>2. /\ journeyStock >= journeyBefore + 1 * Quantity
        /\ journeyOthers = 0 => journeyStock = journeyBefore + 1 * Quantity
    BY <1>1, <1>2, <1>6, NowIsOpen
  <2>3. /\ journeyStock' >= journeyBefore + journeyEffects'["checkout"] * Quantity
        /\ journeyOthers = 0 =>
             journeyStock' = journeyBefore + journeyEffects'["checkout"] * Quantity
    <3>1. CASE journeyMerchant = "replays"
      BY <1>3, <1>6, <2>2, <3>1
    <3>2. CASE journeyMerchant # "replays"
      <4>1. journeyEffects'["checkout"] * Quantity = 2 * Quantity
        BY <1>3, <1>6, <3>2
      <4>2. journeyStock' = journeyStock + Quantity
        BY <1>3, <1>6, <3>2
      <4>3. QED BY <2>2, <4>1, <4>2, StockOfWrites
    <3>3. QED BY <3>1, <3>2
  <2>4. AtNextCall
    BY <1>1, <1>2, <1>3, <1>6, <2>1, <2>3 DEF AtNextCall, Continue
  <2>5. QED
    BY <1>1, <1>3, <2>1, <2>4, StockOfWrites, NextCallIsMet DEF Continue
<1>7. CASE SameAnswer(answer) /\ Now # "checkout"
  <2>1. End("pass", TRUE)
    BY <1>1, <1>7
  <2>2. journeyEffects'[Now] > 0 /\ Now \notin journeyFaults'
    BY <1>1, <1>2, <1>3
  <2>3. Earned("pass", TRUE)
    BY <1>7, <2>2 DEF Earned
  <2>4. QED BY <1>1, <1>4, <2>1, <2>3, EndIsEarned
<1>8. QED
  BY <1>5, <1>6, <1>7

\* The second observation: growth by the quantity alone excludes a second write.
LEMMA ReadAfterKeeps ==
  ASSUME JourneySafety, ReadAfter
  PROVE  JourneySafety'
<1>1. /\ journeyPc = "after" /\ journeyPc \in Calls /\ NoWrite
      /\ IF CommittedOnce THEN End("pass", TRUE) ELSE End("error", TRUE)
      /\ UNCHANGED <<journeyMerchant, journeyFirst, journeyBefore, journeyOthers, journeyFaults>>
  BY DEF ReadAfter, Calls
<1>2. /\ Now = "checkout" /\ journeyEffects["checkout"] \in 1..2 /\ Now \notin journeyFaults
      /\ journeyMerchant = "replays" => journeyEffects["checkout"] = 1
      /\ journeyStock >= journeyBefore + journeyEffects["checkout"] * Quantity
      /\ journeyOthers = 0 => journeyStock = journeyBefore + journeyEffects["checkout"] * Quantity
  <2>1. Now = "checkout" /\ journeyEffects[Now] \in 0..2 /\ journeyEffects[Now] > 0
    BY <1>1, NowIsOpen
  <2>2. QED BY <1>1, <2>1, NowIsOpen
<1>3. OnlyNow /\ journeyEffects'[Now] = journeyEffects[Now]
  BY <1>1, <1>2, NothingWritten, StockOfWrites DEF OnlyNow, Kind
<1>4. CASE CommittedOnce
  <2>1. journeyEffects["checkout"] = 1
    <3>1. CASE journeyEffects["checkout"] = 2
      <4>1. journeyStock >= journeyBefore + 2 * Quantity
        BY <1>2, <3>1
      <4>2. QED BY <1>4, <4>1, StockOfWrites DEF CommittedOnce
    <3>2. QED BY <1>2, <3>1
  <2>2. Earned("pass", TRUE)
    BY <1>1, <1>2, <1>3, <2>1 DEF Earned
  <2>3. QED BY <1>1, <1>3, <1>4, <2>2, EndIsEarned
<1>5. CASE ~CommittedOnce
  <2>1. journeyMerchant # "replays" \/ journeyOthers > 0
    <3>1. SUFFICES ASSUME journeyMerchant = "replays", journeyOthers = 0 PROVE FALSE
      BY StockOfWrites
    <3>2. journeyStock = journeyBefore + 1 * Quantity
      BY <1>2, <3>1
    <3>3. QED BY <1>5, <3>2, StockOfWrites DEF CommittedOnce
  <2>2. Earned("error", TRUE)
    BY <1>1, <2>1 DEF Earned
  <2>3. QED BY <1>1, <1>3, <1>5, <2>2, EndIsEarned
<1>6. QED
  BY <1>4, <1>5

\* A call that throws, with its write or without, is charged to the adapter.
LEMMA CallThrowsKeeps ==
  ASSUME JourneySafety, CallThrows
  PROVE  JourneySafety'
<1>1. /\ journeyPc \in Calls
      /\ NoWrite \/ (journeyPc = "first" /\ Write)
      /\ End("error", Recorded(journeyPc))
      /\ journeyFaults' = journeyFaults \cup {Now}
      /\ UNCHANGED <<journeyMerchant, journeyFirst, journeyBefore, journeyOthers>>
  BY DEF CallThrows, Calls
<1>2. /\ journeyEffects' \in [Kind -> 0..2] /\ journeyStock' \in Nat
      /\ \A k \in Kind \ {Now} : journeyEffects'[k] = journeyEffects[k]
  BY <1>1, NothingWritten, WriteEffect
<1>3. OnlyNow
  BY <1>1, <1>2, StockOfWrites DEF OnlyNow
<1>4. Recorded(journeyPc) \in BOOLEAN
  BY <1>1, NowIsOpen, RecordedOrNot
<1>5. Earned("error", Recorded(journeyPc))
  BY <1>1, <1>4 DEF Earned
<1>6. QED
  BY <1>1, <1>3, <1>5, EndIsEarned

\* What others buy only adds to the stock, and the outcomes stand.
LEMMA OthersBuyKeep ==
  ASSUME JourneySafety, OthersBuy
  PROVE  JourneySafety'
<1>1. /\ JourneyTypeOK /\ PhasesAreKept /\ CheckoutPassIsExactlyOnce
      /\ SuitePassIsEarned /\ SoundMerchantIsNotFailed
  BY DEF JourneySafety
<1>2. /\ journeyOthers < MaxOthers /\ journeyOthers' = journeyOthers + 1
      /\ journeyStock' = journeyStock + 1
      /\ UNCHANGED <<journeyPc, journeyNow, journeyMerchant, journeyFirst, journeyEffects,
                     journeyBefore, journeyFaults, journeyOutcome, suiteOutcome>>
  BY DEF OthersBuy
<1>3. journeyOthers' > 0 /\ journeyOthers' \in 0..MaxOthers
  BY <1>1, <1>2, JourneyAssumption DEF JourneyTypeOK
<1>4. JourneyTypeOK'
  BY <1>1, <1>2, <1>3 DEF JourneyTypeOK
<1>5. /\ Now' = Now /\ Grown' = Grown /\ JustJudged' = JustJudged
      /\ \A i : Judged(i)' <=> Judged(i)
  BY <1>2 DEF Now, Grown, JustJudged, Judged
<1>6. Now = "checkout" /\ journeyPc \in {"cart", "first", "retry", "after"} =>
        journeyStock' >= Grown /\ journeyOthers' # 0
  <2>1. journeyEffects["checkout"] * Quantity \in Int /\ journeyBefore \in Int
    <3>1. journeyEffects["checkout"] \in Int
      BY <1>1 DEF JourneyTypeOK, Kind
    <3>2. \A a, b \in Int : a * b \in Int
      OBVIOUS
    <3>3. QED BY <3>1, <3>2, StockOfWrites
  <2>2. Grown \in Int /\ journeyStock \in Nat
    BY <2>1, StockOfWrites DEF Grown
  <2>3. Now = "checkout" /\ journeyPc \in {"cart", "first", "retry", "after"} =>
          journeyStock >= Grown
    BY <1>1 DEF PhasesAreKept
  <2>4. QED BY <1>2, <1>3, <2>2, <2>3
<1>7. PhasesAreKept'
  BY <1>1, <1>2, <1>3, <1>5, <1>6 DEF PhasesAreKept
<1>8. CheckoutPassIsExactlyOnce' /\ SuitePassIsEarned'
  BY <1>1, <1>2 DEF CheckoutPassIsExactlyOnce, SuitePassIsEarned
<1>9. SoundMerchantIsNotFailed'
  BY <1>3 DEF SoundMerchantIsNotFailed
<1>10. QED
  BY <1>4, <1>7, <1>8, <1>9 DEF JourneySafety

\* The suite passes when no journey erred and none was unsupported: then each passed.
LEMMA FoldKeeps ==
  ASSUME JourneySafety, FoldOutcomes
  PROVE  JourneySafety'
<1>1. /\ JourneyTypeOK /\ PhasesAreKept /\ CheckoutPassIsExactlyOnce
      /\ SoundMerchantIsNotFailed
  BY DEF JourneySafety
<1>2. /\ journeyPc = "suite" /\ journeyPc' = "done"
      /\ suiteOutcome' =
           [status   |-> SuiteStatus,
            complete |-> \A k \in Kind : journeyOutcome[k] = [status |-> "pass", complete |-> TRUE]]
      /\ UNCHANGED <<journeyNow, journeyMerchant, journeyFirst, journeyEffects, journeyStock,
                     journeyBefore, journeyOthers, journeyFaults, journeyOutcome>>
  BY DEF FoldOutcomes
<1>3. \A k \in Kind :
        /\ journeyOutcome[k].status # "none"
        /\ journeyOutcome[k].status = "pass" =>
             journeyOutcome[k].complete /\ journeyEffects[k] > 0 /\ k \notin journeyFaults
  <2>1. \A i \in 1..3 : Judged(i)
    BY <1>2 DEF Judged
  <2>2. QED BY <1>1, <2>1, SuiteOrder DEF PhasesAreKept
<1>4. \A k \in Kind : journeyOutcome[k] \in Outcome
  BY <1>1 DEF JourneyTypeOK
<1>5. suiteOutcome'.status = SuiteStatus /\ SuiteStatus \in {"error", "unsupported", "pass"}
  BY <1>2 DEF SuiteStatus
<1>6. SuiteStatus = "pass" =>
        \A k \in Kind : journeyOutcome[k] = [status |-> "pass", complete |-> TRUE]
  <2>1. SuiteStatus = "pass" =>
          \A k \in Kind : journeyOutcome[k].status \notin {"error", "unsupported"}
    BY DEF SuiteStatus, Some
  <2>2. SuiteStatus = "pass" =>
          \A k \in Kind : journeyOutcome[k].status = "pass" /\ journeyOutcome[k].complete
    BY <1>3, <1>4, <2>1 DEF Outcome
  <2>3. ASSUME NEW e \in Outcome, e.status = "pass", e.complete
        PROVE  e = [status |-> "pass", complete |-> TRUE]
    BY <2>3 DEF Outcome
  <2>4. QED BY <1>4, <2>2, <2>3
<1>7. suiteOutcome'.complete =
        \A k \in Kind : journeyOutcome[k] = [status |-> "pass", complete |-> TRUE]
  BY <1>2
<1>8. SuitePassIsEarned'
  BY <1>2, <1>3, <1>5, <1>6, <1>7 DEF SuitePassIsEarned
<1>9. suiteOutcome' \in Outcome
  BY <1>2, <1>5 DEF Outcome
<1>10. JourneyTypeOK'
  BY <1>1, <1>2, <1>9 DEF JourneyTypeOK
<1>11. /\ Now' = Now /\ JustJudged' = JustJudged /\ \A i : Judged(i)' <=> Judged(i)
  BY <1>2 DEF Now, JustJudged, Judged
<1>12. PhasesAreKept'
  BY <1>1, <1>2, <1>11 DEF PhasesAreKept
<1>13. CheckoutPassIsExactlyOnce' /\ SoundMerchantIsNotFailed'
  BY <1>1, <1>2, <1>11 DEF CheckoutPassIsExactlyOnce, SoundMerchantIsNotFailed
<1>14. QED
  BY <1>8, <1>10, <1>12, <1>13 DEF JourneySafety

\* A suite that starts has judged nothing.
LEMMA JourneyStartsSafe == JourneyInit => JourneySafety
<1>1. SUFFICES ASSUME JourneyInit PROVE JourneySafety
  OBVIOUS
<1>2. NoOutcome \in Outcome /\ NoOutcome.status = "none"
  BY DEF NoOutcome, Outcome
<1>3. JourneyTypeOK
  BY <1>1, <1>2, JourneyAssumption DEF JourneyInit, JourneyTypeOK, Merchant
<1>4. PhasesAreKept
  <2>1. \A i \in 1..3 : ~Judged(i)
    BY <1>1 DEF JourneyInit, Judged
  <2>2. \A i \in 1..3 :
          /\ journeyOutcome[Suite[i]] = NoOutcome /\ journeyEffects[Suite[i]] = 0
          /\ Suite[i] \notin journeyFaults
    BY <1>1, SuiteOrder DEF JourneyInit
  <2>3. QED BY <1>1, <2>1, <2>2 DEF JourneyInit, PhasesAreKept
<1>5. CheckoutPassIsExactlyOnce /\ SuitePassIsEarned /\ SoundMerchantIsNotFailed
  BY <1>1, <1>2
     DEF JourneyInit, Kind, CheckoutPassIsExactlyOnce, SuitePassIsEarned,
         SoundMerchantIsNotFailed, JustJudged
<1>6. QED
  BY <1>3, <1>4, <1>5 DEF JourneySafety

\* Whatever the merchant does with a repeated key, whatever throws and whoever else buys: a
\* checkout journey passes only with exactly one write, a suite only with the complete
\* evidence of every journey, and a merchant that replays is failed only when its adapter
\* threw or others bought.
THEOREM JourneyIsSafe == JourneySpec => []JourneySafety
<1>1. JourneyInit => JourneySafety
  BY JourneyStartsSafe
<1>2. JourneySafety /\ [JourneyNext]_journeyVars => JourneySafety'
  <2>1. SUFFICES ASSUME JourneySafety, [JourneyNext]_journeyVars PROVE JourneySafety'
    OBVIOUS
  <2>2. CASE UNCHANGED journeyVars
    <3>1. /\ JourneyTypeOK /\ PhasesAreKept /\ CheckoutPassIsExactlyOnce
          /\ SuitePassIsEarned /\ SoundMerchantIsNotFailed
      BY <2>1 DEF JourneySafety
    <3>2. /\ Now' = Now /\ Grown' = Grown /\ JustJudged' = JustJudged
          /\ \A i : Judged(i)' <=> Judged(i)
      BY <2>2 DEF journeyVars, Now, Grown, JustJudged, Judged
    <3>3. JourneyTypeOK' /\ PhasesAreKept'
      BY <2>2, <3>1, <3>2 DEF journeyVars, JourneyTypeOK, PhasesAreKept
    <3>4. CheckoutPassIsExactlyOnce' /\ SuitePassIsEarned' /\ SoundMerchantIsNotFailed'
      BY <2>2, <3>1, <3>2
         DEF journeyVars, CheckoutPassIsExactlyOnce, SuitePassIsEarned, SoundMerchantIsNotFailed
    <3>5. QED BY <3>3, <3>4 DEF JourneySafety
  <2>3. QED
    BY <2>1, <2>2, CapabilitiesKeep, ReadBeforeKeeps, FillCartKeeps, FirstCallKeeps, RetryKeeps,
       ReadAfterKeeps, CallThrowsKeeps, OthersBuyKeep, FoldKeeps DEF JourneyNext
<1>3. QED
  BY <1>1, <1>2, PTL DEF JourneySpec

=============================================================================
