---------------------------- MODULE TenderLedger ----------------------------
(***************************************************************************)
(* PostgresGiftCardLedger of packages/commerce/src/tender-ledger.ts: each  *)
(* credit and redemption is a transaction of four statements, and those of *)
(* one card take turns by an advisory lock that the transaction holds to   *)
(* its end.  The statements of different cards interleave, and each reads  *)
(* what is committed when it starts (READ COMMITTED).                      *)
(***************************************************************************)
EXTENDS TenderContract

CONSTANTS
  NoRequest,
  Nothing      \* nothing read yet

ASSUME TenderAssumption ==
  /\ NoRequest \notin Request
  /\ IsFiniteSet(Request)
  /\ \A r \in Request :
       /\ EntryOf[r].card \in Card
       /\ EntryOf[r].amount \in Nat \ {0}
       /\ EntryOf[r].kind \in {"credit", "redeem"}

VARIABLES
  tenderPc,     \* [Request -> the statement its transaction is at]
  cardLock,     \* [Card -> the request whose transaction holds the advisory lock]
  cardRead      \* [Request -> whether the currencies agree, and the balance, as read]

tenderVars == <<entries, answers, tenderPc, cardLock, cardRead>>

CardOf(r) == EntryOf[r].card

TenderTypeOK ==
  /\ entries \subseteq {EntryOf[r] : r \in Request}
  /\ answers \in [Request -> Answer]
  /\ tenderPc \in [Request -> {"lock", "find", "read", "decide", "commit", "done"}]
  /\ cardLock \in [Card -> Request \cup {NoRequest}]
  /\ \A c \in Card : cardLock[c] # NoRequest =>
       CardOf(cardLock[c]) = c /\ tenderPc[cardLock[c]] \in {"find", "read", "decide", "commit"}
  /\ DOMAIN cardRead = Request
  /\ \A r \in Request : tenderPc[r] \notin {"decide", "commit"} => cardRead[r] = Nothing

TenderInit ==
  /\ ContractInit
  /\ tenderPc = [r \in Request |-> "lock"]
  /\ cardLock = [c \in Card |-> NoRequest]
  /\ cardRead = [r \in Request |-> Nothing]

-----------------------------------------------------------------------------
\* Mutant: the advisory lock is not waited for.
LockCard_Free(r) == cardLock' = [cardLock EXCEPT ![CardOf(r)] = r]

LockCard(r) ==
  /\ cardLock[CardOf(r)] = NoRequest
  /\ cardLock' = [cardLock EXCEPT ![CardOf(r)] = r]

Begin(r) ==
  /\ tenderPc[r] = "lock"
  /\ LockCard(r)
  /\ tenderPc' = [tenderPc EXCEPT ![r] = "find"]
  /\ UNCHANGED <<entries, answers, cardRead>>

\* Mutant: the lock is the session's and outlives the transaction.
Unlock_Session(r) == UNCHANGED cardLock

Unlock(r) == cardLock' = [cardLock EXCEPT ![CardOf(r)] = IF @ = r THEN NoRequest ELSE @]

\* The transaction ends, with its lock, and the call is answered.
EndWith(r, answer) ==
  /\ answers' = [answers EXCEPT ![r] = answer]
  /\ tenderPc' = [tenderPc EXCEPT ![r] = "done"]
  /\ cardRead' = [cardRead EXCEPT ![r] = Nothing]
  /\ Unlock(r)

Proceed(r, pc) ==
  /\ tenderPc' = [tenderPc EXCEPT ![r] = pc]
  /\ UNCHANGED <<answers, cardLock>>

\* Mutant: an operation is the same when it moves the same amount.
SameEntry_Amount(left, right) == left.amount = right.amount

SameEntry(left, right) == left = right

\* Mutant: an operation that was seen before is not looked for.
FindOperation_Skipped(r) ==
  tenderPc[r] = "find" /\ Proceed(r, "read") /\ UNCHANGED <<entries, cardRead>>

FindOperation(r) ==
  /\ tenderPc[r] = "find"
  /\ \/ Prior(EntryOf[r]) = {} /\ Proceed(r, "read") /\ UNCHANGED cardRead
     \/ \E prior \in Prior(EntryOf[r]) :
          EndWith(r, IF SameEntry(prior, EntryOf[r]) THEN "duplicate" ELSE "conflict")
  /\ UNCHANGED entries

\* One SELECT gives the currency and the balance of the card.
ReadCard(r) ==
  /\ tenderPc[r] = "read"
  /\ cardRead' = [cardRead EXCEPT ![r] =
       [agrees |-> ~OtherCurrency(EntryOf[r]), balance |-> Balance(CardOf(r))]]
  /\ Proceed(r, "decide")
  /\ UNCHANGED entries

\* Mutant: the currency of the card is not compared.
CurrencyAgrees_Any(r) == TRUE

CurrencyAgrees(r) == cardRead[r].agrees

Covered(r) == Covers(cardRead[r].balance, EntryOf[r])

\* The row that the INSERT makes is seen by others when the transaction commits.
Decide(r) ==
  /\ tenderPc[r] = "decide"
  /\ \/ ~CurrencyAgrees(r) /\ EndWith(r, "threw")
     \/ CurrencyAgrees(r) /\ ~Covered(r) /\ EndWith(r, "insufficient")
     \/ CurrencyAgrees(r) /\ Covered(r) /\ Proceed(r, "commit") /\ UNCHANGED cardRead
  /\ UNCHANGED entries

\* The unique index on the card and the operation backs the lock.
Commit(r) ==
  /\ tenderPc[r] = "commit"
  /\ Prior(EntryOf[r]) = {}
  /\ entries' = entries \cup {EntryOf[r]}
  /\ \E answer \in {"applied", "threw"} : EndWith(r, answer)

\* The connection is lost: the transaction is rolled back, its lock goes and the call throws.
Rollback(r) ==
  /\ tenderPc[r] \in {"find", "read", "decide", "commit"}
  /\ EndWith(r, "threw")
  /\ UNCHANGED entries

TenderNext ==
  \E r \in Request :
    Begin(r) \/ FindOperation(r) \/ ReadCard(r) \/ Decide(r) \/ Commit(r) \/ Rollback(r)

TenderSpec == TenderInit /\ [][TenderNext]_tenderVars

-----------------------------------------------------------------------------
(* Properties *)

\* "Concurrent redemption cannot overspend the balance."
NoOverdraft == \A c \in Card : Balance(c) >= 0

\* "Operation IDs are idempotent" and "currencies cannot mix": a card has one entry per
\* operation, all in one currency.
CardsAreConsistent ==
  \A e1, e2 \in entries :
    e1.card = e2.card =>
      /\ e1.currency = e2.currency
      /\ e1.operation = e2.operation => e1 = e2

\* Callers can trust what they are told.  An applied or duplicate operation is in the ledger
\* as it was asked for, applied by one call alone, and a conflicting one is not.  And every
\* entry was made by a call that was told so, or whose answer was lost: calls that were all
\* refused have moved nothing.  That a call was not covered says nothing of its operation: a
\* later call may apply it, once the card is credited.
AnswersAreTrue ==
  /\ \A r \in Request :
       /\ answers[r] \in {"applied", "duplicate"} => EntryOf[r] \in entries
       /\ answers[r] = "conflict" => EntryOf[r] \notin entries
       /\ \A s \in Request :
            answers[r] = "applied" /\ answers[s] = "applied" /\ r # s => EntryOf[r] # EntryOf[s]
  /\ \A e \in entries : \E r \in Request : EntryOf[r] = e /\ answers[r] \in {"applied", "threw"}

\* While a transaction is past its reads, what it read still holds: nobody else changes
\* the card before it commits.
ReadsAreCurrent ==
  \A r \in Request : tenderPc[r] \in {"decide", "commit"} =>
    /\ cardLock[CardOf(r)] = r
    /\ cardRead[r] = [agrees |-> ~OtherCurrency(EntryOf[r]), balance |-> Balance(CardOf(r))]

\* What callers and transactions rely on, but for the balance.
TenderSafety == TenderTypeOK /\ CardsAreConsistent /\ AnswersAreTrue /\ ReadsAreCurrent

\* The transactions implement the atomic ledger.
LedgerIsAtomic == ContractSpec

=============================================================================
