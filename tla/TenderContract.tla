--------------------------- MODULE TenderContract ---------------------------
(***************************************************************************)
(* What a GiftCardLedger of packages/commerce/src/tender-ledger.ts         *)
(* promises: every credit and redemption is served in one step against the *)
(* entries so far.  InMemoryGiftCardLedger is just that, for its methods   *)
(* run to their end without an await; the PostgreSQL ledger implements it  *)
(* with a transaction (TenderLedger).                                      *)
(***************************************************************************)
EXTENDS Integers, FiniteSets, FiniteSetsExt

CONSTANTS
  Request,    \* calls of credit and redeem, retries included
  Card,       \* gift cards of a tenant
  EntryOf     \* [Request -> the validated entry that the call asks for]

VARIABLES
  entries,    \* the ledger: a set of entries
  answers     \* [Request -> what the call has returned]

contractVars == <<entries, answers>>

Answer == {"none", "applied", "duplicate", "conflict", "insufficient", "threw"}

EntriesOf(card) == {e \in entries : e.card = card}

Total(es) == MapThenSumSet(LAMBDA e : IF e.kind = "credit" THEN e.amount ELSE -e.amount, es)

Balance(card) == Total(EntriesOf(card))

Covers(balance, entry) == entry.kind = "redeem" => balance >= entry.amount

Prior(entry) == {e \in EntriesOf(entry.card) : e.operation = entry.operation}

OtherCurrency(entry) == \E e \in EntriesOf(entry.card) : e.currency # entry.currency

ContractInit == entries = {} /\ answers = [r \in Request |-> "none"]

\* A repeated operation is answered from its entry.  The in-memory credit looks at the
\* currency before it looks for the operation, and throws where others call a conflict.
Repeat(r) ==
  LET entry == EntryOf[r]
  IN /\ Prior(entry) # {}
     /\ \/ entry \in Prior(entry) /\ answers' = [answers EXCEPT ![r] = "duplicate"]
        \/ entry \notin Prior(entry) /\ answers' = [answers EXCEPT ![r] = "conflict"]
        \/ /\ entry.kind = "credit" /\ OtherCurrency(entry)
           /\ answers' = [answers EXCEPT ![r] = "threw"]
     /\ UNCHANGED entries

Refuse(r) ==
  LET entry == EntryOf[r]
  IN /\ Prior(entry) = {}
     /\ \/ OtherCurrency(entry) /\ answers' = [answers EXCEPT ![r] = "threw"]
        \/ /\ ~OtherCurrency(entry)
           /\ ~Covers(Balance(entry.card), entry)
           /\ answers' = [answers EXCEPT ![r] = "insufficient"]
     /\ UNCHANGED entries

\* The entry is made; the caller of a durable ledger may not hear of it.
Apply(r) ==
  LET entry == EntryOf[r]
  IN /\ Prior(entry) = {}
     /\ ~OtherCurrency(entry)
     /\ Covers(Balance(entry.card), entry)
     /\ entries' = entries \cup {entry}
     /\ \E answer \in {"applied", "threw"} : answers' = [answers EXCEPT ![r] = answer]

\* A durable ledger may fail without an effect.
Fail(r) == answers' = [answers EXCEPT ![r] = "threw"] /\ UNCHANGED entries

Serve(r) == answers[r] = "none" /\ (Repeat(r) \/ Refuse(r) \/ Apply(r) \/ Fail(r))

ContractNext == \E r \in Request : Serve(r)

ContractSpec == ContractInit /\ [][ContractNext]_contractVars

=============================================================================
