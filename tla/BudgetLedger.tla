---------------------------- MODULE BudgetLedger ----------------------------
(***************************************************************************)
(* The distributed LLM budget: PostgresBudgetLedger and BudgetReaper of    *)
(* packages/cost/src, driven by BudgetedLlmAdapter of                      *)
(* packages/llm-adapters/src/budgeted.ts.                                  *)
(*                                                                         *)
(* A call of the adapter asks the tracker of its own process, reserves its *)
(* estimate under a ledger key, calls the provider and settles what the    *)
(* provider charged.  reserve reads the halt table and only later locks    *)
(* the budget row; from that lock to its commit nothing can interfere, so  *)
(* the rest of reserve is one action, and so is settle.  reapExpired is    *)
(* not: one transaction walks over many reservations and keeps every       *)
(* budget row it has updated locked until it commits.                      *)
(*                                                                         *)
(* Amounts are small naturals instead of USD, and whether expires_at has   *)
(* passed replaces the clock.                                              *)
(***************************************************************************)
EXTENDS Naturals, FiniteSets, FiniteSetsExt

CONSTANTS
  Call,       \* calls of BudgetedLlmAdapter.call, one reservation each
  Process,    \* worker processes, each with a BudgetTracker
  LedgerKey,        \* ledger keys
  Reaper,     \* processes that run reapExpired
  NoHolder,
  NoLimit,    \* budget_usd = null
  Absent,     \* a budget row that does not exist yet
  ProcessOf,  \* [Call -> Process]
  LedgerKeyOf,      \* [Call -> LedgerKey]            ledger_key
  LimitOf,    \* [Call -> Nat \cup {NoLimit}]   budget_usd the process is configured with
  EstimateOf, \* [Call -> Nat]            costOf(estimate(input))
  Charges     \* what a provider may charge for a call

ASSUME CallsAssumption ==
  /\ IsFiniteSet(Call)
  /\ ProcessOf \in [Call -> Process]
  /\ LedgerKeyOf \in [Call -> LedgerKey]
  /\ LimitOf \in [Call -> Nat \cup {NoLimit}]
  /\ EstimateOf \in [Call -> Nat]
  /\ Charges \subseteq Nat
  /\ NoLimit \notin Nat /\ Absent \notin Nat /\ NoLimit # Absent
  /\ NoHolder \notin Reaper

VARIABLES
  pc,           \* pc[c]: where the adapter call stands
  charged,      \* charged[c]: what the provider charged for it
  tracked,      \* tracked[p]: spent_usd of the tracker of process p
  reservation,  \* reservation[c]: the row of its reservation
  lapsed,       \* lapsed[c]: expires_at has passed
  budget,       \* budget[k]: the row of key k
  halted,       \* halted[k]: a row in aqa_llm_budget_halts
  batch,        \* batch[p]: reservations the transaction of reaper p has locked
  walked        \* walked[p]: those of them it has already updated

callVars == <<pc, charged, tracked>>
ledgerVars == <<reservation, lapsed, budget, halted>>
reaperVars == <<batch, walked>>
budgetVars == <<pc, charged, tracked, reservation, lapsed, budget, halted, batch, walked>>

Pc == {"ready", "asking", "admitting", "calling", "settling", "releasing",
       "done", "denied", "failed"}

Limit == Nat \cup {NoLimit, Absent}

LedgerTypeOK ==
  /\ pc \in [Call -> Pc]
  /\ charged \in [Call -> Nat]
  /\ tracked \in [Process -> Nat]
  /\ reservation \in [Call -> {"none", "open", "settled", "reaped"}]
  /\ lapsed \in [Call -> BOOLEAN]
  /\ budget \in [LedgerKey -> [limit : Limit, reserved : Nat, spent : Nat]]
  /\ halted \in [LedgerKey -> BOOLEAN]
  /\ batch \in [Reaper -> SUBSET Call]
  /\ walked \in [Reaper -> SUBSET Call]

LedgerInit ==
  /\ pc = [c \in Call |-> "ready"]
  /\ charged = [c \in Call |-> 0]
  /\ tracked = [p \in Process |-> 0]
  /\ reservation = [c \in Call |-> "none"]
  /\ lapsed = [c \in Call |-> FALSE]
  /\ budget = [k \in LedgerKey |-> [limit |-> Absent, reserved |-> 0, spent |-> 0]]
  /\ halted = [k \in LedgerKey |-> FALSE]
  /\ batch = [p \in Reaper |-> {}]
  /\ walked = [p \in Reaper |-> {}]

-----------------------------------------------------------------------------
(* Locks and sums *)

Open == {c \in Call : reservation[c] = "open"}

\* The reaper whose transaction holds the row of key k, or of reservation c.
RowHolder(k) ==
  IF \E p \in Reaper : \E c \in walked[p] : LedgerKeyOf[c] = k
  THEN CHOOSE p \in Reaper : \E c \in walked[p] : LedgerKeyOf[c] = k
  ELSE NoHolder

RowFree(k) == RowHolder(k) = NoHolder

ReservationFree(c) == \A p \in Reaper : c \notin batch[p]

Estimates(cs) == MapThenSumSet(LAMBDA c : EstimateOf[c], cs)

Fits(limit, amount) == IF limit = NoLimit THEN TRUE ELSE amount < limit

\* GREATEST(0, a - b)
Minus(a, b) == IF a > b THEN a - b ELSE 0

Goto(c, state) == pc' = [pc EXCEPT ![c] = state]

-----------------------------------------------------------------------------
(* BudgetedLlmAdapter.call *)

\* assertCanDispatch of the tracker, which knows its own process only.
Ask(c) ==
  /\ pc[c] = "ready"
  /\ Goto(c, IF Fits(LimitOf[c], tracked[ProcessOf[c]] + EstimateOf[c])
             THEN "asking" ELSE "denied")
  /\ UNCHANGED <<charged, tracked, ledgerVars, reaperVars>>

\* Mutant: the halt table is not asked.
ReadHalt_Blind(c) ==
  /\ pc[c] = "asking"
  /\ Goto(c, "admitting")
  /\ UNCHANGED <<charged, tracked, ledgerVars, reaperVars>>

\* reserve, first statement: the halt table.
ReadHalt(c) ==
  /\ pc[c] = "asking"
  /\ Goto(c, IF halted[LedgerKeyOf[c]] THEN "denied" ELSE "admitting")
  /\ UNCHANGED <<charged, tracked, ledgerVars, reaperVars>>

\* Mutants: open reservations do not count; the caller's limit replaces the row's.
Admissible_SpentOnly(c) ==
  LET row == budget[LedgerKeyOf[c]]
  IN  /\ row.limit \in {Absent, LimitOf[c]}
      /\ Fits(LimitOf[c], row.spent + EstimateOf[c])

Admissible_AnyLimit(c) ==
  LET row == budget[LedgerKeyOf[c]]
  IN  Fits(LimitOf[c], row.spent + row.reserved + EstimateOf[c])

\* What reserve requires of the locked row; a new row takes the caller's limit.
Admissible(c) ==
  LET row == budget[LedgerKeyOf[c]]
  IN  /\ row.limit \in {Absent, LimitOf[c]}
      /\ Fits(LimitOf[c], row.spent + row.reserved + EstimateOf[c])

\* The reservation commits.
Book(c) ==
  /\ budget' = [budget EXCEPT ![LedgerKeyOf[c]].limit = LimitOf[c],
                              ![LedgerKeyOf[c]].reserved = @ + EstimateOf[c]]
  /\ reservation' = [reservation EXCEPT ![c] = "open"]

\* reserve, from the lock on the budget row to the commit.  The connection may
\* break before the commit, or after it and before the caller hears of it.
Reserve(c) ==
  /\ pc[c] = "admitting"
  /\ RowFree(LedgerKeyOf[c])
  /\ \/ Admissible(c) /\ Book(c) /\ Goto(c, "calling")
     \/ Admissible(c) /\ Book(c) /\ Goto(c, "failed")
     \/ ~Admissible(c) /\ Goto(c, "denied") /\ UNCHANGED <<budget, reservation>>
  /\ UNCHANGED <<charged, tracked, lapsed, halted, reaperVars>>

\* The provider answers and the tracker is charged.
Answer(c, amount) ==
  /\ pc[c] = "calling"
  /\ Goto(c, "settling")
  /\ charged' = [charged EXCEPT ![c] = amount]
  /\ tracked' = [tracked EXCEPT ![ProcessOf[c]] = @ + amount]
  /\ UNCHANGED <<ledgerVars, reaperVars>>

\* Mutant: the tracker is refunded what it was never charged.
ProviderFails_Refund(c) ==
  /\ pc[c] = "calling"
  /\ Goto(c, "releasing")
  /\ tracked' = [tracked EXCEPT ![ProcessOf[c]] = @ - EstimateOf[c]]
  /\ UNCHANGED <<charged, ledgerVars, reaperVars>>

ProviderFails(c) ==
  /\ pc[c] = "calling"
  /\ Goto(c, "releasing")
  /\ UNCHANGED <<charged, tracked, ledgerVars, reaperVars>>

\* UPDATE of the budget row and of the reservation in one transaction.
Close(c, amount) ==
  /\ budget' = [budget EXCEPT ![LedgerKeyOf[c]].reserved = Minus(@, EstimateOf[c]),
                              ![LedgerKeyOf[c]].spent = @ + amount]
  /\ reservation' = [reservation EXCEPT ![c] = "settled"]

\* Mutant: a reservation the reaper has released is settled all the same.
Settled_Twice(c, amount) ==
  /\ ReservationFree(c)
  /\ RowFree(LedgerKeyOf[c])
  /\ Close(c, amount)

\* settle: it waits for a reaper that holds the reservation or its budget row,
\* and a reservation that is settled by then is left alone.
Settled(c, amount) ==
  /\ ReservationFree(c)
  /\ \/ reservation[c] = "open" /\ RowFree(LedgerKeyOf[c]) /\ Close(c, amount)
     \/ reservation[c] # "open" /\ UNCHANGED <<budget, reservation>>

SettleUsage(c) ==
  /\ pc[c] = "settling"
  /\ Settled(c, charged[c])
  /\ Goto(c, "done") \/ Goto(c, "failed")
  /\ UNCHANGED <<charged, tracked, lapsed, halted, reaperVars>>

SettleNothing(c) ==
  /\ pc[c] = "releasing"
  /\ Settled(c, 0)
  /\ Goto(c, "failed")
  /\ UNCHANGED <<charged, tracked, lapsed, halted, reaperVars>>

\* The process dies or its connection does: nothing more happens to the call.
Crash(c) ==
  /\ pc[c] \in {"asking", "admitting", "calling", "settling", "releasing"}
  /\ Goto(c, "failed")
  /\ UNCHANGED <<charged, tracked, ledgerVars, reaperVars>>

-----------------------------------------------------------------------------
(* Operators and time *)

Halt(k) ==
  /\ halted' = [halted EXCEPT ![k] = TRUE]
  /\ UNCHANGED <<callVars, reservation, lapsed, budget, reaperVars>>

Expire(c) ==
  /\ reservation[c] = "open"
  /\ lapsed' = [lapsed EXCEPT ![c] = TRUE]
  /\ UNCHANGED <<callVars, reservation, budget, halted, reaperVars>>

-----------------------------------------------------------------------------
(* reapExpired *)

\* SELECT ... FOR UPDATE SKIP LOCKED.
ReapSelect(p) ==
  LET found == {c \in Open : lapsed[c] /\ ReservationFree(c)}
  IN  /\ batch[p] = {}
      /\ found # {}
      /\ batch' = [batch EXCEPT ![p] = found]
      /\ UNCHANGED <<callVars, ledgerVars, walked>>

\* One turn of the loop: the UPDATE of the budget row waits for its lock.
ReapRow(p, c) ==
  /\ c \in batch[p] \ walked[p]
  /\ RowHolder(LedgerKeyOf[c]) \in {NoHolder, p}
  /\ walked' = [walked EXCEPT ![p] = @ \cup {c}]
  /\ UNCHANGED <<callVars, ledgerVars, batch>>

Released(p) ==
  /\ batch' = [batch EXCEPT ![p] = {}]
  /\ walked' = [walked EXCEPT ![p] = {}]

\* The transaction commits: its updates become visible and its locks are freed.
ReapCommit(p) ==
  /\ batch[p] # {}
  /\ walked[p] = batch[p]
  /\ reservation' = [c \in Call |-> IF c \in batch[p] THEN "reaped" ELSE reservation[c]]
  /\ budget' = [k \in LedgerKey |->
                  [budget[k] EXCEPT !.reserved =
                     Minus(@, Estimates({c \in batch[p] : LedgerKeyOf[c] = k}))]]
  /\ Released(p)
  /\ UNCHANGED <<callVars, lapsed, halted>>

\* p can only go on with a row that q holds.
WaitsFor(p, q) ==
  /\ p # q
  /\ batch[p] # walked[p]
  /\ \A c \in batch[p] \ walked[p] : RowHolder(LedgerKeyOf[c]) = q

\* Mutant: nothing breaks a deadlock.
ReapAbort_Never(p) ==
  /\ \E q \in Reaper : WaitsFor(p, q) /\ WaitsFor(q, p)
  /\ UNCHANGED budgetVars

\* PostgreSQL breaks a deadlock of two reapers by aborting one of them, and the
\* row the other one waits for is granted to it.
ReapAbort(p) ==
  /\ \E q \in Reaper :
       /\ WaitsFor(p, q) /\ WaitsFor(q, p)
       /\ \E c \in batch[q] \ walked[q] :
            walked' = [walked EXCEPT ![p] = {}, ![q] = @ \cup {c}]
  /\ batch' = [batch EXCEPT ![p] = {}]
  /\ UNCHANGED <<callVars, ledgerVars>>

-----------------------------------------------------------------------------
CallStep(c) ==
  \/ Ask(c) \/ ReadHalt(c) \/ Reserve(c)
  \/ \E amount \in Charges : Answer(c, amount)
  \/ ProviderFails(c) \/ SettleUsage(c) \/ SettleNothing(c) \/ Crash(c)

ReaperStep(p) ==
  \/ ReapSelect(p) \/ ReapCommit(p) \/ ReapAbort(p)
  \/ \E c \in Call : ReapRow(p, c)

LedgerNext ==
  \/ \E c \in Call : CallStep(c) \/ Expire(c)
  \/ \E k \in LedgerKey : Halt(k)
  \/ \E p \in Reaper : ReaperStep(p)

LedgerSpec == LedgerInit /\ [][LedgerNext]_budgetVars

(* Fairness: TTLs pass, the reapers' timers keep firing and their          *)
(* transactions go on.  Nothing is asked of the workers: they may hang or  *)
(* die at any point.                                                       *)
Fairness ==
  /\ \A c \in Call : WF_budgetVars(Expire(c))
  /\ \A p \in Reaper : WF_budgetVars(ReaperStep(p))

-----------------------------------------------------------------------------
(* Properties *)

InKey(cs, k) == {c \in cs : LedgerKeyOf[c] = k}

SettledIn(k) == {c \in InKey(Call, k) : reservation[c] = "settled"}

SumFor(amounts, cs) == MapThenSumSet(LAMBDA c : amounts[c], cs)

\* How much of what a call was charged is more than its estimate.
Overrun == [c \in Call |-> Minus(charged[c], EstimateOf[c])]

\* The columns of a budget row account for its reservations: reserved is the sum
\* of the open estimates, spent the sum of what settled calls were charged, so
\* no race of settle with the reaper releases or charges a reservation twice.
LedgerBalances ==
  \A k \in LedgerKey :
    /\ budget[k].reserved = Estimates(InKey(Open, k))
    /\ budget[k].spent = SumFor(charged, SettledIn(k))

\* ADR-107: "Concurrent workers cannot oversubscribe a configured budget based
\* only on local snapshots".  A key stays below its limit but for what settled
\* calls cost above their estimates.
NoOversubscription ==
  \A k \in LedgerKey :
    budget[k].limit \notin {NoLimit, Absent} =>
      budget[k].spent + budget[k].reserved < budget[k].limit + SumFor(Overrun, SettledIn(k))

\* Why: a call is charged once, before it settles, and a reaper that has locked a
\* reservation finds it open when it commits.
BudgetInv ==
  /\ \A c \in Call :
       /\ pc[c] \in {"ready", "asking", "admitting"} => reservation[c] = "none"
       /\ pc[c] \in {"ready", "asking", "admitting", "calling", "releasing"} => charged[c] = 0
       /\ reservation[c] = "settled" => pc[c] \in {"done", "failed"}
  /\ \A p \in Reaper : walked[p] \subseteq batch[p] /\ batch[p] \subseteq Open
  /\ \A p, q \in Reaper : p # q => batch[p] \cap batch[q] = {}

\* What the tracker of a process has recorded is what the providers charged its calls,
\* whatever became of their reservations.
TrackersAgree ==
  \A p \in Process :
    tracked[p] = SumFor(charged, {c \in Call : ProcessOf[c] = p})

\* A call that returned its result is charged to its key as well, unless it came back
\* when its reservation had lapsed and been reaped.
LostUsageIsLate ==
  \A c \in Call :
    pc[c] = "done" => \/ reservation[c] = "settled"
                      \/ reservation[c] = "reaped" /\ lapsed[c]

\* Why: what is reserved for a call stays until it settles, but for a reaper, and a reaper
\* only locks what has lapsed.
UsageInv ==
  /\ \A c \in Call :
       /\ pc[c] \in {"calling", "settling", "releasing"} => reservation[c] # "none"
       /\ reservation[c] = "reaped" => lapsed[c]
  /\ \A p \in Reaper : \A c \in batch[p] : lapsed[c]

\* The ledger accounts for its reservations, stays below its limits, and loses no charge
\* of a call that is in time.
LedgerSafety ==
  /\ LedgerTypeOK /\ BudgetInv /\ LedgerBalances /\ NoOversubscription
  /\ TrackersAgree /\ UsageInv /\ LostUsageIsLate

\* ADR-107: "an existing key rejects a changed budget configuration instead of
\* silently adopting it".
LimitIsFixed ==
  [][\A k \in LedgerKey : budget[k].limit # Absent => budget'[k].limit = budget[k].limit]_budgetVars

\* ADR-157: a halt is irreversible and stops a key for every process.  Once the
\* reservations that had passed the halt check are through, nothing is reserved
\* under a halted key again.
Passed(k) == \E c \in Call : LedgerKeyOf[c] = k /\ pc[c] = "admitting"

HaltDrains ==
  [][\A k \in LedgerKey :
       (halted[k] /\ ~Passed(k)) =>
         /\ halted'[k] /\ ~Passed(k)'
         /\ InKey(Open, k)' \subseteq InKey(Open, k)]_budgetVars

\* Neither what a process has read nor how it was configured moves a limit or passes a halt.
LimitsAndHaltsHold == LimitIsFixed /\ HaltDrains

\* ADR-107: "a worker crash cannot consume the budget forever": every reservation
\* is closed at last, although reapers can deadlock over the rows of two keys.
ReservationsAreClosed ==
  \A c \in Call : (reservation[c] = "open") ~> (reservation[c] # "open")

\* ADR-107: "settle actual usage after success" and "Provider usage remains
\* authoritative": a call that returned its result is charged to its key.
UsageIsAccounted ==
  \A c \in Call : pc[c] = "done" => reservation[c] = "settled"

=============================================================================
