--------------------------- MODULE MCBudgetLedger ---------------------------
(***************************************************************************)
(* Small instances of BudgetLedger for TLC.                                *)
(***************************************************************************)
EXTENDS BudgetLedger, TLC

CONSTANTS c1, c2, c3, c4, p1, p2, k1, k2, a, b

\* c1 and c3 run in one process, the others in another.
Processes == [c \in Call |-> IF c \in {c1, c3} THEN p1 ELSE p2]

\* Admission run: one key.  Of c1 and c2 only one fits below the limit of 4, and c4
\* fits beside it; c3 was configured with another limit.
OneKey == [c \in Call |-> k1]
Limits == [c \in Call |-> IF c = c3 THEN 5 ELSE 4]
Estimates2 == [c \in Call |-> IF c \in {c1, c2} THEN 2 ELSE 1]

\* Reaper run: two keys with two reservations each, and no limit.
TwoKeys == [c \in Call |-> IF c \in {c1, c2} THEN k1 ELSE k2]
Unlimited == [c \in Call |-> NoLimit]
Ones == [c \in Call |-> 1]

\* It starts when the four reservations are made, the process of two of them has died
\* and their time is over, and both keys were halted.
Reserved ==
  /\ pc = [c \in Call |-> IF Processes[c] = p1 THEN "calling" ELSE "failed"]
  /\ charged = [c \in Call |-> 0]
  /\ tracked = [p \in Process |-> 0]
  /\ reservation = [c \in Call |-> "open"]
  /\ lapsed = [c \in Call |-> Processes[c] # p1]
  /\ budget = [k \in LedgerKey |-> [limit |-> NoLimit, reserved |-> 2, spent |-> 0]]
  /\ halted = [k \in LedgerKey |-> TRUE]
  /\ batch = [p \in Reaper |-> {}]
  /\ walked = [p \in Reaper |-> {}]

ReservedSpec == Reserved /\ [][LedgerNext]_budgetVars /\ Fairness

=============================================================================
