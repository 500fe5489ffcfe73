---------------------------- MODULE MCAdmission -----------------------------
(***************************************************************************)
(* Small instances, for one TLC run, of where the control plane admits     *)
(* something: jobs against the quota of a tenant, LLM calls against the    *)
(* budget of a ledger key, and methodology artifacts by the decision of a  *)
(* reviewer.  They share no state: a behaviour is one of "part" while the  *)
(* others stay where they began.                                           *)
(***************************************************************************)
EXTENDS MCPostgresQueue, BudgetLedger, MethodologyStore

CONSTANTS
  c1, c2, c3, p1, p2, ledgerKey,
  q1, q2, q3, dA, dB, dC, u1, t1, t2

\* c1 and c3 run in one process, c2 in another.  Of c1 and c2 only one fits below the limit
\* of 4, and c3 fits beside it, which was configured with another limit.
Processes == [c \in Call |-> IF c \in {c1, c3} THEN p1 ELSE p2]
OneKey == [c \in Call |-> ledgerKey]
Limits == [c \in Call |-> IF c = c3 THEN 5 ELSE 4]
Estimates2 == [c \in Call |-> IF c \in {c1, c2} THEN 2 ELSE 1]

\* Two proposals of one revision of an artifact, and one of another, legacy, artifact.
Artifacts == q1 :> 1 @@ q2 :> 1 @@ q3 :> 2
Contents == q1 :> dA @@ q2 :> dB @@ q3 :> dC
Proposers == [p \in Proposal |-> u1]

\* A submission and its retry change places, and so do the reapers and the sessions.
Symmetry ==
  {p \in Permutations({j1, j2} \cup Reaper \cup Session) :
     /\ {p[j1], p[j2]} = {j1, j2}
     /\ \A same \in {Reaper, Session} :
          p[j1] = j1 <=> \A q \in same : p[q] = q}

VARIABLE part

hostVars == <<part, vars, budgetVars, methodologyVars>>

AdmissionInit ==
  /\ part \in {"jobs", "calls", "governance", "retention"}
  /\ Init /\ LedgerInit /\ MethodologyInit
  /\ part = "retention" <=> \E a \in Artifact : artifacts[a] # NoDigest

\* Two instances of the governance.  Two sessions of a reviewer work on two proposals of
\* the first artifact, and only the approval of one expires.
Governance ==
  /\ part = "governance" /\ MethodologyNext
  /\ proposals'[q3].status = "absent"
  /\ \A s \in Session : sessions'[s].user # u1
  /\ approvalLive'[q2]

\* One session at a time, the proposer's or a reviewer's, works on a proposal of each
\* artifact; approvals do not expire, and only the legacy artifact is held.
Retention ==
  /\ part = "retention" /\ MethodologyNext
  /\ proposals'[q2].status = "absent"
  /\ \E s \in Session : sessions'[s] = IdleSession
  /\ UNCHANGED approvalLive
  /\ lifecycles'[1] # NoLifecycle => ~lifecycles'[1].hold

AdmissionNext ==
  /\ UNCHANGED part
  /\ \/ part = "jobs" /\ Next /\ UNCHANGED <<budgetVars, methodologyVars>>
     \/ part = "calls" /\ LedgerNext /\ UNCHANGED <<vars, methodologyVars>>
     \/ (Governance \/ Retention) /\ UNCHANGED <<vars, budgetVars>>

AdmissionSpec == AdmissionInit /\ [][AdmissionNext]_hostVars

=============================================================================
