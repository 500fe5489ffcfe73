---------------------------- MODULE ApprovalGate ----------------------------
(***************************************************************************)
(* The boundary of agent-initiated commerce writes:                        *)
(* CommerceMutationGate.execute (packages/commerce/src/mutation-gate.ts),  *)
(* which asks CommerceToolPolicy.authorizeAsync (agent-security.ts), which *)
(* claims the human approval in PostgresCommerceApprovalLedger             *)
(* (approval-ledger.ts), or in the memory of its process when no ledger is *)
(* configured.                                                             *)
(*                                                                         *)
(* An attempt is one call of execute.  The approvals are matched with the  *)
(* calls they bind (tenant, customer, cart revision and total) before      *)
(* anything is claimed; what is left is the id of the call, the expiry,    *)
(* the claim, and an executor whose answer may be lost after its write.    *)
(*                                                                         *)
(* A call whose operation is 'read' takes another way: when its tool is on *)
(* the list of read tools it is allowed without a claim, and execute only  *)
(* asks that some approval came with it, be it another call's, expired or  *)
(* used.  What the executor of a read does is not the gate's to say.       *)
(***************************************************************************)
EXTENDS Naturals, FiniteSets

CONSTANTS
  Attempt,       \* calls of execute, retries and replays included
  CallOf,        \* [Attempt -> id of the tool call]
  ApprovalOf,    \* [Attempt -> the approval that comes with it, or NoApproval]
  GrantOf,       \* [approvals -> the call id that each was given for]
  ReplicaOf,     \* [Attempt -> the process that serves it]
  InMemory,      \* the processes whose policy has no approval ledger
  Reads,         \* the attempts whose operation is 'read'
  AllowedReads,  \* those of them whose tool is one of read_tools
  NoApproval,
  NoCall

ASSUME GateAssumption ==
  /\ NoApproval \notin DOMAIN GrantOf
  /\ \A t \in Attempt : ApprovalOf[t] = NoApproval \/ ApprovalOf[t] \in DOMAIN GrantOf
  /\ \A p \in DOMAIN GrantOf : GrantOf[p] # NoCall
  /\ AllowedReads \subseteq Reads /\ Reads \subseteq Attempt

\* Whether the attempt's policy has an approval ledger.
Durable(t) == ReplicaOf[t] \notin InMemory

Approval == DOMAIN GrantOf

VARIABLES
  gatePc,      \* [Attempt -> where it is]
  gateResult,  \* [Attempt -> the result of execute]
  approvals,   \* [Approval -> the call id in the row of aqa_commerce_approvals]
  consumed,    \* consumedApprovals of each process: pairs of a replica and an approval
  expired,     \* approvals whose expires_at has passed
  mutations,   \* attempts whose executor had its effect at the merchant
  executions   \* attempts whose executor was started

gateVars == <<gatePc, gateResult, approvals, consumed, expired, mutations, executions>>

GateTypeOK ==
  /\ gatePc \in [Attempt -> {"start", "insert", "select", "execute", "done"}]
  /\ gateResult \in
       [Attempt -> {"none", "denied", "threw", "committed", "not_committed", "unknown"}]
  /\ approvals \in [Approval -> {CallOf[t] : t \in Attempt} \cup {NoCall}]
  /\ consumed \subseteq {ReplicaOf[t] : t \in Attempt} \X Approval
  /\ expired \subseteq Approval
  /\ mutations \subseteq executions
  /\ \A t \in Attempt :
       /\ gateResult[t] = "none" <=> gatePc[t] # "done"
       /\ t \in executions <=>
            gatePc[t] = "execute" \/ gateResult[t] \in {"committed", "not_committed", "unknown"}

GateInit ==
  /\ gatePc = [t \in Attempt |-> "start"]
  /\ gateResult = [t \in Attempt |-> "none"]
  /\ approvals = [p \in Approval |-> NoCall]
  /\ consumed = {}
  /\ expired = {}
  /\ mutations = {}
  /\ executions = {}

-----------------------------------------------------------------------------
\* Mutant: execute returns nothing.
Ends_Silent(t, result) == gatePc' = [gatePc EXCEPT ![t] = "done"] /\ UNCHANGED gateResult

Ends(t, result) ==
  /\ gatePc' = [gatePc EXCEPT ![t] = "done"]
  /\ gateResult' = [gateResult EXCEPT ![t] = result]

GoOn(t, pc) == gatePc' = [gatePc EXCEPT ![t] = pc] /\ UNCHANGED gateResult

\* The executor starts in the step that grants the call; the expiry is not read again.
Execute(t) == GoOn(t, "execute") /\ executions' = executions \cup {t}

\* Mutant: an approval may be used for any call.
Bound_Any(t) == ApprovalOf[t] # NoApproval

\* There is an approval, and it was given for this call.
Bound(t) == ApprovalOf[t] # NoApproval /\ GrantOf[ApprovalOf[t]] = CallOf[t]

\* Mutant: the list of read tools is not consulted.
PreparedRead_Any(t) == t \in Reads

\* prepare: a read is looked up in the list of read tools, whatever approval it has.
PreparedRead(t) == t \in AllowedReads

\* Mutant: the approval of a read is prepared like that of a write.
PreparedWrite_Read(t) == Bound(t) /\ ApprovalOf[t] \notin expired

PreparedWrite(t) == t \notin Reads /\ Bound(t) /\ ApprovalOf[t] \notin expired

Denied(t) ==
  /\ gatePc[t] = "start"
  /\ ~PreparedRead(t) /\ ~PreparedWrite(t)
  /\ Ends(t, "denied")
  /\ UNCHANGED <<approvals, consumed, expired, mutations, executions>>

\* Mutant: the gate does not ask a read for an approval.
HasApproval_Any(t) == TRUE

HasApproval(t) == ApprovalOf[t] # NoApproval

\* A read claims nothing; execute refuses it when no approval came with it at all.
AuthorizeRead(t) ==
  /\ gatePc[t] = "start"
  /\ PreparedRead(t)
  /\ \/ HasApproval(t) /\ Execute(t)
     \/ ~HasApproval(t) /\ Ends(t, "denied") /\ UNCHANGED executions
  /\ UNCHANGED <<approvals, consumed, expired, mutations>>

\* authorize: without a ledger the approval is consumed in the process, in the same step.
AuthorizeInMemory(t) ==
  LET use == <<ReplicaOf[t], ApprovalOf[t]>>
  IN /\ ~Durable(t)
     /\ gatePc[t] = "start"
     /\ PreparedWrite(t)
     /\ \/ use \in consumed /\ Ends(t, "denied") /\ UNCHANGED <<consumed, executions>>
        \/ use \notin consumed /\ consumed' = consumed \cup {use} /\ Execute(t)
     /\ UNCHANGED <<approvals, expired, mutations>>

\* authorizeAsync: with a ledger the claim is awaited.
Authorize(t) ==
  /\ Durable(t)
  /\ gatePc[t] = "start"
  /\ PreparedWrite(t)
  /\ GoOn(t, "insert")
  /\ UNCHANGED <<approvals, consumed, expired, mutations, executions>>

\* Mutant: the row is written whoever has the approval.
RowIsFree_Always(p) == TRUE

RowIsFree(p) == approvals[p] = NoCall

\* INSERT ... ON CONFLICT (approval_id) DO NOTHING.  The answer may be lost, and execute
\* then throws with the approval claimed.
InsertClaim(t) ==
  LET p == ApprovalOf[t]
  IN /\ gatePc[t] = "insert"
     /\ \/ /\ RowIsFree(p)
           /\ approvals' = [approvals EXCEPT ![p] = CallOf[t]]
           /\ Execute(t) \/ (Ends(t, "threw") /\ UNCHANGED executions)
        \/ /\ ~RowIsFree(p)
           /\ GoOn(t, "select")
           /\ UNCHANGED <<approvals, executions>>
     /\ UNCHANGED <<consumed, expired, mutations>>

\* Mutant: a retry of the call that claimed the approval is let through.
SelectClaim_Retry(t) ==
  /\ gatePc[t] = "select"
  /\ IF approvals[ApprovalOf[t]] = CallOf[t] THEN Execute(t)
     ELSE Ends(t, "denied") /\ UNCHANGED executions
  /\ UNCHANGED <<approvals, consumed, expired, mutations>>

\* A duplicate is refused like a conflict.
SelectClaim(t) ==
  /\ gatePc[t] = "select"
  /\ Ends(t, "denied")
  /\ UNCHANGED <<approvals, consumed, expired, mutations, executions>>

\* Mutant: an executor that throws counts as one that wrote nothing.
ThrownResult_NotCommitted == "not_committed"

ThrownResult == "unknown"

\* The executor says that it committed, or that it did not, or throws with or without
\* the write made.
ExecutorReturns(t) ==
  /\ gatePc[t] = "execute"
  /\ \/ mutations' = mutations \cup {t} /\ Ends(t, "committed")
     \/ UNCHANGED mutations /\ Ends(t, "not_committed")
     \/ mutations' = mutations \cup {t} /\ Ends(t, ThrownResult)
     \/ UNCHANGED mutations /\ Ends(t, ThrownResult)
  /\ UNCHANGED <<approvals, consumed, expired, executions>>

Expires(p) ==
  /\ p \notin expired
  /\ expired' = expired \cup {p}
  /\ UNCHANGED <<gatePc, gateResult, approvals, consumed, mutations, executions>>

GateNext ==
  \/ \E t \in Attempt :
       \/ Denied(t) \/ AuthorizeRead(t) \/ AuthorizeInMemory(t) \/ Authorize(t)
       \/ InsertClaim(t) \/ SelectClaim(t) \/ ExecutorReturns(t)
  \/ \E p \in Approval : Expires(p)

GateSpec == GateInit /\ [][GateNext]_gateVars

-----------------------------------------------------------------------------
(* Properties *)

\* Attempts that the gate let through as writes.
Writes == executions \ Reads

\* "Writes/financial actions require a single-use human approval": with the durable
\* ledger no two writes run an executor on one approval, wherever they are served;
\* without it, no two of one process do.  Reads may run on it beside them, as often as
\* they come.
ApprovalIsSingleUse ==
  \A t, u \in Writes :
    t # u /\ ApprovalOf[t] = ApprovalOf[u] =>
      /\ ~(Durable(t) /\ Durable(u))
      /\ ReplicaOf[t] # ReplicaOf[u]

\* A write is made only under the approval that a human gave for that very call, and
\* with a ledger the approval stays claimed by that call for good.
WritesAreApproved ==
  \A t \in Writes :
    /\ ApprovalOf[t] \in Approval /\ GrantOf[ApprovalOf[t]] = CallOf[t]
    /\ Durable(t) => approvals[ApprovalOf[t]] = CallOf[t]

\* An approval is spent only by a write that it was given for and that was let through, or
\* whose claim was made and not answered: neither a read that comes with it nor an attempt
\* that is refused takes it from its write.
OnlyWritesSpend ==
  /\ \A p \in Approval :
       approvals[p] # NoCall =>
         \E t \in Attempt \ Reads :
           /\ ApprovalOf[t] = p /\ CallOf[t] = approvals[p] /\ GrantOf[p] = approvals[p]
           /\ t \in executions \/ gateResult[t] = "threw"
  /\ \A use \in consumed :
       \E t \in Writes : ~Durable(t) /\ use = <<ReplicaOf[t], ApprovalOf[t]>>

\* A read that runs its executor is of an allowed tool and came with an approval.
ReadsAreAllowed ==
  \A t \in executions \cap Reads : t \in AllowedReads /\ ApprovalOf[t] \in Approval

\* "A transport ambiguity never becomes a success", and never becomes a refusal either:
\* an effect that was had is reported as committed or unknown, one that is reported as
\* committed was had, and an attempt that was denied or threw had none.
ResultsAreHonest ==
  \A t \in Attempt :
    /\ gateResult[t] = "committed" => t \in mutations
    /\ t \in mutations => gateResult[t] \in {"committed", "unknown"}

\* Writes are approved, once, nothing else spends an approval, and results are told as they
\* are.
GateSafety ==
  /\ GateTypeOK /\ ApprovalIsSingleUse /\ WritesAreApproved
  /\ OnlyWritesSpend /\ ReadsAreAllowed /\ ResultsAreHonest

=============================================================================
