------------------------ MODULE MethodologyContract ------------------------
(***************************************************************************)
(* What the Store promises about the governance of methodology artifacts   *)
(* (packages/store/src): a request takes effect in one step, or not at     *)
(* all.  The in-memory store (memory.ts) keeps to it as it stands: its     *)
(* methods change their maps between two awaits, one at a time for each    *)
(* artifact (withMethodologyLifecycleLock).                                *)
(*                                                                         *)
(* Proposals are pending, approved or rejected, with or without the        *)
(* content of their artifact.  An artifact has content, and a lifecycle    *)
(* that has come so far.                                                   *)
(***************************************************************************)
CONSTANTS Proposal, Artifact, ArtifactOf, DigestOf, ProposerOf, User,
          Legacy, LegacyDigest, NoDigest, NoLifecycle

VARIABLES proposals, approvalLive, artifacts, lifecycles, ages

contractVars == <<proposals, approvalLive, artifacts, lifecycles, ages>>

Lifecycle == [state : {"active", "archived"}, hold : BOOLEAN]
Ages == {"fresh", "archivable", "expired"}

Active == [state |-> "active", hold |-> FALSE]

Init ==
  /\ proposals = [p \in Proposal |->
       [status |-> "absent", content |-> FALSE, by |-> ProposerOf[p]]]
  /\ approvalLive = [p \in Proposal |-> TRUE]
  /\ \E there \in SUBSET Legacy :
       artifacts = [a \in Artifact |-> IF a \in there THEN LegacyDigest ELSE NoDigest]
  /\ lifecycles = [a \in Artifact |-> NoLifecycle]
  /\ ages = [a \in Artifact |-> "fresh"]

\* saveMethodologyProposal.
Propose(p) ==
  /\ proposals[p].status = "absent"
  /\ proposals' = [proposals EXCEPT ![p].status = "pending", ![p].content = TRUE]
  /\ UNCHANGED <<approvalLive, artifacts, lifecycles, ages>>

\* approveMethodologyProposal asks for the content, rejectMethodologyProposal does not.
Decide(p, status, user) ==
  /\ proposals[p].status = "pending" /\ user # ProposerOf[p]
  /\ status = "approved" => proposals[p].content
  /\ proposals' = [proposals EXCEPT ![p].status = status, ![p].by = user]
  /\ UNCHANGED <<approvalLive, artifacts, lifecycles, ages>>

\* publishMethodologyArtifact: with a lifecycle that is new, or one that the request has
\* read and that has expired since.
Publish(p, lifecycle, age) ==
  LET a == ArtifactOf[p]
  IN /\ proposals[p].status = "approved" /\ proposals[p].content /\ approvalLive[p]
     /\ artifacts[a] \in {NoDigest, DigestOf[p]} /\ lifecycles[a] = NoLifecycle
     /\ (lifecycle = Active /\ age = "fresh") \/ age = "expired"
     /\ artifacts' = [artifacts EXCEPT ![a] = DigestOf[p]]
     /\ lifecycles' = [lifecycles EXCEPT ![a] = lifecycle]
     /\ ages' = [ages EXCEPT ![a] = age]
     /\ UNCHANGED <<proposals, approvalLive>>

\* archiveMethodologyArtifact and setMethodologyArtifactLegalHold.
Rule(a, lifecycle) ==
  /\ lifecycles[a] # NoLifecycle
  /\ \/ ~lifecycles[a].hold /\ lifecycle = [lifecycles[a] EXCEPT !.state = "archived"]
     \/ \E enabled \in BOOLEAN : lifecycle = [lifecycles[a] EXCEPT !.hold = enabled]
  /\ lifecycles' = [lifecycles EXCEPT ![a] = lifecycle]
  /\ UNCHANGED <<proposals, approvalLive, artifacts, ages>>

\* purgeExpiredMethodologyArtifacts.  An artifact without a lifecycle may get one, as old
\* as the artifact is.
Adopts(adopted, a) == a \in adopted /\ artifacts[a] # NoDigest /\ lifecycles[a] = NoLifecycle

Row(adopted, a) == IF Adopts(adopted, a) THEN Active ELSE lifecycles[a]

Age(adopted, age, a) == IF Adopts(adopted, a) THEN age[a] ELSE ages[a]

\* What has come to a threshold is archived or goes, unless it is held.  With it goes its
\* content in the proposals for it; one that arrives meanwhile may keep it, but none that
\* has been approved.
Reconcile(adopted, age, archived, purged) ==
  /\ \A a \in archived \cup purged : Row(adopted, a) # NoLifecycle /\ ~Row(adopted, a).hold
  /\ \A a \in archived : Age(adopted, age, a) # "fresh"
  /\ \A a \in purged : Age(adopted, age, a) = "expired"
  /\ artifacts' = [a \in Artifact |-> IF a \in purged THEN NoDigest ELSE artifacts[a]]
  /\ lifecycles' = [a \in Artifact |->
       IF a \in purged THEN NoLifecycle
       ELSE IF a \in archived THEN [Row(adopted, a) EXCEPT !.state = "archived"]
       ELSE Row(adopted, a)]
  /\ ages' = [a \in Artifact |-> IF a \in purged THEN "fresh" ELSE Age(adopted, age, a)]
  /\ \E kept \in SUBSET {p \in Proposal : proposals[p].status # "approved"} :
       proposals' = [p \in Proposal |->
         IF ArtifactOf[p] \in purged /\ p \notin kept
         THEN [proposals[p] EXCEPT !.content = FALSE] ELSE proposals[p]]
  /\ UNCHANGED approvalLive

\* The rules read the clock: an approval has expired, a threshold is reached.
Expires(p) ==
  /\ proposals[p].status = "approved"
  /\ approvalLive' = [approvalLive EXCEPT ![p] = FALSE]
  /\ UNCHANGED <<proposals, artifacts, lifecycles, ages>>

Ripens(a) ==
  /\ lifecycles[a] # NoLifecycle
  /\ \/ ages[a] = "fresh" /\ ages' = [ages EXCEPT ![a] = "archivable"]
     \/ ages[a] = "archivable" /\ ages' = [ages EXCEPT ![a] = "expired"]
  /\ UNCHANGED <<proposals, approvalLive, artifacts, lifecycles>>

\* A request that is refused or that fails.
Refuse == UNCHANGED contractVars

Next ==
  \/ Refuse
  \/ \E p \in Proposal :
       \/ Propose(p) \/ Expires(p)
       \/ \E user \in User, status \in {"approved", "rejected"} : Decide(p, status, user)
       \/ \E lifecycle \in Lifecycle, age \in Ages : Publish(p, lifecycle, age)
  \/ \E a \in Artifact : Ripens(a) \/ \E lifecycle \in Lifecycle : Rule(a, lifecycle)
  \/ \E adopted \in SUBSET Legacy, archived, purged \in SUBSET Artifact :
       \E age \in [adopted -> Ages] : Reconcile(adopted, age, archived, purged)

Spec == Init /\ [][Next]_contractVars

=============================================================================
