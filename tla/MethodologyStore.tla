-------------------------- MODULE MethodologyStore --------------------------
(***************************************************************************)
(* The governance of methodology artifacts: the routes                     *)
(* /api/methodology/... of packages/server/src/api.ts over PostgresStore   *)
(* (packages/store/src/postgres.ts), with the rules of                     *)
(* packages/methodology/src (methodology-governance.ts for proposals and   *)
(* their decisions, methodology-retention.ts for lifecycles).              *)
(*                                                                         *)
(* A proposal binds the content of one revision of an artifact.  Another   *)
(* user than its proposer decides it once; an approved one is published,   *)
(* which gives the artifact a lifecycle; a lifecycle can be archived and   *)
(* held; and a reconciliation of retention archives what is due, deletes   *)
(* what has expired and takes the content out of every proposal for it.    *)
(*                                                                         *)
(* Approvals, publications and reconciliations are transactions that hold  *)
(* the advisory lock of an artifact and the row locks of what they read    *)
(* FOR UPDATE until they end, and each reads what is committed when a      *)
(* statement starts.  A reconciliation locks one artifact after another    *)
(* and all proposals of the tenant, so it may meet an approval or a        *)
(* publication in a deadlock, which PostgreSQL ends by aborting one.       *)
(*                                                                         *)
(* A step is the part of a transaction between two waits for a lock.  Time *)
(* is what the rules make of it: how far a lifecycle has come, and whether *)
(* an approval has expired.                                                *)
(***************************************************************************)
EXTENDS Naturals, FiniteSets

CONSTANTS
  Proposal,     \* proposal ids
  Artifact,     \* revisions of artifacts of one tenant, in the order of their keys
  ArtifactOf,   \* [Proposal -> Artifact]
  DigestOf,     \* [Proposal -> artifact_sha256]
  ProposerOf,   \* [Proposal -> User]
  User,
  Legacy,       \* artifacts saved before there were lifecycles
  LegacyDigest,
  Session,      \* requests at work on a proposal
  Purger,       \* requests that reconcile the retention
  NoDigest, NoLifecycle, NoOne

ASSUME MethodologyAssumption ==
  /\ Artifact \subseteq Nat /\ Legacy \subseteq Artifact
  /\ ArtifactOf \in [Proposal -> Artifact]
  /\ ProposerOf \in [Proposal -> User]
  /\ \A p \in Proposal : DigestOf[p] # NoDigest
  /\ LegacyDigest # NoDigest
  /\ NoLifecycle \notin [state : {"active", "archived"}, hold : BOOLEAN]
  /\ NoOne \notin Session \cup Purger
  /\ Session \cap Purger = {}

VARIABLES
  proposals,      \* [Proposal -> the record of the proposal]
  approvalLive,   \* [Proposal -> whether its approval has not expired]
  artifacts,      \* [Artifact -> the digest of its content, or NoDigest]
  lifecycles,     \* [Artifact -> its lifecycle, or NoLifecycle]
  ages,           \* [Artifact -> how far the lifecycle has come]
  artifactLock,   \* [Artifact -> who holds the advisory lock]
  rowLock,        \* [Proposal -> the purger that holds the row of the proposal]
  sessions,       \* [Session -> the state of the request]
  purgers         \* [Purger -> the state of the request]

methodologyVars == <<proposals, approvalLive, artifacts, lifecycles, ages,
                     artifactLock, rowLock, sessions, purgers>>

-----------------------------------------------------------------------------
\* "content" says whether the record carries the artifact.
ProposalRecord ==
  [status : {"absent", "pending", "approved", "rejected"}, content : BOOLEAN, by : User]

Lifecycle == [state : {"active", "archived"}, hold : BOOLEAN]

NewLifecycle == [state |-> "active", hold |-> FALSE]

\* Neither threshold is reached; archive_after is; retained_until is.
Ages == {"fresh", "archivable", "expired"}

Digests == {DigestOf[p] : p \in Proposal} \cup {LegacyDigest, NoDigest}

\* What a session has read without a lock: the record that it wants to reject, or the
\* lifecycle that it wants to publish with.
SessionState ==
  [pc : {"idle", "approve-lock", "approve", "reject", "publish-read", "publish-lock", "publish"},
   proposal : Proposal \cup {NoOne}, user : User \cup {NoOne},
   record : ProposalRecord \cup {NoOne},
   lifecycle : Lifecycle \cup {NoLifecycle}]

IdleSession == [pc |-> "idle", proposal |-> NoOne, user |-> NoOne, record |-> NoOne,
                lifecycle |-> NoLifecycle]

\* The keys that are still to be visited, the lifecycle rows that are locked, the artifact
\* whose proposals are next to lose its content, and the writes that are not committed yet.
PurgerState ==
  [pc : {"idle", "adopt", "list", "visit", "scrub"},
   todo : SUBSET Artifact, rows : SUBSET Artifact, current : SUBSET Artifact,
   adopted : SUBSET Artifact, archived : SUBSET Artifact, purged : SUBSET Artifact,
   scrubbed : SUBSET Proposal]

IdlePurger == [pc |-> "idle", todo |-> {}, rows |-> {}, current |-> {},
               adopted |-> {}, archived |-> {}, purged |-> {}, scrubbed |-> {}]

\* Records of the right types, and locks only of transactions that are under way.
MethodologyTypeOK ==
  /\ proposals \in [Proposal -> ProposalRecord]
  /\ approvalLive \in [Proposal -> BOOLEAN]
  /\ artifacts \in [Artifact -> Digests]
  /\ lifecycles \in [Artifact -> Lifecycle \cup {NoLifecycle}]
  /\ ages \in [Artifact -> Ages]
  /\ artifactLock \in [Artifact -> Session \cup Purger \cup {NoOne}]
  /\ rowLock \in [Proposal -> Purger \cup {NoOne}]
  /\ sessions \in [Session -> SessionState]
  /\ purgers \in [Purger -> PurgerState]
  /\ \A a \in Artifact :
       /\ artifactLock[a] \in Session =>
            /\ sessions[artifactLock[a]].pc \in {"approve", "publish"}
            /\ ArtifactOf[sessions[artifactLock[a]].proposal] = a
       /\ artifactLock[a] \in Purger => purgers[artifactLock[a]].pc # "idle"
  /\ \A p \in Proposal :
       rowLock[p] # NoOne => purgers[rowLock[p]].pc \in {"visit", "scrub"}

MethodologyInit ==
  /\ proposals = [p \in Proposal |->
       [status |-> "absent", content |-> FALSE, by |-> ProposerOf[p]]]
  /\ approvalLive = [p \in Proposal |-> TRUE]
  /\ \E there \in SUBSET Legacy :
       artifacts = [a \in Artifact |-> IF a \in there THEN LegacyDigest ELSE NoDigest]
  /\ lifecycles = [a \in Artifact |-> NoLifecycle]
  /\ ages = [a \in Artifact |-> "fresh"]
  /\ artifactLock = [a \in Artifact |-> NoOne]
  /\ rowLock = [p \in Proposal |-> NoOne]
  /\ sessions = [s \in Session |-> IdleSession]
  /\ purgers = [w \in Purger |-> IdlePurger]

\* Groups of variables that actions leave alone.
NoData == UNCHANGED <<proposals, approvalLive, artifacts, lifecycles, ages>>
NoLocks == UNCHANGED <<artifactLock, rowLock>>

-----------------------------------------------------------------------------
(* POST /api/methodology/proposals *)

\* INSERT ... ON CONFLICT DO NOTHING: an id is used once, its content lost or not.
Propose(p) ==
  /\ proposals[p].status = "absent"
  /\ proposals' = [proposals EXCEPT ![p].status = "pending", ![p].content = TRUE]
  /\ UNCHANGED <<approvalLive, artifacts, lifecycles, ages, sessions, purgers>>
  /\ NoLocks

\* Mutant: whoever proposed may decide.
MayDecide_Proposer(record, p, user) == record.status = "pending"

\* A pending proposal is decided by an independent reviewer.
MayDecide(record, p, user) == record.status = "pending" /\ user # ProposerOf[p]

Becomes(s, pc) == sessions' = [sessions EXCEPT ![s].pc = pc] /\ UNCHANGED purgers

SessionEnds(s) == sessions' = [sessions EXCEPT ![s] = IdleSession] /\ UNCHANGED purgers

Lock(who, a) ==
  /\ artifactLock[a] \in {NoOne, who}
  /\ artifactLock' = [artifactLock EXCEPT ![a] = who]
  /\ UNCHANGED rowLock

\* Mutant: the rows stay locked.
Unlock_Rows(who) ==
  /\ artifactLock' = [a \in Artifact |-> IF artifactLock[a] = who THEN NoOne ELSE artifactLock[a]]
  /\ UNCHANGED rowLock

\* The end of a transaction gives back all that it locked.
Unlock(who) ==
  /\ artifactLock' = [a \in Artifact |-> IF artifactLock[a] = who THEN NoOne ELSE artifactLock[a]]
  /\ rowLock' = [p \in Proposal |-> IF rowLock[p] = who THEN NoOne ELSE rowLock[p]]

SessionArtifact(s) == ArtifactOf[sessions[s].proposal]

-----------------------------------------------------------------------------
(* approveMethodologyProposal *)

\* The record is read for its artifact, before the lock.
ApproveBegin(s, p, user) ==
  /\ sessions[s].pc = "idle"
  /\ proposals[p].status # "absent" /\ proposals[p].content
  /\ sessions' = [sessions EXCEPT
       ![s] = [IdleSession EXCEPT !.pc = "approve-lock", !.proposal = p, !.user = user]]
  /\ UNCHANGED purgers
  /\ NoData /\ NoLocks

\* Mutant: the decision is taken beside whoever works on the artifact.
ApproveLock_None(s) ==
  /\ sessions[s].pc = "approve-lock"
  /\ Becomes(s, "approve")
  /\ NoData /\ NoLocks

ApproveLock(s) ==
  /\ sessions[s].pc = "approve-lock"
  /\ Lock(s, SessionArtifact(s))
  /\ Becomes(s, "approve")
  /\ NoData

ApproveEnd(s) ==
  LET p == sessions[s].proposal
      user == sessions[s].user
  IN /\ sessions[s].pc = "approve"
     /\ rowLock[p] = NoOne
     /\ IF MayDecide(proposals[p], p, user) /\ proposals[p].content
        THEN proposals' = [proposals EXCEPT ![p].status = "approved", ![p].by = user]
        ELSE UNCHANGED proposals
     /\ Unlock(s)
     /\ SessionEnds(s)
     /\ UNCHANGED <<approvalLive, artifacts, lifecycles, ages>>

-----------------------------------------------------------------------------
(* rejectMethodologyProposal *)

RejectLoad(s, p, user) ==
  /\ sessions[s].pc = "idle"
  /\ MayDecide(proposals[p], p, user)
  /\ sessions' = [sessions EXCEPT
       ![s] = [IdleSession EXCEPT !.pc = "reject", !.proposal = p, !.user = user,
                                  !.record = proposals[p]]]
  /\ UNCHANGED purgers
  /\ NoData /\ NoLocks

\* Mutant: the record is overwritten as it was read.
Unread_Any(s) == TRUE

\* UPDATE ... AND payload = what was read.
Unread(s) == proposals[sessions[s].proposal] = sessions[s].record

RejectEnd(s) ==
  LET p == sessions[s].proposal
  IN /\ sessions[s].pc = "reject"
     /\ rowLock[p] = NoOne
     /\ IF Unread(s)
        THEN proposals' = [proposals EXCEPT
               ![p] = [sessions[s].record EXCEPT !.status = "rejected", !.by = sessions[s].user]]
        ELSE UNCHANGED proposals
     /\ SessionEnds(s)
     /\ UNCHANGED <<approvalLive, artifacts, lifecycles, ages>>
     /\ NoLocks

-----------------------------------------------------------------------------
(* POST /api/methodology/artifacts and publishMethodologyArtifact *)

\* Mutant: a record whose content was taken out still publishes.
Publishable_Scrubbed(p) == proposals[p].status = "approved" /\ approvalLive[p]

Publishable(p) == proposals[p].status = "approved" /\ proposals[p].content /\ approvalLive[p]

\* The route reads the proposal, and then the lifecycle, before the transaction.
PublishLoad(s, p) ==
  /\ sessions[s].pc = "idle"
  /\ Publishable(p)
  /\ sessions' = [sessions EXCEPT
       ![s] = [IdleSession EXCEPT !.pc = "publish-read", !.proposal = p]]
  /\ UNCHANGED purgers
  /\ NoData /\ NoLocks

PublishRead(s) ==
  /\ sessions[s].pc = "publish-read"
  /\ sessions' = [sessions EXCEPT ![s].pc = "publish-lock",
                                  ![s].lifecycle = lifecycles[SessionArtifact(s)]]
  /\ UNCHANGED purgers
  /\ NoData /\ NoLocks

PublishLock(s) ==
  /\ sessions[s].pc = "publish-lock"
  /\ Lock(s, SessionArtifact(s))
  /\ Becomes(s, "publish")
  /\ NoData

\* Mutant: what is there is replaced.
SameContent_Any(p) == TRUE

SameContent(p) == artifacts[ArtifactOf[p]] \in {NoDigest, DigestOf[p]}

\* Mutant: no lifecycle is made for what is new.
PublishedLifecycle_Read(s) == sessions[s].lifecycle

\* The lifecycle that was read is inserted, or a new one when there was none.
PublishedLifecycle(s) ==
  IF sessions[s].lifecycle = NoLifecycle THEN NewLifecycle ELSE sessions[s].lifecycle

\* Mutant: the lifecycle is written back as it was read.
LifecycleIsNew_Any(s) == TRUE

\* One that is there is meant to be compared with the one that was read, but what is
\* parsed for the comparison is a string: every lifecycle that is there is refused.
LifecycleIsNew(s) == lifecycles[SessionArtifact(s)] = NoLifecycle

PublishEnd(s) ==
  LET p == sessions[s].proposal
      a == ArtifactOf[p]
  IN /\ sessions[s].pc = "publish"
     /\ rowLock[p] = NoOne
     /\ IF Publishable(p) /\ SameContent(p) /\ LifecycleIsNew(s)
        THEN /\ artifacts' = [artifacts EXCEPT ![a] = DigestOf[p]]
             /\ lifecycles' = [lifecycles EXCEPT ![a] = PublishedLifecycle(s)]
             /\ ages' = [ages EXCEPT
                  ![a] = IF sessions[s].lifecycle = NoLifecycle THEN "fresh" ELSE @]
        ELSE UNCHANGED <<artifacts, lifecycles, ages>>
     /\ Unlock(s)
     /\ SessionEnds(s)
     /\ UNCHANGED <<proposals, approvalLive>>

\* The connection is lost, or the transaction is the victim of a deadlock.
SessionAborts(s) ==
  /\ sessions[s].pc # "idle"
  /\ Unlock(s)
  /\ SessionEnds(s)
  /\ NoData

-----------------------------------------------------------------------------
(* archiveMethodologyArtifact and setMethodologyArtifactLegalHold: one wait, for the row *)

\* Mutant: a row that a reconciliation has locked is changed beside it.
RowIsFree_Always(a) == TRUE

RowIsFree(a) == \A w \in Purger : a \notin purgers[w].rows

ChangeLifecycle(a, lifecycle) ==
  /\ lifecycles[a] # NoLifecycle /\ artifacts[a] # NoDigest
  /\ RowIsFree(a)
  /\ lifecycles' = [lifecycles EXCEPT ![a] = lifecycle]
  /\ UNCHANGED <<proposals, approvalLive, artifacts, ages, sessions, purgers>>
  /\ NoLocks

Archive(a) ==
  /\ lifecycles[a] # NoLifecycle /\ ~lifecycles[a].hold
  /\ ChangeLifecycle(a, [lifecycles[a] EXCEPT !.state = "archived"])

LegalHold(a, enabled) ==
  /\ lifecycles[a] # NoLifecycle
  /\ ChangeLifecycle(a, [lifecycles[a] EXCEPT !.hold = enabled])

-----------------------------------------------------------------------------
(* purgeExpiredMethodologyArtifacts *)

PurgerStep(w, state) == purgers' = [purgers EXCEPT ![w] = state] /\ UNCHANGED sessions

PurgeBegin(w) ==
  /\ purgers[w].pc = "idle"
  /\ PurgerStep(w, [IdlePurger EXCEPT !.pc = "adopt",
       !.todo = {a \in Artifact : artifacts[a] # NoDigest /\ lifecycles[a] = NoLifecycle}])
  /\ NoData /\ NoLocks

\* An artifact without a lifecycle gets one, from the day it was made, in any order.
Adopt(w, a) ==
  LET state == purgers[w]
      isLegacy == artifacts[a] # NoDigest /\ lifecycles[a] = NoLifecycle
  IN /\ state.pc = "adopt" /\ a \in state.todo
     /\ Lock(w, a)
     /\ PurgerStep(w, [state EXCEPT !.todo = @ \ {a},
                                    !.adopted = IF isLegacy THEN @ \cup {a} ELSE @])
     /\ IF isLegacy THEN \E age \in Ages : ages' = [ages EXCEPT ![a] = age] ELSE UNCHANGED ages
     /\ UNCHANGED <<proposals, approvalLive, artifacts, lifecycles>>

PurgeList(w) ==
  /\ purgers[w].pc = "adopt" /\ purgers[w].todo = {}
  /\ PurgerStep(w, [purgers[w] EXCEPT !.pc = "visit",
       !.todo = {a \in Artifact : lifecycles[a] # NoLifecycle} \cup purgers[w].adopted])
  /\ NoData /\ NoLocks

\* Mutant: the hold is not looked at.
IsHeld_Ignored(lifecycle) == FALSE

IsHeld(lifecycle) == lifecycle.hold

First(todo) == CHOOSE a \in todo : \A b \in todo : a <= b

\* The next key: its locks, its row read again, the archive threshold, and the expiry.
Visit(w) ==
  LET state == purgers[w]
      a == First(state.todo)
      gone == lifecycles[a] = NoLifecycle /\ a \notin state.adopted
      held == lifecycles[a] # NoLifecycle /\ IsHeld(lifecycles[a])
      next == [state EXCEPT !.todo = @ \ {a}, !.rows = IF gone THEN @ ELSE @ \cup {a}]
  IN /\ state.pc = "visit" /\ state.todo # {}
     /\ Lock(w, a)
     /\ PurgerStep(w,
          IF gone \/ held \/ ages[a] = "fresh" THEN next
          ELSE IF ages[a] = "archivable" THEN [next EXCEPT !.archived = @ \cup {a}]
          ELSE [next EXCEPT !.pc = "scrub", !.current = {a}, !.purged = @ \cup {a}])
     /\ NoData

\* Mutant: only proposals that wait for a decision lose the content.
Scrubbable_Pending(p) == proposals[p].status = "pending" /\ proposals[p].content

Scrubbable(p) == proposals[p].content

\* All proposals of the tenant are locked, and those of the artifact lose its content.
Scrub(w) ==
  LET present == {p \in Proposal : proposals[p].status # "absent"}
      found == {p \in present : ArtifactOf[p] \in purgers[w].current /\ Scrubbable(p)}
  IN /\ purgers[w].pc = "scrub"
     /\ \A p \in present : rowLock[p] \in {NoOne, w}
     /\ rowLock' = [p \in Proposal |-> IF p \in present THEN w ELSE rowLock[p]]
     /\ PurgerStep(w, [purgers[w] EXCEPT !.pc = "visit", !.current = {},
                                         !.scrubbed = @ \cup found])
     /\ NoData
     /\ UNCHANGED artifactLock

PurgeCommit(w) ==
  LET state == purgers[w]
      row(a) == IF a \in state.adopted THEN NewLifecycle ELSE lifecycles[a]
  IN /\ state.pc = "visit" /\ state.todo = {}
     /\ lifecycles' = [a \in Artifact |->
          IF a \in state.purged THEN NoLifecycle
          ELSE IF a \in state.archived THEN [row(a) EXCEPT !.state = "archived"]
          ELSE row(a)]
     /\ artifacts' = [a \in Artifact |-> IF a \in state.purged THEN NoDigest ELSE artifacts[a]]
     /\ proposals' = [p \in Proposal |->
          IF p \in state.scrubbed THEN [proposals[p] EXCEPT !.content = FALSE] ELSE proposals[p]]
     /\ PurgerStep(w, IdlePurger)
     /\ Unlock(w)
     /\ UNCHANGED <<approvalLive, ages>>

PurgerAborts(w) ==
  /\ purgers[w].pc # "idle"
  /\ PurgerStep(w, IdlePurger)
  /\ Unlock(w)
  /\ NoData

-----------------------------------------------------------------------------
Older(age) == IF age = "fresh" THEN "archivable" ELSE "expired"

TimePasses(a) ==
  /\ lifecycles[a] # NoLifecycle /\ ages[a] # "expired"
  /\ ages' = [ages EXCEPT ![a] = Older(@)]
  /\ UNCHANGED <<proposals, approvalLive, artifacts, lifecycles, sessions, purgers>>
  /\ NoLocks

ApprovalExpires(p) ==
  /\ proposals[p].status = "approved" /\ approvalLive[p]
  /\ approvalLive' = [approvalLive EXCEPT ![p] = FALSE]
  /\ UNCHANGED <<proposals, artifacts, lifecycles, ages, sessions, purgers>>
  /\ NoLocks

SessionStep(s) ==
  \/ \E p \in Proposal :
       \/ \E user \in User : ApproveBegin(s, p, user) \/ RejectLoad(s, p, user)
       \/ PublishLoad(s, p)
  \/ ApproveLock(s) \/ ApproveEnd(s) \/ RejectEnd(s)
  \/ PublishRead(s) \/ PublishLock(s) \/ PublishEnd(s)
  \/ SessionAborts(s)

PurgerMoves(w) ==
  \/ PurgeBegin(w) \/ PurgeList(w) \/ Visit(w) \/ Scrub(w) \/ PurgeCommit(w) \/ PurgerAborts(w)
  \/ \E a \in Artifact : Adopt(w, a)

MethodologyNext ==
  \/ \E p \in Proposal : Propose(p) \/ ApprovalExpires(p)
  \/ \E s \in Session : SessionStep(s)
  \/ \E w \in Purger : PurgerMoves(w)
  \/ \E a \in Artifact :
       \/ Archive(a) \/ TimePasses(a)
       \/ \E enabled \in BOOLEAN : LegalHold(a, enabled)

MethodologySpec == MethodologyInit /\ [][MethodologyNext]_methodologyVars

-----------------------------------------------------------------------------
(* Properties *)

\* What is published was approved, and is still what was approved: the content of an
\* artifact is that of an approved proposal that carries it.
PublishedIsApproved ==
  \A a \in Artifact :
    artifacts[a] # NoDigest =>
      \/ a \in Legacy /\ artifacts[a] = LegacyDigest
      \/ \E p \in Proposal :
           /\ ArtifactOf[p] = a /\ DigestOf[p] = artifacts[a]
           /\ proposals[p].status = "approved" /\ proposals[p].content

\* An artifact and its lifecycle come and go together: no orphan blocks the purge, and
\* nothing that was published escapes retention.
LifecyclesArePaired ==
  \A a \in Artifact :
    /\ lifecycles[a] # NoLifecycle => artifacts[a] # NoDigest
    /\ artifacts[a] # NoDigest /\ a \notin Legacy => lifecycles[a] # NoLifecycle

\* "Independent human reviewer": a decided proposal was decided by another user.
DecisionsAreIndependent ==
  \A p \in Proposal :
    proposals[p].status \in {"approved", "rejected"} => proposals[p].by # ProposerOf[p]

\* Why: an approval and a publication hold the lock of their artifact, and a rejection
\* knows a record that it may decide.  A lifecycle that a request has read is there still,
\* or it is over and its artifact is gone.
SessionsKnow ==
  \A s \in Session :
    /\ sessions[s].pc # "idle" => sessions[s].proposal \in Proposal
    /\ sessions[s].pc \in {"approve", "publish"} => artifactLock[SessionArtifact(s)] = s
    /\ sessions[s].pc \in {"approve-lock", "approve", "reject"} => sessions[s].user \in User
    /\ sessions[s].pc = "reject" =>
         MayDecide(sessions[s].record, sessions[s].proposal, sessions[s].user)
    /\ sessions[s].pc # "idle" /\ sessions[s].lifecycle # NoLifecycle =>
         LET a == SessionArtifact(s)
         IN  lifecycles[a] = NoLifecycle => artifacts[a] = NoDigest /\ ages[a] = "expired"

\* What a reconciliation has in hand: it holds the locks of what it writes, what it
\* archives or deletes has come to its threshold and is not held, and an approved
\* proposal loses its content with the artifact.
PurgersKnow ==
  \A w \in Purger :
    LET state == purgers[w]
    IN  /\ state.pc = "idle" => state = IdlePurger
        /\ state.pc = "adopt" =>
             state.rows = {} /\ state.archived = {} /\ state.purged = {} /\ state.scrubbed = {}
        /\ IF state.pc = "scrub" THEN state.current \subseteq state.purged ELSE state.current = {}
        /\ state.archived \cup state.purged \subseteq state.rows
        /\ \A a \in state.adopted \cup state.rows : artifactLock[a] = w
        /\ \A a \in state.adopted :
             a \in Legacy /\ artifacts[a] # NoDigest /\ lifecycles[a] = NoLifecycle
        /\ \A a \in state.archived \cup state.purged :
             IF lifecycles[a] = NoLifecycle THEN a \in state.adopted ELSE ~lifecycles[a].hold
        /\ \A a \in state.archived : ages[a] # "fresh"
        /\ \A a \in state.purged : ages[a] = "expired"
        /\ \A p \in state.scrubbed : ArtifactOf[p] \in state.purged
        /\ \A p \in Proposal :
             ArtifactOf[p] \in state.purged \ state.current /\ proposals[p].status = "approved" =>
               p \in state.scrubbed \/ ~proposals[p].content

\* What is published was approved by somebody else and has its lifecycle.
MethodologySafety ==
  /\ MethodologyTypeOK /\ SessionsKnow /\ PurgersKnow
  /\ PublishedIsApproved /\ LifecyclesArePaired /\ DecisionsAreIndependent

\* A decision is final, and content that was taken out of a proposal is not put back by
\* one who had read it before.
DecisionsAreFinal ==
  [][\A p \in Proposal :
       /\ proposals[p].status \in {"approved", "rejected"}
            => proposals'[p].status = proposals[p].status /\ proposals'[p].by = proposals[p].by
       /\ proposals[p].status # "absent" /\ ~proposals[p].content
            => ~proposals'[p].content]_methodologyVars

\* A published revision is immutable and goes only when its retention is over, and no
\* legal hold that was in force before the reconciliation committed is passed over.
RetentionIsKept ==
  [][\A a \in Artifact :
       artifacts[a] # NoDigest /\ artifacts'[a] # artifacts[a] =>
         /\ artifacts'[a] = NoDigest
         /\ ages[a] = "expired"
         /\ lifecycles[a] # NoLifecycle => ~lifecycles[a].hold]_methodologyVars

\* Only the request that sets a hold lifts it: a publication with a lifecycle that it read
\* before the hold, or a reconciliation, leaves it as it is.
HoldsAreKept ==
  [][\A a \in Artifact :
       (/\ sessions' # sessions \/ purgers' # purgers
        /\ lifecycles[a] # NoLifecycle
        /\ lifecycles[a].hold)
         => lifecycles'[a] # NoLifecycle /\ lifecycles'[a].hold]_methodologyVars

\* Decisions, retention and legal holds stand, whoever else is at work.
RulingsStand == DecisionsAreFinal /\ RetentionIsKept /\ HoldsAreKept

\* What the store promises, where a lifecycle that is not there has no age.
Promise == INSTANCE MethodologyContract WITH
  ages <- [a \in Artifact |-> IF lifecycles[a] = NoLifecycle THEN "fresh" ELSE ages[a]]

\* However the transactions overlap, whichever of them is aborted, each takes effect in
\* one step, on what is committed then: nobody decides or publishes what a reconciliation
\* erases, and with an artifact its content goes from every approved proposal for it.
ImplementsMethodology == Promise!Init /\ [][Promise!Next]_(Promise!contractVars)

=============================================================================
