-------------------------- MODULE PromotionLedger ---------------------------
(***************************************************************************)
(* PostgresPromotionRedemptionLedger of                                    *)
(* packages/commerce/src/promotion-ledger.ts: a claim of a promotion is a  *)
(* transaction under an advisory lock of its promotion code, but the ids   *)
(* of redemptions are the key of the whole table.  Claims of two codes     *)
(* with one id hold two locks, so neither sees the other's row before it   *)
(* is committed, and the second INSERT waits for it and throws.            *)
(***************************************************************************)
EXTENDS Naturals, FiniteSets

CONSTANTS
  Claimant,       \* calls of claim, retries included
  Code,           \* promotion codes
  CodeOf,         \* [Claimant -> Code]
  RedemptionOf,   \* [Claimant -> redemption ids]
  CapOf,          \* [Claimant -> maxRedemptions]
  NoClaimant

ASSUME PromotionAssumption ==
  /\ NoClaimant \notin Claimant
  /\ CodeOf \in [Claimant -> Code]
  /\ CapOf \in [Claimant -> Nat \ {0}]

VARIABLES
  redeemed,       \* aqa_commerce_promotion_redemptions, as committed
  claimPc,        \* [Claimant -> the statement its transaction is at]
  claimAnswers,   \* [Claimant -> what the call has returned]
  codeLock        \* [Code -> the claimant whose transaction holds the advisory lock]

promotionVars == <<redeemed, claimPc, claimAnswers, codeLock>>

ClaimAnswer == {"none", "claimed", "duplicate", "conflict", "exhausted", "threw"}

Redemption(code, id) == [code |-> code, id |-> id]

OwnRedemption(r) == Redemption(CodeOf[r], RedemptionOf[r])

RedemptionsOf(code) == {x \in redeemed : x.code = code}

SameId(r) == {x \in redeemed : x.id = RedemptionOf[r]}

PromotionTypeOK ==
  /\ redeemed \subseteq {OwnRedemption(r) : r \in Claimant}
  /\ claimPc \in [Claimant -> {"lock", "find", "count", "insert", "done"}]
  /\ claimAnswers \in [Claimant -> ClaimAnswer]
  /\ codeLock \in [Code -> Claimant \cup {NoClaimant}]
  /\ \A r \in Claimant :
       claimPc[r] \in {"find", "count", "insert"} <=> codeLock[CodeOf[r]] = r

PromotionInit ==
  /\ redeemed = {}
  /\ claimPc = [r \in Claimant |-> "lock"]
  /\ claimAnswers = [r \in Claimant |-> "none"]
  /\ codeLock = [c \in Code |-> NoClaimant]

-----------------------------------------------------------------------------
\* Mutant: claims of one code do not wait for each other.
CodeIsFree_Always(r) == TRUE

CodeIsFree(r) == codeLock[CodeOf[r]] = NoClaimant

BeginClaim(r) ==
  /\ claimPc[r] = "lock"
  /\ CodeIsFree(r)
  /\ codeLock' = [codeLock EXCEPT ![CodeOf[r]] = r]
  /\ claimPc' = [claimPc EXCEPT ![r] = "find"]
  /\ UNCHANGED <<redeemed, claimAnswers>>

ContinueClaim(r, pc) ==
  claimPc' = [claimPc EXCEPT ![r] = pc] /\ UNCHANGED <<redeemed, claimAnswers, codeLock>>

\* Mutant: the lock outlives the transaction.
ReleaseCode_Kept(r) == UNCHANGED codeLock

ReleaseCode(r) == codeLock' = [codeLock EXCEPT ![CodeOf[r]] = IF @ = r THEN NoClaimant ELSE @]

AnswerClaim(r, answer) ==
  /\ claimAnswers' = [claimAnswers EXCEPT ![r] = answer]
  /\ claimPc' = [claimPc EXCEPT ![r] = "done"]
  /\ ReleaseCode(r)

FindRedemption(r) ==
  /\ claimPc[r] = "find"
  /\ \/ SameId(r) = {} /\ ContinueClaim(r, "count")
     \/ /\ SameId(r) # {}
        /\ AnswerClaim(r, IF OwnRedemption(r) \in SameId(r) THEN "duplicate" ELSE "conflict")
        /\ UNCHANGED redeemed

\* Mutant: one redemption too many.
IsExhausted_Late(r) == Cardinality(RedemptionsOf(CodeOf[r])) > CapOf[r]

IsExhausted(r) == Cardinality(RedemptionsOf(CodeOf[r])) >= CapOf[r]

CountRedemptions(r) ==
  /\ claimPc[r] = "count"
  /\ \/ IsExhausted(r) /\ AnswerClaim(r, "exhausted") /\ UNCHANGED redeemed
     \/ ~IsExhausted(r) /\ ContinueClaim(r, "insert")

\* Mutant: the id is a key of its code only.
IdIsTaken_InCode(r) == OwnRedemption(r) \in redeemed

\* The primary key.
IdIsTaken(r) == SameId(r) # {}

\* INSERT and COMMIT.  A claim of another code that holds the id uncommitted is waited
\* for, so what counts is what is committed.  The answer of a commit may be lost.
InsertRedemption(r) ==
  /\ claimPc[r] = "insert"
  /\ \/ IdIsTaken(r) /\ AnswerClaim(r, "threw") /\ UNCHANGED redeemed
     \/ /\ ~IdIsTaken(r)
        /\ redeemed' = redeemed \cup {OwnRedemption(r)}
        /\ \E answer \in {"claimed", "threw"} : AnswerClaim(r, answer)

RollbackClaim(r) ==
  /\ claimPc[r] \in {"find", "count", "insert"}
  /\ AnswerClaim(r, "threw")
  /\ UNCHANGED redeemed

PromotionNext ==
  \E r \in Claimant :
    \/ BeginClaim(r) \/ FindRedemption(r) \/ CountRedemptions(r)
    \/ InsertRedemption(r) \/ RollbackClaim(r)

PromotionSpec == PromotionInit /\ [][PromotionNext]_promotionVars

-----------------------------------------------------------------------------
(* Properties *)

\* "Shared atomic redemption boundary for promotions with a hard usage cap": a code is
\* never redeemed more often than some caller's cap allows, however claims interleave.
CapIsHard ==
  \A c \in Code : RedemptionsOf(c) # {} =>
    \E r \in Claimant : CodeOf[r] = c /\ Cardinality(RedemptionsOf(c)) <= CapOf[r]

\* One redemption id redeems one code, and a claim that is told so has it: two claims of
\* one id are never both "claimed", and a duplicate's id is redeemed for its code.
RedemptionsAreSingleUse ==
  /\ \A x, y \in redeemed : x.id = y.id => x = y
  /\ \A r \in Claimant :
       /\ claimAnswers[r] \in {"claimed", "duplicate"} => OwnRedemption(r) \in redeemed
       /\ claimAnswers[r] = "conflict" => OwnRedemption(r) \notin redeemed
       /\ \A s \in Claimant \ {r} :
            claimAnswers[r] = "claimed" /\ claimAnswers[s] = "claimed"
              => RedemptionOf[r] # RedemptionOf[s]

\* The cap of a code is hard and a redemption is of single use.
PromotionSafety == PromotionTypeOK /\ CapIsHard /\ RedemptionsAreSingleUse

=============================================================================
