-------------------------- MODULE CommerceJourney ---------------------------
(***************************************************************************)
(* The journeys of packages/commerce/src/index.ts that judge a merchant    *)
(* through a CommerceAdapter: each makes a write with an idempotency key,  *)
(* repeats it, and compares what it is told.  verifyCommerceJourneySuite   *)
(* runs the checkout, refund and cancellation journeys one after another   *)
(* and folds their outcomes.                                               *)
(*                                                                         *)
(* Every call of the adapter is awaited, so other shoppers buy the same    *)
(* product between any two of them, and every call may throw, with or      *)
(* without its effect.  The merchant is what is judged, so it may be any   *)
(* of three: it answers a repeated key from memory ("replays"), it makes   *)
(* the write again and answers with the new one ("repeats"), or it makes   *)
(* the write again and answers as it did before ("hides").                 *)
(***************************************************************************)
EXTENDS Naturals, Sequences

CONSTANTS
  Quantity,      \* opts.quantity
  MaxOthers      \* bound: units that other shoppers buy

ASSUME JourneyAssumption == Quantity \in Nat \ {0} /\ MaxOthers \in Nat

VARIABLES
  journeyPc,        \* the call that the suite is at
  journeyNow,       \* position in the suite of the journey that runs
  journeyMerchant,  \* what the merchant does with a repeated key
  journeyFirst,     \* the effect that the first answer names
  journeyEffects,   \* [Kind -> Nat]: writes made under the journey's key
  journeyStock,     \* units committed, by everyone
  journeyBefore,    \* the units committed that the journey read first
  journeyOthers,    \* units that others bought
  journeyFaults,    \* kinds whose adapter threw
  journeyOutcome,   \* [Kind -> outcome of the journey]
  suiteOutcome      \* outcome of the suite

journeyVars == <<journeyPc, journeyNow, journeyMerchant, journeyFirst, journeyEffects,
                 journeyStock, journeyBefore, journeyOthers, journeyFaults,
                 journeyOutcome, suiteOutcome>>

Suite == <<"checkout", "refund", "cancellation">>
Kind == {"checkout", "refund", "cancellation"}
Now == Suite[journeyNow]

Merchant == {"replays", "repeats", "hides"}

NoOutcome == [status |-> "none", complete |-> FALSE]
Outcome == [status : {"none", "pass", "error", "unsupported"}, complete : BOOLEAN]

JourneyTypeOK ==
  /\ journeyPc \in {"capabilities", "before", "cart", "first", "retry", "after", "suite", "done"}
  /\ journeyNow \in 1..3
  /\ journeyMerchant \in Merchant
  /\ journeyFirst \in Nat /\ journeyStock \in Nat /\ journeyBefore \in Nat
  /\ journeyEffects \in [Kind -> 0..2]
  /\ journeyOthers \in 0..MaxOthers
  /\ journeyFaults \subseteq Kind
  /\ journeyOutcome \in [Kind -> Outcome]
  /\ suiteOutcome \in Outcome

JourneyInit ==
  /\ journeyPc = "capabilities"
  /\ journeyNow = 1
  /\ journeyMerchant = "replays"
  /\ journeyFirst = 0
  /\ journeyEffects = [k \in Kind |-> 0]
  /\ journeyStock = 0
  /\ journeyBefore = 0
  /\ journeyOthers = 0
  /\ journeyFaults = {}
  /\ journeyOutcome = [k \in Kind |-> NoOutcome]
  /\ suiteOutcome = NoOutcome

-----------------------------------------------------------------------------
\* Mutant: the suite goes on after its last journey.
End_Past(status, complete) ==
  /\ journeyOutcome' = [journeyOutcome EXCEPT ![Now] = [status |-> status, complete |-> complete]]
  /\ journeyPc' = "capabilities" /\ journeyNow' = journeyNow + 1
  /\ UNCHANGED suiteOutcome

\* The journey ends and the suite goes on with the next.
End(status, complete) ==
  /\ journeyOutcome' = [journeyOutcome EXCEPT ![Now] = [status |-> status, complete |-> complete]]
  /\ IF journeyNow = Len(Suite)
     THEN journeyPc' = "suite" /\ UNCHANGED journeyNow
     ELSE journeyPc' = "capabilities" /\ journeyNow' = journeyNow + 1
  /\ UNCHANGED suiteOutcome

Continue(pc) ==
  /\ journeyPc' = pc
  /\ UNCHANGED <<journeyNow, journeyOutcome, suiteOutcome>>

\* The evidence that the journey has recorded before a call: the checkout journey records
\* what it read before the cart, and the refund journey its captured checkout.
Recorded(pc) ==
  CASE Now = "checkout"     -> pc \notin {"capabilities", "before"}
    [] Now = "refund"       -> pc \in {"first", "retry"}
    [] Now = "cancellation" -> FALSE

\* A write under the journey's key: a checkout commits the stock of its line.
Write ==
  /\ journeyEffects' = [journeyEffects EXCEPT ![Now] = @ + 1]
  /\ journeyStock' = IF Now = "checkout" THEN journeyStock + Quantity ELSE journeyStock

NoWrite == UNCHANGED <<journeyEffects, journeyStock>>

-----------------------------------------------------------------------------
\* Without the capabilities the journey is unsupported.
Capabilities ==
  /\ journeyPc = "capabilities"
  /\ \/ End("unsupported", FALSE) /\ UNCHANGED journeyMerchant
     \/ /\ Continue(IF Now = "checkout" THEN "before" ELSE "cart")
        /\ \E m \in Merchant : journeyMerchant' = m
  /\ UNCHANGED <<journeyFirst, journeyBefore, journeyOthers, journeyFaults>>
  /\ NoWrite

ReadBefore ==
  /\ journeyPc = "before"
  /\ journeyBefore' = journeyStock
  /\ Continue("cart")
  /\ UNCHANGED <<journeyMerchant, journeyFirst, journeyOthers, journeyFaults>>
  /\ NoWrite

\* createCart and addLine; the other journeys also check out the cart, under a key of
\* their own, to have an order to refund or to cancel.
FillCart ==
  /\ journeyPc = "cart"
  /\ journeyStock' = IF Now = "checkout" THEN journeyStock ELSE journeyStock + Quantity
  /\ Continue("first")
  /\ UNCHANGED <<journeyEffects, journeyMerchant, journeyFirst, journeyBefore,
                 journeyOthers, journeyFaults>>

FirstCall ==
  /\ journeyPc = "first"
  /\ Write
  /\ journeyFirst' = journeyEffects'[Now]
  /\ Continue("retry")
  /\ UNCHANGED <<journeyMerchant, journeyBefore, journeyOthers, journeyFaults>>

SameAnswer(answer) == answer = journeyFirst

\* The key is used again; different answers end the journey.
Retry ==
  /\ journeyPc = "retry"
  /\ IF journeyMerchant = "replays" THEN NoWrite ELSE Write
  /\ LET answer == IF journeyMerchant = "repeats" THEN journeyEffects'[Now] ELSE journeyFirst
     IN IF ~SameAnswer(answer) THEN End("error", Recorded("retry"))
        ELSE IF Now = "checkout" THEN Continue("after")
        ELSE End("pass", TRUE)
  /\ UNCHANGED <<journeyMerchant, journeyFirst, journeyBefore, journeyOthers, journeyFaults>>

\* Mutant: the stock must have grown by the quantity at least.
CommittedOnce_AtLeast == journeyStock - journeyBefore >= Quantity

\* Mutant: the stock must have grown by more.
CommittedOnce_More == journeyStock - journeyBefore > Quantity

CommittedOnce == journeyStock - journeyBefore = Quantity

ReadAfter ==
  /\ journeyPc = "after"
  /\ IF CommittedOnce THEN End("pass", TRUE) ELSE End("error", TRUE)
  /\ UNCHANGED <<journeyMerchant, journeyFirst, journeyBefore, journeyOthers, journeyFaults>>
  /\ NoWrite

\* A call throws, and a write may have been made for all that.
CallThrows ==
  /\ journeyPc \in {"capabilities", "before", "cart", "first", "retry", "after"}
  /\ NoWrite \/ (journeyPc = "first" /\ Write)
  /\ End("error", Recorded(journeyPc))
  /\ journeyFaults' = journeyFaults \cup {Now}
  /\ UNCHANGED <<journeyMerchant, journeyFirst, journeyBefore, journeyOthers>>

\* Other shoppers of the same merchant.
OthersBuy ==
  /\ journeyPc # "done"
  /\ journeyOthers < MaxOthers
  /\ journeyOthers' = journeyOthers + 1
  /\ journeyStock' = journeyStock + 1
  /\ UNCHANGED <<journeyPc, journeyNow, journeyMerchant, journeyFirst, journeyEffects,
                 journeyBefore, journeyFaults, journeyOutcome, suiteOutcome>>

-----------------------------------------------------------------------------
(* verifyCommerceJourneySuite *)

Some(status) == \E k \in Kind : journeyOutcome[k].status = status

\* Mutant: an unsupported journey is left out of the account.
SuiteStatus_Supported == IF Some("error") THEN "error" ELSE "pass"

SuiteStatus ==
  IF Some("error") THEN "error" ELSE IF Some("unsupported") THEN "unsupported" ELSE "pass"

FoldOutcomes ==
  /\ journeyPc = "suite"
  /\ suiteOutcome' =
       [status   |-> SuiteStatus,
        complete |-> \A k \in Kind : journeyOutcome[k] = [status |-> "pass", complete |-> TRUE]]
  /\ journeyPc' = "done"
  /\ UNCHANGED <<journeyNow, journeyMerchant, journeyFirst, journeyEffects, journeyStock,
                 journeyBefore, journeyOthers, journeyFaults, journeyOutcome>>

JourneyNext ==
  \/ Capabilities \/ ReadBefore \/ FillCart \/ FirstCall \/ Retry \/ ReadAfter
  \/ CallThrows \/ OthersBuy \/ FoldOutcomes

JourneySpec == JourneyInit /\ [][JourneyNext]_journeyVars

-----------------------------------------------------------------------------
(* Properties *)

\* "A provider is never marked as passing when it cannot expose the required
\* observations or when an idempotent retry produces a second effect": a checkout
\* journey that passes made one write, whatever the merchant did with the repeated key
\* and whoever else was shopping.
CheckoutPassIsExactlyOnce ==
  journeyOutcome["checkout"].status = "pass" => journeyEffects["checkout"] = 1

\* The journey that was judged last, while its merchant is still known.
JustJudged ==
  IF journeyPc \in {"suite", "done"} THEN {Now}
  ELSE IF journeyPc = "capabilities" /\ journeyNow > 1 THEN {Suite[journeyNow - 1]}
  ELSE {}

\* A merchant that replays, whose adapter never throws and which nobody else uses in
\* the meantime, is never failed.  The last condition is needed: the checkout journey
\* charges the merchant with what others buy.
SoundMerchantIsNotFailed ==
  \A k \in JustJudged :
    journeyOutcome[k].status = "error" =>
      journeyMerchant # "replays" \/ k \in journeyFaults \/ journeyOthers > 0

\* "Unsupported capabilities remain visible and cannot be converted into a passing
\* suite": a suite that passes has the complete evidence of all its journeys, none of
\* which met a call that threw.
SuitePassIsEarned ==
  suiteOutcome.status = "pass" =>
    /\ suiteOutcome.complete
    /\ \A k \in Kind : journeyEffects[k] > 0 /\ k \notin journeyFaults

\* Why: journeys are judged in order, each after the writes that its phase says, and while
\* the checkout is judged the stock has grown by its writes and by what others bought.
Judged(i) == i < journeyNow \/ journeyPc \in {"suite", "done"}
Grown == journeyBefore + journeyEffects["checkout"] * Quantity

PhasesAreKept ==
  /\ journeyPc \in {"suite", "done"} => journeyNow = 3
  /\ journeyPc \in {"before", "after"} => journeyNow = 1
  /\ journeyPc # "done" => suiteOutcome = NoOutcome
  /\ \A i \in 1..3 :
       LET k == Suite[i]
       IN IF Judged(i)
          THEN /\ journeyOutcome[k].status # "none"
               /\ journeyOutcome[k].status = "pass" =>
                    journeyOutcome[k].complete /\ journeyEffects[k] > 0 /\ k \notin journeyFaults
          ELSE /\ journeyOutcome[k] = NoOutcome /\ k \notin journeyFaults
               /\ i > journeyNow \/ journeyPc \notin {"retry", "after"} => journeyEffects[k] = 0
  /\ journeyPc = "retry" => journeyEffects[Now] = 1 /\ journeyFirst = 1
  /\ journeyPc = "after" =>
       journeyEffects[Now] > 0 /\ (journeyMerchant = "replays" => journeyEffects[Now] = 1)
  /\ Now = "checkout" /\ journeyPc \in {"cart", "first", "retry", "after"} =>
       journeyStock >= Grown /\ (journeyOthers = 0 => journeyStock = Grown)

\* A pass, of the checkout journey or of the suite, is earned, and so is a failure.
JourneySafety ==
  /\ JourneyTypeOK /\ PhasesAreKept
  /\ CheckoutPassIsExactlyOnce /\ SuitePassIsEarned /\ SoundMerchantIsNotFailed

=============================================================================
