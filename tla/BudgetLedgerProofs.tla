------------------------- MODULE BudgetLedgerProofs -------------------------
(***************************************************************************)
(* Theorems about BudgetLedger, for any finite set of calls in any number  *)
(* of processes, any limits and charges and any number of reapers.         *)
(***************************************************************************)
EXTENDS BudgetLedger, Sums

-----------------------------------------------------------------------------
(* Types *)

LEMMA EstimatesAreSums == \A cs : Estimates(cs) = SumOf(EstimateOf, cs)
BY DEF Estimates, SumOf

LEMMA SumsForAreSums == \A w, cs : SumFor(w, cs) = SumOf(w, cs)
BY DEF SumFor, SumOf

LEMMA EstimatesAreNat ==
  ASSUME NEW cs \in SUBSET Call
  PROVE  /\ IsFiniteSet(cs)
         /\ \A c \in cs : EstimateOf[c] \in Nat
         /\ Estimates(cs) = SumOf(EstimateOf, cs)
         /\ Estimates(cs) \in Nat
<1>1. IsFiniteSet(cs) /\ \A c \in cs : EstimateOf[c] \in Nat
  BY CallsAssumption, FS_Subset
<1>2. SumOf(EstimateOf, cs) \in Nat
  BY <1>1, SumOfNat
<1>3. Estimates(cs) = SumOf(EstimateOf, cs)
  BY EstimatesAreSums
<1> QED
  BY <1>1, <1>2, <1>3

LEMMA MinusIsNat == \A a, b \in Nat : Minus(a, b) \in Nat /\ (b <= a => Minus(a, b) = a - b)
BY DEF Minus

BudgetRow == [limit : Limit, reserved : Nat, spent : Nat]

\* What Book and Close make of the row of a key.
LEMMA BookedRow ==
  ASSUME LedgerTypeOK, NEW c \in Call, Book(c)
  PROVE  LET k == LedgerKeyOf[c]
         IN /\ k \in LedgerKey
            /\ budget' \in [LedgerKey -> BudgetRow]
            /\ budget'[k].limit = LimitOf[c]
            /\ budget'[k].reserved = budget[k].reserved + EstimateOf[c]
            /\ budget'[k].spent = budget[k].spent
            /\ \A i \in LedgerKey \ {k} : budget'[i] = budget[i]
<1> DEFINE k == LedgerKeyOf[c]
<1>1. k \in LedgerKey /\ EstimateOf[c] \in Nat /\ LimitOf[c] \in Limit
  BY CallsAssumption DEF Limit
<1>2. budget[k] \in BudgetRow
  BY <1>1 DEF LedgerTypeOK, BudgetRow
<1>3. budget[k].reserved + EstimateOf[c] \in Nat
  BY <1>1, <1>2 DEF BudgetRow
<1>4. budget' = [budget EXCEPT ![k] =
                   [[@ EXCEPT !.limit = LimitOf[c]]
                      EXCEPT !.reserved = budget[k].reserved + EstimateOf[c]]]
  BY <1>1, <1>2 DEF Book, LedgerTypeOK, BudgetRow
<1>5. budget'[k] = [[budget[k] EXCEPT !.limit = LimitOf[c]]
                      EXCEPT !.reserved = budget[k].reserved + EstimateOf[c]]
  BY <1>1, <1>4 DEF LedgerTypeOK
<1>6. /\ budget'[k] \in BudgetRow
      /\ budget'[k].limit = LimitOf[c]
      /\ budget'[k].reserved = budget[k].reserved + EstimateOf[c]
      /\ budget'[k].spent = budget[k].spent
  BY <1>1, <1>2, <1>3, <1>5 DEF BudgetRow
<1>7. \A i \in LedgerKey \ {k} : budget'[i] = budget[i]
  BY <1>4 DEF LedgerTypeOK
<1>8. budget' \in [LedgerKey -> BudgetRow]
  BY <1>1, <1>4, <1>5, <1>6 DEF LedgerTypeOK, BudgetRow
<1> QED
  BY <1>1, <1>6, <1>7, <1>8

LEMMA ClosedRow ==
  ASSUME LedgerTypeOK, NEW c \in Call, NEW amount \in Nat, Close(c, amount)
  PROVE  LET k == LedgerKeyOf[c]
         IN /\ k \in LedgerKey
            /\ budget' \in [LedgerKey -> BudgetRow]
            /\ budget'[k].limit = budget[k].limit
            /\ budget'[k].reserved = Minus(budget[k].reserved, EstimateOf[c])
            /\ budget'[k].spent = budget[k].spent + amount
            /\ \A i \in LedgerKey \ {k} : budget'[i] = budget[i]
<1> DEFINE k == LedgerKeyOf[c]
<1>1. k \in LedgerKey /\ EstimateOf[c] \in Nat
  BY CallsAssumption
<1>2. budget[k] \in BudgetRow
  BY <1>1 DEF LedgerTypeOK, BudgetRow
<1>3. Minus(budget[k].reserved, EstimateOf[c]) \in Nat /\ budget[k].spent + amount \in Nat
  <2>1. budget[k].reserved \in Nat /\ budget[k].spent \in Nat
    BY <1>2 DEF BudgetRow
  <2>2. Minus(budget[k].reserved, EstimateOf[c]) \in Nat
    BY <1>1, <2>1, MinusIsNat
  <2> QED
    BY <2>1, <2>2
<1>4. budget' = [budget EXCEPT ![k] =
                   [[@ EXCEPT !.reserved = Minus(budget[k].reserved, EstimateOf[c])]
                      EXCEPT !.spent = budget[k].spent + amount]]
  BY <1>1, <1>2 DEF Close, LedgerTypeOK, BudgetRow
<1>5. budget'[k] = [[budget[k] EXCEPT !.reserved = Minus(budget[k].reserved, EstimateOf[c])]
                      EXCEPT !.spent = budget[k].spent + amount]
  BY <1>1, <1>4 DEF LedgerTypeOK
<1>6. /\ budget'[k] \in BudgetRow
      /\ budget'[k].limit = budget[k].limit
      /\ budget'[k].reserved = Minus(budget[k].reserved, EstimateOf[c])
      /\ budget'[k].spent = budget[k].spent + amount
  BY <1>1, <1>2, <1>3, <1>5 DEF BudgetRow
<1>7. \A i \in LedgerKey \ {k} : budget'[i] = budget[i]
  BY <1>4 DEF LedgerTypeOK
<1>8. budget' \in [LedgerKey -> BudgetRow]
  BY <1>1, <1>4, <1>5, <1>6 DEF LedgerTypeOK, BudgetRow
<1> QED
  BY <1>1, <1>6, <1>7, <1>8

\* What a reaper that commits makes of the rows.
LEMMA ReapedRows ==
  ASSUME LedgerTypeOK, NEW p \in Reaper, ReapCommit(p)
  PROVE  /\ budget' \in [LedgerKey -> BudgetRow]
         /\ \A k \in LedgerKey :
              /\ budget'[k].limit = budget[k].limit
              /\ budget'[k].reserved =
                   Minus(budget[k].reserved, Estimates(InKey(batch[p], k)))
              /\ budget'[k].spent = budget[k].spent
<1>1. ASSUME NEW k \in LedgerKey
      PROVE  /\ budget'[k] \in BudgetRow
             /\ budget'[k].limit = budget[k].limit
             /\ budget'[k].reserved =
                  Minus(budget[k].reserved, Estimates(InKey(batch[p], k)))
             /\ budget'[k].spent = budget[k].spent
  <2>1. budget[k] \in BudgetRow
    BY DEF LedgerTypeOK, BudgetRow
  <2>2. InKey(batch[p], k) \in SUBSET Call
    BY DEF LedgerTypeOK, InKey
  <2>3. Estimates(InKey(batch[p], k)) \in Nat
    BY <2>2, EstimatesAreNat
  <2>4. Minus(budget[k].reserved, Estimates(InKey(batch[p], k))) \in Nat
    BY <2>1, <2>3, MinusIsNat DEF BudgetRow
  <2>5. budget'[k] = [budget[k] EXCEPT !.reserved =
                        Minus(budget[k].reserved, Estimates(InKey(batch[p], k)))]
    BY <2>1 DEF ReapCommit, InKey, BudgetRow
  <2> QED
    BY <2>1, <2>4, <2>5 DEF BudgetRow
<1>2. budget' = [k \in LedgerKey |-> budget'[k]]
  BY DEF ReapCommit
<1> QED
  BY <1>1, <1>2

-----------------------------------------------------------------------------
(* What a step does to the ledger *)

\* It makes a reservation, settles one with what its call was charged, or reaps some;
\* any other step leaves the rows alone and charges a call that has not settled.
Books(c) ==
  /\ pc[c] = "admitting" /\ Admissible(c) /\ Book(c)
  /\ pc' \in {[pc EXCEPT ![c] = "calling"], [pc EXCEPT ![c] = "failed"]}
  /\ UNCHANGED <<charged, tracked, lapsed, halted, batch, walked>>

Closes(c) ==
  /\ pc[c] \in {"settling", "releasing"} /\ reservation[c] = "open" /\ ReservationFree(c)
  /\ Close(c, charged[c])
  /\ pc' \in {[pc EXCEPT ![c] = "done"], [pc EXCEPT ![c] = "failed"]}
  /\ UNCHANGED <<charged, tracked, lapsed, halted, batch, walked>>

Quiet ==
  /\ UNCHANGED <<reservation, budget>>
  /\ \A c \in Call :
       /\ reservation[c] = "settled" => charged'[c] = charged[c]
       /\ charged'[c] \in Nat

\* The steps of a call, but for those two, by what they make of it.
LEMMA CallSteps ==
  ASSUME LedgerTypeOK, BudgetInv, NEW c \in Call, CallStep(c)
  PROVE  \/ Books(c) \/ Closes(c)
         \/ /\ Quiet
            /\ \E state \in Pc :
                 /\ pc' = [pc EXCEPT ![c] = state]
                 /\ state \in {"asking", "admitting"} =>
                      pc[c] \in {"ready", "asking"} /\ charged' = charged
                 /\ state = "admitting" => ~halted[LedgerKeyOf[c]]
                 /\ state # "ready"
                 /\ pc[c] \notin {"done", "failed"}
                 /\ state \in {"calling", "releasing"} => pc[c] = "calling" /\ charged' = charged
            /\ \A i \in Call \ {c} : charged'[i] = charged[i]
            /\ tracked' \in [Process -> Nat]
            /\ charged' \in [Call -> Nat]
            /\ UNCHANGED <<lapsed, halted, batch, walked>>
<1> USE DEF LedgerTypeOK, Goto, ledgerVars, reaperVars, Pc, Quiet
<1>1. CASE Ask(c)
  BY <1>1 DEF Ask
<1>2. CASE ReadHalt(c)
  BY <1>2 DEF ReadHalt
<1>3. CASE Reserve(c)
  BY <1>3 DEF Reserve, Books
<1>4. ASSUME NEW amount \in Charges, Answer(c, amount)
      PROVE  /\ Quiet
             /\ pc' = [pc EXCEPT ![c] = "settling"]
             /\ pc[c] = "calling"
             /\ \A i \in Call \ {c} : charged'[i] = charged[i]
             /\ tracked' \in [Process -> Nat]
             /\ charged' \in [Call -> Nat]
             /\ UNCHANGED <<lapsed, halted, batch, walked>>
  <2>1. amount \in Nat /\ ProcessOf[c] \in Process
    BY CallsAssumption
  <2>2. reservation[c] # "settled"
    BY <1>4 DEF Answer, BudgetInv
  <2>3. tracked[ProcessOf[c]] + amount \in Nat
    BY <2>1
  <2>4. tracked' \in [Process -> Nat]
    BY <1>4, <2>1, <2>3 DEF Answer
  <2> QED
    BY <1>4, <2>1, <2>2, <2>4 DEF Answer
<1>5. CASE ProviderFails(c)
  BY <1>5 DEF ProviderFails
<1>6. CASE SettleUsage(c)
  BY <1>6 DEF SettleUsage, Settled, Closes
<1>7. CASE SettleNothing(c)
  <2>1. charged[c] = 0
    BY <1>7 DEF SettleNothing, BudgetInv
  <2> QED
    BY <1>7, <2>1 DEF SettleNothing, Settled, Closes
<1>8. CASE Crash(c)
  BY <1>8 DEF Crash
<1> QED
  BY <1>1, <1>2, <1>3, <1>4, <1>5, <1>6, <1>7, <1>8 DEF CallStep

\* The steps of reapers but for the last, and of operators and of time, touch neither the
\* calls nor the rows.
Idles == UNCHANGED <<pc, charged, tracked, reservation, budget>>

LEMMA OtherSteps ==
  ASSUME LedgerTypeOK, [LedgerNext]_budgetVars
  PROVE  \/ \E c \in Call : CallStep(c)
         \/ \E p \in Reaper : ReapCommit(p)
         \/ Idles
BY DEF LedgerNext, budgetVars, Expire, Halt, ReaperStep, ReapSelect, ReapAbort, ReapRow, Idles, callVars,
       ledgerVars

-----------------------------------------------------------------------------
(* Types, and what calls and reapers know of a reservation *)

LEMMA NextTypes == LedgerTypeOK /\ BudgetInv /\ [LedgerNext]_budgetVars => LedgerTypeOK'
<1> SUFFICES ASSUME LedgerTypeOK, BudgetInv, [LedgerNext]_budgetVars
             PROVE  LedgerTypeOK'
  OBVIOUS
<1>1. ASSUME NEW c \in Call, Books(c)
      PROVE  LedgerTypeOK'
  <2>1. budget' \in [LedgerKey -> BudgetRow]
    BY <1>1, BookedRow DEF Books
  <2> QED
    BY <1>1, <2>1 DEF Books, Book, LedgerTypeOK, Pc, BudgetRow
<1>2. ASSUME NEW c \in Call, Closes(c)
      PROVE  LedgerTypeOK'
  <2>1. charged[c] \in Nat
    BY DEF LedgerTypeOK
  <2>2. budget' \in [LedgerKey -> BudgetRow]
    BY <1>2, <2>1, ClosedRow DEF Closes
  <2> QED
    BY <1>2, <2>2 DEF Closes, Close, LedgerTypeOK, Pc, BudgetRow
<1>3. ASSUME NEW c \in Call, CallStep(c)
      PROVE  LedgerTypeOK'
  BY <1>1, <1>2, <1>3, CallSteps DEF LedgerTypeOK, Quiet
<1>4. ASSUME NEW p \in Reaper, ReapCommit(p)
      PROVE  LedgerTypeOK'
  <2>1. budget' \in [LedgerKey -> BudgetRow]
    BY <1>4, ReapedRows
  <2> QED
    BY <1>4, <2>1 DEF ReapCommit, Released, LedgerTypeOK, callVars, BudgetRow
<1>5. CASE Idles
  <2>1. lapsed' \in [Call -> BOOLEAN] /\ halted' \in [LedgerKey -> BOOLEAN]
    BY <1>5, CallsAssumption
    DEF LedgerNext, budgetVars, CallStep, Expire, Halt, ReaperStep, ReapSelect, ReapAbort, ReapRow, ReapCommit,
        Ask, ReadHalt, Reserve, Answer, ProviderFails, SettleUsage, SettleNothing, Crash,
        callVars, ledgerVars, reaperVars, LedgerTypeOK
  <2>2. batch' \in [Reaper -> SUBSET Call] /\ walked' \in [Reaper -> SUBSET Call]
    BY <1>5 DEF LedgerNext, budgetVars, CallStep, Expire, Halt, ReaperStep, ReapSelect, ReapAbort, ReapRow,
        ReapCommit, Released, Ask, ReadHalt, Reserve, Answer, ProviderFails, SettleUsage,
        SettleNothing, Crash, callVars, ledgerVars, reaperVars, LedgerTypeOK, Open
  <2> QED
    BY <1>5, <2>1, <2>2 DEF Idles, LedgerTypeOK
<1> QED
  BY <1>3, <1>4, <1>5, OtherSteps

\* The three parts of BudgetInv.
CallsInv ==
  \A c \in Call :
    /\ pc[c] \in {"ready", "asking", "admitting"} => reservation[c] = "none"
    /\ pc[c] \in {"ready", "asking", "admitting", "calling", "releasing"} => charged[c] = 0
    /\ reservation[c] = "settled" => pc[c] \in {"done", "failed"}

BatchesInv ==
  /\ \A p \in Reaper : walked[p] \subseteq batch[p] /\ batch[p] \subseteq Open
  /\ \A p, q \in Reaper : p # q => batch[p] \cap batch[q] = {}

LEMMA BudgetInvParts == BudgetInv <=> CallsInv /\ BatchesInv
BY DEF BudgetInv, CallsInv, BatchesInv

LEMMA NextCalls == LedgerTypeOK /\ BudgetInv /\ [LedgerNext]_budgetVars => CallsInv'
<1> SUFFICES ASSUME LedgerTypeOK, BudgetInv, [LedgerNext]_budgetVars
             PROVE  CallsInv'
  OBVIOUS
<1>0. CallsInv
  BY BudgetInvParts
<1>1. ASSUME NEW c \in Call, CallStep(c)
      PROVE  CallsInv'
  <2>1. CASE Books(c)
    BY <1>0, <2>1 DEF Books, Book, CallsInv, LedgerTypeOK
  <2>2. CASE Closes(c)
    BY <1>0, <2>2 DEF Closes, Close, CallsInv, LedgerTypeOK
  <2>3. CASE ~Books(c) /\ ~Closes(c)
    BY <1>0, <1>1, <2>3, CallSteps DEF CallsInv, LedgerTypeOK, Quiet
  <2> QED
    BY <2>1, <2>2, <2>3
<1>2. ASSUME NEW p \in Reaper, ReapCommit(p)
      PROVE  CallsInv'
  <2>1. \A c \in batch[p] : reservation[c] = "open"
    BY DEF BudgetInv, Open
  <2>2. \A c \in Call : reservation'[c] = IF c \in batch[p] THEN "reaped" ELSE reservation[c]
    BY <1>2 DEF ReapCommit
  <2> QED
    BY <1>0, <1>2, <2>1, <2>2 DEF ReapCommit, CallsInv, callVars
<1>3. CASE Idles
  BY <1>0, <1>3 DEF Idles, CallsInv
<1> QED
  BY <1>1, <1>2, <1>3, OtherSteps

LEMMA NextBatches == LedgerTypeOK /\ BudgetInv /\ [LedgerNext]_budgetVars => BatchesInv'
<1> SUFFICES ASSUME LedgerTypeOK, BudgetInv, [LedgerNext]_budgetVars
             PROVE  BatchesInv'
  OBVIOUS
<1>0. BatchesInv
  BY BudgetInvParts
<1>1. ASSUME UNCHANGED <<batch, walked>>,
             \A c \in Call : reservation[c] = "open" =>
               reservation'[c] = "open" \/ ReservationFree(c)
      PROVE  BatchesInv'
  BY <1>0, <1>1 DEF BatchesInv, Open, ReservationFree, LedgerTypeOK
<1>2. ASSUME NEW c \in Call, CallStep(c)
      PROVE  BatchesInv'
  <2>1. CASE Books(c)
    BY <1>1, <2>1 DEF Books, Book, LedgerTypeOK
  <2>2. CASE Closes(c)
    <3>1. ReservationFree(c) /\ UNCHANGED <<batch, walked>>
      BY <2>2 DEF Closes
    <3>2. \A i \in Call \ {c} : reservation'[i] = reservation[i]
      BY <2>2 DEF Closes, Close, LedgerTypeOK
    <3>3. \A i \in Call : reservation[i] = "open" =>
            reservation'[i] = "open" \/ ReservationFree(i)
      BY <3>1, <3>2
    <3> QED
      BY <1>1, <3>1, <3>3
  <2>3. CASE ~Books(c) /\ ~Closes(c)
    <3>1. UNCHANGED <<batch, walked>> /\ reservation' = reservation
      BY <1>2, <2>3, CallSteps DEF Quiet
    <3> QED
      BY <1>1, <3>1
  <2> QED
    BY <2>1, <2>2, <2>3
<1>3. ASSUME NEW p \in Reaper, ReapCommit(p)
      PROVE  BatchesInv'
  <2>1. /\ \A q \in Reaper : batch'[q] = IF q = p THEN {} ELSE batch[q]
        /\ \A q \in Reaper : walked'[q] = IF q = p THEN {} ELSE walked[q]
    BY <1>3 DEF ReapCommit, Released, LedgerTypeOK
  <2>2. \A c \in Call : reservation'[c] = IF c \in batch[p] THEN "reaped" ELSE reservation[c]
    BY <1>3 DEF ReapCommit
  <2> QED
    BY <1>0, <2>1, <2>2 DEF BatchesInv, Open
<1>4. ASSUME NEW p \in Reaper, ReapSelect(p)
      PROVE  BatchesInv'
  <2> DEFINE found == {c \in Open : lapsed[c] /\ ReservationFree(c)}
  <2>1. /\ \A q \in Reaper : batch'[q] = IF q = p THEN found ELSE batch[q]
        /\ walked' = walked /\ Open' = Open /\ batch[p] = {}
    BY <1>4 DEF ReapSelect, LedgerTypeOK, ledgerVars, Open
  <2>2. found \subseteq Open /\ \A q \in Reaper : found \cap batch[q] = {}
    BY DEF ReservationFree
  <2> HIDE DEF found
  <2> QED
    BY <1>0, <2>1, <2>2 DEF BatchesInv
<1>5. ASSUME NEW p \in Reaper, NEW c \in Call, ReapRow(p, c)
      PROVE  BatchesInv'
  BY <1>0, <1>5 DEF ReapRow, BatchesInv, LedgerTypeOK, ledgerVars, Open
<1>6. ASSUME NEW p \in Reaper, ReapAbort(p)
      PROVE  BatchesInv'
  <2>1. PICK q \in Reaper : /\ p # q
                            /\ \E c \in batch[q] \ walked[q] :
                                 walked' = [walked EXCEPT ![p] = {}, ![q] = @ \cup {c}]
    BY <1>6 DEF ReapAbort, WaitsFor
  <2>2. PICK c \in batch[q] \ walked[q] :
                walked' = [walked EXCEPT ![p] = {}, ![q] = @ \cup {c}]
    BY <2>1
  <2>3. \A i \in Reaper : walked'[i] = IF i = p THEN {} ELSE IF i = q THEN walked[i] \cup {c}
                                                              ELSE walked[i]
    BY <2>1, <2>2 DEF LedgerTypeOK
  <2>4. /\ \A i \in Reaper : batch'[i] = IF i = p THEN {} ELSE batch[i]
        /\ Open' = Open
    BY <1>6 DEF ReapAbort, LedgerTypeOK, ledgerVars, Open
  <2>5. \A i \in Reaper : batch'[i] \subseteq batch[i] /\ batch'[i] \subseteq Open'
    BY <1>0, <2>4 DEF BatchesInv
  <2>6. ASSUME NEW i \in Reaper
        PROVE  walked'[i] \subseteq batch'[i]
    <3>1. CASE i = p
      BY <2>3, <3>1
    <3>2. CASE i = q
      <4>1. walked'[q] = walked[q] \cup {c} /\ batch'[q] = batch[q] /\ walked[q] \subseteq batch[q]
        BY <1>0, <2>1, <2>3, <2>4 DEF BatchesInv
      <4> QED
        BY <2>2, <3>2, <4>1
    <3>3. CASE i # p /\ i # q
      BY <1>0, <2>3, <2>4, <3>3 DEF BatchesInv
    <3> QED
      BY <3>1, <3>2, <3>3
  <2>7. \A i, j \in Reaper : i # j => batch'[i] \cap batch'[j] = {}
    BY <1>0, <2>5 DEF BatchesInv
  <2> QED
    BY <2>5, <2>6, <2>7 DEF BatchesInv
<1>7. CASE Idles
  <2>1. CASE UNCHANGED <<batch, walked>>
    BY <1>1, <1>7, <2>1 DEF Idles
  <2>2. CASE ~UNCHANGED <<batch, walked>>
    <3>1. \E p \in Reaper : ReaperStep(p)
      BY <2>2 DEF LedgerNext, budgetVars, CallStep, Expire, Halt, Ask, ReadHalt, Reserve, Answer,
                  ProviderFails, SettleUsage, SettleNothing, Crash, reaperVars
    <3> QED
      BY <1>3, <1>4, <1>5, <1>6, <3>1 DEF ReaperStep
  <2> QED
    BY <2>1, <2>2
<1> QED
  BY <1>2, <1>3, <1>7, OtherSteps

LEMMA NextBudgetInv == LedgerTypeOK /\ BudgetInv /\ [LedgerNext]_budgetVars => BudgetInv'
BY NextCalls, NextBatches, BudgetInvParts DEF BudgetInv, CallsInv, BatchesInv

-----------------------------------------------------------------------------
(* The account of a key *)

\* The sums that LedgerBalances and NoOversubscription are about.
LEMMA Accounts ==
  ASSUME LedgerTypeOK, NEW k
  PROVE  /\ IsFiniteSet(InKey(Open, k)) /\ IsFiniteSet(SettledIn(k))
         /\ InKey(Open, k) \in SUBSET Call /\ SettledIn(k) \in SUBSET Call
         /\ Estimates(InKey(Open, k)) = SumOf(EstimateOf, InKey(Open, k))
         /\ SumFor(charged, SettledIn(k)) = SumOf(charged, SettledIn(k))
         /\ SumFor(Overrun, SettledIn(k)) = SumOf(Overrun, SettledIn(k))
         /\ \A c \in Call : EstimateOf[c] \in Nat /\ charged[c] \in Nat /\ Overrun[c] \in Nat
         /\ Estimates(InKey(Open, k)) \in Nat
         /\ SumFor(charged, SettledIn(k)) \in Nat
         /\ SumFor(Overrun, SettledIn(k)) \in Nat
<1>1. IsFiniteSet(InKey(Open, k)) /\ InKey(Open, k) \in SUBSET Call
  BY CallsAssumption, FS_Subset DEF InKey, Open
<1>2. IsFiniteSet(SettledIn(k)) /\ SettledIn(k) \in SUBSET Call
  BY CallsAssumption, FS_Subset DEF InKey, SettledIn
<1>3. \A c \in Call : EstimateOf[c] \in Nat /\ charged[c] \in Nat
  BY CallsAssumption DEF LedgerTypeOK
<1>4. \A c \in Call : Overrun[c] \in Nat
  BY <1>3, MinusIsNat DEF Overrun
<1>5. /\ Estimates(InKey(Open, k)) = SumOf(EstimateOf, InKey(Open, k))
      /\ SumFor(charged, SettledIn(k)) = SumOf(charged, SettledIn(k))
      /\ SumFor(Overrun, SettledIn(k)) = SumOf(Overrun, SettledIn(k))
  BY EstimatesAreSums, SumsForAreSums
<1>6. SumOf(EstimateOf, InKey(Open, k)) \in Nat
  BY <1>1, <1>3, SumOfNat
<1>7. SumOf(charged, SettledIn(k)) \in Nat
  BY <1>2, <1>3, SumOfNat
<1>8. SumOf(Overrun, SettledIn(k)) \in Nat
  BY <1>2, <1>4, SumOfNat
<1> QED
  BY <1>1, <1>2, <1>3, <1>4, <1>5, <1>6, <1>7, <1>8

LEMMA EstimatesStayNat ==
  ASSUME NEW k
  PROVE  Estimates(InKey(Open, k))' \in Nat
<1>1. InKey(Open, k)' \in SUBSET Call
  BY DEF InKey, Open
<1> QED
  BY <1>1, EstimatesAreNat

\* Calls that had settled stay at what they were charged.
LEMMA SettledSums ==
  ASSUME LedgerTypeOK, LedgerTypeOK', NEW k, SettledIn(k)' = SettledIn(k),
         \A c \in Call : reservation[c] = "settled" => charged'[c] = charged[c]
  PROVE  /\ SumFor(charged, SettledIn(k))' = SumFor(charged, SettledIn(k))
         /\ SumFor(Overrun, SettledIn(k))' = SumFor(Overrun, SettledIn(k))
<1>1. IsFiniteSet(SettledIn(k)) /\ SettledIn(k) \subseteq Call
  BY Accounts DEF SettledIn, InKey
<1>2. \A c \in SettledIn(k) : charged'[c] = charged[c]
  BY DEF SettledIn, InKey
<1>3. \A c \in SettledIn(k) : Overrun'[c] = Overrun[c]
  BY <1>1, <1>2 DEF Overrun
<1>4. SumOf(charged', SettledIn(k)) = SumOf(charged, SettledIn(k))
  BY <1>1, <1>2, SumOfSame
<1>5. SumOf(Overrun', SettledIn(k)) = SumOf(Overrun, SettledIn(k))
  BY <1>1, <1>3, SumOfSame
<1>6. /\ SumFor(charged, SettledIn(k)) = SumOf(charged, SettledIn(k))
      /\ SumFor(Overrun, SettledIn(k)) = SumOf(Overrun, SettledIn(k))
  BY Accounts
<1>7. /\ SumFor(charged, SettledIn(k))' = SumOf(charged', SettledIn(k)')
      /\ SumFor(Overrun, SettledIn(k))' = SumOf(Overrun', SettledIn(k)')
  BY SumsForAreSums
<1> QED
  BY <1>4, <1>5, <1>6, <1>7

\* What a step does to the account of a key.
LEMMA QuietAccount ==
  ASSUME LedgerTypeOK, LedgerTypeOK', Quiet, NEW k
  PROVE  /\ budget' = budget
         /\ Estimates(InKey(Open, k))' = Estimates(InKey(Open, k))
         /\ SumFor(charged, SettledIn(k))' = SumFor(charged, SettledIn(k))
         /\ SumFor(Overrun, SettledIn(k))' = SumFor(Overrun, SettledIn(k))
<1>1. SettledIn(k)' = SettledIn(k) /\ InKey(Open, k)' = InKey(Open, k)
  BY DEF Quiet, SettledIn, InKey, Open
<1>2. Estimates(InKey(Open, k))' = Estimates(InKey(Open, k))
  BY <1>1
<1> QED
  BY <1>1, <1>2, SettledSums DEF Quiet

LEMMA BookAccount ==
  ASSUME LedgerTypeOK, LedgerTypeOK', BudgetInv, NEW c \in Call, Books(c), NEW k
  PROVE  /\ Estimates(InKey(Open, k))' =
              Estimates(InKey(Open, k)) + (IF k = LedgerKeyOf[c] THEN EstimateOf[c] ELSE 0)
         /\ SumFor(charged, SettledIn(k))' = SumFor(charged, SettledIn(k))
         /\ SumFor(Overrun, SettledIn(k))' = SumFor(Overrun, SettledIn(k))
<1>1. reservation[c] = "none" /\ reservation' = [reservation EXCEPT ![c] = "open"]
  BY DEF Books, Book, BudgetInv
<1>2. SettledIn(k)' = SettledIn(k)
  BY <1>1 DEF SettledIn, InKey, LedgerTypeOK
<1>3. SumFor(charged, SettledIn(k))' = SumFor(charged, SettledIn(k)) /\ SumFor(Overrun, SettledIn(k))' = SumFor(Overrun, SettledIn(k))
  BY <1>2, SettledSums DEF Books
<1>4. Estimates(InKey(Open, k))' = SumOf(EstimateOf, InKey(Open, k)')
  BY EstimatesAreSums
<1>5. CASE k = LedgerKeyOf[c]
  <2>1. InKey(Open, k)' = InKey(Open, k) \cup {c} /\ c \notin InKey(Open, k)
    BY <1>1, <1>5 DEF InKey, Open, LedgerTypeOK
  <2>2. SumOf(EstimateOf, InKey(Open, k) \cup {c}) = SumOf(EstimateOf, InKey(Open, k)) + EstimateOf[c]
    <3>1. \A x \in InKey(Open, k) : EstimateOf[x] \in Int
      BY Accounts
    <3>2. IsFiniteSet(InKey(Open, k)) /\ EstimateOf[c] \in Int
      BY Accounts
    <3> QED
      BY <2>1, <3>1, <3>2, SumOfAdd
  <2>3. SumOf(EstimateOf, InKey(Open, k)') = SumOf(EstimateOf, InKey(Open, k)) + EstimateOf[c]
    BY <2>1, <2>2
  <2> QED
    BY <1>3, <1>4, <1>5, <2>3, Accounts
<1>6. CASE k # LedgerKeyOf[c]
  <2>1. InKey(Open, k)' = InKey(Open, k)
    BY <1>1, <1>6 DEF InKey, Open, LedgerTypeOK
  <2>2. Estimates(InKey(Open, k))' = Estimates(InKey(Open, k)) /\ Estimates(InKey(Open, k)) \in Nat
    BY <1>4, <2>1, Accounts
  <2> QED
    BY <1>3, <1>6, <2>2
<1> QED
  BY <1>5, <1>6

LEMMA CloseAccount ==
  ASSUME LedgerTypeOK, LedgerTypeOK', NEW c \in Call, Closes(c), NEW k
  PROVE  IF k = LedgerKeyOf[c]
         THEN /\ Estimates(InKey(Open, k)) = Estimates(InKey(Open, k))' + EstimateOf[c]
              /\ SumFor(charged, SettledIn(k))' = SumFor(charged, SettledIn(k)) + charged[c]
              /\ SumFor(Overrun, SettledIn(k))' = SumFor(Overrun, SettledIn(k)) + Overrun[c]
         ELSE /\ Estimates(InKey(Open, k))' = Estimates(InKey(Open, k))
              /\ SumFor(charged, SettledIn(k))' = SumFor(charged, SettledIn(k))
              /\ SumFor(Overrun, SettledIn(k))' = SumFor(Overrun, SettledIn(k))
<1>1. /\ reservation[c] = "open" /\ reservation' = [reservation EXCEPT ![c] = "settled"]
      /\ charged' = charged /\ Overrun' = Overrun
  BY DEF Closes, Close, Overrun
<1>2. /\ Estimates(InKey(Open, k))' = SumOf(EstimateOf, InKey(Open, k)')
      /\ SumFor(charged, SettledIn(k))' = SumOf(charged, SettledIn(k)')
      /\ SumFor(Overrun, SettledIn(k))' = SumOf(Overrun, SettledIn(k)')
  BY <1>1, EstimatesAreSums, SumsForAreSums
<1>3. CASE k = LedgerKeyOf[c]
  <2>1. /\ InKey(Open, k)' = InKey(Open, k) \ {c} /\ c \in InKey(Open, k)
        /\ SettledIn(k)' = SettledIn(k) \cup {c} /\ c \notin SettledIn(k)
    BY <1>1, <1>3 DEF InKey, Open, SettledIn, LedgerTypeOK
  <2>2. /\ IsFiniteSet(InKey(Open, k)) /\ \A x \in InKey(Open, k) : EstimateOf[x] \in Int
        /\ IsFiniteSet(SettledIn(k))
        /\ \A x \in SettledIn(k) \cup {c} : charged[x] \in Int /\ Overrun[x] \in Int
    BY Accounts
  <2>3. SumOf(EstimateOf, InKey(Open, k)) = EstimateOf[c] + SumOf(EstimateOf, InKey(Open, k) \ {c})
    BY <2>1, <2>2, SumOfRemove
  <2>4. SumOf(charged, SettledIn(k) \cup {c}) = SumOf(charged, SettledIn(k)) + charged[c]
    BY <2>1, <2>2, SumOfAdd
  <2>5. SumOf(Overrun, SettledIn(k) \cup {c}) = SumOf(Overrun, SettledIn(k)) + Overrun[c]
    BY <2>1, <2>2, SumOfAdd
  <2>6. Estimates(InKey(Open, k))' \in Nat /\ EstimateOf[c] \in Nat
    BY EstimatesStayNat, CallsAssumption
  <2>7. Estimates(InKey(Open, k)) = EstimateOf[c] + Estimates(InKey(Open, k))'
    BY <1>2, <2>1, <2>3, Accounts
  <2>8. SumFor(charged, SettledIn(k))' = SumFor(charged, SettledIn(k)) + charged[c]
    BY <1>2, <2>1, <2>4, Accounts
  <2>9. SumFor(Overrun, SettledIn(k))' = SumFor(Overrun, SettledIn(k)) + Overrun[c]
    BY <1>2, <2>1, <2>5, Accounts
  <2> QED
    BY <1>3, <2>6, <2>7, <2>8, <2>9
<1>4. CASE k # LedgerKeyOf[c]
  <2>1. InKey(Open, k)' = InKey(Open, k) /\ SettledIn(k)' = SettledIn(k)
    BY <1>1, <1>4 DEF InKey, Open, SettledIn, LedgerTypeOK
  <2> QED
    BY <1>2, <1>4, <2>1, Accounts
<1> QED
  BY <1>3, <1>4

LEMMA ReapAccount ==
  ASSUME LedgerTypeOK, LedgerTypeOK', BudgetInv, NEW p \in Reaper, ReapCommit(p), NEW k
  PROVE  /\ Estimates(InKey(Open, k)) =
              Estimates(InKey(Open, k))' + Estimates(InKey(batch[p], k))
         /\ SumFor(charged, SettledIn(k))' = SumFor(charged, SettledIn(k))
         /\ SumFor(Overrun, SettledIn(k))' = SumFor(Overrun, SettledIn(k))
<1>1. /\ batch[p] \subseteq Open
      /\ \A c \in Call : reservation'[c] = IF c \in batch[p] THEN "reaped" ELSE reservation[c]
      /\ charged' = charged
  BY DEF BudgetInv, ReapCommit, callVars
<1>2. SettledIn(k)' = SettledIn(k)
  BY <1>1 DEF SettledIn, InKey, Open
<1>3. SumFor(charged, SettledIn(k))' = SumFor(charged, SettledIn(k)) /\ SumFor(Overrun, SettledIn(k))' = SumFor(Overrun, SettledIn(k))
  BY <1>1, <1>2, SettledSums
<1>4. /\ InKey(Open, k)' = InKey(Open, k) \ InKey(batch[p], k)
      /\ InKey(batch[p], k) \in SUBSET InKey(Open, k)
      /\ InKey(batch[p], k) \in SUBSET Call
  BY <1>1 DEF InKey, Open
<1>5. /\ IsFiniteSet(InKey(Open, k)) /\ \A x \in InKey(Open, k) : EstimateOf[x] \in Int
  BY Accounts
<1>6. SumOf(EstimateOf, InKey(Open, k)) =
        SumOf(EstimateOf, InKey(batch[p], k)) + SumOf(EstimateOf, InKey(Open, k) \ InKey(batch[p], k))
  BY <1>4, <1>5, SumOfSplit
<1>7. Estimates(InKey(Open, k))' = SumOf(EstimateOf, InKey(Open, k)')
  BY EstimatesAreSums
<1>8. Estimates(InKey(batch[p], k)) \in Nat /\ Estimates(InKey(batch[p], k)) = SumOf(EstimateOf, InKey(batch[p], k))
  BY <1>4, EstimatesAreNat
<1>9. Estimates(InKey(Open, k))' \in Nat
  BY EstimatesStayNat
<1>10. Estimates(InKey(Open, k)) = Estimates(InKey(batch[p], k)) + Estimates(InKey(Open, k))'
  BY <1>4, <1>6, <1>7, <1>8, Accounts
<1> QED
  BY <1>3, <1>8, <1>9, <1>10

-----------------------------------------------------------------------------
(* The ledger *)

LEMMA NextBalances ==
  LedgerTypeOK /\ LedgerTypeOK' /\ BudgetInv /\ LedgerBalances /\ [LedgerNext]_budgetVars => LedgerBalances'
<1> SUFFICES ASSUME LedgerTypeOK, LedgerTypeOK', BudgetInv, LedgerBalances, [LedgerNext]_budgetVars, NEW k \in LedgerKey
             PROVE  /\ budget'[k].reserved = Estimates(InKey(Open, k))'
                    /\ budget'[k].spent = SumFor(charged, SettledIn(k))'
  BY DEF LedgerBalances
<1>0. /\ budget[k].reserved = Estimates(InKey(Open, k)) /\ Estimates(InKey(Open, k)) \in Nat
      /\ budget[k].spent = SumFor(charged, SettledIn(k)) /\ SumFor(charged, SettledIn(k)) \in Nat
  BY Accounts DEF LedgerBalances
<1>1. CASE Quiet
  BY <1>0, <1>1, QuietAccount
<1>2. ASSUME NEW c \in Call, Books(c)
      PROVE  /\ budget'[k].reserved = Estimates(InKey(Open, k))'
             /\ budget'[k].spent = SumFor(charged, SettledIn(k))'
  <2>1. /\ k = LedgerKeyOf[c] => /\ budget'[k].reserved = budget[k].reserved + EstimateOf[c]
                           /\ budget'[k].spent = budget[k].spent
        /\ k # LedgerKeyOf[c] => budget'[k] = budget[k]
    BY <1>2, BookedRow DEF Books
  <2> QED
    BY <1>0, <1>2, <2>1, BookAccount
<1>3. ASSUME NEW c \in Call, Closes(c)
      PROVE  /\ budget'[k].reserved = Estimates(InKey(Open, k))'
             /\ budget'[k].spent = SumFor(charged, SettledIn(k))'
  <2>1. charged[c] \in Nat /\ Close(c, charged[c])
    BY <1>3 DEF LedgerTypeOK, Closes
  <2>2. /\ k = LedgerKeyOf[c] => /\ budget'[k].reserved = Minus(budget[k].reserved, EstimateOf[c])
                           /\ budget'[k].spent = budget[k].spent + charged[c]
        /\ k # LedgerKeyOf[c] => budget'[k] = budget[k]
    BY <2>1, ClosedRow
  <2>3. CASE k = LedgerKeyOf[c]
    <3>1. Estimates(InKey(Open, k)) = Estimates(InKey(Open, k))' + EstimateOf[c]
      BY <1>3, <2>3, CloseAccount
    <3>2. SumFor(charged, SettledIn(k))' = SumFor(charged, SettledIn(k)) + charged[c]
      BY <1>3, <2>3, CloseAccount
    <3>3. Estimates(InKey(Open, k))' \in Nat /\ EstimateOf[c] \in Nat
      BY EstimatesStayNat, CallsAssumption
    <3>4. EstimateOf[c] <= budget[k].reserved
      BY <1>0, <3>1, <3>3
    <3>5. budget'[k].reserved = budget[k].reserved - EstimateOf[c]
      <4>1. budget[k].reserved \in Nat
        BY <1>0
      <4>2. Minus(budget[k].reserved, EstimateOf[c]) = budget[k].reserved - EstimateOf[c]
        BY <3>3, <3>4, <4>1, MinusIsNat
      <4> QED
        BY <2>2, <2>3, <4>2
    <3> QED
      BY <1>0, <2>2, <2>3, <3>1, <3>2, <3>3, <3>5
  <2>4. CASE k # LedgerKeyOf[c]
    BY <1>0, <1>3, <2>2, <2>4, CloseAccount
  <2> QED
    BY <2>3, <2>4
<1>4. ASSUME NEW p \in Reaper, ReapCommit(p)
      PROVE  /\ budget'[k].reserved = Estimates(InKey(Open, k))'
             /\ budget'[k].spent = SumFor(charged, SettledIn(k))'
  <2>1. /\ budget'[k].reserved = Minus(budget[k].reserved, Estimates(InKey(batch[p], k)))
        /\ budget'[k].spent = budget[k].spent
    BY <1>4, ReapedRows
  <2>2. /\ Estimates(InKey(Open, k)) = Estimates(InKey(Open, k))' + Estimates(InKey(batch[p], k))
        /\ SumFor(charged, SettledIn(k))' = SumFor(charged, SettledIn(k))
    BY <1>4, ReapAccount
  <2>3. Estimates(InKey(Open, k))' \in Nat
    BY EstimatesStayNat
  <2>4. Estimates(InKey(batch[p], k)) \in Nat
    <3>1. InKey(batch[p], k) \in SUBSET Call
      BY DEF InKey, LedgerTypeOK
    <3> QED
      BY <3>1, EstimatesAreNat
  <2>5. Estimates(InKey(batch[p], k)) <= budget[k].reserved
    BY <1>0, <2>2, <2>3, <2>4
  <2>6. budget'[k].reserved = budget[k].reserved - Estimates(InKey(batch[p], k))
    BY <1>0, <2>1, <2>4, <2>5, MinusIsNat
  <2> QED
    BY <1>0, <2>1, <2>2, <2>3, <2>4, <2>6
<1>5. CASE Idles
  BY <1>1, <1>5 DEF Idles, Quiet, LedgerTypeOK
<1>6. ASSUME NEW c \in Call, CallStep(c)
      PROVE  Books(c) \/ Closes(c) \/ Quiet
  BY <1>6, CallSteps
<1> QED
  BY <1>1, <1>2, <1>3, <1>4, <1>5, <1>6, OtherSteps

LEMMA NextKeepsLimits ==
  LedgerTypeOK /\ LedgerTypeOK' /\ BudgetInv /\ LedgerBalances /\ NoOversubscription /\ [LedgerNext]_budgetVars
    => NoOversubscription'
<1> SUFFICES ASSUME LedgerTypeOK, LedgerTypeOK', BudgetInv, LedgerBalances, NoOversubscription, [LedgerNext]_budgetVars,
                    NEW k \in LedgerKey, budget'[k].limit \notin {NoLimit, Absent}
             PROVE  budget'[k].spent + budget'[k].reserved
                      < budget'[k].limit + SumFor(Overrun, SettledIn(k))'
  BY DEF NoOversubscription
<1> DEFINE over == SumFor(Overrun, SettledIn(k))
<1>0. /\ budget[k].reserved \in Nat /\ budget[k].spent \in Nat /\ over \in Nat
      /\ budget[k].limit \in Limit /\ budget'[k].limit \in Nat
      /\ budget'[k].reserved \in Nat /\ budget'[k].spent \in Nat
  BY Accounts DEF LedgerTypeOK, Limit
<1>1. budget[k].limit \notin {NoLimit, Absent} =>
        budget[k].limit \in Nat /\ budget[k].spent + budget[k].reserved < budget[k].limit + over
  BY <1>0 DEF NoOversubscription, Limit
<1> HIDE DEF over
<1>2. CASE Quiet
  BY <1>1, <1>2, QuietAccount DEF over
<1>3. ASSUME NEW c \in Call, Books(c)
      PROVE  budget'[k].spent + budget'[k].reserved < budget'[k].limit + over'
  <2>1. over' = over
    BY <1>3, BookAccount DEF over
  <2>2. CASE k = LedgerKeyOf[c]
    <3>1. /\ budget'[k].limit = LimitOf[c] /\ budget'[k].spent = budget[k].spent
          /\ budget'[k].reserved = budget[k].reserved + EstimateOf[c]
      BY <1>3, <2>2, BookedRow DEF Books
    <3>2. Fits(LimitOf[c], budget[k].spent + budget[k].reserved + EstimateOf[c])
      BY <1>3, <2>2 DEF Books, Admissible
    <3>3. budget[k].spent + budget[k].reserved + EstimateOf[c] < budget'[k].limit
      BY <3>1, <3>2 DEF Fits
    <3>4. EstimateOf[c] \in Nat
      BY CallsAssumption
    <3> QED
      BY <1>0, <2>1, <3>1, <3>3, <3>4
  <2>3. CASE k # LedgerKeyOf[c]
    <3>1. budget'[k] = budget[k]
      BY <1>3, <2>3, BookedRow DEF Books
    <3> QED
      BY <1>1, <2>1, <3>1
  <2> QED
    BY <2>2, <2>3
<1>4. ASSUME NEW c \in Call, Closes(c)
      PROVE  budget'[k].spent + budget'[k].reserved < budget'[k].limit + over'
  <2>1. charged[c] \in Nat /\ Close(c, charged[c]) /\ EstimateOf[c] \in Nat
    BY <1>4, CallsAssumption DEF LedgerTypeOK, Closes
  <2>2. CASE k = LedgerKeyOf[c]
    <3>1. /\ budget'[k].limit = budget[k].limit
          /\ budget'[k].reserved = Minus(budget[k].reserved, EstimateOf[c])
          /\ budget'[k].spent = budget[k].spent + charged[c]
      BY <2>1, <2>2, ClosedRow
    <3>2. over' = over + Overrun[c]
      BY <1>4, <2>2, CloseAccount DEF over
    <3>3. Overrun[c] \in Nat /\ charged[c] <= EstimateOf[c] + Overrun[c]
      BY <2>1 DEF Overrun, Minus
    <3>4. EstimateOf[c] <= budget[k].reserved
      <4>1. Estimates(InKey(Open, k)) = Estimates(InKey(Open, k))' + EstimateOf[c]
        BY <1>4, <2>2, CloseAccount
      <4>2. Estimates(InKey(Open, k))' \in Nat
        BY EstimatesStayNat
      <4>3. budget[k].reserved = Estimates(InKey(Open, k))
        BY DEF LedgerBalances
      <4> QED
        BY <1>0, <2>1, <4>1, <4>2, <4>3
    <3>5. budget'[k].reserved = budget[k].reserved - EstimateOf[c]
      BY <1>0, <2>1, <3>1, <3>4, MinusIsNat
    <3>6. budget[k].spent + budget[k].reserved < budget'[k].limit + over
      BY <1>1, <3>1
    <3> QED
      BY <1>0, <2>1, <3>1, <3>2, <3>3, <3>5, <3>6
  <2>3. CASE k # LedgerKeyOf[c]
    <3>1. budget'[k] = budget[k] /\ over' = over
      BY <1>4, <2>1, <2>3, ClosedRow, CloseAccount DEF over
    <3> QED
      BY <1>1, <3>1
  <2> QED
    BY <2>2, <2>3
<1>5. ASSUME NEW p \in Reaper, ReapCommit(p)
      PROVE  budget'[k].spent + budget'[k].reserved < budget'[k].limit + over'
  <2>1. /\ budget'[k].limit = budget[k].limit /\ budget'[k].spent = budget[k].spent
        /\ budget'[k].reserved = Minus(budget[k].reserved, Estimates(InKey(batch[p], k)))
    BY <1>5, ReapedRows
  <2>2. over' = over
    BY <1>5, ReapAccount DEF over
  <2>3. budget'[k].reserved <= budget[k].reserved
    <3>1. InKey(batch[p], k) \in SUBSET Call
      BY DEF InKey, LedgerTypeOK
    <3>2. Estimates(InKey(batch[p], k)) \in Nat
      BY <3>1, EstimatesAreNat
    <3> QED
      BY <1>0, <2>1, <3>2 DEF Minus
  <2> QED
    BY <1>0, <1>1, <2>1, <2>2, <2>3
<1>6. CASE Idles
  BY <1>2, <1>6 DEF Idles, Quiet, LedgerTypeOK
<1>7. ASSUME NEW c \in Call, CallStep(c)
      PROVE  Books(c) \/ Closes(c) \/ Quiet
  BY <1>7, CallSteps
<1> QED
  BY <1>2, <1>3, <1>4, <1>5, <1>6, <1>7, OtherSteps DEF over

-----------------------------------------------------------------------------
(* Usage *)

\* What a call knows of its reservation.
UsageOf(c) ==
  /\ pc[c] \in {"calling", "settling", "releasing"} => reservation[c] # "none"
  /\ reservation[c] = "reaped" => lapsed[c]
  /\ pc[c] = "done" => \/ reservation[c] = "settled"
                       \/ reservation[c] = "reaped" /\ lapsed[c]

LapsedInv == \A p \in Reaper : \A c \in batch[p] : lapsed[c]

LEMMA UsageParts ==
  UsageInv /\ LostUsageIsLate <=> LapsedInv /\ \A c \in Call : UsageOf(c)
BY DEF UsageInv, LostUsageIsLate, LapsedInv, UsageOf

LEMMA CallKeepsUsage ==
  ASSUME LedgerTypeOK, NEW c \in Call, CallStep(c), \A i \in Call : UsageOf(i)
  PROVE  UNCHANGED <<lapsed, batch>> /\ \A i \in Call : UsageOf(i)'
<1> USE DEF Goto, ledgerVars, reaperVars
<1> DEFINE Changed ==
             /\ UNCHANGED <<lapsed, batch>>
             /\ \A i \in Call \ {c} : pc'[i] = pc[i] /\ reservation'[i] = reservation[i]
             /\ UsageOf(c)'
<1>1. ASSUME Changed
      PROVE  UNCHANGED <<lapsed, batch>> /\ \A i \in Call : UsageOf(i)'
  BY <1>1 DEF UsageOf
<1> USE DEF UsageOf, LedgerTypeOK, Pc
<1>2. Ask(c) => Changed
  BY DEF Ask
<1>3. ReadHalt(c) => Changed
  BY DEF ReadHalt
<1>4. Reserve(c) => Changed
  BY DEF Reserve, Book
<1>5. (\E amount \in Charges : Answer(c, amount)) => Changed
  BY DEF Answer
<1>6. ProviderFails(c) => Changed
  BY DEF ProviderFails
<1>7. SettleUsage(c) => Changed
  BY DEF SettleUsage, Settled, Close
<1>8. SettleNothing(c) => Changed
  BY DEF SettleNothing, Settled, Close
<1>9. Crash(c) => Changed
  BY DEF Crash
<1> HIDE DEF Changed
<1> QED
  BY <1>1, <1>2, <1>3, <1>4, <1>5, <1>6, <1>7, <1>8, <1>9 DEF CallStep

\* Only what has lapsed is reaped, and a lapse is not taken back.
LEMMA NextUsage ==
  ASSUME LedgerTypeOK, BudgetInv, UsageInv, LostUsageIsLate, [LedgerNext]_budgetVars
  PROVE  UsageInv' /\ LostUsageIsLate'
<1>0. LapsedInv /\ \A c \in Call : UsageOf(c)
  BY UsageParts
<1> SUFFICES LapsedInv' /\ \A c \in Call : UsageOf(c)'
  BY UsageParts DEF UsageInv, LostUsageIsLate, LapsedInv, UsageOf
<1>1. ASSUME NEW c \in Call, CallStep(c)
      PROVE  LapsedInv' /\ \A i \in Call : UsageOf(i)'
  <2>1. UNCHANGED <<lapsed, batch>> /\ \A i \in Call : UsageOf(i)'
    BY <1>0, <1>1, CallKeepsUsage
  <2> QED
    BY <1>0, <2>1 DEF LapsedInv
<1>2. ASSUME UNCHANGED <<pc, reservation>>, \A c \in Call : lapsed[c] => lapsed'[c]
      PROVE  \A c \in Call : UsageOf(c)'
  BY <1>0, <1>2 DEF UsageOf
<1>3. ASSUME NEW c \in Call, Expire(c)
      PROVE  LapsedInv' /\ \A i \in Call : UsageOf(i)'
  <2>1. \A i \in Call : lapsed[i] => lapsed'[i]
    BY <1>3 DEF Expire, LedgerTypeOK
  <2>2. \A p \in Reaper : batch[p] \subseteq Call /\ batch'[p] = batch[p]
    BY <1>3 DEF Expire, reaperVars, LedgerTypeOK
  <2>3. LapsedInv'
    BY <1>0, <2>1, <2>2 DEF LapsedInv
  <2> QED
    BY <1>2, <1>3, <2>1, <2>3 DEF Expire, callVars
<1>4. ASSUME NEW k \in LedgerKey, Halt(k)
      PROVE  LapsedInv' /\ \A i \in Call : UsageOf(i)'
  BY <1>0, <1>2, <1>4 DEF Halt, callVars, reaperVars, LapsedInv
<1>5. ASSUME NEW p \in Reaper, ReapCommit(p)
      PROVE  LapsedInv' /\ \A i \in Call : UsageOf(i)'
  <2>1. /\ \A c \in Call : reservation'[c] = IF c \in batch[p] THEN "reaped" ELSE reservation[c]
        /\ \A c \in batch[p] : lapsed[c] /\ reservation[c] = "open"
        /\ UNCHANGED <<pc, lapsed>>
    BY <1>0, <1>5 DEF ReapCommit, callVars, LapsedInv, BudgetInv, Open
  <2>2. \A i \in Call : UsageOf(i)'
    BY <1>0, <2>1 DEF UsageOf
  <2>3. \A q \in Reaper : batch'[q] \subseteq batch[q]
    BY <1>5 DEF ReapCommit, Released, LedgerTypeOK
  <2> QED
    BY <1>0, <2>1, <2>2, <2>3 DEF LapsedInv
<1>6. ASSUME NEW p \in Reaper,
             \/ ReapSelect(p) \/ ReapAbort(p)
             \/ \E c \in Call : ReapRow(p, c)
      PROVE  LapsedInv' /\ \A i \in Call : UsageOf(i)'
  <2>1. UNCHANGED <<pc, reservation, lapsed>>
    BY <1>6 DEF ReapSelect, ReapAbort, ReapRow, callVars, ledgerVars
  <2>2. \A q \in Reaper : \A c \in batch'[q] : c \in batch[q] \/ lapsed[c]
    BY <1>6 DEF ReapSelect, ReapAbort, ReapRow, LedgerTypeOK
  <2> QED
    BY <1>0, <1>2, <2>1, <2>2 DEF LapsedInv
<1>7. CASE UNCHANGED budgetVars
  BY <1>0, <1>2, <1>7 DEF budgetVars, LapsedInv
<1> QED
  BY <1>1, <1>3, <1>4, <1>5, <1>6, <1>7 DEF LedgerNext, ReaperStep

\* A sum in which one more thing counts.
LEMMA SumOfCharge ==
  ASSUME NEW S, IsFiniteSet(S), NEW w, NEW v, NEW x \in S, w[x] = 0,
         \A y \in S : w[y] \in Nat /\ v[y] \in Nat, \A y \in S \ {x} : v[y] = w[y]
  PROVE  SumOf(v, S) = SumOf(w, S) + v[x]
<1>1. /\ IsFiniteSet(S \ {x}) /\ \A y \in S : w[y] \in Int /\ v[y] \in Int
  BY FS_RemoveElement
<1>2. SumOf(v, S \ {x}) = SumOf(w, S \ {x}) /\ SumOf(w, S \ {x}) \in Int
  BY <1>1, SumOfSame, SumOfInt
<1>3. SumOf(v, S) = v[x] + SumOf(v, S \ {x})
  BY <1>1, SumOfRemove
<1>4. SumOf(w, S) = w[x] + SumOf(w, S \ {x})
  BY <1>1, SumOfRemove
<1> QED
  BY <1>1, <1>2, <1>3, <1>4

\* The tracker is told of a charge in the step in which the call learns of it.
LEMMA NextTrackers ==
  ASSUME LedgerTypeOK, LedgerTypeOK', BudgetInv, TrackersAgree, [LedgerNext]_budgetVars
  PROVE  TrackersAgree'
<1> DEFINE Of(p) == {c \in Call : ProcessOf[c] = p}
<1>0. /\ \A p \in Process : tracked[p] = SumOf(charged, Of(p))
      /\ \A p : SumFor(charged, Of(p))' = SumOf(charged', Of(p))
      /\ \A p : IsFiniteSet(Of(p)) /\ Of(p) \subseteq Call
  <2>1. \A p : IsFiniteSet(Of(p)) /\ Of(p) \subseteq Call
    BY CallsAssumption, FS_Subset
  <2> QED
    BY <2>1, SumsForAreSums DEF TrackersAgree
<1> SUFFICES ASSUME NEW p \in Process
             PROVE  tracked'[p] = SumOf(charged', Of(p))
  BY <1>0 DEF TrackersAgree
<1> HIDE DEF Of
<1>1. CASE UNCHANGED <<charged, tracked>>
  BY <1>0, <1>1
<1>2. ASSUME NEW c \in Call, NEW amount \in Charges, Answer(c, amount)
      PROVE  tracked'[p] = SumOf(charged', Of(p))
  <2>1. /\ charged[c] = 0 /\ charged'[c] = amount
        /\ \A i \in Call : charged[i] \in Nat /\ charged'[i] \in Nat
        /\ \A i \in Call \ {c} : charged'[i] = charged[i]
    BY <1>2 DEF Answer, BudgetInv, LedgerTypeOK
  <2>2. CASE ProcessOf[c] = p
    <3>1. tracked'[p] = tracked[p] + amount
      BY <1>2, <2>2 DEF Answer, LedgerTypeOK
    <3>2. c \in Of(p)
      BY <2>2 DEF Of
    <3>3. SumOf(charged', Of(p)) = SumOf(charged, Of(p)) + amount
      BY <1>0, <2>1, <3>2, SumOfCharge
    <3> QED
      BY <1>0, <3>1, <3>3
  <2>3. CASE ProcessOf[c] # p
    <3>1. tracked'[p] = tracked[p]
      BY <1>2, <2>3, CallsAssumption DEF Answer, LedgerTypeOK
    <3>2. \A i \in Of(p) : charged'[i] = charged[i]
      BY <2>1, <2>3 DEF Of
    <3> QED
      BY <1>0, <3>1, <3>2, SumOfSame
  <2> QED
    BY <2>2, <2>3
<1>3. ASSUME ~\E c \in Call, amount \in Charges : Answer(c, amount)
      PROVE  UNCHANGED <<charged, tracked>>
  BY <1>3 DEF LedgerNext, budgetVars, CallStep, Ask, ReadHalt, Reserve, ProviderFails, SettleUsage,
      SettleNothing, Crash, Expire, Halt, ReaperStep, ReapSelect, ReapAbort, ReapRow, ReapCommit,
      callVars
<1> QED
  BY <1>1, <1>2, <1>3

-----------------------------------------------------------------------------
(* All of it *)

\* Whatever workers, reapers and crashes do, the columns of a budget add up to its
\* reservations, no key is committed beyond its limit, and no charge of a call that is in
\* time is lost to the ledger or to the tracker.
THEOREM LedgerIsSafe == LedgerSpec => []LedgerSafety
<1>1. LedgerInit => LedgerSafety
  <2> SUFFICES ASSUME LedgerInit
               PROVE  LedgerSafety
    OBVIOUS
  <2>1. LedgerTypeOK
    BY CallsAssumption DEF LedgerInit, LedgerTypeOK, Pc, Limit
  <2>2. BudgetInv
    BY DEF LedgerInit, BudgetInv, Open
  <2>3. \A k : InKey(Open, k) = {} /\ SettledIn(k) = {}
    BY DEF LedgerInit, InKey, Open, SettledIn
  <2>4. Estimates({}) = 0 /\ SumFor(charged, {}) = 0 /\ SumFor(Overrun, {}) = 0
    BY SumOfEmpty, EstimatesAreSums, SumsForAreSums
  <2>5. LedgerBalances /\ NoOversubscription
    BY <2>3, <2>4 DEF LedgerInit, LedgerBalances, NoOversubscription
  <2>6. UsageInv /\ LostUsageIsLate
    BY DEF LedgerInit, UsageInv, LostUsageIsLate
  <2>7. TrackersAgree
    <3> SUFFICES ASSUME NEW p \in Process
                 PROVE  SumFor(charged, {c \in Call : ProcessOf[c] = p}) = 0
      BY DEF LedgerInit, TrackersAgree
    <3>1. /\ IsFiniteSet({c \in Call : ProcessOf[c] = p})
          /\ \A c \in {c \in Call : ProcessOf[c] = p} : charged[c] = 0
      BY CallsAssumption, FS_Subset DEF LedgerInit
    <3>2. SumOf(charged, {c \in Call : ProcessOf[c] = p}) = 0
      BY <3>1, SumOfZeros
    <3> QED
      BY <3>2, SumsForAreSums
  <2> QED
    BY <2>1, <2>2, <2>5, <2>6, <2>7 DEF LedgerSafety
<1>2. LedgerSafety /\ [LedgerNext]_budgetVars => LedgerSafety'
  BY NextTypes, NextBudgetInv, NextBalances, NextKeepsLimits, NextUsage, NextTrackers
     DEF LedgerSafety
<1> QED
  BY <1>1, <1>2, PTL DEF LedgerSpec

-----------------------------------------------------------------------------
(* Limits and halts *)

\* A budget keeps the limit it was made with, and once what had passed the halt check is
\* through, a halted key admits nothing.
THEOREM LimitsAndHaltsAreKept == LedgerSpec => LimitsAndHaltsHold
<1> DEFINE LimitStays(k) == budget[k].limit # Absent => budget'[k].limit = budget[k].limit
           Drains(k) == (halted[k] /\ ~Passed(k)) =>
                          /\ halted'[k] /\ ~Passed(k)'
                          /\ InKey(Open, k)' \subseteq InKey(Open, k)
<1>1. ASSUME LedgerTypeOK, BudgetInv, [LedgerNext]_budgetVars, NEW k \in LedgerKey
      PROVE  LimitStays(k)
  <2>1. ASSUME NEW c \in Call, Books(c)
        PROVE  LimitStays(k)
    <3>1. budget[LedgerKeyOf[c]].limit \in {Absent, LimitOf[c]}
      BY <1>1, <2>1 DEF Books, Admissible
    <3> QED
      BY <1>1, <2>1, <3>1, BookedRow DEF Books
  <2>2. ASSUME NEW c \in Call, Closes(c)
        PROVE  LimitStays(k)
    <3>1. charged[c] \in Nat
      BY <1>1 DEF LedgerTypeOK
    <3> QED
      BY <1>1, <2>2, <3>1, ClosedRow DEF Closes
  <2>3. ASSUME NEW c \in Call, CallStep(c)
        PROVE  LimitStays(k)
    BY <1>1, <2>1, <2>2, <2>3, CallSteps DEF Quiet
  <2>4. ASSUME NEW p \in Reaper, ReapCommit(p)
        PROVE  LimitStays(k)
    BY <1>1, <2>4, ReapedRows
  <2> QED
    BY <1>1, <2>3, <2>4, OtherSteps DEF Idles
<1>2. ASSUME LedgerTypeOK, BudgetInv, [LedgerNext]_budgetVars, NEW k \in LedgerKey, halted[k], ~Passed(k)
      PROVE  halted'[k] /\ ~Passed(k)' /\ InKey(Open, k)' \subseteq InKey(Open, k)
  <2>0. \A c \in Call : LedgerKeyOf[c] = k => pc[c] # "admitting"
    BY <1>2 DEF Passed
  <2>1. ASSUME NEW c \in Call, Books(c)
        PROVE  halted'[k] /\ ~Passed(k)' /\ InKey(Open, k)' \subseteq InKey(Open, k)
    <3>1. LedgerKeyOf[c] # k
      BY <2>0, <2>1 DEF Books
    <3> QED
      BY <1>2, <2>0, <2>1, <3>1 DEF Books, Book, Passed, InKey, Open, LedgerTypeOK
  <2>2. ASSUME NEW c \in Call, Closes(c)
        PROVE  halted'[k] /\ ~Passed(k)' /\ InKey(Open, k)' \subseteq InKey(Open, k)
    BY <1>2, <2>0, <2>2 DEF Closes, Close, Passed, InKey, Open, LedgerTypeOK
  <2>3. ASSUME NEW c \in Call, CallStep(c), ~Books(c), ~Closes(c)
        PROVE  halted'[k] /\ ~Passed(k)' /\ InKey(Open, k)' \subseteq InKey(Open, k)
    <3>1. /\ halted' = halted /\ reservation' = reservation
          /\ \E state \in Pc : /\ pc' = [pc EXCEPT ![c] = state]
                               /\ state = "admitting" => ~halted[LedgerKeyOf[c]]
      BY <1>2, <2>3, CallSteps DEF Quiet
    <3>2. InKey(Open, k)' = InKey(Open, k)
      BY <3>1 DEF InKey, Open
    <3>3. ~Passed(k)'
      BY <1>2, <2>0, <3>1 DEF Passed, LedgerTypeOK
    <3> QED
      BY <1>2, <3>1, <3>2, <3>3
  <2>4. ASSUME NEW p \in Reaper, ReapCommit(p)
        PROVE  halted'[k] /\ ~Passed(k)' /\ InKey(Open, k)' \subseteq InKey(Open, k)
    BY <1>2, <2>0, <2>4 DEF ReapCommit, callVars, Passed, InKey, Open, LedgerTypeOK
  <2>5. CASE Idles
    <3>1. halted'[k]
      BY <1>2, <2>5
      DEF LedgerNext, budgetVars, CallStep, Expire, Halt, ReaperStep, ReapSelect, ReapAbort, ReapRow,
          ReapCommit, Ask, ReadHalt, Reserve, Answer, ProviderFails, SettleUsage, SettleNothing,
          Crash, ledgerVars, LedgerTypeOK
    <3> QED
      BY <1>2, <2>0, <2>5, <3>1 DEF Idles, Passed, InKey, Open
  <2> QED
    BY <1>2, <2>1, <2>2, <2>3, <2>4, <2>5, OtherSteps
<1>3. LedgerTypeOK /\ BudgetInv /\ [LedgerNext]_budgetVars => [\A k \in LedgerKey : LimitStays(k)]_budgetVars
  BY <1>1
<1>4. LedgerTypeOK /\ BudgetInv /\ [LedgerNext]_budgetVars => [\A k \in LedgerKey : Drains(k)]_budgetVars
  BY <1>2
<1> QED
  BY <1>3, <1>4, LedgerIsSafe, PTL
  DEF LedgerSpec, LedgerSafety, LimitsAndHaltsHold, LimitIsFixed, HaltDrains

=============================================================================
