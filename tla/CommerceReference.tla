------------------------- MODULE CommerceReference --------------------------
(***************************************************************************)
(* InMemoryCommerceReference of packages/commerce/src/index.ts, the        *)
(* deterministic merchant that contract tests and journeys run against.    *)
(*                                                                         *)
(* Every method is synchronous, so every method is one action, and a       *)
(* method that throws changes nothing and is no action at all.  What can   *)
(* go wrong is a sequence of calls: checkouts, refunds, cancellations and  *)
(* returns, each with an idempotency key, share the payment of an order,   *)
(* the stock of a product and the points of a customer.                    *)
(*                                                                         *)
(* The customers are those of one tenant, which scopes the keys.  Amounts  *)
(* are minor units of one currency.                                        *)
(***************************************************************************)
EXTENDS Integers, FiniteSets, Sequences, FiniteSetsExt

CONSTANTS
  Sku, Customer,
  Key,             \* idempotency keys that callers use
  RefundKeyOf,     \* RefundKeyOf[k]: the key `${k}:refund` that a cancellation uses,
                   \* which a caller may have used too
  Price, OnHand,   \* [Sku -> Nat]: seedProduct
  Reason,          \* reasons of cancellations
  MaxQuantity,     \* bound: units of a product in a cart
  MaxCarts,        \* bound: carts created
  MaxReturns       \* bound: returns requested

ASSUME ShopAssumption ==
  /\ IsFiniteSet(Sku) /\ IsFiniteSet(Key)
  /\ \A k1, k2 \in Key : RefundKeyOf[k1] = RefundKeyOf[k2] => k1 = k2
  /\ Price \in [Sku -> Nat] /\ OnHand \in [Sku -> Nat]
  /\ MaxQuantity \in Nat /\ MaxCarts \in Nat /\ MaxReturns \in Nat

VARIABLES
  shopCarts,      \* carts in the order of their ids
  shopOrders,     \* orders, each with its payment
  shopCommitted,  \* [Sku -> Nat]: inventory.committed
  shopPoints,     \* [Customer -> Nat]: the balance of the loyalty account
  shopRefunds,    \* refunds in the order of their ids
  shopReturns,    \* returns requested
  checkoutMemo, refundMemo, cancelMemo, returnMemo
                  \* the four idempotency tables: sets of records

shopVars == <<shopCarts, shopOrders, shopCommitted, shopPoints, shopRefunds,
              shopReturns, checkoutMemo, refundMemo, cancelMemo, returnMemo>>

-----------------------------------------------------------------------------
Lines == [Sku -> Nat]
NoLines == [s \in Sku |-> 0]

\* The sum of amounts[x] over the members of a set.
SumOver(amounts, S) == MapThenSumSet(LAMBDA x : amounts[x], S)

\* Subtotal: the line totals are quantity times unit price, and sum up.
TotalOf(lines) == SumOver([s \in Sku |-> lines[s] * Price[s]], Sku)

\* A point per hundred minor units, and one at least.
PointsFor(total) == Max({1, total \div 100})

CartRec == [owner : Customer, lines : Lines, status : {"open", "checked_out"}]

OrderRec == [owner    : Customer,
             cart     : Nat,
             lines    : Lines,
             total    : Nat,       \* payment.amount
             refunded : Nat,       \* payment.refunded_amount
             payment  : {"captured", "partially_refunded", "refunded"},
             status   : {"paid", "refunded", "cancelled"}]

ShopTypeOK ==
  /\ shopCarts \in Seq(CartRec)
  /\ shopOrders \in Seq(OrderRec)
  /\ shopCommitted \in [Sku -> Nat]
  /\ shopPoints \in [Customer -> Nat]
  /\ shopRefunds \in Seq([order : Nat, amount : Nat])
  /\ \A m \in checkoutMemo \cup cancelMemo \cup returnMemo : m.key \in Key
  /\ \A m \in refundMemo : m.key \in Key \cup {RefundKeyOf[k] : k \in Key}
  /\ Cardinality(checkoutMemo) = Len(shopOrders)
  /\ Cardinality(refundMemo) = Len(shopRefunds)

ShopInit ==
  /\ shopCarts = <<>>
  /\ shopOrders = <<>>
  /\ shopCommitted = [s \in Sku |-> 0]
  /\ shopPoints = [c \in Customer |-> 0]
  /\ shopRefunds = <<>>
  /\ shopReturns = {}
  /\ checkoutMemo = {} /\ refundMemo = {} /\ cancelMemo = {} /\ returnMemo = {}

-----------------------------------------------------------------------------
(* Idempotency: a known key answers what it answered, for the same payload *)

Known(memo, key) == \E m \in memo : m.key = key

\* The call is answered from the table, without an effect.
Replay(memo, key, payload) ==
  /\ \E m \in memo : m.key = key /\ m.payload = payload
  /\ UNCHANGED shopVars

-----------------------------------------------------------------------------
CreateCart(c) ==
  /\ Len(shopCarts) < MaxCarts
  /\ shopCarts' = Append(shopCarts, [owner |-> c, lines |-> NoLines, status |-> "open"])
  /\ UNCHANGED <<shopOrders, shopCommitted, shopPoints, shopRefunds, shopReturns,
                 checkoutMemo, refundMemo, cancelMemo, returnMemo>>

\* authorizeCart: carts of others are not found.
OwnCart(c, i) == i \in DOMAIN shopCarts /\ shopCarts[i].owner = c

AddLine(c, i, s, quantity) ==
  /\ OwnCart(c, i)
  /\ shopCarts[i].status = "open"
  /\ shopCarts[i].lines[s] + quantity <= MaxQuantity
  /\ shopCarts' = [shopCarts EXCEPT ![i].lines[s] = @ + quantity]
  /\ UNCHANGED <<shopOrders, shopCommitted, shopPoints, shopRefunds, shopReturns,
                 checkoutMemo, refundMemo, cancelMemo, returnMemo>>

-----------------------------------------------------------------------------
(* checkout *)

CheckoutPayload(c, i) == <<c, i, shopCarts[i].lines>>

\* Mutant: each line is tested against what is on hand, not what is left.
InStock_OnHand(lines) == \A s \in Sku : lines[s] > 0 => OnHand[s] >= lines[s]

InStock(lines) == \A s \in Sku : lines[s] > 0 => OnHand[s] - shopCommitted[s] >= lines[s]

\* Mutant: the account starts again with every order.
EarnPoints_Reset(c, total) == shopPoints' = [shopPoints EXCEPT ![c] = PointsFor(total)]

EarnPoints(c, total) == shopPoints' = [shopPoints EXCEPT ![c] = @ + PointsFor(total)]

\* Mutant: the cart stays open.
CloseCart_Open(i) == UNCHANGED shopCarts

CloseCart(i) == shopCarts' = [shopCarts EXCEPT ![i].status = "checked_out"]

PlaceOrder(c, i, key) ==
  LET lines == shopCarts[i].lines
      total == TotalOf(lines)
  IN /\ shopCarts[i].status = "open"
     /\ lines # NoLines
     /\ InStock(lines)
     /\ shopOrders' = Append(shopOrders,
          [owner |-> c, cart |-> i, lines |-> lines, total |-> total, refunded |-> 0,
           payment |-> "captured", status |-> "paid"])
     /\ shopCommitted' = [s \in Sku |-> shopCommitted[s] + lines[s]]
     /\ EarnPoints(c, total)
     /\ CloseCart(i)
     /\ checkoutMemo' = checkoutMemo \cup {[key |-> key, payload |-> CheckoutPayload(c, i)]}
     /\ UNCHANGED <<shopRefunds, shopReturns, refundMemo, cancelMemo, returnMemo>>

Checkout(c, i, key) ==
  /\ OwnCart(c, i)
  /\ \/ Replay(checkoutMemo, key, CheckoutPayload(c, i))
     \/ ~Known(checkoutMemo, key) /\ PlaceOrder(c, i, key)

-----------------------------------------------------------------------------
(* refund and cancel *)

OwnOrder(c, o) == o \in DOMAIN shopOrders /\ shopOrders[o].owner = c

\* Mutant: only this refund is compared with the captured amount.
Refundable_Alone(o, amount) == amount <= shopOrders[o].total

Refundable(o, amount) == shopOrders[o].refunded + amount <= shopOrders[o].total

\* Mutant: the refund takes the place of earlier ones.
RefundedOrder_Reset(o, amount) ==
  [shopOrders[o] EXCEPT !.refunded = amount, !.payment = "partially_refunded"]

\* The order and its payment after a refund.
RefundedOrder(o, amount) ==
  LET refunded == shopOrders[o].refunded + amount
      full     == refunded = shopOrders[o].total
  IN [shopOrders[o] EXCEPT
        !.refunded = refunded,
        !.payment  = IF full THEN "refunded" ELSE "partially_refunded",
        !.status   = IF full THEN "refunded" ELSE @]

\* Mutant: the key of the refund is not kept.
RecordRefund_Forgotten(o, amount, key) ==
  shopRefunds' = Append(shopRefunds, [order |-> o, amount |-> amount]) /\ UNCHANGED refundMemo

RecordRefund(o, amount, key) ==
  /\ shopRefunds' = Append(shopRefunds, [order |-> o, amount |-> amount])
  /\ refundMemo' = refundMemo \cup {[key |-> key, payload |-> <<o, amount>>]}

Refund(c, o, amount, key) ==
  /\ OwnOrder(c, o)
  /\ amount > 0
  /\ \/ Replay(refundMemo, key, <<o, amount>>)
     \/ /\ ~Known(refundMemo, key)
        /\ Refundable(o, amount)
        /\ shopOrders' = [shopOrders EXCEPT ![o] = RefundedOrder(o, amount)]
        /\ RecordRefund(o, amount, key)
        /\ UNCHANGED <<shopCarts, shopCommitted, shopPoints, shopReturns,
                       checkoutMemo, cancelMemo, returnMemo>>

\* Mutant: the order is marked only.
CompensatedOrder_Unpaid(o, key) ==
  /\ shopOrders' = [shopOrders EXCEPT ![o].status = "cancelled"]
  /\ UNCHANGED <<shopRefunds, refundMemo>>

\* The whole amount is refunded under the derived key, or was under that key before.
CompensatedOrder(o, key) ==
  LET total == shopOrders[o].total
      rkey  == RefundKeyOf[key]
  IN \/ /\ [key |-> rkey, payload |-> <<o, total>>] \in refundMemo
        /\ shopOrders' = [shopOrders EXCEPT ![o].status = "cancelled"]
        /\ UNCHANGED <<shopRefunds, refundMemo>>
     \/ /\ ~Known(refundMemo, rkey)
        /\ Refundable(o, total)
        /\ shopOrders' = [shopOrders EXCEPT
             ![o] = [RefundedOrder(o, total) EXCEPT !.status = "cancelled"]]
        /\ RecordRefund(o, total, rkey)

Cancel(c, o, reason, key) ==
  /\ OwnOrder(c, o)
  /\ \/ Replay(cancelMemo, key, <<o, reason>>)
     \/ /\ ~Known(cancelMemo, key)
        /\ shopOrders[o].total > 0
        /\ CompensatedOrder(o, key)
        /\ cancelMemo' = cancelMemo \cup {[key |-> key, payload |-> <<o, reason>>]}
        /\ UNCHANGED <<shopCarts, shopCommitted, shopPoints, shopReturns,
                       checkoutMemo, returnMemo>>

-----------------------------------------------------------------------------
\* assertReturnRequestIntegrity: no line exceeds the order, the amount is positive.
Returnable(o, lines, amount) ==
  /\ lines # NoLines
  /\ \A s \in Sku : lines[s] <= shopOrders[o].lines[s]
  /\ amount > 0

RequestReturn(c, o, lines, amount, key) ==
  /\ OwnOrder(c, o)
  /\ Returnable(o, lines, amount)
  /\ \/ Replay(returnMemo, key, <<o, lines, amount>>)
     \/ /\ ~Known(returnMemo, key)
        /\ Cardinality(shopReturns) < MaxReturns
        /\ shopReturns' = shopReturns \cup {[order |-> o, lines |-> lines, amount |-> amount]}
        /\ returnMemo' = returnMemo \cup {[key |-> key, payload |-> <<o, lines, amount>>]}
        /\ UNCHANGED <<shopCarts, shopOrders, shopCommitted, shopPoints, shopRefunds,
                       checkoutMemo, refundMemo, cancelMemo>>

-----------------------------------------------------------------------------
Amounts == UNION {{shopOrders[o].total, shopOrders[o].total \div 2} : o \in DOMAIN shopOrders}

CartCall(c) ==
  \/ CreateCart(c)
  \/ \E i \in DOMAIN shopCarts :
       \/ \E s \in Sku, quantity \in 1..MaxQuantity : AddLine(c, i, s, quantity)
       \/ \E key \in Key : Checkout(c, i, key)

OrderCall(c) ==
  \E o \in DOMAIN shopOrders, key \in Key :
    \/ \E amount \in Amounts : Refund(c, o, amount, key)
    \/ \E reason \in Reason : Cancel(c, o, reason, key)
    \/ \E s \in Sku :
         RequestReturn(c, o, [NoLines EXCEPT ![s] = 1], shopOrders[o].total, key)

ShopNext == \E c \in Customer : CartCall(c) \/ OrderCall(c)

ShopSpec == ShopInit /\ [][ShopNext]_shopVars

-----------------------------------------------------------------------------
(* Properties *)

\* Stock is committed exactly once per order and never beyond what is on hand
\* (assertInventoryIntegrity, assertNoOversell): carts that were filled while the
\* stock was there do not oversell it.
StockMatchesOrders ==
  \A s \in Sku :
    /\ shopCommitted[s] = SumOver([o \in DOMAIN shopOrders |-> shopOrders[o].lines[s]],
                                  DOMAIN shopOrders)
    /\ shopCommitted[s] <= OnHand[s]

\* observeSettlement and assertSettlementIntegrity: the refunds that were made for an
\* order add up to what its payment says was refunded, never beyond what was captured,
\* and the status of a paid order's payment says which (assertPaymentIntegrity).
RefundsReconcile ==
  \A o \in DOMAIN shopOrders :
    LET made == {r \in DOMAIN shopRefunds : shopRefunds[r].order = o}
        paid == shopOrders[o]
    IN /\ SumOver([r \in DOMAIN shopRefunds |-> shopRefunds[r].amount], made) = paid.refunded
       /\ paid.refunded <= paid.total
       /\ paid.total > 0 =>
            paid.payment = IF paid.refunded = paid.total THEN "refunded"
                           ELSE IF paid.refunded > 0 THEN "partially_refunded" ELSE "captured"

\* A cancelled order was compensated in full, by one accepted cancellation.
CancelledIsCompensated ==
  \A o \in DOMAIN shopOrders : shopOrders[o].status = "cancelled" =>
    /\ shopOrders[o].refunded = shopOrders[o].total
    /\ \E m \in cancelMemo : m.payload[1] = o

\* A customer's points are those that their orders earned, once each: retries of a
\* checkout earn nothing.
PointsAreEarned ==
  \A c \in Customer :
    shopPoints[c] = SumOver([o \in DOMAIN shopOrders |-> PointsFor(shopOrders[o].total)],
                            {o \in DOMAIN shopOrders : shopOrders[o].owner = c})

\* A cart is sold once, to its owner, as it was, and a key stands for one checkout.
CartsSellOnce ==
  /\ \A o1, o2 \in DOMAIN shopOrders : shopOrders[o1].cart = shopOrders[o2].cart => o1 = o2
  /\ \A o \in DOMAIN shopOrders :
       LET cart == shopCarts[shopOrders[o].cart]
       IN cart.lines = shopOrders[o].lines /\ cart.owner = shopOrders[o].owner
  /\ \A m1, m2 \in checkoutMemo : m1.key = m2.key => m1 = m2

\* Why: a refund names an order that was placed, a key that is known has paid out what it
\* says, and the cart of an order is closed.
BooksAreKept ==
  /\ IsFiniteSet(checkoutMemo) /\ IsFiniteSet(refundMemo)
  /\ \A r \in DOMAIN shopRefunds : shopRefunds[r].order \in DOMAIN shopOrders
  /\ \A m \in refundMemo :
       /\ m.payload[1] \in DOMAIN shopOrders
       /\ m.payload[2] \in 1 .. shopOrders[m.payload[1]].refunded
  /\ \A o \in DOMAIN shopOrders :
       /\ shopOrders[o].cart \in DOMAIN shopCarts
       /\ shopCarts[shopOrders[o].cart].status = "checked_out"

\* The books of the shop agree: stock, payments, cancellations, points and carts.
ShopSafety ==
  /\ ShopTypeOK /\ BooksAreKept /\ StockMatchesOrders /\ RefundsReconcile
  /\ CancelledIsCompensated /\ PointsAreEarned /\ CartsSellOnce

\* What an order sold and cost never changes, and money that went back to the customer
\* stays with them; once cancelled an order stays so.
OrdersOnlyWindDown ==
  [][\A o \in DOMAIN shopOrders :
       LET before == shopOrders[o]
           after  == shopOrders'[o]
       IN /\ after.lines = before.lines /\ after.total = before.total
          /\ after.refunded >= before.refunded
          /\ before.status = "cancelled" => after = before]_shopVars

=============================================================================
