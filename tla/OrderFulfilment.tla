-------------------------- MODULE OrderFulfilment ---------------------------
(***************************************************************************)
(* From a captured payment to an order: handlePaymentSucceededEvent and    *)
(* everything that calls it (the payment event, the status poll of the     *)
(* return page, the catch-up scans at start, the two-minute sweep, the     *)
(* forced recovery).  Any number of these run at once, each suspended at   *)
(* every database call; at, target, left and taken are their local state.  *)
(*                                                                         *)
(* All lines are of one variant, one unit each, and come without a         *)
(* reservation, as createPayment leaves them.  Reserving and committing a  *)
(* line is one step: a reservation left in between expires (Reservation).  *)
(***************************************************************************)
EXTENDS Naturals, FiniteSets, Functions

CONSTANTS
  Payments,      (* payment documents                                      *)
  Checkouts,     (* checkout sessions                                      *)
  CheckoutOf,    (* payment -> the checkout it pays for                    *)
  CreatedAt,     (* payment -> when it was created                         *)
  Cod,           (* the payments made by cash on delivery                  *)
  Handlers,      (* runs of the handler that may be under way at once      *)
  OrderIds,      (* bound on the order documents ever made                 *)
  Lines,         (* the lines of every checkout                            *)
  InitialStock,  (* units on the shelf at the start                        *)
  ScanLimit,     (* payments the sweep looks at (200 in the code)          *)
  MaxRestarts,   (* bound on the restarts of the server                    *)
  MovesFail,     (* TRUE: a stock movement may fail at any time            *)
  UniqueLive     (* TRUE: the unique indexes on live orders are in force   *)

ASSUME FulfilmentConstants ==
  /\ CheckoutOf \in [Payments -> Checkouts]
  /\ CreatedAt \in [Payments -> Nat]
  /\ Cod \subseteq Payments
  /\ InitialStock \in Nat /\ ScanLimit \in Nat /\ MaxRestarts \in Nat
  /\ MovesFail \in BOOLEAN /\ UniqueLive \in BOOLEAN
  /\ Payments # {}
  /\ IsFiniteSet(Lines) /\ IsFiniteSet(OrderIds) /\ IsFiniteSet(Handlers)

VARIABLES
  payment,       (* payment -> open, paid or refunded                      *)
  unpublished,   (* payments whose success is saved but not yet published  *)
  published,     (* payments with a PaymentSucceeded event on record       *)
  orders,        (* order id -> the order document                         *)
  checkout,      (* checkout -> ready or completed                         *)
  stock,         (* units on the shelf                                     *)
  restarts,      (* restarts so far                                        *)
  at,            (* handler -> where it is suspended                       *)
  target,        (* handler -> the payment it handles                      *)
  left,          (* handler -> lines still to be taken from stock          *)
  taken          (* handler -> lines it took from stock                    *)

handling == << at, target, left, taken >>
fulfilVars ==
  << payment, unpublished, published, orders, checkout, stock, restarts, handling >>

HandlerSteps == {"idle", "check", "read", "checkout", "take", "create", "complete"}

AnyPayment == CHOOSE p \in Payments : TRUE
Gateway == Payments \ Cod

NoOrder == [payment |-> AnyPayment, state |-> "none", taken |-> {}]

Live == {o \in OrderIds : orders[o].state = "live"}
OrdersOf(p) == {o \in OrderIds : orders[o].state # "none" /\ orders[o].payment = p}
Free == {o \in OrderIds : orders[o].state = "none"}

LiveForPayment(p) == \E o \in Live : orders[o].payment = p
LiveForCheckout(c) == \E o \in Live : CheckoutOf[orders[o].payment] = c

Proceed(h, label) == at' = [at EXCEPT ![h] = label]

FulfilInit ==
  /\ payment     = [p \in Payments |-> "open"]
  /\ unpublished = Cod
  /\ published   = {}
  /\ orders      = [o \in OrderIds |-> NoOrder]
  /\ checkout    = [c \in Checkouts |-> "ready"]
  /\ stock       = InitialStock
  /\ restarts    = 0
  /\ at          = [h \in Handlers |-> "idle"]
  /\ target      = [h \in Handlers |-> AnyPayment]
  /\ left        = [h \in Handlers |-> {}]
  /\ taken       = [h \in Handlers |-> {}]

-----------------------------------------------------------------------------
(* A verified webhook, a browser return or a reconciliation saves PAID;    *)
(* the event is published later in the same request.  It may come twice.   *)
Capture(p) ==
  /\ p \in Gateway
  /\ payment' = [payment EXCEPT ![p] = "paid"]
  /\ unpublished' = unpublished \cup {p}
  /\ UNCHANGED << published, orders, checkout, stock, restarts, handling >>

(* The whole amount is given back.                                         *)
Refund(p) ==
  /\ payment[p] = "paid"
  /\ payment' = [payment EXCEPT ![p] = "refunded"]
  /\ UNCHANGED << unpublished, published, orders, checkout, stock, restarts, handling >>

(* A free slot takes up payment p.                                         *)
TakeUp(h, p) ==
  /\ at[h] = "idle"
  /\ Proceed(h, "check")
  /\ target' = [target EXCEPT ![h] = p]
  /\ UNCHANGED << left, taken >>

(* publishPaymentEvent records the event and runs the subscriber.          *)
Publish(h, p) ==
  /\ p \in unpublished
  /\ unpublished' = unpublished \ {p}
  /\ published' = published \cup {p}
  /\ TakeUp(h, p)
  /\ UNCHANGED << payment, orders, checkout, stock, restarts >>

(* The return page asks for the status: a paid payment is handled on the   *)
(* spot, a cash payment without a live order is published again.           *)
Poll(h, p) ==
  /\ \/ /\ payment[p] = "paid"
        /\ UNCHANGED published
     \/ /\ p \in Cod
        /\ ~LiveForPayment(p)
        /\ published' = published \cup {p}
  /\ TakeUp(h, p)
  /\ UNCHANGED << payment, unpublished, orders, checkout, stock, restarts >>

(* catchUpUnconsumedPaymentEvents and catchUpOrphanCodPayments, at start:  *)
(* any order, a cancelled one too, keeps them away from the payment.       *)
CatchUp(h, p) ==
  /\ OrdersOf(p) = {}
  /\ \/ p \in published /\ UNCHANGED published
     \/ p \in Cod /\ published' = published \cup {p}
  /\ TakeUp(h, p)
  /\ UNCHANGED << payment, unpublished, orders, checkout, stock, restarts >>

(* catchUpOrphanPaidGatewayPayments: the newest paid payments, whether or  *)
(* not they have an order.                                                 *)
NewerPaid(p) ==
  {q \in Gateway : payment[q] = "paid" /\ CreatedAt[q] > CreatedAt[p]}
OrphansByMissingOrder ==   \* faulty: a cancelled order hides the payment
  {p \in Gateway : payment[p] = "paid" /\ OrdersOf(p) = {}}
Orphans ==
  {p \in Gateway : /\ payment[p] = "paid"
                   /\ Cardinality(NewerPaid(p)) < ScanLimit
                   /\ ~LiveForPayment(p)
                   /\ ~LiveForCheckout(CheckoutOf[p])}

Sweep(h, p) ==
  /\ p \in Orphans
  /\ TakeUp(h, p)
  /\ UNCHANGED << payment, unpublished, published, orders, checkout, stock, restarts >>

(* forceRecoverOrderByPaymentRef marks the payment paid first.             *)
ForceRecover(h, p) ==
  /\ ~LiveForPayment(p)
  /\ payment' = [payment EXCEPT ![p] =
                   IF p \in Gateway /\ payment[p] = "open" THEN "paid" ELSE payment[p]]
  /\ TakeUp(h, p)
  /\ UNCHANGED << unpublished, published, orders, checkout, stock, restarts >>

-----------------------------------------------------------------------------
(* handlePaymentSucceededEvent, one action per database call.              *)
Finish(h) ==
  /\ Proceed(h, "idle")
  /\ target' = [target EXCEPT ![h] = AnyPayment]
  /\ left' = [left EXCEPT ![h] = {}]
  /\ taken' = [taken EXCEPT ![h] = {}]

CheckPayment(h) ==
  /\ at[h] = "check"
  /\ IF LiveForPayment(target[h])
     THEN Finish(h)
     ELSE Proceed(h, "read") /\ UNCHANGED << target, left, taken >>
  /\ UNCHANGED << payment, unpublished, published, orders, checkout, stock, restarts >>

(* The payment as read here decides whether it counts as captured.         *)
ReadPayment(h) ==
  /\ at[h] = "read"
  /\ IF target[h] \in Cod \/ payment[target[h]] \in {"paid", "refunded"}
     THEN Proceed(h, "checkout") /\ UNCHANGED << target, left, taken >>
     ELSE Finish(h)
  /\ UNCHANGED << payment, unpublished, published, orders, checkout, stock, restarts >>

CheckCheckoutSkipped(h) ==    \* faulty: only the payment's orders are looked at
  /\ at[h] = "checkout"
  /\ Proceed(h, "take")
  /\ left' = [left EXCEPT ![h] = Lines]
  /\ UNCHANGED << payment, unpublished, published, orders, checkout, stock, restarts >>
  /\ UNCHANGED << target, taken >>

CheckCheckoutAndClose(h) ==   \* faulty: the checkout is closed up front
  /\ at[h] = "checkout"
  /\ ~LiveForCheckout(CheckoutOf[target[h]])
  /\ checkout' = [checkout EXCEPT ![CheckoutOf[target[h]]] = "completed"]
  /\ Proceed(h, "take")
  /\ left' = [left EXCEPT ![h] = Lines]
  /\ UNCHANGED << payment, unpublished, published, orders, stock, restarts, target, taken >>

CheckCheckout(h) ==
  /\ at[h] = "checkout"
  /\ IF LiveForCheckout(CheckoutOf[target[h]]) \/ Lines = {}
     THEN Finish(h)
     ELSE /\ Proceed(h, "take")
          /\ left' = [left EXCEPT ![h] = Lines]
          /\ UNCHANGED << target, taken >>
  /\ UNCHANGED << payment, unpublished, published, orders, checkout, stock, restarts >>

Available == stock > 0

(* Reserve and commit the next line; a failure only leaves a warning.      *)
TakeLine(h) ==
  /\ at[h] = "take"
  /\ \E l \in left[h] :
       /\ \/ /\ Available
             /\ stock' = stock - 1
             /\ taken' = [taken EXCEPT ![h] = taken[h] \cup {l}]
          \/ /\ ~Available \/ MovesFail
             /\ UNCHANGED << stock, taken >>
       /\ left' = [left EXCEPT ![h] = left[h] \ {l}]
       /\ Proceed(h, IF left[h] = {l} THEN "create" ELSE "take")
  /\ UNCHANGED << payment, unpublished, published, orders, checkout, restarts, target >>

(* OrderModel.create: the two unique indexes refuse a second live order.   *)
RefusedByPaymentOnly(p) ==    \* faulty: no index on the checkout
  LiveForPayment(p)
Refused(p) == LiveForPayment(p) \/ LiveForCheckout(CheckoutOf[p])

CreateOrder(h) ==
  /\ at[h] = "create"
  /\ \/ /\ UniqueLive /\ Refused(target[h])     \* the stock stays taken
        /\ Finish(h)
        /\ UNCHANGED orders
     \/ /\ ~(UniqueLive /\ Refused(target[h]))
        /\ \E o \in Free :
             orders' = [orders EXCEPT ![o] =
                          [payment |-> target[h], state |-> "live", taken |-> taken[h]]]
        /\ Proceed(h, "complete")
        /\ UNCHANGED << target, left, taken >>
  /\ UNCHANGED << payment, unpublished, published, checkout, stock, restarts >>

(* The checkout is closed after the order exists; a failed save is only    *)
(* logged.                                                                 *)
CompleteCheckout(h) ==
  /\ at[h] = "complete"
  /\ checkout' \in {checkout, [checkout EXCEPT ![CheckoutOf[target[h]]] = "completed"]}
  /\ Finish(h)
  /\ UNCHANGED << payment, unpublished, published, orders, stock, restarts >>

-----------------------------------------------------------------------------
(* OrderService.cancel: every line is put back, whatever was taken for it. *)
(* The spare order ids keep the bound from stopping a later creation.      *)
ReturnedTwice(o) == 2 * Cardinality(Lines)  \* faulty: returned on both paths
Returned(o) == Cardinality(Lines)

CancelOrder(o) ==
  /\ o \in Live
  /\ Cardinality(Free) >= Cardinality(Checkouts)
  /\ orders' = [orders EXCEPT ![o].state = "cancelled"]
  /\ \E failed \in (IF MovesFail THEN 0 .. Returned(o) ELSE {0}) :
       stock' = stock + Returned(o) - failed
  /\ UNCHANGED << payment, unpublished, published, checkout, restarts, handling >>

(* Everything in memory is gone, an event about to be published too.       *)
Restart ==
  /\ restarts < MaxRestarts
  /\ restarts' = restarts + 1
  /\ unpublished' = {}
  /\ at' = [h \in Handlers |-> "idle"]
  /\ target' = [h \in Handlers |-> AnyPayment]
  /\ left' = [h \in Handlers |-> {}]
  /\ taken' = [h \in Handlers |-> {}]
  /\ UNCHANGED << payment, published, orders, checkout, stock >>

Handle(h) ==
  \/ CheckPayment(h) \/ ReadPayment(h) \/ CheckCheckout(h)
  \/ TakeLine(h) \/ CreateOrder(h) \/ CompleteCheckout(h)

FulfilNext ==
  \/ \E p \in Payments : Capture(p) \/ Refund(p)
  \/ \E h \in Handlers, p \in Payments :
       Publish(h, p) \/ Poll(h, p) \/ CatchUp(h, p) \/ Sweep(h, p) \/ ForceRecover(h, p)
  \/ \E h \in Handlers : Handle(h)
  \/ \E o \in OrderIds : CancelOrder(o)
  \/ Restart

FulfilSpec == FulfilInit /\ [][FulfilNext]_fulfilVars

(* The server goes on with what it has begun, a publication too.  The      *)
(* sweep runs every two minutes whatever else is under way: the slots are  *)
(* a bound of the model, so neither may wait for one for ever.             *)
FulfilFairness ==
  /\ \A h \in Handlers : WF_fulfilVars(Handle(h))
  /\ \A p \in Payments : SF_fulfilVars(\E h \in Handlers : Publish(h, p))
  /\ \A p \in Payments : SF_fulfilVars(\E h \in Handlers : Sweep(h, p))

FulfilFairSpec == FulfilSpec /\ FulfilFairness

-----------------------------------------------------------------------------
OrderDocs ==
  [payment : Payments, state : {"none", "live", "cancelled"}, taken : SUBSET Lines]

FulfilTypeOK ==
  /\ payment     \in [Payments -> {"open", "paid", "refunded"}]
  /\ unpublished \subseteq Payments
  /\ published   \subseteq Payments
  /\ orders      \in [OrderIds -> OrderDocs]
  /\ checkout    \in [Checkouts -> {"ready", "completed"}]
  /\ stock       \in Nat
  /\ restarts    \in 0 .. MaxRestarts
  /\ at          \in [Handlers -> HandlerSteps]
  /\ target      \in [Handlers -> Payments]
  /\ left        \in [Handlers -> SUBSET Lines]
  /\ taken       \in [Handlers -> SUBSET Lines]

(* However many of its callers race, a checkout never has two live orders, *)
(* and so no payment has (order.models.ts: One live order per payment and  *)
(* per checkout).                                                          *)
OneLiveOrder ==
  \A o1, o2 \in Live :
    CheckoutOf[orders[o1].payment] = CheckoutOf[orders[o2].payment] => o1 = o2

Cancelled == {o \in OrderIds : orders[o].state = "cancelled"}

UnitsOf(os) ==
  SumFunctionOnSet([o \in OrderIds |-> Cardinality(orders[o].taken)], os)
ShortOf(os) ==
  SumFunctionOnSet([o \in OrderIds |-> Cardinality(Lines \ orders[o].taken)], os)

(* What is on the shelf and what live orders took is at most what there    *)
(* was, but for the lines of cancelled orders that were short when their   *)
(* order was made: cancelling puts nothing else back (order.service.ts:    *)
(* reverse the permanent inventory commit).                                *)
NoPhantomStock == stock + UnitsOf(Live) <= InitialStock + ShortOf(Cancelled)

(* While no handler is at work that is an equation: handling a payment     *)
(* again takes nothing more (comment on handlePaymentSucceededEvent:       *)
(* idempotent), as long as handlers do not overlap, none has died and no   *)
(* movement is refused but for want of stock.                              *)
StockAccountedInTurn ==
  /\ Cardinality(Handlers) = 1 /\ restarts = 0 /\ ~MovesFail
  /\ \A h \in Handlers : at[h] \notin {"take", "create"}
  => stock + UnitsOf(Live) = InitialStock + ShortOf(Cancelled)

(* A checkout is closed only once an order was made from it.               *)
CompletedHasOrder ==
  \A c \in Checkouts :
    checkout[c] = "completed" => \E p \in Payments : CheckoutOf[p] = c /\ OrdersOf(p) # {}

(* A cancelled order is not replaced by a new live one for the same        *)
(* payment (docs/07: cancelled is final, the money goes back).             *)
CancelledStaysCancelled ==
  \A p \in Payments :
    (\E o \in OrdersOf(p) : orders[o].state = "cancelled") => ~LiveForPayment(p)

(* A gateway payment that was captured gets its order, or its checkout has *)
(* one already, unless the money is given back: also when the server died  *)
(* between saving the payment and creating the order.                      *)
PaidIsOrdered ==
  \A p \in Gateway :
    payment[p] = "paid" ~> (LiveForCheckout(CheckoutOf[p]) \/ payment[p] # "paid")

=============================================================================
