---------------------------- MODULE OrderProofs -----------------------------
(***************************************************************************)
(* Theorems about the making of orders (OrderFulfilment) and about what    *)
(* becomes of one order (OrderLifecycle), for every set of payments,       *)
(* checkouts, handlers, lines, calls and waybills.                         *)
(*                                                                         *)
(* Making orders: one live order per checkout, a completed checkout has an *)
(* order, and no unit is on the shelf or in a live order that was not      *)
(* there at the start.  One order: its statuses come in the order of the   *)
(* table, and its stock, waybill and return request agree with them.       *)
(* Names of the first that would clash with the second begin with Fulfil.  *)
(***************************************************************************)
EXTENDS OrderFulfilment, OrderLifecycle, Sums

-----------------------------------------------------------------------------
(* The payment of an idle handler is one there is.                         *)
LEMMA AnyPaymentExists == AnyPayment \in Payments
BY FulfilmentConstants DEF AnyPayment

(* What an order puts back when it is cancelled is a number of units.      *)
LEMMA ReturnedIsNat == ASSUME NEW o \in OrderIds PROVE Returned(o) \in Nat
BY FulfilmentConstants, FS_CardinalityType DEF Returned

(* A step of a handler either goes on with its payment or leaves its slot  *)
(* empty.                                                                  *)
LEMMA FinishKeepsTypes ==
  ASSUME FulfilTypeOK, NEW h \in Handlers, Finish(h)
  PROVE  /\ at' \in [Handlers -> HandlerSteps]
         /\ target' \in [Handlers -> Payments]
         /\ left' \in [Handlers -> SUBSET Lines]
         /\ taken' \in [Handlers -> SUBSET Lines]
BY AnyPaymentExists DEF FulfilTypeOK, Finish, Proceed, HandlerSteps

(* The same of a handler that takes up a payment.                          *)
LEMMA TakeUpKeepsTypes ==
  ASSUME FulfilTypeOK, NEW h \in Handlers, NEW p \in Payments, TakeUp(h, p)
  PROVE  /\ at' \in [Handlers -> HandlerSteps]
         /\ target' \in [Handlers -> Payments]
         /\ left' \in [Handlers -> SUBSET Lines]
         /\ taken' \in [Handlers -> SUBSET Lines]
BY DEF FulfilTypeOK, TakeUp, Proceed, HandlerSteps

-----------------------------------------------------------------------------
(* Every variable stays in its range: in particular the shelf never goes   *)
(* below zero, whatever handlers race or die.                              *)
THEOREM FulfilTypeCorrect == FulfilSpec => []FulfilTypeOK
<1>1. FulfilInit => FulfilTypeOK
  BY FulfilmentConstants, AnyPaymentExists DEF FulfilInit, FulfilTypeOK, NoOrder, OrderDocs, HandlerSteps
<1>2. FulfilTypeOK /\ [FulfilNext]_fulfilVars => FulfilTypeOK'
  <2> SUFFICES ASSUME FulfilTypeOK, [FulfilNext]_fulfilVars PROVE FulfilTypeOK'
    OBVIOUS
  <2> USE DEF FulfilTypeOK
  <2>1. ASSUME NEW p \in Payments, Capture(p) PROVE FulfilTypeOK'
    BY <2>1 DEF Capture, Gateway, handling
  <2>2. ASSUME NEW p \in Payments, Refund(p) PROVE FulfilTypeOK'
    BY <2>2 DEF Refund, handling
  <2>3. ASSUME NEW h \in Handlers, NEW p \in Payments, Publish(h, p) PROVE FulfilTypeOK'
    BY <2>3, TakeUpKeepsTypes DEF Publish
  <2>4. ASSUME NEW h \in Handlers, NEW p \in Payments, Poll(h, p) PROVE FulfilTypeOK'
    BY <2>4, TakeUpKeepsTypes DEF Poll
  <2>5. ASSUME NEW h \in Handlers, NEW p \in Payments, CatchUp(h, p) PROVE FulfilTypeOK'
    BY <2>5, TakeUpKeepsTypes DEF CatchUp
  <2>6. ASSUME NEW h \in Handlers, NEW p \in Payments, Sweep(h, p) PROVE FulfilTypeOK'
    BY <2>6, TakeUpKeepsTypes DEF Sweep
  <2>7. ASSUME NEW h \in Handlers, NEW p \in Payments, ForceRecover(h, p) PROVE FulfilTypeOK'
    BY <2>7, TakeUpKeepsTypes DEF ForceRecover
  <2>8. ASSUME NEW h \in Handlers, CheckPayment(h) PROVE FulfilTypeOK'
    BY <2>8, FinishKeepsTypes DEF CheckPayment, Proceed, HandlerSteps
  <2>9. ASSUME NEW h \in Handlers, ReadPayment(h) PROVE FulfilTypeOK'
    BY <2>9, FinishKeepsTypes DEF ReadPayment, Proceed, HandlerSteps
  <2>10. ASSUME NEW h \in Handlers, CheckCheckout(h) PROVE FulfilTypeOK'
    BY <2>10, FinishKeepsTypes DEF CheckCheckout, Proceed, HandlerSteps
  <2>11. ASSUME NEW h \in Handlers, TakeLine(h) PROVE FulfilTypeOK'
    BY <2>11 DEF TakeLine, Available, Proceed, HandlerSteps
  <2>12. ASSUME NEW h \in Handlers, CreateOrder(h) PROVE FulfilTypeOK'
    <3>1. CASE UNCHANGED orders /\ Finish(h)
      BY <2>12, <3>1, FinishKeepsTypes DEF CreateOrder
    <3>2. ASSUME NEW o \in Free, Proceed(h, "complete"), UNCHANGED << target, left, taken >>,
                 orders' = [orders EXCEPT ![o] =
                              [payment |-> target[h], state |-> "live", taken |-> taken[h]]]
          PROVE  FulfilTypeOK'
      <4>1. [payment |-> target[h], state |-> "live", taken |-> taken[h]] \in OrderDocs
        BY DEF OrderDocs
      <4> QED BY <2>12, <3>2, <4>1 DEF CreateOrder, Free, Proceed, HandlerSteps
    <3> QED BY <2>12, <3>1, <3>2 DEF CreateOrder
  <2>13. ASSUME NEW h \in Handlers, CompleteCheckout(h) PROVE FulfilTypeOK'
    BY <2>13, FinishKeepsTypes DEF CompleteCheckout
  <2>14. ASSUME NEW o \in OrderIds, CancelOrder(o) PROVE FulfilTypeOK'
    <3>1. orders' \in [OrderIds -> OrderDocs]
      BY <2>14 DEF CancelOrder, OrderDocs
    <3>2. stock' \in Nat
      <4>1. PICK failed \in (IF MovesFail THEN 0 .. Returned(o) ELSE {0}) :
              stock' = stock + Returned(o) - failed
        BY <2>14 DEF CancelOrder
      <4> QED BY <4>1, ReturnedIsNat
    <3> QED BY <2>14, <3>1, <3>2 DEF CancelOrder, handling
  <2>15. CASE Restart
    BY <2>15, FulfilmentConstants, AnyPaymentExists DEF Restart, HandlerSteps
  <2>16. CASE UNCHANGED fulfilVars
    BY <2>16 DEF fulfilVars, handling
  <2> QED BY <2>1, <2>2, <2>3, <2>4, <2>5, <2>6, <2>7, <2>8, <2>9, <2>10, <2>11, <2>12,
             <2>13, <2>14, <2>15, <2>16 DEF FulfilNext, Handle
<1> QED BY <1>1, <1>2, PTL DEF FulfilSpec

-----------------------------------------------------------------------------
(* Only two actions write orders; the others leave the order documents,    *)
(* and with them everything said about live orders, as they are.           *)
LEMMA OrderWriters ==
  ASSUME [FulfilNext]_fulfilVars
  PROVE  \/ UNCHANGED orders
         \/ \E h \in Handlers : CreateOrder(h)
         \/ \E o \in OrderIds : CancelOrder(o)
BY DEF FulfilNext, Handle, fulfilVars, Capture, Refund, Publish, Poll, CatchUp, Sweep, ForceRecover,
       CheckPayment, ReadPayment, CheckCheckout, TakeLine, CompleteCheckout, Restart

(* With the unique indexes in force a checkout has at most one live order, *)
(* whatever races: the check and the insert are one step of the database.  *)
THEOREM OneLiveOrderAlways ==
  ASSUME UniqueLive
  PROVE  FulfilSpec => []OneLiveOrder
<1>1. FulfilInit => OneLiveOrder
  BY DEF FulfilInit, OneLiveOrder, Live, NoOrder
<1>2. FulfilTypeOK /\ OneLiveOrder /\ [FulfilNext]_fulfilVars => OneLiveOrder'
  <2> SUFFICES ASSUME FulfilTypeOK, OneLiveOrder, [FulfilNext]_fulfilVars PROVE OneLiveOrder'
    OBVIOUS
  <2>1. CASE UNCHANGED orders
    BY <2>1 DEF OneLiveOrder, Live
  <2>2. ASSUME NEW h \in Handlers, CreateOrder(h) PROVE OneLiveOrder'
    <3>1. CASE UNCHANGED orders
      BY <3>1 DEF OneLiveOrder, Live
    <3>2. CASE ~Refused(target[h])
      <4>1. PICK o \in Free :
              orders' = [orders EXCEPT ![o] =
                           [payment |-> target[h], state |-> "live", taken |-> taken[h]]]
        BY <2>2, <3>2 DEF CreateOrder
      <4>2. \A x \in OrderIds : x # o => orders'[x] = orders[x]
        BY <4>1 DEF FulfilTypeOK
      <4>3. orders'[o].payment = target[h]
        BY <4>1 DEF FulfilTypeOK, Free
      <4>4. \A x \in Live : CheckoutOf[orders[x].payment] # CheckoutOf[target[h]]
        BY <3>2 DEF Refused, LiveForCheckout
      <4> QED BY <4>2, <4>3, <4>4 DEF OneLiveOrder, Live
    <3> QED BY <2>2, <3>1, <3>2 DEF CreateOrder
  <2>3. ASSUME NEW o \in OrderIds, CancelOrder(o) PROVE OneLiveOrder'
    <3>1. \A x \in OrderIds : x # o => orders'[x] = orders[x]
      BY <2>3 DEF CancelOrder, FulfilTypeOK
    <3>2. orders'[o].state = "cancelled"
      BY <2>3 DEF CancelOrder, FulfilTypeOK, OrderDocs
    <3> QED BY <3>1, <3>2 DEF OneLiveOrder, Live
  <2> QED BY <2>1, <2>2, <2>3, OrderWriters
<1> QED BY <1>1, <1>2, FulfilTypeCorrect, PTL DEF FulfilSpec

-----------------------------------------------------------------------------
(* A handler that is about to close its checkout has an order for it.      *)
CloserHasOrder ==
  \A h \in Handlers : at[h] = "complete" => OrdersOf(target[h]) # {}

(* Both together are inductive.                                            *)
CompletionInv == CompletedHasOrder /\ CloserHasOrder

(* Order documents are never removed and never change their payment.       *)
LEMMA OrdersStay ==
  ASSUME FulfilTypeOK, [FulfilNext]_fulfilVars, NEW p \in Payments, OrdersOf(p) # {}
  PROVE  OrdersOf(p)' # {}
<1>1. PICK x \in OrderIds : orders[x].state # "none" /\ orders[x].payment = p
  BY DEF OrdersOf
<1>2. orders'[x].state # "none" /\ orders'[x].payment = p
  <2>1. CASE UNCHANGED orders
    BY <1>1, <2>1
  <2>2. ASSUME NEW h \in Handlers, CreateOrder(h)
        PROVE  orders'[x].state # "none" /\ orders'[x].payment = p
    BY <1>1, <2>2 DEF CreateOrder, Free, FulfilTypeOK
  <2>3. ASSUME NEW o \in OrderIds, CancelOrder(o)
        PROVE  orders'[x].state # "none" /\ orders'[x].payment = p
    BY <1>1, <2>3 DEF CancelOrder, FulfilTypeOK, OrderDocs
  <2> QED BY <2>1, <2>2, <2>3, OrderWriters
<1> QED BY <1>2 DEF OrdersOf

(* A handler reaches "complete" by creating an order and no other way.     *)
LEMMA CompleteAfterCreate ==
  ASSUME FulfilTypeOK, [FulfilNext]_fulfilVars, NEW h \in Handlers, at'[h] = "complete"
  PROVE  \/ at[h] = "complete" /\ target'[h] = target[h]
         \/ OrdersOf(target[h])' # {} /\ target'[h] = target[h]
<1> USE DEF FulfilTypeOK
<1>1. CASE at'[h] = at[h] /\ target'[h] = target[h]
  BY <1>1
<1>2. ASSUME NEW g \in Handlers, NEW p \in Payments, TakeUp(g, p)
      PROVE  at'[h] = at[h] /\ target'[h] = target[h]
  BY <1>2 DEF TakeUp, Proceed
<1>3. ASSUME NEW g \in Handlers, Finish(g)
      PROVE  at'[h] = at[h] /\ target'[h] = target[h]
  BY <1>3 DEF Finish, Proceed
<1>4. ASSUME NEW g \in Handlers, UNCHANGED target,
             Proceed(g, "read") \/ Proceed(g, "checkout") \/ Proceed(g, "take") \/ Proceed(g, "create")
      PROVE  at'[h] = at[h] /\ target'[h] = target[h]
  BY <1>4 DEF Proceed
<1>5. ASSUME NEW g \in Handlers, CreateOrder(g)
      PROVE  \/ at'[h] = at[h] /\ target'[h] = target[h]
             \/ OrdersOf(target[h])' # {} /\ target'[h] = target[h]
  <2>1. CASE Finish(g)
    BY <1>3, <2>1
  <2>2. ASSUME NEW o \in Free, Proceed(g, "complete"), UNCHANGED target,
               orders' = [orders EXCEPT ![o] =
                            [payment |-> target[g], state |-> "live", taken |-> taken[g]]]
        PROVE  \/ at'[h] = at[h] /\ target'[h] = target[h]
               \/ OrdersOf(target[h])' # {} /\ target'[h] = target[h]
    <3>1. CASE h = g
      <4>1. orders'[o].state # "none" /\ orders'[o].payment = target[h]
        BY <2>2, <3>1 DEF Free
      <4> QED BY <2>2, <4>1 DEF Free, OrdersOf
    <3>2. CASE h # g
      BY <2>2, <3>2 DEF Proceed
    <3> QED BY <3>1, <3>2
  <2> QED BY <1>5, <2>1, <2>2 DEF CreateOrder
<1>6. CASE Restart
  BY <1>6 DEF Restart
<1>7. ASSUME NEW g \in Handlers, Handle(g)
      PROVE  \/ at'[h] = at[h] /\ target'[h] = target[h]
             \/ OrdersOf(target[h])' # {} /\ target'[h] = target[h]
  <2>1. CASE CheckPayment(g)
    BY <2>1, <1>3, <1>4 DEF CheckPayment
  <2>2. CASE ReadPayment(g)
    BY <2>2, <1>3, <1>4 DEF ReadPayment
  <2>3. CASE CheckCheckout(g)
    BY <2>3, <1>3, <1>4 DEF CheckCheckout
  <2>4. CASE TakeLine(g)
    BY <2>4, <1>4 DEF TakeLine
  <2>5. CASE CompleteCheckout(g)
    BY <2>5, <1>3 DEF CompleteCheckout
  <2> QED BY <1>5, <1>7, <2>1, <2>2, <2>3, <2>4, <2>5 DEF Handle
<1>8. ASSUME NEW p \in Payments, NEW g \in Handlers,
             Publish(g, p) \/ Poll(g, p) \/ CatchUp(g, p) \/ Sweep(g, p) \/ ForceRecover(g, p)
      PROVE  at'[h] = at[h] /\ target'[h] = target[h]
  BY <1>2, <1>8 DEF Publish, Poll, CatchUp, Sweep, ForceRecover
<1>9. ASSUME UNCHANGED handling
      PROVE  at'[h] = at[h] /\ target'[h] = target[h]
  BY <1>9 DEF handling
<1> QED BY <1>1, <1>6, <1>7, <1>8, <1>9
        DEF FulfilNext, fulfilVars, Capture, Refund, CancelOrder

(* Only a handler that created an order closes a checkout.                 *)
LEMMA CheckoutWriter ==
  ASSUME FulfilTypeOK, [FulfilNext]_fulfilVars, NEW c \in Checkouts, checkout'[c] # checkout[c]
  PROVE  \E h \in Handlers : at[h] = "complete" /\ CheckoutOf[target[h]] = c
<1>1. PICK h \in Handlers : CompleteCheckout(h)
  BY DEF FulfilNext, Handle, fulfilVars, Capture, Refund, Publish, Poll, CatchUp, Sweep, ForceRecover,
         CheckPayment, ReadPayment, CheckCheckout, TakeLine, CreateOrder, CancelOrder, Restart
<1> QED BY <1>1 DEF CompleteCheckout, FulfilTypeOK

(* A completed checkout always has an order, also when the process died    *)
(* between any two steps of the handler.                                   *)
THEOREM CompletedAlwaysHasOrder == FulfilSpec => []CompletedHasOrder
<1>1. FulfilInit => CompletionInv
  BY DEF FulfilInit, CompletionInv, CompletedHasOrder, CloserHasOrder
<1>2. FulfilTypeOK /\ CompletionInv /\ [FulfilNext]_fulfilVars => CompletionInv'
  <2> SUFFICES ASSUME FulfilTypeOK, CompletionInv, [FulfilNext]_fulfilVars PROVE CompletionInv'
    OBVIOUS
  <2>1. CloserHasOrder'
    <3> SUFFICES ASSUME NEW h \in Handlers, at'[h] = "complete"
                 PROVE  OrdersOf(target[h])' # {}
      BY DEF CloserHasOrder
    <3>1. target[h] \in Payments
      BY DEF FulfilTypeOK
    <3>2. CASE at[h] = "complete" /\ target'[h] = target[h]
      <4>1. OrdersOf(target[h]) # {}
        BY <3>2 DEF CompletionInv, CloserHasOrder
      <4>2. PICK x \in OrderIds : orders'[x].state # "none" /\ orders'[x].payment = target[h]
        BY <3>1, <4>1, OrdersStay DEF OrdersOf
      <4> QED BY <3>2, <4>2 DEF OrdersOf
    <3>3. CASE OrdersOf(target[h])' # {} /\ target'[h] = target[h]
      BY <3>3
    <3> QED BY <3>2, <3>3, CompleteAfterCreate
  <2>2. CompletedHasOrder'
    <3> SUFFICES ASSUME NEW c \in Checkouts, checkout'[c] = "completed"
                 PROVE  \E p \in Payments : CheckoutOf[p] = c /\ OrdersOf(p)' # {}
      BY DEF CompletedHasOrder
    <3>1. \E p \in Payments : CheckoutOf[p] = c /\ OrdersOf(p) # {}
      <4>1. CASE checkout[c] = "completed"
        BY <4>1 DEF CompletionInv, CompletedHasOrder
      <4>2. CASE checkout[c] # "completed"
        BY <4>2, CheckoutWriter DEF CompletionInv, CloserHasOrder, FulfilTypeOK
      <4> QED BY <4>1, <4>2
    <3> QED BY <3>1, OrdersStay
  <2> QED BY <2>1, <2>2 DEF CompletionInv
<1>3. CompletionInv => CompletedHasOrder
  BY DEF CompletionInv
<1> QED BY <1>1, <1>2, <1>3, FulfilTypeCorrect, PTL DEF FulfilSpec

-----------------------------------------------------------------------------
(* The units a handler took for an order that does not exist yet.          *)
Holding == {"take", "create"}

(* handler -> the units it holds so.                                       *)
unitsInHand ==
  [h \in Handlers |-> IF at[h] \in Holding THEN Cardinality(taken[h]) ELSE 0]

(* What all handlers hold together.                                        *)
InHand == SumFunctionOnSet(unitsInHand, Handlers)

(* The books: the shelf, the live orders and the hands of the handlers,    *)
(* less what cancelled orders were short.                                  *)
Books == stock + UnitsOf(Live) + InHand - ShortOf(Cancelled)

(* A handler starts to take with empty hands, and takes no line twice.     *)
HandsInv ==
  \A h \in Handlers :
    /\ at[h] \in {"idle", "check", "read", "checkout"} => taken[h] = {}
    /\ taken[h] \cap left[h] = {}

(* The books never show more than there was at the start.                  *)
BooksInv == HandsInv /\ Books <= InitialStock

(* The circumstances of StockAccountedInTurn.                              *)
Untroubled == Cardinality(Handlers) = 1 /\ restarts = 0 /\ ~MovesFail

(* The only handler found no live order on its checkout, and nobody else   *)
(* could have made one since.                                              *)
Unrivalled ==
  \A h \in Handlers : at[h] \in Holding => ~LiveForCheckout(CheckoutOf[target[h]])

(* Then the books show exactly what there was.                             *)
ExactInv ==
  Untroubled => Unrivalled /\ Books = InitialStock


-----------------------------------------------------------------------------
(* Lines taken are counted by a natural number.                            *)
LEMMA LinesCount ==
  ASSUME NEW lines, lines \subseteq Lines
  PROVE  /\ IsFiniteSet(lines) /\ Cardinality(lines) \in Nat
         /\ Cardinality(Lines \ lines) = Cardinality(Lines) - Cardinality(lines)
         /\ Cardinality(Lines) \in Nat /\ Cardinality(Lines \ lines) \in Nat
<1>1. IsFiniteSet(lines) /\ IsFiniteSet(Lines) /\ IsFiniteSet(Lines \ lines)
  BY FulfilmentConstants, FS_Subset, FS_Difference
<1>2. Lines \cap lines = lines
  OBVIOUS
<1>3. QED BY <1>1, <1>2, FS_Difference, FS_CardinalityType

(* Whatever the order documents are, the sums over them are numbers.       *)
LEMMA OrderSums ==
  ASSUME NEW docs \in [OrderIds -> OrderDocs], NEW os \in SUBSET OrderIds
  PROVE  /\ IsFiniteSet(os)
         /\ SumFunctionOnSet([o \in OrderIds |-> Cardinality(docs[o].taken)], os) \in Nat
         /\ SumFunctionOnSet([o \in OrderIds |-> Cardinality(Lines \ docs[o].taken)], os) \in Nat
<1> DEFINE units == [o \in OrderIds |-> Cardinality(docs[o].taken)]
           short == [o \in OrderIds |-> Cardinality(Lines \ docs[o].taken)]
<1>1. IsFiniteSet(os)
  BY FulfilmentConstants, FS_Subset
<1>2. \A o \in os : docs[o].taken \subseteq Lines
  BY DEF OrderDocs
<1>3. \A o \in os : units[o] \in Nat /\ short[o] \in Nat
  BY <1>2, LinesCount
<1> HIDE DEF units, short
<1>4. SumFunctionOnSet(units, os) \in Nat /\ SumFunctionOnSet(short, os) \in Nat
  BY <1>1, <1>3, SumIsNat
<1> QED BY <1>1, <1>4 DEF units, short

(* The same of the hands of the handlers.                                  *)
LEMMA HandsCount ==
  ASSUME NEW steps \in [Handlers -> HandlerSteps], NEW lines \in [Handlers -> SUBSET Lines]
  PROVE  \A h \in Handlers :
           [g \in Handlers |-> IF steps[g] \in Holding THEN Cardinality(lines[g]) ELSE 0][h]
             \in Nat
BY LinesCount

(* All entries of the books are numbers.                                   *)
LEMMA BooksAreNumbers ==
  ASSUME FulfilTypeOK
  PROVE  /\ UnitsOf(Live) \in Nat /\ ShortOf(Cancelled) \in Nat /\ InHand \in Nat
         /\ stock \in Nat /\ InitialStock \in Nat
<1>1. UnitsOf(Live) \in Nat /\ ShortOf(Cancelled) \in Nat
  BY OrderSums DEF FulfilTypeOK, UnitsOf, ShortOf, Live, Cancelled
<1>2. \A h \in Handlers : unitsInHand[h] \in Nat
  BY HandsCount DEF FulfilTypeOK, unitsInHand
<1>3. InHand \in Nat
  BY <1>2, FulfilmentConstants, SumIsNat DEF InHand
<1> QED BY <1>1, <1>3, FulfilmentConstants DEF FulfilTypeOK

-----------------------------------------------------------------------------
(* A step of one handler changes what is in hand by what it has in hand.   *)
LEMMA OneHandMoves ==
  ASSUME FulfilTypeOK, FulfilTypeOK', NEW h \in Handlers,
         \A g \in Handlers \ {h} : at'[g] = at[g] /\ taken'[g] = taken[g]
  PROVE  InHand' = InHand + (unitsInHand[h]' - unitsInHand[h])
<1>1. \A g \in Handlers : unitsInHand[g] \in Nat /\ unitsInHand[g]' \in Nat
  BY HandsCount DEF FulfilTypeOK, unitsInHand
<1>2. \A g \in Handlers \ {h} : unitsInHand[g]' = unitsInHand[g]
  BY DEF unitsInHand
<1>3. SumFunctionOnSet(unitsInHand', Handlers)
        = SumFunctionOnSet(unitsInHand, Handlers) + (unitsInHand'[h] - unitsInHand[h])
  BY <1>1, <1>2, FulfilmentConstants, SumChanges
<1> QED BY <1>3 DEF InHand

(* Making an order moves its units to the live orders.                     *)
LEMMA CreatedUnits ==
  ASSUME FulfilTypeOK, NEW o \in Free, NEW doc \in OrderDocs, doc.state = "live",
         orders' = [orders EXCEPT ![o] = doc]
  PROVE  /\ UnitsOf(Live)' = UnitsOf(Live) + Cardinality(doc.taken)
         /\ ShortOf(Cancelled)' = ShortOf(Cancelled)
<1> DEFINE units(docs) == [x \in OrderIds |-> Cardinality(docs[x].taken)]
           short(docs) == [x \in OrderIds |-> Cardinality(Lines \ docs[x].taken)]
<1>1. /\ orders \in [OrderIds -> OrderDocs] /\ orders' \in [OrderIds -> OrderDocs]
      /\ o \in OrderIds /\ orders[o].state = "none" /\ orders'[o] = doc
      /\ \A x \in OrderIds \ {o} : orders'[x] = orders[x]
  BY DEF FulfilTypeOK, Free
<1>2. Live' = Live \cup {o} /\ o \notin Live /\ Cancelled' = Cancelled /\ o \notin Cancelled
  BY <1>1 DEF Live, Cancelled
<1>3. Live \subseteq OrderIds /\ Cancelled \subseteq OrderIds
  BY DEF Live, Cancelled
<1>4. /\ \A x \in Live : units(orders)[x] = units(orders')[x]
      /\ \A x \in Cancelled : short(orders)[x] = short(orders')[x]
  BY <1>1, <1>2, <1>3
<1>5. /\ \A x \in Live \cup {o} : units(orders')[x] \in Int
      /\ units(orders')[o] = Cardinality(doc.taken)
  <2>1. \A x \in OrderIds : orders'[x].taken \subseteq Lines
    BY <1>1 DEF OrderDocs
  <2>2. \A x \in OrderIds : Cardinality(orders'[x].taken) \in Nat
    BY <2>1, LinesCount
  <2> QED BY <1>1, <1>3, <2>2
<1>6. IsFiniteSet(Live) /\ IsFiniteSet(Cancelled)
  BY <1>3, FulfilmentConstants, FS_Subset
<1> HIDE DEF units, short
<1>7. /\ SumFunctionOnSet(units(orders), Live) = SumFunctionOnSet(units(orders'), Live)
      /\ SumFunctionOnSet(short(orders), Cancelled) = SumFunctionOnSet(short(orders'), Cancelled)
  BY <1>4, <1>6, SumAgrees
<1>8. SumFunctionOnSet(units(orders'), Live \cup {o})
        = Cardinality(doc.taken) + SumFunctionOnSet(units(orders'), Live)
  BY <1>2, <1>5, <1>6, SumAdds
<1>9. SumFunctionOnSet(units(orders), Live) \in Nat /\ Cardinality(doc.taken) \in Nat
  BY <1>1, <1>3, OrderSums, LinesCount DEF units, OrderDocs
<1>10. /\ SumFunctionOnSet(units(orders'), Live')
            = SumFunctionOnSet(units(orders), Live) + Cardinality(doc.taken)
       /\ SumFunctionOnSet(short(orders'), Cancelled') = SumFunctionOnSet(short(orders), Cancelled)
  BY <1>2, <1>7, <1>8, <1>9
<1> QED BY <1>10 DEF units, short, UnitsOf, ShortOf

(* Cancelling an order takes its units from the live orders; its lines     *)
(* that were short count from then on.                                     *)
LEMMA CancelledUnits ==
  ASSUME FulfilTypeOK, NEW o \in Live, orders' = [orders EXCEPT ![o].state = "cancelled"]
  PROVE  UnitsOf(Live)' - ShortOf(Cancelled)'
           = UnitsOf(Live) - ShortOf(Cancelled) - Cardinality(Lines)
<1> DEFINE units == [x \in OrderIds |-> Cardinality(orders[x].taken)]
           short == [x \in OrderIds |-> Cardinality(Lines \ orders[x].taken)]
           lines == orders[o].taken
<1>1. /\ orders \in [OrderIds -> OrderDocs] /\ o \in OrderIds /\ orders[o].state = "live"
      /\ orders'[o].state = "cancelled"
      /\ \A x \in OrderIds : orders'[x].taken = orders[x].taken
      /\ \A x \in OrderIds \ {o} : orders'[x] = orders[x]
  BY DEF FulfilTypeOK, Live, OrderDocs
<1>2. /\ Live' = Live \ {o}
      /\ Cancelled' = Cancelled \cup {o} /\ o \notin Cancelled
  BY <1>1 DEF Live, Cancelled
<1>3. Live \subseteq OrderIds /\ Cancelled \subseteq OrderIds
  BY DEF Live, Cancelled
<1>4. \A x \in OrderIds : units[x] \in Int /\ short[x] \in Int
  <2>1. \A x \in OrderIds : orders[x].taken \subseteq Lines
    BY <1>1 DEF OrderDocs
  <2>2. \A x \in OrderIds :
          Cardinality(orders[x].taken) \in Nat /\ Cardinality(Lines \ orders[x].taken) \in Nat
    BY <2>1, LinesCount
  <2> QED BY <2>2
<1>5. units[o] = Cardinality(lines) /\ short[o] = Cardinality(Lines \ lines)
  BY <1>1
<1>6. IsFiniteSet(Live) /\ IsFiniteSet(Cancelled)
  BY <1>3, FulfilmentConstants, FS_Subset
<1>7. units = [x \in OrderIds |-> Cardinality(orders'[x].taken)]
      /\ short = [x \in OrderIds |-> Cardinality(Lines \ orders'[x].taken)]
  BY <1>1
<1>8. UnitsOf(Live) \in Nat /\ ShortOf(Cancelled) \in Nat /\ UnitsOf(Live') \in Nat
  BY <1>1, <1>2, <1>3, OrderSums DEF UnitsOf, ShortOf
<1>9. /\ UnitsOf(Live) = SumFunctionOnSet(units, Live)
      /\ UnitsOf(Live') = SumFunctionOnSet(units, Live')
      /\ ShortOf(Cancelled) = SumFunctionOnSet(short, Cancelled)
  BY DEF UnitsOf, ShortOf
<1>10. /\ UnitsOf(Live)' = SumFunctionOnSet(units, Live')
       /\ ShortOf(Cancelled)' = SumFunctionOnSet(short, Cancelled')
  BY <1>7 DEF UnitsOf, ShortOf
<1>11. /\ Cardinality(Lines \ lines) = Cardinality(Lines) - Cardinality(lines)
       /\ Cardinality(Lines) \in Nat /\ Cardinality(lines) \in Nat
  <2>1. lines \subseteq Lines
    BY <1>1 DEF OrderDocs
  <2> QED BY <2>1, LinesCount
<1> HIDE DEF units, short, lines
<1>12. SumFunctionOnSet(units, Live) = units[o] + SumFunctionOnSet(units, Live \ {o})
  BY <1>3, <1>4, <1>6, SumSplits
<1>13. SumFunctionOnSet(short, Cancelled \cup {o}) = short[o] + SumFunctionOnSet(short, Cancelled)
  <2>1. \A x \in Cancelled \cup {o} : short[x] \in Int
    BY <1>1, <1>3, <1>4
  <2> QED BY <1>2, <1>6, <2>1, SumAdds
<1> QED BY <1>2, <1>5, <1>8, <1>9, <1>10, <1>11, <1>12, <1>13


-----------------------------------------------------------------------------
(* The steps that touch neither the shelf nor the order documents, and     *)
(* leave what one handler has in hand as it is.                            *)
LEMMA NothingMoves ==
  ASSUME FulfilTypeOK, UNCHANGED << stock, orders >>,
         \/ UNCHANGED << at, taken >>
         \/ \E h \in Handlers :
              /\ unitsInHand[h]' = unitsInHand[h]
              /\ \A g \in Handlers \ {h} : at'[g] = at[g] /\ taken'[g] = taken[g]
  PROVE  Books' = Books
<1>1. unitsInHand' = unitsInHand
  BY DEF unitsInHand
<1>2. UnitsOf(Live)' = UnitsOf(Live) /\ ShortOf(Cancelled)' = ShortOf(Cancelled)
  BY DEF UnitsOf, ShortOf, Live, Cancelled
<1> QED BY <1>1, <1>2 DEF Books, InHand

(* A handler that takes up a payment, or ends before it took anything.     *)
LEMMA HandsEmpty ==
  ASSUME FulfilTypeOK, HandsInv, NEW h \in Handlers,
         UNCHANGED << stock, orders >>,
         at[h] \in {"idle", "check", "read", "checkout", "complete"},
         \/ Finish(h)
         \/ \E p \in Payments : TakeUp(h, p)
         \/ UNCHANGED taken /\ (Proceed(h, "read") \/ Proceed(h, "checkout"))
         \/ UNCHANGED taken /\ at[h] = "checkout" /\ Proceed(h, "take")
  PROVE  Books' = Books
<1> USE DEF FulfilTypeOK
<1>1. \A g \in Handlers \ {h} : at'[g] = at[g] /\ taken'[g] = taken[g]
  BY DEF Finish, TakeUp, Proceed
<1>2. unitsInHand[h] = 0
  BY DEF unitsInHand, Holding
<1>3. unitsInHand[h]' = 0
  <2>1. CASE at'[h] \notin Holding
    BY <2>1 DEF unitsInHand
  <2>2. CASE at'[h] \in Holding
    <3>1. taken'[h] = {}
      BY <2>2 DEF Finish, TakeUp, Proceed, Holding, HandsInv
    <3> QED BY <2>2, <3>1, FS_EmptySet DEF unitsInHand
  <2> QED BY <2>1, <2>2
<1> QED BY <1>1, <1>2, <1>3, NothingMoves

(* A line taken goes from the shelf into the hand.                         *)
LEMMA TakingMoves ==
  ASSUME FulfilTypeOK, FulfilTypeOK', HandsInv, NEW h \in Handlers, TakeLine(h)
  PROVE  Books' = Books
<1> USE DEF FulfilTypeOK
<1>1. PICK l \in left[h] :
        \/ stock' = stock - 1 /\ taken' = [taken EXCEPT ![h] = taken[h] \cup {l}]
        \/ UNCHANGED << stock, taken >>
  BY DEF TakeLine
<1>2. \A g \in Handlers \ {h} : at'[g] = at[g] /\ taken'[g] = taken[g]
  BY <1>1 DEF TakeLine, Proceed
<1>3. at[h] \in Holding /\ at'[h] \in Holding
  BY DEF TakeLine, Proceed, Holding
<1>4. unitsInHand[h] = Cardinality(taken[h]) /\ unitsInHand[h]' = Cardinality(taken'[h])
  BY <1>3 DEF unitsInHand
<1>5. taken[h] \subseteq Lines /\ Cardinality(taken[h]) \in Nat /\ IsFiniteSet(taken[h])
  BY LinesCount
<1>6. UnitsOf(Live)' = UnitsOf(Live) /\ ShortOf(Cancelled)' = ShortOf(Cancelled)
  BY DEF UnitsOf, ShortOf, Live, Cancelled, TakeLine
<1>7. InHand' = InHand + (unitsInHand[h]' - unitsInHand[h])
  BY <1>2, OneHandMoves
<1>8. CASE stock' = stock - 1 /\ taken' = [taken EXCEPT ![h] = taken[h] \cup {l}]
  <2>1. taken'[h] = taken[h] \cup {l} /\ l \notin taken[h]
    BY <1>8 DEF HandsInv
  <2>2. Cardinality(taken[h] \cup {l}) = Cardinality(taken[h]) + 1
    <3>1. IsFiniteSet(taken[h]) /\ l \notin taken[h]
      BY <1>5, <2>1
    <3> QED BY <3>1, FS_AddElement
  <2>3. Cardinality(taken'[h]) = Cardinality(taken[h]) + 1
    BY <2>1, <2>2
  <2> QED BY <1>4, <1>5, <1>6, <1>7, <1>8, <2>3, BooksAreNumbers DEF Books
<1>9. CASE UNCHANGED << stock, taken >>
  <2>1. UNCHANGED << stock, orders >> /\ unitsInHand[h]' = unitsInHand[h]
    BY <1>4, <1>9 DEF TakeLine
  <2> QED BY <1>2, <2>1, NothingMoves
<1> QED BY <1>1, <1>8, <1>9

(* A refused creation drops what the handler had in hand; one that is      *)
(* accepted makes it the order's.                                          *)
LEMMA CreatingMoves ==
  ASSUME FulfilTypeOK, FulfilTypeOK', NEW h \in Handlers, CreateOrder(h)
  PROVE  Books' <= Books /\ (~LiveForCheckout(CheckoutOf[target[h]]) => Books' = Books)
<1> USE DEF FulfilTypeOK
<1>1. \A g \in Handlers \ {h} : at'[g] = at[g] /\ taken'[g] = taken[g]
  BY DEF CreateOrder, Finish, Proceed
<1>2. InHand' = InHand + (unitsInHand[h]' - unitsInHand[h])
  BY <1>1, OneHandMoves
<1>3. unitsInHand[h]' = 0 /\ unitsInHand[h] = Cardinality(taken[h])
  BY DEF unitsInHand, Holding, CreateOrder, Finish, Proceed
<1>4. taken[h] \subseteq Lines /\ Cardinality(taken[h]) \in Nat
  BY LinesCount
<1>5. stock' = stock
  BY DEF CreateOrder
<1>6. CASE Refused(target[h]) /\ UNCHANGED orders
  <2>1. UnitsOf(Live)' = UnitsOf(Live) /\ ShortOf(Cancelled)' = ShortOf(Cancelled)
    BY <1>6 DEF UnitsOf, ShortOf, Live, Cancelled
  <2>2. Books' <= Books
    BY <1>2, <1>3, <1>4, <1>5, <2>1, BooksAreNumbers DEF Books
  <2>3. LiveForCheckout(CheckoutOf[target[h]])
    BY <1>6 DEF Refused, LiveForPayment, LiveForCheckout
  <2> QED BY <2>2, <2>3
<1>7. ASSUME NEW o \in Free,
             orders' = [orders EXCEPT ![o] =
                          [payment |-> target[h], state |-> "live", taken |-> taken[h]]]
      PROVE  Books' = Books
  <2> DEFINE doc == [payment |-> target[h], state |-> "live", taken |-> taken[h]]
  <2>1. doc \in OrderDocs /\ doc.state = "live" /\ doc.taken = taken[h]
    BY DEF OrderDocs
  <2> HIDE DEF doc
  <2>2. orders' = [orders EXCEPT ![o] = doc]
    BY <1>7 DEF doc
  <2>3. UnitsOf(Live)' = UnitsOf(Live) + Cardinality(taken[h])
        /\ ShortOf(Cancelled)' = ShortOf(Cancelled)
    BY <2>1, <2>2, CreatedUnits
  <2> QED BY <1>2, <1>3, <1>4, <1>5, <2>3, BooksAreNumbers DEF Books
<1>8. Books \in Int
  BY BooksAreNumbers DEF Books
<1>9. Books' = Books => Books' <= Books
  BY <1>8
<1> QED BY <1>6, <1>7, <1>9 DEF CreateOrder

(* Cancelling gives back what the order took and what it was short of,     *)
(* less what fails to be put back.                                         *)
LEMMA CancellingMoves ==
  ASSUME FulfilTypeOK, NEW o \in OrderIds, CancelOrder(o)
  PROVE  Books' <= Books /\ (~MovesFail => Books' = Books)
<1>1. PICK failed \in (IF MovesFail THEN 0 .. Returned(o) ELSE {0}) :
        stock' = stock + Returned(o) - failed
  BY DEF CancelOrder
<1>2. UnitsOf(Live)' - ShortOf(Cancelled)'
        = UnitsOf(Live) - ShortOf(Cancelled) - Cardinality(Lines)
  BY CancelledUnits DEF CancelOrder
<1>3. InHand' = InHand
  BY DEF InHand, unitsInHand, CancelOrder, handling
<1>4. Returned(o) = Cardinality(Lines) /\ Cardinality(Lines) \in Nat
  BY FulfilmentConstants, FS_CardinalityType DEF Returned
<1>5. failed \in Nat /\ (~MovesFail => failed = 0)
  BY <1>4
<1>6. orders' \in [OrderIds -> OrderDocs]
  BY DEF CancelOrder, OrderDocs, FulfilTypeOK
<1>7. UnitsOf(Live)' \in Nat /\ ShortOf(Cancelled)' \in Nat
  BY <1>6, OrderSums DEF UnitsOf, ShortOf, Live, Cancelled
<1> QED BY <1>1, <1>2, <1>3, <1>4, <1>5, <1>7, BooksAreNumbers DEF Books

(* A restart drops everything in hand.                                     *)
LEMMA RestartDrops ==
  ASSUME FulfilTypeOK, Restart
  PROVE  Books' <= Books
<1>1. UnitsOf(Live)' = UnitsOf(Live) /\ ShortOf(Cancelled)' = ShortOf(Cancelled)
  BY DEF UnitsOf, ShortOf, Live, Cancelled, Restart
<1>2. \A h \in Handlers : unitsInHand'[h] = 0
  BY DEF unitsInHand, Restart, Holding
<1>3. InHand' = 0
  BY <1>2, FulfilmentConstants, SumOfZeros DEF InHand
<1>4. stock' = stock
  BY DEF Restart
<1> QED BY <1>1, <1>3, <1>4, BooksAreNumbers DEF Books

-----------------------------------------------------------------------------
(* The ways a handler comes to a payment: all only take a free slot.       *)
LEMMA Arrivals ==
  ASSUME NEW h \in Handlers, NEW p \in Payments,
         Publish(h, p) \/ Poll(h, p) \/ CatchUp(h, p) \/ Sweep(h, p) \/ ForceRecover(h, p)
  PROVE  TakeUp(h, p) /\ at[h] = "idle" /\ UNCHANGED << stock, orders, restarts >>
BY DEF Publish, Poll, CatchUp, Sweep, ForceRecover, TakeUp

(* No step of any handler gives up what it holds, or takes a line twice.   *)
LEMMA HandsStep ==
  FulfilTypeOK /\ HandsInv /\ [FulfilNext]_fulfilVars => HandsInv'
<1> SUFFICES ASSUME FulfilTypeOK, HandsInv, [FulfilNext]_fulfilVars PROVE HandsInv'
  OBVIOUS
<1> USE DEF FulfilTypeOK
<1>1. ASSUME UNCHANGED handling PROVE HandsInv'
  BY <1>1 DEF HandsInv, handling
<1>2. ASSUME NEW h \in Handlers, Finish(h) PROVE HandsInv'
  BY <1>2 DEF HandsInv, Finish, Proceed
<1>3. ASSUME NEW h \in Handlers, NEW p \in Payments, TakeUp(h, p) PROVE HandsInv'
  BY <1>3 DEF HandsInv, TakeUp, Proceed
<1>4. ASSUME NEW h \in Handlers, at[h] \in {"check", "read"},
             Proceed(h, "read") \/ Proceed(h, "checkout"), UNCHANGED << left, taken >>
      PROVE  HandsInv'
  BY <1>4 DEF HandsInv, Proceed
<1>5. ASSUME NEW h \in Handlers, Proceed(h, "complete"), UNCHANGED << left, taken >>
      PROVE  HandsInv'
  BY <1>5 DEF HandsInv, Proceed
<1>6. ASSUME NEW h \in Handlers, at[h] = "checkout", Proceed(h, "take"), UNCHANGED taken,
             left' = [left EXCEPT ![h] = Lines]
      PROVE  HandsInv'
  BY <1>6 DEF HandsInv, Proceed
<1>7. ASSUME NEW h \in Handlers, TakeLine(h) PROVE HandsInv'
  <2>1. PICK l \in left[h] :
          /\ \/ taken' = [taken EXCEPT ![h] = taken[h] \cup {l}]
             \/ UNCHANGED taken
          /\ left' = [left EXCEPT ![h] = left[h] \ {l}]
    BY <1>7 DEF TakeLine
  <2>2. taken'[h] \cap left'[h] = {}
    BY <2>1 DEF HandsInv
  <2>3. \A g \in Handlers \ {h} : taken'[g] = taken[g] /\ left'[g] = left[g] /\ at'[g] = at[g]
    BY <1>7, <2>1 DEF TakeLine, Proceed
  <2>4. at'[h] \in {"take", "create"}
    BY <1>7 DEF TakeLine, Proceed
  <2> QED BY <2>2, <2>3, <2>4 DEF HandsInv
<1>8. ASSUME NEW h \in Handlers, Handle(h) PROVE HandsInv'
  <2>1. CASE CheckPayment(h)
    BY <2>1, <1>2, <1>4 DEF CheckPayment
  <2>2. CASE ReadPayment(h)
    BY <2>2, <1>2, <1>4 DEF ReadPayment
  <2>3. CASE CheckCheckout(h)
    BY <2>3, <1>2, <1>6 DEF CheckCheckout
  <2>4. CASE CreateOrder(h)
    BY <2>4, <1>2, <1>5 DEF CreateOrder
  <2>5. CASE CompleteCheckout(h)
    BY <2>5, <1>2 DEF CompleteCheckout
  <2> QED BY <1>7, <1>8, <2>1, <2>2, <2>3, <2>4, <2>5 DEF Handle
<1>9. CASE Restart
  BY <1>9 DEF HandsInv, Restart
<1> QED BY <1>1, <1>3, <1>8, <1>9, Arrivals
        DEF FulfilNext, fulfilVars, Capture, Refund, CancelOrder

(* No step adds to the books, whatever races; and in good circumstances no *)
(* step but a restart takes anything off them.                             *)
LEMMA BooksStep ==
  ASSUME FulfilTypeOK, FulfilTypeOK', HandsInv, [FulfilNext]_fulfilVars
  PROVE  /\ Books' <= Books
         /\ ~MovesFail /\ Unrivalled /\ restarts' = restarts => Books' = Books
<1>1. Books \in Int
  BY BooksAreNumbers DEF Books
<1>2. ASSUME NEW p \in Payments, Capture(p) \/ Refund(p) PROVE Books' = Books
  BY <1>2, NothingMoves DEF Capture, Refund, handling
<1>3. ASSUME NEW h \in Handlers, NEW p \in Payments,
             Publish(h, p) \/ Poll(h, p) \/ CatchUp(h, p) \/ Sweep(h, p) \/ ForceRecover(h, p)
      PROVE  Books' = Books
  BY <1>3, Arrivals, HandsEmpty
<1>4. ASSUME NEW h \in Handlers, CheckPayment(h) PROVE Books' = Books
  BY <1>4, HandsEmpty DEF CheckPayment
<1>5. ASSUME NEW h \in Handlers, ReadPayment(h) PROVE Books' = Books
  BY <1>5, HandsEmpty DEF ReadPayment
<1>6. ASSUME NEW h \in Handlers, CheckCheckout(h) PROVE Books' = Books
  BY <1>6, HandsEmpty DEF CheckCheckout
<1>7. ASSUME NEW h \in Handlers, TakeLine(h) PROVE Books' = Books
  BY <1>7, TakingMoves
<1>8. ASSUME NEW h \in Handlers, CreateOrder(h)
      PROVE  Books' <= Books /\ (Unrivalled => Books' = Books)
  BY <1>8, CreatingMoves DEF Unrivalled, Holding, CreateOrder
<1>9. ASSUME NEW h \in Handlers, CompleteCheckout(h) PROVE Books' = Books
  BY <1>9, HandsEmpty DEF CompleteCheckout
<1>10. ASSUME NEW o \in OrderIds, CancelOrder(o)
       PROVE  Books' <= Books /\ (~MovesFail => Books' = Books)
  BY <1>10, CancellingMoves
<1>11. CASE Restart
  <2>1. restarts' # restarts
    BY <1>11 DEF Restart, FulfilTypeOK
  <2> QED BY <1>11, <2>1, RestartDrops
<1>12. ASSUME UNCHANGED fulfilVars PROVE Books' = Books
  <2>1. UNCHANGED << stock, orders, at, taken >>
    BY <1>12 DEF fulfilVars, handling
  <2> QED BY <2>1, NothingMoves
<1>13. Books' = Books => Books' <= Books
  BY <1>1
<1> QED BY <1>2, <1>3, <1>4, <1>5, <1>6, <1>7, <1>8, <1>9, <1>10, <1>11, <1>12, <1>13
        DEF FulfilNext, Handle

(* Everything on the books is on the shelf at the start.                   *)
LEMMA BooksAtStart == FulfilInit => HandsInv /\ Books = InitialStock
<1> SUFFICES ASSUME FulfilInit PROVE HandsInv /\ Books = InitialStock
  OBVIOUS
<1>1. HandsInv
  BY DEF FulfilInit, HandsInv
<1>2. Live = {} /\ Cancelled = {}
  BY DEF FulfilInit, Live, Cancelled, NoOrder
<1>3. UnitsOf(Live) = 0 /\ ShortOf(Cancelled) = 0
  BY <1>2, SumOfNone DEF UnitsOf, ShortOf
<1>4. \A h \in Handlers : unitsInHand[h] = 0
  BY DEF FulfilInit, unitsInHand, Holding
<1>5. InHand = 0
  BY <1>4, FulfilmentConstants, SumOfZeros DEF InHand
<1>6. stock = InitialStock /\ InitialStock \in Nat
  BY FulfilmentConstants DEF FulfilInit
<1> QED BY <1>1, <1>3, <1>5, <1>6 DEF Books

(* Nothing is ever on the shelf or in a live order that was not there at   *)
(* the start, but for the lines cancelled orders were short of.            *)
THEOREM NeverPhantomStock == FulfilSpec => []NoPhantomStock
<1>1. FulfilInit => BooksInv
  BY BooksAtStart, FulfilmentConstants DEF BooksInv
<1>2. FulfilTypeOK /\ FulfilTypeOK' /\ BooksInv /\ [FulfilNext]_fulfilVars => BooksInv'
  <2> SUFFICES ASSUME FulfilTypeOK, FulfilTypeOK', BooksInv, [FulfilNext]_fulfilVars
               PROVE  BooksInv'
    OBVIOUS
  <2>1. HandsInv' /\ Books' <= Books
    BY HandsStep, BooksStep DEF BooksInv
  <2>2. Books \in Int /\ Books' \in Int
    <3>1. orders' \in [OrderIds -> OrderDocs] /\ stock' \in Nat
      BY DEF FulfilTypeOK
    <3>2. UnitsOf(Live)' \in Nat /\ ShortOf(Cancelled)' \in Nat
      BY <3>1, OrderSums DEF UnitsOf, ShortOf, Live, Cancelled
    <3>3. \A h \in Handlers : unitsInHand'[h] \in Nat
      BY HandsCount DEF FulfilTypeOK, unitsInHand
    <3>4. InHand' \in Nat
      BY <3>3, FulfilmentConstants, SumIsNat DEF InHand
    <3> QED BY <3>1, <3>2, <3>4, BooksAreNumbers DEF Books
  <2> QED BY <2>1, <2>2, FulfilmentConstants DEF BooksInv
<1>3. FulfilTypeOK /\ BooksInv => NoPhantomStock
  BY BooksAreNumbers DEF BooksInv, NoPhantomStock, Books
<1> QED BY <1>1, <1>2, <1>3, FulfilTypeCorrect, PTL DEF FulfilSpec

-----------------------------------------------------------------------------
(* Only creating an order makes a checkout have a live one.                *)
LEMMA LiveStays ==
  ASSUME FulfilTypeOK, UNCHANGED orders \/ \E o \in OrderIds : CancelOrder(o), NEW c,
         LiveForCheckout(c)'
  PROVE  LiveForCheckout(c)
<1>1. CASE UNCHANGED orders
  BY <1>1 DEF LiveForCheckout, Live
<1>2. ASSUME NEW o \in OrderIds, CancelOrder(o) PROVE LiveForCheckout(c)
  <2>1. PICK x \in OrderIds : orders'[x].state = "live" /\ CheckoutOf[orders'[x].payment] = c
    BY DEF LiveForCheckout, Live
  <2>2. orders'[x] = orders[x]
    BY <1>2, <2>1 DEF CancelOrder, FulfilTypeOK, OrderDocs
  <2> QED BY <2>1, <2>2 DEF LiveForCheckout, Live
<1> QED BY <1>1, <1>2

(* The only handler stays unrivalled.                                      *)
LEMMA RivalStep ==
  ASSUME FulfilTypeOK, Cardinality(Handlers) = 1, Unrivalled, [FulfilNext]_fulfilVars
  PROVE  Unrivalled'
<1> USE DEF FulfilTypeOK
<1> SUFFICES ASSUME NEW h \in Handlers, at'[h] \in Holding
             PROVE  ~LiveForCheckout(CheckoutOf[target[h]])'
  BY DEF Unrivalled
<1>1. \A g \in Handlers : g = h
  BY FulfilmentConstants, FS_Singleton
<1>2. ASSUME at[h] \in Holding, target'[h] = target[h],
             UNCHANGED orders \/ \E o \in OrderIds : CancelOrder(o)
      PROVE  ~LiveForCheckout(CheckoutOf[target[h]])'
  BY <1>2, LiveStays DEF Unrivalled
<1>3. CASE UNCHANGED << at, target >> /\ (UNCHANGED orders \/ \E o \in OrderIds : CancelOrder(o))
  BY <1>2, <1>3
<1>4. ~Finish(h) /\ \A p \in Payments : ~TakeUp(h, p)
  BY DEF Finish, TakeUp, Proceed, Holding
<1>5. CASE Handle(h)
  <2>1. CASE CheckPayment(h)
    BY <2>1, <1>4 DEF CheckPayment, Proceed, Holding
  <2>2. CASE ReadPayment(h)
    BY <2>2, <1>4 DEF ReadPayment, Proceed, Holding
  <2>3. CASE CheckCheckout(h)
    <3>1. ~LiveForCheckout(CheckoutOf[target[h]]) /\ UNCHANGED << target, orders >>
      BY <2>3, <1>4 DEF CheckCheckout
    <3> QED BY <3>1, LiveStays
  <2>4. CASE TakeLine(h)
    BY <2>4, <1>2 DEF TakeLine, Holding
  <2>5. CASE CreateOrder(h)
    BY <2>5, <1>4 DEF CreateOrder, Proceed, Holding
  <2>6. CASE CompleteCheckout(h)
    BY <2>6, <1>4 DEF CompleteCheckout
  <2> QED BY <1>5, <2>1, <2>2, <2>3, <2>4, <2>5, <2>6 DEF Handle
<1>6. ~Restart
  BY DEF Restart, Holding
<1>7. ASSUME NEW g \in Handlers, NEW p \in Payments
      PROVE  ~(Publish(g, p) \/ Poll(g, p) \/ CatchUp(g, p) \/ Sweep(g, p) \/ ForceRecover(g, p))
  BY <1>1, <1>4, Arrivals
<1> QED BY <1>1, <1>3, <1>5, <1>6, <1>7
        DEF FulfilNext, fulfilVars, Capture, Refund, CancelOrder, handling

(* With one handler, no restart and no refused movement the books balance  *)
(* to the unit whenever the handler is not between taking and creating.    *)
THEOREM StockAlwaysAccounted == FulfilSpec => []StockAccountedInTurn
<1>1. FulfilInit => HandsInv /\ ExactInv
  <2>1. FulfilInit => Unrivalled
    BY DEF FulfilInit, Unrivalled, Holding
  <2> QED BY <2>1, BooksAtStart DEF ExactInv
<1>2. FulfilTypeOK /\ FulfilTypeOK' /\ HandsInv /\ ExactInv /\ [FulfilNext]_fulfilVars
        => HandsInv' /\ ExactInv'
  <2> SUFFICES ASSUME FulfilTypeOK, FulfilTypeOK', HandsInv, ExactInv, [FulfilNext]_fulfilVars,
                      Untroubled'
               PROVE  Unrivalled' /\ Books' = InitialStock
    BY HandsStep DEF ExactInv
  <2>1. Untroubled /\ restarts' = restarts
    <3>1. restarts' = restarts \/ restarts' = restarts + 1
      BY DEF FulfilNext, Handle, fulfilVars, Capture, Refund, Publish, Poll, CatchUp, Sweep,
             ForceRecover, CheckPayment, ReadPayment, CheckCheckout, TakeLine, CreateOrder,
             CompleteCheckout, CancelOrder, Restart
    <3> QED BY <3>1, FulfilmentConstants DEF Untroubled, FulfilTypeOK
  <2>2. Unrivalled /\ Books = InitialStock
    BY <2>1 DEF ExactInv
  <2> QED BY <2>1, <2>2, RivalStep, BooksStep DEF Untroubled
<1>3. FulfilTypeOK /\ ExactInv => StockAccountedInTurn
  <2> SUFFICES ASSUME FulfilTypeOK, ExactInv, Untroubled,
                      \A h \in Handlers : at[h] \notin Holding
               PROVE  stock + UnitsOf(Live) = InitialStock + ShortOf(Cancelled)
    BY DEF StockAccountedInTurn, Untroubled, Holding
  <2>1. \A h \in Handlers : unitsInHand[h] = 0
    BY DEF unitsInHand
  <2>2. InHand = 0
    BY <2>1, FulfilmentConstants, SumOfZeros DEF InHand
  <2>3. Books = InitialStock
    BY DEF ExactInv
  <2> QED BY <2>2, <2>3, BooksAreNumbers DEF Books
<1> QED BY <1>1, <1>2, <1>3, FulfilTypeCorrect, PTL DEF FulfilSpec

-----------------------------------------------------------------------------
(* One order, for any number of calls and waybills, however the calls      *)
(* overlap and wherever they die.                                          *)

(* The statuses reached only after a delivery.                             *)
AfterDelivery == {"completed", "returned", "refund_pending", "refunded"}

(* been is closed under predecessors; the last conjunct is not implied by  *)
(* closure, because completed and returned are predecessors of each other. *)
BeenIsWalked ==
  /\ status \in been
  /\ \A s \in been \ {"pending"} : \E before \in been : s \in Transitions[before]
  /\ been \cap AfterDelivery # {} => "delivered" \in been

(* What a call is about to save follows on something the order has been,   *)
(* though not always on what it now is.                                    *)
CallIsWalking(c) ==
  /\ pc[c] \in {"clear return", "clear refund", "save", "put back"} =>
       \E before \in been : goal[c] \in Transitions[before]
  /\ pc[c] = "step" => seen[c] \in been /\ seen[c] \in Range(Pipeline)
  /\ pc[c] = "open return" => "delivered" \in been

WalkInv ==
  /\ TypeOK
  /\ BeenIsWalked
  /\ \A c \in Calls : CallIsWalking(c)
  /\ returnOpen => "delivered" \in been

(* A waybill held by a call or on record was issued.                       *)
BillsAreIssued ==
  /\ waybill \in issued \cup {NoWaybill}
  /\ \A c \in Calls : bill[c] \in issued \cup {NoWaybill}

-----------------------------------------------------------------------------
LEMMA TransitionsType == Transitions \in [OrderStatuses -> SUBSET OrderStatuses]
  BY DEF Transitions, OrderStatuses

LEMMA StatusNames ==
  OrderStatuses = {"pending", "confirmed", "packed", "ready_for_shipment", "shipped",
    "delivered", "completed", "cancelled", "returned", "refund_pending", "refunded"}
  BY DEF Transitions, OrderStatuses

(* A status of the pipeline stands at its position.                        *)
LEMMA PositionIsRight ==
  \A s \in Range(Pipeline) : Position(s) \in 1 .. 6 /\ Pipeline[Position(s)] = s
  BY DEF Range, Pipeline, Position

(* The next status of the pipeline may follow.                             *)
LEMMA PipelineIsAllowed ==
  \A i \in 1 .. 5 : /\ Pipeline[i + 1] \in Transitions[Pipeline[i]]
                    /\ Pipeline[i + 1] \in OrderStatuses \ AfterDelivery
  BY DEF Pipeline, Transitions, OrderStatuses, AfterDelivery

(* What LoopSave writes for a call that has read seen[c].                  *)
LEMMA NextIsAllowed ==
  ASSUME WalkInv, NEW c \in Calls, pc[c] = "step", Position(seen[c]) < Len(Pipeline)
  PROVE  LET s == Pipeline[Position(seen[c]) + 1] IN
           /\ s \in OrderStatuses \ AfterDelivery
           /\ s \in Transitions[seen[c]]
           /\ seen[c] \in been
<1>1. seen[c] \in been /\ seen[c] \in Range(Pipeline)
  BY DEF WalkInv, CallIsWalking
<1>2. Len(Pipeline) = 6
  BY DEF Pipeline
<1>3. Position(seen[c]) \in 1 .. 5 /\ Pipeline[Position(seen[c])] = seen[c]
  BY <1>1, <1>2, PositionIsRight
<1>4. QED BY <1>1, <1>3, PipelineIsAllowed

(* Only a status reached after a delivery, or the delivered one, leads to  *)
(* a status reached after a delivery.                                      *)
LEMMA DeliveryComesFirst ==
  \A before \in OrderStatuses : \A s \in Transitions[before] :
    s \in AfterDelivery => before = "delivered" \/ before \in AfterDelivery
  BY StatusNames DEF Transitions, AfterDelivery

-----------------------------------------------------------------------------
LEMMA InitWalk == Init => WalkInv /\ BillsAreIssued
<1> SUFFICES ASSUME Init PROVE WalkInv /\ BillsAreIssued
  OBVIOUS
<1> USE DEF Init
<1>1. TypeOK
  <2>1. 1 \in 1 .. Len(Says) /\ 0 \in Nat
    BY LifecycleConstants
  <2>2. QED BY <2>1, LifecycleConstants, StatusNames DEF TypeOK, Labels
<1>2. BeenIsWalked
  BY DEF BeenIsWalked, AfterDelivery
<1>3. \A c \in Calls : CallIsWalking(c)
  BY DEF CallIsWalking
<1>4. BillsAreIssued
  BY DEF BillsAreIssued
<1>5. QED BY <1>1, <1>2, <1>3, <1>4 DEF WalkInv

(* Adding a status that follows on one the order has been keeps been       *)
(* walked.                                                                 *)
LEMMA Walk ==
  ASSUME BeenIsWalked, been \subseteq OrderStatuses, NEW s \in OrderStatuses, SetStatus(s),
         \E before \in been : s \in Transitions[before]
  PROVE  BeenIsWalked'
  BY DeliveryComesFirst DEF BeenIsWalked, SetStatus, AfterDelivery

-----------------------------------------------------------------------------
LEMMA TypeStep == WalkInv /\ [Next]_vars => TypeOK'
<1> SUFFICES ASSUME WalkInv, [Next]_vars PROVE TypeOK'
  OBVIOUS
<1>0. TypeOK
  BY DEF WalkInv
<1>a. putBack + 1 \in Nat
  <2>1. putBack \in Nat
    BY <1>0 DEF TypeOK
  <2>2. QED BY <2>1
<1>b. parcel < Len(Says) => parcel + 1 \in 1 .. Len(Says)
  <2>1. parcel \in 1 .. Len(Says)
    BY <1>0 DEF TypeOK
  <2>2. QED BY <2>1, LifecycleConstants
<1> USE <1>0, LifecycleConstants, StatusNames DEF TypeOK, Labels, Leave, Goto, shared
<1>1. ASSUME NEW c \in Calls, NEW to \in OrderStatuses, StaffRead(c, to) PROVE TypeOK'
  BY <1>1 DEF StaffRead
<1>2. ASSUME NEW c \in Calls, CancelRead(c) PROVE TypeOK'
  BY <1>2 DEF CancelRead
<1>3. ASSUME NEW c \in Calls, ShipRead(c) PROVE TypeOK'
  BY <1>3 DEF ShipRead
<1>4. ASSUME NEW c \in Calls, NoteRead(c) PROVE TypeOK'
  BY <1>4 DEF NoteRead
<1>5. ASSUME NEW c \in Calls, ReturnRead(c) PROVE TypeOK'
  BY <1>5 DEF ReturnRead
<1>6. ASSUME NEW c \in Calls, ClearReturn(c) \/ ClearRefund(c) PROVE TypeOK'
  BY <1>6 DEF ClearReturn, ClearRefund
<1>7. ASSUME NEW c \in Calls, SaveStatus(c) PROVE TypeOK'
  BY <1>7 DEF SaveStatus, SetStatus
<1>8. ASSUME NEW c \in Calls, PutBack(c) PROVE TypeOK'
  BY <1>8, <1>a DEF PutBack
<1>9. ASSUME NEW c \in Calls, Issue(c) PROVE TypeOK'
  BY <1>9, ZenonT(40) DEF Issue
<1>10. ASSUME NEW c \in Calls, Record(c) PROVE TypeOK'
  <2>1. CASE seen[c] \in {"confirmed", "packed"}
    BY <1>10, <2>1 DEF Record
  <2>2. CASE seen[c] \notin {"confirmed", "packed"}
    BY <1>10, <2>2 DEF Record
  <2>3. QED BY <2>1, <2>2
<1>11. ASSUME NEW c \in Calls, NoteSave(c) PROVE TypeOK'
  <2>1. CASE goal[c] = "pending"
    BY <1>11, <2>1 DEF NoteSave
  <2>2. CASE goal[c] # "pending"
    BY <1>11, <2>2 DEF NoteSave
  <2>3. QED BY <2>1, <2>2
<1>12. ASSUME NEW c \in Calls, LoopRead(c) PROVE TypeOK'
  <2>1. CASE status \in Range(Pipeline) /\ Position(status) < Position(goal[c])
    BY <1>12, <2>1, ZenonT(40) DEF LoopRead
  <2>2. CASE ~(status \in Range(Pipeline) /\ Position(status) < Position(goal[c]))
    BY <1>12, <2>2 DEF LoopRead
  <2>3. QED BY <2>1, <2>2
<1>13. ASSUME NEW c \in Calls, LoopSave(c) PROVE TypeOK'
  <2>1. CASE Position(seen[c]) < Len(Pipeline)
    <3>1. status' \in OrderStatuses /\ been' \subseteq OrderStatuses
      BY <1>13, <2>1, NextIsAllowed DEF LoopSave, WalkInv, SetStatus
    <3>2. QED BY <1>13, <3>1 DEF LoopSave
  <2>2. CASE ~(Position(seen[c]) < Len(Pipeline))
    BY <1>13, <2>2 DEF LoopSave
  <2>3. QED BY <2>1, <2>2
<1>14. ASSUME NEW c \in Calls, OpenReturn(c) PROVE TypeOK'
  BY <1>14 DEF OpenReturn
<1>15. ASSUME NEW c \in Calls, Die(c) PROVE TypeOK'
  BY <1>15 DEF Die
<1>16. CASE Carry
  BY <1>16, <1>b DEF Carry, local
<1>17. CASE UNCHANGED vars
  BY <1>17 DEF vars, local
<1> HIDE DEF TypeOK
<1>18. QED
  BY <1>1, <1>2, <1>3, <1>4, <1>5, <1>6, <1>7, <1>8, <1>9, <1>10, <1>11, <1>12,
     <1>13, <1>14, <1>15, <1>16, <1>17 DEF Next, Begin, GoOn

-----------------------------------------------------------------------------
(* The document: statuses change in SaveStatus and LoopSave only, and a    *)
(* return is opened in OpenReturn only.                                    *)
LEMMA DocumentStep ==
  WalkInv /\ [Next]_vars =>
    BeenIsWalked' /\ been \subseteq been' /\ (returnOpen' => "delivered" \in been')
<1> DEFINE Goal == /\ BeenIsWalked' /\ been \subseteq been'
                   /\ (returnOpen' => "delivered" \in been')
<1> SUFFICES ASSUME WalkInv, [Next]_vars PROVE Goal
  OBVIOUS
<1>0. been \subseteq OrderStatuses /\ returnOpen \in BOOLEAN
  BY DEF WalkInv, TypeOK
<1>1. ASSUME UNCHANGED << status, been >>, returnOpen' => returnOpen PROVE Goal
  BY <1>1 DEF WalkInv, BeenIsWalked
<1>2. ASSUME NEW c \in Calls, SaveStatus(c) PROVE Goal
  <2>1. goal[c] \in OrderStatuses /\ \E before \in been : goal[c] \in Transitions[before]
    BY <1>2 DEF SaveStatus, WalkInv, CallIsWalking, TypeOK
  <2>2. SetStatus(goal[c]) /\ UNCHANGED returnOpen
    BY <1>2 DEF SaveStatus
  <2>3. BeenIsWalked'
    BY <1>0, <2>1, <2>2, Walk DEF WalkInv
  <2>4. QED BY <2>2, <2>3 DEF SetStatus, WalkInv
<1>3. ASSUME NEW c \in Calls, LoopSave(c) PROVE Goal
  <2>1. CASE Position(seen[c]) < Len(Pipeline)
    <3> DEFINE s == Pipeline[Position(seen[c]) + 1]
    <3>1. s \in OrderStatuses /\ s \in Transitions[seen[c]] /\ seen[c] \in been
      BY <1>3, <2>1, NextIsAllowed DEF LoopSave
    <3>2. SetStatus(s) /\ UNCHANGED returnOpen
      BY <1>3, <2>1 DEF LoopSave
    <3> HIDE DEF s
    <3>3. BeenIsWalked'
      BY <1>0, <3>1, <3>2, Walk DEF WalkInv
    <3>4. QED BY <3>2, <3>3 DEF SetStatus, WalkInv
  <2>2. CASE ~(Position(seen[c]) < Len(Pipeline))
    BY <1>3, <2>2, <1>1 DEF LoopSave
  <2>3. QED BY <2>1, <2>2
<1>4. ASSUME NEW c \in Calls, OpenReturn(c) PROVE Goal
  BY <1>4 DEF OpenReturn, WalkInv, BeenIsWalked, CallIsWalking
<1>5. CASE UNCHANGED vars
  BY <1>1, <1>5 DEF vars, shared
<1>6. CASE Carry
  BY <1>1, <1>6 DEF Carry
<1>7. ASSUME NEW c \in Calls, Begin(c) PROVE Goal
  BY <1>1, <1>7 DEF Begin, StaffRead, CancelRead, ShipRead, NoteRead, ReturnRead, shared
<1>8. ASSUME NEW c \in Calls, ClearReturn(c) \/ ClearRefund(c) \/ PutBack(c) PROVE Goal
  BY <1>1, <1>8 DEF ClearReturn, ClearRefund, PutBack, shared
<1>9. ASSUME NEW c \in Calls, Issue(c) \/ Record(c) \/ NoteSave(c) \/ LoopRead(c) PROVE Goal
  BY <1>1, <1>9 DEF Issue, Record, NoteSave, LoopRead, shared
<1>10. ASSUME NEW c \in Calls, Die(c) PROVE Goal
  BY <1>1, <1>10 DEF Die, shared
<1> HIDE DEF Goal
<1>11. QED
  BY <1>2, <1>3, <1>4, <1>5, <1>6, <1>7, <1>8, <1>9, <1>10 DEF Next, GoOn

(* A call that does not move goes on walking: been only grows.             *)
LEMMA OthersWalk ==
  ASSUME been \subseteq been', NEW d, CallIsWalking(d),
         pc'[d] = pc[d], goal'[d] = goal[d], seen'[d] = seen[d]
  PROVE  CallIsWalking(d)'
  BY DEF CallIsWalking

(* A call that ends, or is at a point where it is about to save nothing,   *)
(* has nothing to answer for.                                              *)
LEMMA HarmlessLabel ==
  ASSUME NEW c \in Calls,
         pc'[c] \in {"idle", "issue", "record", "note", "loop"}
  PROVE  CallIsWalking(c)'
  BY DEF CallIsWalking

LEMMA LeaveIsHarmless ==
  ASSUME TypeOK, NEW c \in Calls, Leave(c)
  PROVE  CallIsWalking(c)'
<1>1. pc'[c] = "idle"
  BY DEF TypeOK, Leave, Goto
<1>2. QED BY <1>1 DEF CallIsWalking

(* A cancellable status may be followed by cancelled.                      *)
LEMMA CancellableMayCancel ==
  \A s \in Cancellable : "cancelled" \in Transitions[s]
  BY DEF Cancellable, Transitions

-----------------------------------------------------------------------------
(* The call that begins.                                                   *)
LEMMA BeginWalks ==
  ASSUME WalkInv, NEW c \in Calls, Begin(c)
  PROVE  CallIsWalking(c)'
<1>0. TypeOK /\ BeenIsWalked
  BY DEF WalkInv
<1>1. ASSUME NEW to \in OrderStatuses, StaffRead(c, to) PROVE CallIsWalking(c)'
  <2>1. /\ to \in Transitions[status] /\ goal'[c] = to
        /\ pc'[c] \in {"clear return", "save"} /\ been' = been /\ status \in been
    BY <1>0, <1>1 DEF StaffRead, TypeOK, BeenIsWalked, Goto, shared
  <2>2. QED BY <2>1 DEF CallIsWalking
<1>2. ASSUME CancelRead(c) PROVE CallIsWalking(c)'
  <2>1. /\ status \in Cancellable /\ goal'[c] = "cancelled"
        /\ pc'[c] = "put back" /\ been' = been /\ status \in been
    BY <1>0, <1>2 DEF CancelRead, TypeOK, BeenIsWalked, Goto, shared
  <2>2. QED BY <2>1, CancellableMayCancel DEF CallIsWalking
<1>3. ASSUME ShipRead(c) PROVE CallIsWalking(c)'
  <2>1. pc'[c] = "issue"
    BY <1>0, <1>3 DEF ShipRead, TypeOK, Goto
  <2>2. QED BY <2>1 DEF CallIsWalking
<1>4. ASSUME NoteRead(c) PROVE CallIsWalking(c)'
  <2>1. pc'[c] = "note"
    BY <1>0, <1>4 DEF NoteRead, TypeOK, Goto
  <2>2. QED BY <2>1 DEF CallIsWalking
<1>5. ASSUME ReturnRead(c) PROVE CallIsWalking(c)'
  <2>1. /\ status \in {"delivered", "completed"} /\ been' = been
        /\ pc'[c] = "open return" /\ status \in been
    BY <1>0, <1>5 DEF ReturnRead, TypeOK, BeenIsWalked, Goto, shared
  <2>2. "delivered" \in been
    BY <1>0, <2>1 DEF BeenIsWalked, AfterDelivery
  <2>3. QED BY <2>1, <2>2 DEF CallIsWalking
<1>6. QED BY <1>1, <1>2, <1>3, <1>4, <1>5 DEF Begin

(* The call that goes on.                                                  *)
LEMMA GoOnWalks ==
  ASSUME WalkInv, NEW c \in Calls, GoOn(c), been \subseteq been'
  PROVE  CallIsWalking(c)'
<1>0. TypeOK /\ BeenIsWalked /\ CallIsWalking(c)
  BY DEF WalkInv
<1>1. ASSUME ClearReturn(c) \/ ClearRefund(c) \/ PutBack(c) PROVE CallIsWalking(c)'
  <2>1. /\ pc[c] \in {"clear return", "clear refund", "put back"}
        /\ pc'[c] \in {"clear refund", "save"} /\ goal' = goal
    BY <1>0, <1>1 DEF ClearReturn, ClearRefund, PutBack, TypeOK, Goto
  <2>2. QED BY <1>0, <2>1 DEF CallIsWalking
<1>2. ASSUME SaveStatus(c) \/ OpenReturn(c) PROVE CallIsWalking(c)'
  <2>1. Leave(c)
    BY <1>2 DEF SaveStatus, OpenReturn
  <2>2. QED BY <1>0, <2>1, LeaveIsHarmless
<1>3. ASSUME Issue(c) PROVE CallIsWalking(c)'
  <2>1. pc'[c] \in {"record", "idle"}
    BY <1>0, <1>3 DEF Issue, TypeOK, Goto, Leave
  <2>2. QED BY <2>1 DEF CallIsWalking
<1>4. ASSUME Record(c) PROVE CallIsWalking(c)'
  <2>1. pc'[c] \in {"loop", "idle"}
    BY <1>0, <1>4 DEF Record, TypeOK, Goto, Leave
  <2>2. QED BY <2>1 DEF CallIsWalking
<1>5. ASSUME NoteSave(c) PROVE CallIsWalking(c)'
  <2>1. pc'[c] \in {"loop", "idle"}
    BY <1>0, <1>5 DEF NoteSave, TypeOK, Goto, Leave
  <2>2. QED BY <2>1 DEF CallIsWalking
<1>6. ASSUME LoopRead(c) PROVE CallIsWalking(c)'
  <2>1. CASE status \in Range(Pipeline) /\ Position(status) < Position(goal[c])
    <3>1. /\ seen'[c] = status /\ status \in Range(Pipeline) /\ status \in been
          /\ pc'[c] = "step" /\ been' = been
      BY <1>0, <1>6, <2>1 DEF LoopRead, TypeOK, BeenIsWalked, Goto, shared
    <3>2. QED BY <3>1 DEF CallIsWalking
  <2>2. CASE ~(status \in Range(Pipeline) /\ Position(status) < Position(goal[c]))
    <3>1. Leave(c)
      BY <1>6, <2>2 DEF LoopRead
    <3>2. QED BY <1>0, <3>1, LeaveIsHarmless
  <2>3. QED BY <2>1, <2>2
<1>7. ASSUME LoopSave(c) PROVE CallIsWalking(c)'
  <2>1. pc'[c] = "loop"
    BY <1>0, <1>7 DEF LoopSave, TypeOK, Goto
  <2>2. QED BY <2>1 DEF CallIsWalking
<1>8. QED BY <1>1, <1>2, <1>3, <1>4, <1>5, <1>6, <1>7 DEF GoOn

(* A step of one call leaves the local state of the others.                *)
LEMMA OthersStay ==
  ASSUME TypeOK, NEW c \in Calls, Begin(c) \/ GoOn(c) \/ Die(c), NEW d \in Calls, d # c
  PROVE  pc'[d] = pc[d] /\ goal'[d] = goal[d] /\ seen'[d] = seen[d] /\ bill'[d] = bill[d]
<1> USE DEF TypeOK, Goto, Leave
<1>1. CASE Begin(c)
  BY <1>1 DEF Begin, StaffRead, CancelRead, ShipRead, NoteRead, ReturnRead
<1>2. CASE ClearReturn(c) \/ ClearRefund(c) \/ PutBack(c) \/ SaveStatus(c) \/ OpenReturn(c)
  BY <1>2 DEF ClearReturn, ClearRefund, PutBack, SaveStatus, OpenReturn
<1>3. CASE Issue(c)
  BY <1>3 DEF Issue
<1>4. CASE Record(c)
  BY <1>4 DEF Record
<1>5. CASE NoteSave(c)
  BY <1>5 DEF NoteSave
<1>6. CASE LoopRead(c)
  BY <1>6 DEF LoopRead
<1>7. CASE LoopSave(c)
  BY <1>7 DEF LoopSave
<1>8. CASE Die(c)
  BY <1>8 DEF Die
<1>9. QED
  BY <1>1, <1>2, <1>3, <1>4, <1>5, <1>6, <1>7, <1>8 DEF GoOn

LEMMA CallsStep ==
  WalkInv /\ [Next]_vars => \A d \in Calls : CallIsWalking(d)'
<1> SUFFICES ASSUME WalkInv, [Next]_vars, NEW d \in Calls PROVE CallIsWalking(d)'
  OBVIOUS
<1>0. TypeOK /\ CallIsWalking(d) /\ been \subseteq been'
  BY DocumentStep DEF WalkInv
<1>1. ASSUME NEW c \in Calls, Begin(c) \/ GoOn(c) \/ Die(c) PROVE CallIsWalking(d)'
  <2>1. CASE d = c
    <3>1. CASE Die(c)
      BY <1>0, <2>1, <3>1, LeaveIsHarmless DEF Die
    <3>2. QED BY <1>0, <1>1, <2>1, <3>1, BeginWalks, GoOnWalks
  <2>2. CASE d # c
    <3>1. pc'[d] = pc[d] /\ goal'[d] = goal[d] /\ seen'[d] = seen[d]
      BY <1>0, <1>1, <2>2, OthersStay
    <3>2. QED BY <1>0, <3>1, OthersWalk
  <2>3. QED BY <2>1, <2>2
<1>2. CASE Carry \/ UNCHANGED vars
  <2>1. pc' = pc /\ goal' = goal /\ seen' = seen
    BY <1>2 DEF Carry, vars, local
  <2>2. QED BY <1>0, <2>1, OthersWalk
<1>3. QED BY <1>1, <1>2 DEF Next

LEMMA WalkStep == WalkInv /\ [Next]_vars => WalkInv'
  BY TypeStep, DocumentStep, CallsStep DEF WalkInv

LEMMA WalkAlways == Spec => []WalkInv
<1>1. Init => WalkInv
  BY InitWalk
<1>2. QED BY <1>1, WalkStep, PTL DEF Spec

-----------------------------------------------------------------------------
(* The variables keep their types, for every number of calls and waybills. *)
THEOREM TypeCorrect == Spec => []TypeOK
<1>1. WalkInv => TypeOK
  BY DEF WalkInv
<1>2. QED BY <1>1, WalkAlways, PTL

(* However calls overlap or die: no status without one it may be reached   *)
(* from, no return request without a delivery.                             *)
THEOREM WalkedThroughAlways == Spec => []WalkedThrough
<1>1. WalkInv => WalkedThrough
  BY DEF WalkInv, BeenIsWalked, WalkedThrough
<1>2. QED BY <1>1, WalkAlways, PTL

-----------------------------------------------------------------------------
(* Every waybill written was handed to its call by the courier.            *)
LEMMA BillsStep == TypeOK /\ BillsAreIssued /\ [Next]_vars => BillsAreIssued'
<1> SUFFICES ASSUME TypeOK, BillsAreIssued, [Next]_vars PROVE BillsAreIssued'
  OBVIOUS
<1> USE DEF TypeOK, BillsAreIssued, Goto, Leave, shared
<1>1. ASSUME NEW c \in Calls, Begin(c) PROVE BillsAreIssued'
  BY <1>1 DEF Begin, StaffRead, CancelRead, ShipRead, NoteRead, ReturnRead
<1>2. ASSUME NEW c \in Calls,
             ClearReturn(c) \/ ClearRefund(c) \/ PutBack(c) \/ SaveStatus(c) \/ OpenReturn(c)
      PROVE BillsAreIssued'
  BY <1>2 DEF ClearReturn, ClearRefund, PutBack, SaveStatus, OpenReturn
<1>3. ASSUME NEW c \in Calls, Issue(c) PROVE BillsAreIssued'
  BY <1>3 DEF Issue
<1>4. ASSUME NEW c \in Calls, Record(c) PROVE BillsAreIssued'
  BY <1>4 DEF Record
<1>5. ASSUME NEW c \in Calls, NoteSave(c) PROVE BillsAreIssued'
  BY <1>5 DEF NoteSave
<1>6. ASSUME NEW c \in Calls, LoopRead(c) PROVE BillsAreIssued'
  BY <1>6 DEF LoopRead
<1>7. ASSUME NEW c \in Calls, LoopSave(c) PROVE BillsAreIssued'
  BY <1>7 DEF LoopSave
<1>8. ASSUME NEW c \in Calls, Die(c) PROVE BillsAreIssued'
  BY <1>8 DEF Die
<1>9. CASE Carry
  BY <1>9 DEF Carry, local
<1>10. CASE UNCHANGED vars
  BY <1>10 DEF vars, local
<1> HIDE DEF BillsAreIssued
<1>11. QED
  BY <1>1, <1>2, <1>3, <1>4, <1>5, <1>6, <1>7, <1>8, <1>9, <1>10 DEF Next, GoOn

(* The waybill on record, and every waybill a call is about to record, is  *)
(* one the courier issued for this order.                                  *)
THEOREM BillsAreIssuedAlways == Spec => []BillsAreIssued
<1>1. Init => BillsAreIssued
  BY InitWalk
<1>2. QED BY <1>1, BillsStep, TypeCorrect, PTL DEF Spec

-----------------------------------------------------------------------------
(* Calls that come one after the other, wherever they die: what a call is  *)
(* about to save follows on the status the order now has, and a call that  *)
(* is about to restore the order has closed its return request.            *)
InTurn == ~under.overlap

OneAtATime == \A c, d \in Calls : pc[c] # "idle" /\ pc[d] # "idle" => c = d

Saving == {"clear return", "clear refund", "save", "put back"}

CallFollows(c) ==
  /\ pc[c] \in Saving => goal[c] \in Transitions[status]
  /\ pc[c] = "put back" => goal[c] = "cancelled"
  /\ pc[c] = "step" => seen[c] = status
  /\ pc[c] \in {"clear refund", "save"} /\ Restores(status, goal[c]) => ~returnOpen

(* An order that may be cancelled has never been anything that may not.    *)
YoungOrder == status \in Cancellable => been \subseteq Cancellable

TurnInv == InTurn => OneAtATime /\ YoungOrder /\ \A c \in Calls : CallFollows(c)

LEMMA NoWayBack ==
  \A before \in OrderStatuses : \A s \in Transitions[before] :
    s \in Cancellable => before \in Cancellable
  BY StatusNames DEF Transitions, Cancellable

(* The others are at rest while one call takes its step.                   *)
LEMMA OthersRest ==
  ASSUME TypeOK, TurnInv, InTurn, NEW c \in Calls, Begin(c) \/ GoOn(c) \/ Die(c)
  PROVE  \A d \in Calls : d # c => pc[d] = "idle" /\ pc'[d] = "idle"
<1>1. ASSUME Begin(c) PROVE \A d \in Calls : pc[d] = "idle"
  BY <1>1 DEF Begin, StaffRead, CancelRead, ShipRead, NoteRead, ReturnRead, MayBegin, InTurn
<1>2. ASSUME GoOn(c) \/ Die(c) PROVE pc[c] # "idle"
  BY <1>2 DEF GoOn, ClearReturn, ClearRefund, SaveStatus, PutBack, Issue, Record, NoteSave, LoopRead,
             LoopSave, OpenReturn, Die
<1>3. \A d \in Calls : d # c => pc[d] = "idle"
  BY <1>1, <1>2 DEF TurnInv, OneAtATime
<1>4. QED BY <1>3, OthersStay

LEMMA TurnPasses ==
  ASSUME TypeOK, TurnInv, InTurn, NEW c \in Calls, Begin(c) \/ GoOn(c) \/ Die(c),
         under' = under, CallFollows(c)', YoungOrder'
  PROVE  TurnInv'
<1>1. \A d \in Calls : d # c => pc'[d] = "idle"
  BY OthersRest
<1>2. OneAtATime'
  BY <1>1 DEF OneAtATime
<1>3. \A d \in Calls : d # c => CallFollows(d)'
  BY <1>1 DEF CallFollows, Saving
<1>4. QED BY <1>2, <1>3 DEF TurnInv

(* A status that follows on the one the order has leaves it young or is    *)
(* past cancelling.                                                        *)
LEMMA YoungStays ==
  ASSUME TypeOK, YoungOrder,
         UNCHANGED << status, been >> \/
           \E s \in OrderStatuses : SetStatus(s) /\ s \in Transitions[status]
  PROVE  YoungOrder'
<1>1. CASE UNCHANGED << status, been >>
  BY <1>1 DEF YoungOrder
<1>2. ASSUME NEW s \in OrderStatuses, SetStatus(s), s \in Transitions[status] PROVE YoungOrder'
  <2>1. s \in Cancellable => status \in Cancellable
    BY <1>2, NoWayBack DEF TypeOK
  <2>2. QED BY <1>2, <2>1 DEF YoungOrder, SetStatus
<1>3. QED BY <1>1, <1>2

(* What a step makes of the status: nothing, what its call is after, or    *)
(* the next in the courier's walk.                                         *)
LEMMA StatusFollows ==
  ASSUME WalkInv, TurnInv, InTurn, NEW c \in Calls, Begin(c) \/ GoOn(c) \/ Die(c)
  PROVE  /\ under' = under
         /\ \/ UNCHANGED << status, been >>
            \/ /\ pc[c] = "save" /\ SetStatus(goal[c]) /\ goal[c] \in Transitions[status]
               /\ returnOpen' = returnOpen /\ putBack' = putBack /\ pc'[c] = "idle"
            \/ /\ pc[c] = "step" /\ status \in Range(Pipeline) /\ returnOpen' = returnOpen /\ putBack' = putBack
               /\ \E s \in OrderStatuses \ AfterDelivery : SetStatus(s) /\ s \in Transitions[status]
<1>1. CASE SaveStatus(c)
  <2>1. pc[c] = "save" /\ SetStatus(goal[c]) /\ UNCHANGED << under, returnOpen, putBack >> /\ pc'[c] = "idle"
    BY <1>1 DEF SaveStatus, Leave, Goto, WalkInv, TypeOK
  <2>2. goal[c] \in Transitions[status]
    BY <2>1 DEF TurnInv, CallFollows, Saving
  <2>3. QED BY <2>1, <2>2
<1>2. CASE LoopSave(c)
  <2>1. pc[c] = "step" /\ seen[c] = status /\ UNCHANGED << under, returnOpen, putBack >>
    BY <1>2 DEF LoopSave, TurnInv, CallFollows
  <2>2. CASE Position(seen[c]) < Len(Pipeline)
    <3> DEFINE s == Pipeline[Position(seen[c]) + 1]
    <3>1. s \in OrderStatuses \ AfterDelivery /\ s \in Transitions[status]
      BY <2>1, <2>2, NextIsAllowed
    <3>2. SetStatus(s)
      BY <1>2, <2>2 DEF LoopSave
    <3>3. status \in Range(Pipeline)
      BY <2>1 DEF WalkInv, CallIsWalking
    <3>4. QED BY <2>1, <3>1, <3>2, <3>3
  <2>3. CASE ~(Position(seen[c]) < Len(Pipeline))
    BY <1>2, <2>1, <2>3 DEF LoopSave
  <2>4. QED BY <2>2, <2>3
<1>3. CASE Begin(c) \/ Die(c)
  BY <1>3 DEF Begin, StaffRead, CancelRead, ShipRead, NoteRead, ReturnRead, Die, shared
<1>4. CASE ClearReturn(c) \/ ClearRefund(c) \/ PutBack(c) \/ Issue(c) \/ Record(c) \/ NoteSave(c)
            \/ LoopRead(c) \/ OpenReturn(c)
  BY <1>4 DEF ClearReturn, ClearRefund, PutBack, Issue, Record, NoteSave, LoopRead, OpenReturn, shared
<1>5. QED BY <1>1, <1>2, <1>3, <1>4 DEF GoOn

LEMMA CallGoesOn ==
  ASSUME WalkInv, TurnInv, InTurn, NEW c \in Calls, Begin(c) \/ GoOn(c) \/ Die(c)
  PROVE  CallFollows(c)'
<1>0. TypeOK /\ CallFollows(c)
  BY DEF WalkInv, TurnInv
<1>1. ASSUME pc'[c] \notin Saving \cup {"step"} PROVE CallFollows(c)'
  BY <1>1 DEF CallFollows, Saving
<1>2. ASSUME NEW to \in OrderStatuses, StaffRead(c, to) PROVE CallFollows(c)'
  <2>1. /\ to \in Transitions[status] /\ goal'[c] = to /\ UNCHANGED << status, returnOpen >>
        /\ pc'[c] = IF Restores(status, to) THEN "clear return" ELSE "save"
    BY <1>0, <1>2 DEF StaffRead, TypeOK, Goto, shared
  <2>2. QED BY <2>1 DEF CallFollows, Saving
<1>3. CASE CancelRead(c)
  <2>1. /\ status \in Cancellable /\ goal'[c] = "cancelled" /\ pc'[c] = "put back" /\ UNCHANGED status
    BY <1>0, <1>3 DEF CancelRead, TypeOK, Goto, shared
  <2>2. QED BY <2>1, CancellableMayCancel DEF CallFollows
<1>4. CASE ClearReturn(c)
  <2>1. /\ pc[c] = "clear return" /\ pc'[c] = "clear refund" /\ goal' = goal /\ status' = status
        /\ returnOpen' = FALSE
    BY <1>0, <1>4 DEF ClearReturn, TypeOK, Goto
  <2>2. QED BY <1>0, <2>1 DEF CallFollows, Saving
<1>5. CASE ClearRefund(c)
  <2>1. /\ pc[c] = "clear refund" /\ pc'[c] = "save" /\ UNCHANGED << goal, status, returnOpen >>
    BY <1>0, <1>5 DEF ClearRefund, TypeOK, Goto, shared
  <2>2. QED BY <1>0, <2>1 DEF CallFollows, Saving
<1>6. CASE PutBack(c)
  <2>1. /\ pc[c] = "put back" /\ pc'[c] = "save" /\ UNCHANGED << goal, status, returnOpen >>
    BY <1>0, <1>6 DEF PutBack, TypeOK, Goto
  <2>2. goal'[c] = "cancelled" /\ goal'[c] \in Transitions[status']
    BY <1>0, <2>1 DEF CallFollows, Saving
  <2>3. QED BY <2>1, <2>2 DEF CallFollows, Restores
<1>7. CASE LoopRead(c)
  <2>1. (pc'[c] = "step" /\ seen'[c] = status /\ status' = status) \/ pc'[c] = "idle"
    BY <1>0, <1>7 DEF LoopRead, TypeOK, Goto, Leave, shared
  <2>2. QED BY <2>1 DEF CallFollows, Saving
<1>8. CASE ShipRead(c) \/ NoteRead(c) \/ ReturnRead(c) \/ SaveStatus(c) \/ LoopSave(c) \/ OpenReturn(c)
            \/ Die(c)
  <2>1. pc'[c] \in {"issue", "note", "open return", "idle", "loop"}
    BY <1>0, <1>8 DEF ShipRead, NoteRead, ReturnRead, SaveStatus, LoopSave, OpenReturn, Die, Leave,
                     Goto, TypeOK
  <2>2. QED BY <1>1, <2>1 DEF Saving
<1>9. CASE Issue(c) \/ Record(c) \/ NoteSave(c)
  <2>1. pc'[c] \in {"record", "idle", "loop"}
    BY <1>0, <1>9 DEF Issue, Record, NoteSave, Leave, Goto, TypeOK
  <2>2. QED BY <1>1, <2>1 DEF Saving
<1>10. QED
  BY <1>2, <1>3, <1>4, <1>5, <1>6, <1>7, <1>8, <1>9 DEF Begin, GoOn

LEMMA TurnStep == WalkInv /\ TurnInv /\ [Next]_vars => TurnInv'
<1> SUFFICES ASSUME WalkInv, TurnInv, [Next]_vars PROVE TurnInv'
  OBVIOUS
<1>1. TypeOK
  BY DEF WalkInv
<1>2. CASE Carry \/ UNCHANGED vars
  BY <1>2 DEF Carry, vars, shared, local, TurnInv, InTurn, OneAtATime, YoungOrder, CallFollows
<1>3. ASSUME NEW c \in Calls, Begin(c) \/ GoOn(c) \/ Die(c) PROVE TurnInv'
  <2>1. CASE ~InTurn
    <3>1. under' = under
      BY <1>3 DEF Begin, StaffRead, CancelRead, ShipRead, NoteRead, ReturnRead, Die, shared, GoOn,
                  ClearReturn, ClearRefund, SaveStatus, PutBack, Issue, Record, NoteSave, LoopRead,
                  LoopSave, OpenReturn
    <3>2. QED BY <2>1, <3>1 DEF TurnInv, InTurn
  <2>2. CASE InTurn
    <3>1. YoungOrder'
      <4>1. YoungOrder /\ (pc[c] = "save" => goal[c] \in OrderStatuses)
        BY <1>1, <2>2 DEF TurnInv, TypeOK
      <4>2. QED BY <1>1, <1>3, <2>2, <4>1, StatusFollows, YoungStays
    <3>2. QED BY <1>1, <1>3, <2>2, <3>1, StatusFollows, CallGoesOn, TurnPasses
  <2>3. QED BY <2>1, <2>2
<1>4. QED BY <1>2, <1>3 DEF Next

LEMMA TurnAlways == Spec => [](WalkInv /\ TurnInv)
<1>1. Init => TurnInv
  BY DEF Init, TurnInv, OneAtATime, YoungOrder, Cancellable, CallFollows, Saving
<1>2. QED BY <1>1, TurnStep, WalkAlways, PTL DEF Spec

(* Calls coming one after the other: an order that comes back to completed *)
(* has no return request left open.                                        *)
THEOREM RestoredAlwaysClear == Spec => RestoredIsClear
<1>1. WalkInv /\ TurnInv /\ [Next]_vars => [Restores(status, status') /\ ~under.overlap => ~returnOpen']_vars
  <2> SUFFICES ASSUME WalkInv, TurnInv, [Next]_vars, Restores(status, status'), InTurn
               PROVE  ~returnOpen'
    BY DEF InTurn
  <2>1. status' # status
    BY DEF Restores
  <2>2. PICK c \in Calls : Begin(c) \/ GoOn(c) \/ Die(c)
    BY <2>1 DEF Next, Carry, vars, shared
  <2>3. CASE pc[c] = "save" /\ SetStatus(goal[c]) /\ returnOpen' = returnOpen
    BY <2>3 DEF SetStatus, TurnInv, CallFollows
  <2>4. ASSUME NEW s \in OrderStatuses \ AfterDelivery, SetStatus(s) PROVE FALSE
    BY <2>4 DEF SetStatus, Restores, AfterDelivery
  <2>5. QED BY <2>1, <2>2, <2>3, <2>4, StatusFollows
<1>2. QED BY <1>1, TurnAlways, PTL DEF Spec, RestoredIsClear

-----------------------------------------------------------------------------
(* None dying either: units that were put back belong to an order that is  *)
(* cancelled, or whose cancellation is the next thing to be saved.         *)
Undisturbed == InTurn /\ ~under.crash

BackInv ==
  Undisturbed =>
    /\ putBack \in {0, 1}
    /\ putBack = 1 => "shipped" \notin been
    /\ putBack = 1 => status = "cancelled" \/ \E c \in Calls : pc[c] = "save" /\ goal[c] = "cancelled"
    /\ \A c \in Calls : pc[c] = "put back" => putBack = 0

LEMMA CancelledFrom ==
  \A s \in OrderStatuses : "cancelled" \in Transitions[s] => s \in Cancellable
  BY StatusNames DEF Transitions, Cancellable

LEMMA CancelledIsLast ==
  /\ Transitions["cancelled"] = {}
  /\ "cancelled" \notin Range(Pipeline) \cup Cancellable
  /\ "shipped" \notin Cancellable
  BY DEF Transitions, Range, Pipeline, Cancellable

LEMMA BackStep == WalkInv /\ TurnInv /\ BackInv /\ [Next]_vars => BackInv'
<1> SUFFICES ASSUME WalkInv, TurnInv, BackInv, [Next]_vars, Undisturbed' PROVE BackInv'
  BY DEF BackInv
<1>1. TypeOK
  BY DEF WalkInv
<1>2. CASE Carry \/ UNCHANGED vars
  BY <1>2 DEF Carry, vars, shared, local, BackInv, Undisturbed, InTurn
<1>3. ASSUME NEW c \in Calls, Begin(c) \/ GoOn(c) \/ Die(c) PROVE BackInv'
  <2>1. Undisturbed /\ (Begin(c) \/ GoOn(c))
    <3>1. under' = under
      BY <1>3 DEF Begin, StaffRead, CancelRead, ShipRead, NoteRead, ReturnRead, Die, shared, GoOn,
                  ClearReturn, ClearRefund, SaveStatus, PutBack, Issue, Record, NoteSave, LoopRead,
                  LoopSave, OpenReturn
    <3>2. QED BY <1>3, <3>1 DEF Undisturbed, InTurn, Die
  <2>2. /\ putBack \in {0, 1}
        /\ putBack = 1 => "shipped" \notin been
        /\ putBack = 1 => status = "cancelled" \/ (pc[c] = "save" /\ goal[c] = "cancelled")
        /\ pc[c] = "put back" => putBack = 0
    <3>1. \A d \in Calls : d # c => pc[d] = "idle"
      BY <1>1, <1>3, <2>1, OthersRest DEF Undisturbed
    <3>2. QED BY <2>1, <3>1 DEF BackInv
  <2>3. \A d \in Calls : d # c => pc'[d] = "idle"
    BY <1>1, <1>3, <2>1, OthersRest DEF Undisturbed
  <2>4. SUFFICES /\ putBack' \in {0, 1}
                 /\ putBack' = 1 => "shipped" \notin been'
                 /\ putBack' = 1 => status' = "cancelled" \/ (pc'[c] = "save" /\ goal'[c] = "cancelled")
                 /\ pc'[c] = "put back" => putBack' = 0
    BY <2>3 DEF BackInv
  <2>5. CASE Begin(c)
    <3>1. UNCHANGED << status, been, putBack >> /\ pc[c] = "idle"
      BY <2>5 DEF Begin, StaffRead, CancelRead, ShipRead, NoteRead, ReturnRead, MayBegin, shared
    <3>2. pc'[c] = "put back" => status \in Cancellable
      BY <1>1, <2>5 DEF Begin, StaffRead, CancelRead, ShipRead, NoteRead, ReturnRead, TypeOK, Goto
    <3>3. QED BY <2>2, <3>1, <3>2, CancelledIsLast
  <2>6. CASE PutBack(c)
    <3>1. /\ pc[c] = "put back" /\ pc'[c] = "save" /\ UNCHANGED << goal, status, been >>
          /\ putBack' \in {putBack, putBack + 1}
      BY <1>1, <2>6 DEF PutBack, TypeOK, Goto
    <3>2. goal[c] = "cancelled" /\ goal[c] \in Transitions[status]
      BY <2>1, <3>1 DEF TurnInv, Undisturbed, CallFollows, Saving
    <3>3. status \in Cancellable /\ been \subseteq Cancellable
      BY <1>1, <2>1, <3>2, CancelledFrom DEF TypeOK, TurnInv, Undisturbed, YoungOrder
    <3>4. putBack' \in {0, 1}
      <4>1. putBack = 0
        BY <2>2, <3>1
      <4>2. putBack' \in {0, 0 + 1}
        BY <3>1, <4>1, Zenon
      <4>3. QED BY <4>2
    <3>5. "shipped" \notin been'
      BY <3>1, <3>3, CancelledIsLast, Zenon
    <3>6. QED BY <3>1, <3>2, <3>4, <3>5
  <2>7. CASE GoOn(c) /\ ~PutBack(c)
    <3>1. putBack' = putBack /\ pc'[c] # "put back"
      BY <1>1, <2>7 DEF GoOn, ClearReturn, ClearRefund, SaveStatus, Issue, Record, NoteSave, LoopRead,
                       LoopSave, OpenReturn, Leave, Goto, TypeOK, shared
    <3>2. CASE putBack = 1 /\ status = "cancelled"
      <4>1. UNCHANGED << status, been >>
        BY <1>3, <2>1, <3>2, StatusFollows, CancelledIsLast DEF Undisturbed
      <4>2. QED BY <2>2, <3>1, <3>2, <4>1
    <3>3. CASE putBack = 1 /\ pc[c] = "save" /\ goal[c] = "cancelled"
      <4>1. SaveStatus(c)
        BY <2>7, <3>3 DEF GoOn, ClearReturn, ClearRefund, Issue, Record, NoteSave, LoopRead, LoopSave,
                         OpenReturn
      <4>2. SetStatus("cancelled")
        BY <3>3, <4>1 DEF SaveStatus
      <4>3. QED BY <2>2, <3>1, <3>3, <4>2 DEF SetStatus
    <3>4. QED BY <2>2, <3>1, <3>2, <3>3
  <2>8. QED BY <2>1, <2>5, <2>6, <2>7
<1>4. QED BY <1>2, <1>3 DEF Next

(* Calls coming one after the other, none dying: the units come back once  *)
(* at most, never of an order that was shipped, and to a cancelled order.  *)
THEOREM StockAlwaysBackOnce == Spec => []StockBackOnce
<1>1. Init => BackInv
  BY DEF Init, BackInv
<1>2. BackInv => StockBackOnce
  <2> SUFFICES ASSUME BackInv, Undisturbed PROVE StockBackOnce
    BY DEF StockBackOnce, Undisturbed, InTurn
  <2>1. putBack <= 1 /\ (putBack = 1 => "shipped" \notin been)
    <3>1. putBack = 0 \/ putBack = 1
      BY DEF BackInv
    <3>2. putBack <= 1
      BY <3>1
    <3>3. QED BY <3>2 DEF BackInv
  <2>2. AtRest /\ putBack = 1 => status = "cancelled"
    BY DEF BackInv, AtRest
  <2>3. QED BY <2>1, <2>2, Zenon DEF StockBackOnce
<1>3. QED BY <1>1, <1>2, BackStep, TurnAlways, PTL DEF Spec

-----------------------------------------------------------------------------
(* Under the same circumstances there is one waybill: it is on record, or  *)
(* in the hands of the call that asked for it while none was.              *)
OneBill(c) ==
  /\ pc[c] = "issue"  => waybill = NoWaybill
  /\ pc[c] = "record" => waybill = NoWaybill /\ issued = {bill[c]}
  /\ pc[c] = "note"   => bill[c] = waybill

BillInv ==
  Undisturbed =>
    /\ (\A c \in Calls : pc[c] # "record") => issued = {waybill} \ {NoWaybill}
    /\ \A c \in Calls : OneBill(c)

LEMMA BillStep == TypeOK /\ TurnInv /\ BillInv /\ [Next]_vars => BillInv'
<1> SUFFICES ASSUME TypeOK, TurnInv, BillInv, [Next]_vars, Undisturbed' PROVE BillInv'
  BY DEF BillInv
<1>1. CASE UNCHANGED vars
  BY <1>1 DEF vars, shared, local, BillInv, OneBill, Undisturbed, InTurn
<1>2. CASE Carry
  BY <1>2 DEF Carry, local, BillInv, OneBill, Undisturbed, InTurn
<1>3. ASSUME NEW c \in Calls, Begin(c) \/ GoOn(c) \/ Die(c) PROVE BillInv'
  <2>1. Undisturbed /\ (Begin(c) \/ GoOn(c))
    <3>1. under' = under
      BY <1>3 DEF Begin, StaffRead, CancelRead, ShipRead, NoteRead, ReturnRead, Die, shared, GoOn,
                  ClearReturn, ClearRefund, SaveStatus, PutBack, Issue, Record, NoteSave, LoopRead,
                  LoopSave, OpenReturn
    <3>2. QED BY <1>3, <3>1 DEF Undisturbed, InTurn, Die
  <2>2. \A d \in Calls : d # c => pc[d] = "idle" /\ pc'[d] = "idle"
    BY <1>3, <2>1, OthersRest DEF Undisturbed
  <2>3. (pc[c] # "record" => issued = {waybill} \ {NoWaybill}) /\ OneBill(c)
    BY <2>1, <2>2 DEF BillInv
  <2>4. SUFFICES (pc'[c] # "record" => issued' = {waybill'} \ {NoWaybill}) /\ OneBill(c)'
    BY <2>2 DEF BillInv, OneBill
  <2>5. CASE ShipRead(c)
    <3>1. UNCHANGED << waybill, issued >> /\ waybill = NoWaybill /\ pc[c] = "idle" /\ pc'[c] = "issue"
      BY <2>5 DEF ShipRead, MayBegin, Goto, TypeOK, shared
    <3>2. QED BY <2>3, <3>1 DEF OneBill
  <2>6. CASE NoteRead(c)
    <3>1. UNCHANGED << waybill, issued >> /\ bill'[c] = waybill /\ pc[c] = "idle" /\ pc'[c] = "note"
      BY <2>6 DEF NoteRead, MayBegin, Goto, TypeOK, shared
    <3>2. QED BY <2>3, <3>1 DEF OneBill
  <2>7. CASE Issue(c)
    <3>1. pc[c] = "issue" /\ waybill = NoWaybill /\ issued = {}
      BY <2>3, <2>7 DEF Issue, OneBill
    <3>2. CASE Leave(c) /\ UNCHANGED issued
      BY <2>7, <3>1, <3>2 DEF Issue, Leave, Goto, TypeOK, OneBill
    <3>3. CASE Goto(c, "record") /\ \E w \in Waybills : issued' = issued \cup {w} /\ bill' = [bill EXCEPT ![c] = w]
      <4>1. pc'[c] = "record" /\ waybill' = waybill /\ issued' = {bill'[c]}
        BY <2>7, <3>1, <3>3 DEF Issue, Goto, TypeOK
      <4>2. QED BY <3>1, <4>1 DEF OneBill
    <3>4. QED BY <2>7, <3>2, <3>3 DEF Issue
  <2>8. CASE Record(c)
    <3>1. pc[c] = "record" /\ waybill' = bill[c] /\ issued' = issued /\ pc'[c] \in {"loop", "idle"}
      BY <2>8 DEF Record, Leave, Goto, TypeOK
    <3>2. issued = {bill[c]} /\ bill[c] # NoWaybill
      BY <2>3, <3>1, LifecycleConstants DEF OneBill, TypeOK
    <3>3. QED BY <3>1, <3>2 DEF OneBill
  <2>9. CASE NoteSave(c)
    <3>1. pc[c] = "note" /\ waybill' = bill[c] /\ issued' = issued /\ pc'[c] \in {"loop", "idle"}
      BY <2>9 DEF NoteSave, Leave, Goto, TypeOK
    <3>2. QED BY <2>3, <3>1 DEF OneBill
  <2>10. ASSUME UNCHANGED << waybill, issued >>, pc[c] # "record", pc'[c] \notin {"issue", "record", "note"}
         PROVE  (pc'[c] # "record" => issued' = {waybill'} \ {NoWaybill}) /\ OneBill(c)'
    BY <2>3, <2>10 DEF OneBill
  <2>11. CASE (\E to \in OrderStatuses : StaffRead(c, to)) \/ CancelRead(c) \/ ReturnRead(c)
    BY <2>10, <2>11 DEF StaffRead, CancelRead, ReturnRead, MayBegin, Goto, TypeOK, shared
  <2>12. CASE ClearReturn(c) \/ ClearRefund(c) \/ PutBack(c)
    BY <2>10, <2>12 DEF ClearReturn, ClearRefund, PutBack, Goto, TypeOK, shared
  <2>13. CASE SaveStatus(c) \/ LoopRead(c) \/ LoopSave(c) \/ OpenReturn(c)
    BY <2>10, <2>13 DEF SaveStatus, LoopRead, LoopSave, OpenReturn, Leave, Goto, TypeOK, shared
  <2>14. QED
    BY <2>1, <2>5, <2>6, <2>7, <2>8, <2>9, <2>11, <2>12, <2>13 DEF Begin, GoOn
<1>4. QED BY <1>1, <1>2, <1>3 DEF Next

(* Whatever overlaps or dies, the waybill on record is the courier's; and, *)
(* calls coming one after the other and none dying, it is its only one.    *)
THEOREM WaybillAlwaysOnRecord == Spec => []WaybillOnRecord
<1>1. Init => BillInv
  BY DEF Init, BillInv, OneBill
<1>2. BillInv /\ BillsAreIssued => WaybillOnRecord
  BY DEF BillInv, BillsAreIssued, WaybillOnRecord, AtRest, Undisturbed, InTurn
<1>3. QED
  BY <1>1, <1>2, BillStep, TurnAlways, TypeCorrect, BillsAreIssuedAlways, PTL DEF Spec

=============================================================================
