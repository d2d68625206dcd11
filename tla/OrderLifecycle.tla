--------------------------- MODULE OrderLifecycle ----------------------------
(***************************************************************************)
(* One order after it was created: staff changing its status, customers    *)
(* cancelling it or asking for a return, the courier's waybill and the     *)
(* courier's webhooks.  Each is a call that reads the order, awaits other  *)
(* things and saves what it decided, with no condition on the save; pc,    *)
(* seen, goal and bill are the local state of a call.  The document's      *)
(* version field is counted up by every save and compared by none, so it   *)
(* is left out.  The order has one line; a waybill is one number.          *)
(*                                                                         *)
(* A behaviour takes place under one of the given circumstances: whether   *)
(* calls on the order may overlap, and whether they may die.               *)
(***************************************************************************)
EXTENDS Naturals, Sequences, Functions

CONSTANTS
  Calls,         (* calls that may be under way at once                    *)
  Waybills,      (* bound on the waybills the courier ever issues          *)
  NoWaybill,
  Says,          (* stage of the parcel -> status texts that tell of it,   *)
                 (* each the set of the keywords that occur in it; the     *)
                 (* last stage is the delivery                             *)
  MaxBack,       (* bound on the times units are put back on the shelf     *)
  Circumstances  (* the circumstances behaviours take place under          *)

ASSUME LifecycleConstants ==
  /\ NoWaybill \notin Waybills
  /\ Len(Says) \in Nat \ {0}
  /\ MaxBack \in Nat
  /\ Circumstances \subseteq [overlap : BOOLEAN, crash : BOOLEAN]

VARIABLES
  under,         (* the circumstances of this behaviour                    *)
  status,        (* status of the order document                           *)
  waybill,       (* waybill number in the document's metadata              *)
  returnOpen,    (* is a return request open                               *)
  issued,        (* waybills the courier has issued for the order          *)
  parcel,        (* how far the parcel has got, an index of Says           *)
  putBack,       (* times the order's units were put back on the shelf     *)
  been,          (* statuses the document has had; a history variable, the *)
                 (* code keeps them in the timeline                        *)
  pc,            (* call -> where it is suspended                          *)
  seen,          (* call -> the status it read                             *)
  goal,          (* call -> the status it is after                         *)
  bill           (* call -> the waybill it holds                           *)

local == << pc, seen, goal, bill >>
shared == << under, status, waybill, returnOpen, issued, parcel, putBack, been >>
vars == << shared, local >>

Transitions ==
  [pending            |-> {"confirmed", "cancelled"},
   confirmed          |-> {"packed", "cancelled"},
   packed             |-> {"ready_for_shipment", "cancelled"},
   ready_for_shipment |-> {"shipped", "cancelled"},
   shipped            |-> {"delivered"},
   delivered          |-> {"completed", "returned"},
   completed          |-> {"returned"},
   cancelled          |-> {},
   returned           |-> {"refund_pending", "completed"},
   refund_pending     |-> {"refunded", "completed"},
   refunded           |-> {}]

OrderStatuses == DOMAIN Transitions

CancellableWhenShipped ==    \* faulty: the list is one status too long
  {"pending", "confirmed", "packed", "ready_for_shipment", "shipped"}
Cancellable == {"pending", "confirmed", "packed", "ready_for_shipment"}

Pipeline ==
  << "pending", "confirmed", "packed", "ready_for_shipment", "shipped", "delivered" >>
Position(s) == CHOOSE i \in DOMAIN Pipeline : Pipeline[i] = s

Labels == {"idle", "clear return", "clear refund", "save", "put back", "issue",
           "record", "note", "loop", "step", "open return"}

Goto(c, label) == pc' = [pc EXCEPT ![c] = label]

(* The call ends: its local state is gone.                                 *)
Leave(c) ==
  /\ Goto(c, "idle")
  /\ seen' = [seen EXCEPT ![c] = "pending"]
  /\ goal' = [goal EXCEPT ![c] = "pending"]
  /\ bill' = [bill EXCEPT ![c] = NoWaybill]

Init ==
  /\ under   \in Circumstances
  /\ status  = "pending"
  /\ waybill = NoWaybill
  /\ returnOpen = FALSE
  /\ issued  = {}
  /\ parcel  = 1
  /\ putBack = 0
  /\ been    = {"pending"}
  /\ pc      = [c \in Calls |-> "idle"]
  /\ seen    = [c \in Calls |-> "pending"]
  /\ goal    = [c \in Calls |-> "pending"]
  /\ bill    = [c \in Calls |-> NoWaybill]

MayBegin(c) ==
  /\ pc[c] = "idle"
  /\ under.overlap \/ \A d \in Calls : pc[d] = "idle"

-----------------------------------------------------------------------------
(* updateStatus: the transition is checked against the status read; an     *)
(* order that comes back to completed first rejects its open claims.       *)
Restores(from, to) == to = "completed" /\ from \in {"returned", "refund_pending"}

StaffRead(c, to) ==
  /\ MayBegin(c)
  /\ to \in Transitions[status] \ {"cancelled"}
  /\ goal' = [goal EXCEPT ![c] = to]
  /\ Goto(c, IF Restores(status, to) THEN "clear return" ELSE "save")
  /\ UNCHANGED << shared, seen, bill >>

ClearReturnSkipped(c) ==     \* faulty: only the refunds are called off
  /\ pc[c] = "clear return"
  /\ Goto(c, "clear refund")
  /\ UNCHANGED << shared, seen, goal, bill >>

(* returnService.cancelActiveForOrder                                      *)
ClearReturn(c) ==
  /\ pc[c] = "clear return"
  /\ returnOpen' = FALSE
  /\ Goto(c, "clear refund")
  /\ UNCHANGED << under, status, waybill, issued, parcel, putBack, been >>
  /\ UNCHANGED << seen, goal, bill >>

(* refundService.cancelPendingForPayment changes refunds and the payment   *)
(* only (module Refund).                                                   *)
ClearRefund(c) ==
  /\ pc[c] = "clear refund"
  /\ Goto(c, "save")
  /\ UNCHANGED << shared, seen, goal, bill >>

SetStatus(s) == status' = s /\ been' = been \cup {s}

(* order.save() in transitionTo writes the status without a condition.     *)
SaveStatus(c) ==
  /\ pc[c] = "save"
  /\ SetStatus(goal[c])
  /\ Leave(c)
  /\ UNCHANGED << under, waybill, returnOpen, issued, parcel, putBack >>

(* cancel and cancelAsSystem: an order that reads cancelled is left alone; *)
(* the units are put back before the status is saved, and a movement that  *)
(* fails is passed over.                                                   *)
CancelRead(c) ==
  /\ MayBegin(c)
  /\ status \in Cancellable
  /\ putBack < MaxBack
  /\ goal' = [goal EXCEPT ![c] = "cancelled"]
  /\ Goto(c, "put back")
  /\ UNCHANGED << shared, seen, bill >>

PutBack(c) ==
  /\ pc[c] = "put back"
  /\ putBack' \in {putBack, putBack + 1}
  /\ Goto(c, "save")
  /\ UNCHANGED << under, status, waybill, returnOpen, issued, parcel, been >>
  /\ UNCHANGED << seen, goal, bill >>

-----------------------------------------------------------------------------
(* createFedShipment: refused if a waybill is on record, then the courier  *)
(* is asked, then the number is recorded.                                  *)
ShipReadUnchecked(c) ==      \* faulty: a second waybill is asked for
  /\ MayBegin(c)
  /\ seen' = [seen EXCEPT ![c] = status]
  /\ Goto(c, "issue")
  /\ UNCHANGED << shared, goal, bill >>

ShipRead(c) ==
  /\ MayBegin(c)
  /\ waybill = NoWaybill
  /\ seen' = [seen EXCEPT ![c] = status]
  /\ Goto(c, "issue")
  /\ UNCHANGED << shared, goal, bill >>

(* The courier issues a waybill or refuses.                                *)
Issue(c) ==
  /\ pc[c] = "issue"
  /\ \/ /\ \E w \in Waybills \ issued :
             /\ issued' = issued \cup {w}
             /\ bill' = [bill EXCEPT ![c] = w]
        /\ Goto(c, "record")
        /\ UNCHANGED << seen, goal >>
     \/ /\ Leave(c)
        /\ UNCHANGED issued
  /\ UNCHANGED << under, status, waybill, returnOpen, parcel, putBack, been >>

(* The save, and the walk to ready_for_shipment if the order as it was     *)
(* read was confirmed or packed.                                           *)
Record(c) ==
  /\ pc[c] = "record"
  /\ waybill' = bill[c]
  /\ IF seen[c] \in {"confirmed", "packed"}
     THEN /\ goal' = [goal EXCEPT ![c] = "ready_for_shipment"]
          /\ bill' = [bill EXCEPT ![c] = NoWaybill]
          /\ seen' = [seen EXCEPT ![c] = "pending"]
          /\ Goto(c, "loop")
     ELSE Leave(c)
  /\ UNCHANGED << under, status, returnOpen, issued, parcel, putBack, been >>

-----------------------------------------------------------------------------
(* The parcel goes its way once the courier has a waybill for it.          *)
Carry ==
  /\ issued # {}
  /\ parcel < Len(Says)
  /\ parcel' = parcel + 1
  /\ UNCHANGED << under, status, waybill, returnOpen, issued, putBack, been >>
  /\ UNCHANGED local

ShippedKeywords ==
  {"dispatch", "dispatched", "out for delivery", "in transit", "shipped", "picked",
   "pickup", "on the way"}
DeliveredKeywords == {"deliver", "delivered", "completed delivery"}

(* mapFedStatusToOrderStatus: a text is taken for a delivery first.        *)
MeansDelivered(text) == text \cap DeliveredKeywords # {}
MeansShipped(text) == ~MeansDelivered(text) /\ text \cap ShippedKeywords # {}

(* handleFedWebhook: a report, maybe an old one, finds the order by the    *)
(* waybill on record.                                                      *)
NoteRead(c) ==
  /\ MayBegin(c)
  /\ waybill # NoWaybill
  /\ \E i \in 1 .. parcel : \E text \in Says[i] :
       goal' = [goal EXCEPT ![c] =
                  CASE MeansDelivered(text) -> "delivered"
                    [] MeansShipped(text)   -> "shipped"
                    [] OTHER                -> "pending"]
  /\ bill' = [bill EXCEPT ![c] = waybill]
  /\ Goto(c, "note")
  /\ UNCHANGED << shared, seen >>

(* The metadata is saved as it was read; a text that means nothing ends it.*)
NoteSave(c) ==
  /\ pc[c] = "note"
  /\ waybill' = bill[c]
  /\ IF goal[c] = "pending"
     THEN Leave(c)
     ELSE /\ bill' = [bill EXCEPT ![c] = NoWaybill]
          /\ Goto(c, "loop")
          /\ UNCHANGED << seen, goal >>
  /\ UNCHANGED << under, status, returnOpen, issued, parcel, putBack, been >>

(* syncStatusFromCourier: one status at a time, reading the order anew.    *)
LoopReadJumping(c) ==        \* faulty: straight to the status reported
  /\ pc[c] = "loop"
  /\ IF /\ status \in Range(Pipeline)
        /\ Position(status) < Position(goal[c])
     THEN /\ seen' = [seen EXCEPT ![c] = status]
          /\ Goto(c, "save")
          /\ UNCHANGED << goal, bill >>
     ELSE Leave(c)
  /\ UNCHANGED shared

LoopReadOnward(c) ==         \* faulty: goes on until the target is met exactly
  /\ pc[c] = "loop"
  /\ IF status \in Range(Pipeline) /\ status # goal[c]
     THEN /\ seen' = [seen EXCEPT ![c] = status]
          /\ Goto(c, "step")
          /\ UNCHANGED << goal, bill >>
     ELSE Leave(c)
  /\ UNCHANGED shared

LoopRead(c) ==
  /\ pc[c] = "loop"
  /\ IF /\ status \in Range(Pipeline)
        /\ Position(status) < Position(goal[c])
     THEN /\ seen' = [seen EXCEPT ![c] = status]
          /\ Goto(c, "step")
          /\ UNCHANGED << goal, bill >>
     ELSE Leave(c)
  /\ UNCHANGED shared

LoopSave(c) ==
  /\ pc[c] = "step"
  /\ LET i == Position(seen[c]) IN
       IF i < Len(Pipeline)
       THEN SetStatus(Pipeline[i + 1])
       ELSE UNCHANGED << status, been >>
  /\ Goto(c, "loop")
  /\ seen' = [seen EXCEPT ![c] = "pending"]
  /\ UNCHANGED << under, waybill, returnOpen, issued, parcel, putBack >>
  /\ UNCHANGED << goal, bill >>

-----------------------------------------------------------------------------
(* returnService.request                                                   *)
ReturnRead(c) ==
  /\ MayBegin(c)
  /\ status \in {"delivered", "completed"}
  /\ Goto(c, "open return")
  /\ UNCHANGED << shared, seen, goal, bill >>

OpenReturn(c) ==
  /\ pc[c] = "open return"
  /\ returnOpen' = TRUE
  /\ Leave(c)
  /\ UNCHANGED << under, status, waybill, issued, parcel, putBack, been >>

(* The process of a call dies.                                             *)
Die(c) ==
  /\ under.crash
  /\ pc[c] # "idle"
  /\ Leave(c)
  /\ UNCHANGED shared

Begin(c) ==
  \/ \E to \in OrderStatuses : StaffRead(c, to)
  \/ CancelRead(c) \/ ShipRead(c) \/ NoteRead(c) \/ ReturnRead(c)

GoOn(c) ==
  \/ ClearReturn(c) \/ ClearRefund(c) \/ SaveStatus(c) \/ PutBack(c)
  \/ Issue(c) \/ Record(c) \/ NoteSave(c) \/ LoopRead(c) \/ LoopSave(c)
  \/ OpenReturn(c)

Next ==
  \/ \E c \in Calls : Begin(c) \/ GoOn(c) \/ Die(c)
  \/ Carry

Spec == Init /\ [][Next]_vars

(* A call that has begun is carried on: every await is answered.           *)
Fairness == \A c \in Calls : WF_vars(GoOn(c))

FairSpec == Spec /\ Fairness

-----------------------------------------------------------------------------
TypeOK ==
  /\ under   \in Circumstances
  /\ status  \in OrderStatuses
  /\ waybill \in Waybills \cup {NoWaybill}
  /\ returnOpen \in BOOLEAN
  /\ issued  \subseteq Waybills
  /\ parcel  \in 1 .. Len(Says)
  /\ putBack \in Nat
  /\ been    \subseteq OrderStatuses
  /\ pc      \in [Calls -> Labels]
  /\ seen    \in [Calls -> OrderStatuses]
  /\ goal    \in [Calls -> OrderStatuses]
  /\ bill    \in [Calls -> Waybills \cup {NoWaybill}]

AtRest == \A c \in Calls : pc[c] = "idle"

(* However calls overlap or die, an order has a status only after one it   *)
(* may be reached from, so it is not delivered unless it was shipped, and  *)
(* a return is asked for only after a delivery (order-status.ts: Allowed   *)
(* forward transitions; return.service.ts: only after delivery).           *)
WalkedThrough ==
  /\ status \in been
  /\ \A s \in been \ {"pending"} : \E before \in been : s \in Transitions[before]
  /\ returnOpen => "delivered" \in been

(* As long as calls come one after the other and none dies, the units of   *)
(* an order come back at most once, never after it was shipped, and then   *)
(* the order is cancelled.                                                 *)
StockBackOnce ==
  ~under.overlap /\ ~under.crash =>
    /\ putBack <= 1
    /\ putBack = 1 => "shipped" \notin been
    /\ AtRest /\ putBack = 1 => status = "cancelled"

(* The waybill on record is one the courier issued; and, calls coming one  *)
(* after the other and none dying, it is the only one issued               *)
(* (order-shipment.service.ts: This order already has FED waybill).        *)
WaybillOnRecord ==
  /\ waybill = NoWaybill \/ waybill \in issued
  /\ ~under.overlap /\ ~under.crash /\ AtRest =>
       issued = {waybill} \ {NoWaybill}

(* An order that comes back to completed has no return request left open   *)
(* (return.service.ts: Rejects open return requests), calls coming one     *)
(* after the other.                                                        *)
RestoredIsClear ==
  [][Restores(status, status') /\ ~under.overlap => ~returnOpen']_vars

(* The courier's walk through the statuses ends, also when other calls     *)
(* keep saving older statuses in between.                                  *)
WalkEnds ==
  \A c \in Calls : pc[c] = "loop" ~> pc[c] = "idle"

=============================================================================
