--------------------------- MODULE Replenishment ----------------------------
(***************************************************************************)
(* TransferService and PurchaseOrderService: one document, a transfer      *)
(* between two warehouses or a purchase order, that staff take through its *)
(* steps.  A call reads the document, moves stock line by line, and saves  *)
(* the document once at the end; nothing in the save looks at what the     *)
(* document has become since it was read.                                  *)
(*                                                                         *)
(* A movement is one atomic step here: module Inventory shows that         *)
(* applyMovement is (AccountSpec).  Stock is counted per line by what this *)
(* document has moved.                                                     *)
(***************************************************************************)
EXTENDS Integers

CONSTANTS
  Lines,         (* number of lines of the document                        *)
  Quantity,      (* units a line is for                                    *)
  Elsewhere,     (* units other purchase orders have announced of each     *)
  Calls,         (* calls that may be under way at once                    *)
  Circumstances, (* the circumstances behaviours take place under          *)
  MaxUnits       (* bound: units of a line this document moves either way  *)

(* overlap: calls may overlap; fail: a movement may be refused, a process  *)
(* may die, a receipt may name more than is outstanding; edit: staff set   *)
(* the status of a purchase order by hand.                                 *)
ASSUME ReplenishmentConstants ==
  /\ Lines \in Nat \ {0}
  /\ Quantity \in Nat \ {0}
  /\ MaxUnits \in Nat /\ Elsewhere \in 0 .. MaxUnits
  /\ Circumstances \subseteq [overlap : BOOLEAN, fail : BOOLEAN, edit : BOOLEAN]

VARIABLES
  under,     (* the circumstances of this behaviour                        *)
  kind,      (* "transfer" or "purchase"                                   *)
  status,    (* the document: its status                                   *)
  got,       (* the document: line -> quantityReceived                     *)
  left,      (* line -> units moved out of the source warehouse            *)
  arrived,   (* line -> units put into the receiving warehouse             *)
  incoming,  (* line -> units announced to the receiving warehouse         *)
  call       (* call -> where it is suspended and what it carries          *)

vars == << under, kind, status, got, left, arrived, incoming, call >>
docVars == << status, got >>
stockVars == << left, arrived, incoming >>

LineNumbers == 1 .. Lines
Counts == [LineNumbers -> 0 .. MaxUnits]
Zero == [l \in LineNumbers |-> 0]

TransferFlow == << "requested", "approved", "packed", "shipped", "received" >>
TransferStatuses == {TransferFlow[k] : k \in DOMAIN TransferFlow} \cup {"cancelled"}
PurchaseStatuses == {"draft", "ordered", "partial", "received", "cancelled", "deleted"}
Statuses == TransferStatuses \cup PurchaseStatuses

(* What staff do with a document, and the status each operation aims at.   *)
TransferOps == {"approve", "pack", "ship", "receive", "cancel"}
PurchaseOps == {"place", "receive", "cancel", "edit", "remove"}
Ops == TransferOps \cup PurchaseOps
OpsOf == [transfer |-> TransferOps, purchase |-> PurchaseOps]
Target ==
  [approve |-> "approved", pack |-> "packed", ship |-> "shipped", receive |-> "received",
   place |-> "ordered", cancel |-> "cancelled", edit |-> "draft", remove |-> "deleted"]

Labels == {"idle", "line", "announced", "save"}

(* status, got: the copy of the document, got with what the call received; *)
(* aim: the status it is to save; ask: the units it is to move of each     *)
(* line; line: the next one; seen: the incoming units it read.             *)
AtRest == [pc |-> "idle", op |-> "approve", status |-> "draft", aim |-> "draft", got |-> Zero,
           ask |-> Zero, line |-> 1, seen |-> 0]

Init ==
  /\ under    \in Circumstances
  /\ kind     \in {"transfer", "purchase"}
  /\ status   \in IF kind = "transfer" THEN {"requested"}
                  ELSE IF under.edit THEN PurchaseStatuses \ {"deleted"} ELSE {"draft"}
  /\ got      = Zero
  /\ left     = Zero
  /\ arrived  = Zero
  /\ incoming = [l \in LineNumbers |-> Elsewhere]
  /\ call     = [c \in Calls |-> AtRest]

Quiet == \A c \in Calls : call[c].pc = "idle"
Suspend(c, carried) == call' = [call EXCEPT ![c] = carried]
Leave(c) == Suspend(c, AtRest)

-----------------------------------------------------------------------------
(* The guards: the transfer's assertTransition and cancel, the purchase    *)
(* order's own checks.                                                     *)

NextInFlowLoose(from, to) ==             \* faulty: also a step already taken
  \E k, n \in DOMAIN TransferFlow : TransferFlow[k] = from /\ TransferFlow[n] = to /\ n >= k
NextInFlow(from, to) ==
  \E k \in DOMAIN TransferFlow \ {1} : TransferFlow[k - 1] = from /\ TransferFlow[k] = to

MayTransfer(op) ==
  IF op = "cancel" THEN status \in {"requested", "approved", "packed"}
  ELSE NextInFlow(status, Target[op])

MayPurchase(op) ==
  \/ op = "place"   /\ status = "draft"
  \/ op = "receive" /\ status \in {"ordered", "partial"}
  \/ op = "cancel"  /\ status \notin {"received", "deleted"}
  \/ op = "edit"    /\ under.edit /\ status \notin {"received", "cancelled", "deleted"}
  \/ op = "remove"  /\ status \in {"draft", "cancelled"}

May(op) == IF kind = "transfer" THEN MayTransfer(op) ELSE MayPurchase(op)

Outstanding(l, counts) == Quantity - counts[l]

(* The units a call is to move of each line.  Only a receipt of a purchase *)
(* order chooses them; it may name more than is outstanding.               *)
Portions ==
  {p \in [LineNumbers -> 0 .. Quantity] :
     /\ \E l \in LineNumbers : p[l] > 0
     /\ under.fail \/ \A l \in LineNumbers : p[l] <= Outstanding(l, got)}

(* A cancelled purchase order takes back what is outstanding.              *)
CancelAllOrdered ==                      \* faulty: received units too
  IF status \in {"ordered", "partial"} THEN [l \in LineNumbers |-> Quantity] ELSE Zero
CancelAsk ==
  IF status \in {"ordered", "partial"} THEN [l \in LineNumbers |-> Outstanding(l, got)] ELSE Zero

Asks(op) ==
  IF op = "receive" /\ kind = "purchase" THEN Portions
  ELSE IF op = "cancel" /\ kind = "purchase" THEN {CancelAsk}
  ELSE IF op \in {"ship", "receive", "place"} THEN {[l \in LineNumbers |-> Quantity]}
  ELSE {Zero}

FirstLabelSave(op) == "save"             \* faulty: saved before its stock is moved
FirstLabel(op) ==
  IF op \in {"ship", "receive", "place"} \/ (op = "cancel" /\ kind = "purchase")
  THEN "line" ELSE "save"

Aims(op) == IF op = "edit" THEN PurchaseStatuses \ {"deleted"} ELSE {Target[op]}

(* A call reads the document and passes its check; the rest is refused.    *)
Begin(c, op) ==
  /\ call[c].pc = "idle"
  /\ Quiet \/ under.overlap
  /\ op \in OpsOf[kind]
  /\ May(op)
  /\ \E ask \in Asks(op), aim \in Aims(op) :
       Suspend(c, [AtRest EXCEPT !.pc = FirstLabel(op), !.op = op, !.status = status,
                                 !.aim = aim, !.got = got, !.ask = ask])
  /\ UNCHANGED << under, kind, docVars, stockVars >>

-----------------------------------------------------------------------------
(* The loop over the lines.                                                *)

OnLine(c, op) == call[c].pc = "line" /\ call[c].op = op /\ call[c].line <= Lines
Ask(c) == call[c].ask[call[c].line]
NextLine(c, counts) ==
  Suspend(c, [call[c] EXCEPT !.pc = "line", !.line = @ + 1, !.got = counts, !.seen = 0])

(* A line nothing is asked of is passed over.                              *)
SkipLine(c) ==
  /\ call[c].pc = "line" /\ call[c].line <= Lines
  /\ Ask(c) = 0
  /\ NextLine(c, call[c].got)
  /\ UNCHANGED << under, kind, docVars, stockVars >>

LineShips(c) ==
  LET l == call[c].line IN
  /\ OnLine(c, "ship")
  /\ left[l] + Ask(c) <= MaxUnits
  /\ left' = [left EXCEPT ![l] = @ + Ask(c)]
  /\ NextLine(c, call[c].got)
  /\ UNCHANGED << under, kind, docVars, arrived, incoming >>

(* A RECEIVE movement lowers incoming where it can; a TRANSFER_IN does not *)
(* touch it.                                                               *)
LineArrives(c) ==
  LET l == call[c].line
      q == Ask(c) IN
  /\ OnLine(c, "receive")
  /\ q > 0
  /\ kind = "purchase" => q <= Outstanding(l, call[c].got)
  /\ arrived[l] + q <= MaxUnits
  /\ arrived' = [arrived EXCEPT ![l] = @ + q]
  /\ incoming' = IF kind = "purchase" /\ incoming[l] >= q
                 THEN [incoming EXCEPT ![l] = @ - q] ELSE incoming
  /\ NextLine(c, IF kind = "transfer" THEN [call[c].got EXCEPT ![l] = q]
                 ELSE [call[c].got EXCEPT ![l] = @ + q])
  /\ UNCHANGED << under, kind, docVars, left >>

(* A receipt that names more than is outstanding throws; the lines before  *)
(* it have arrived and are not recorded.                                   *)
LineExceeds(c) ==
  /\ OnLine(c, "receive") /\ kind = "purchase"
  /\ Ask(c) > Outstanding(call[c].line, call[c].got)
  /\ Leave(c)
  /\ UNCHANGED << under, kind, docVars, stockVars >>

LineAnnounced(c) ==
  LET l == call[c].line IN
  /\ OnLine(c, "place")
  /\ incoming[l] + Ask(c) <= MaxUnits
  /\ incoming' = [incoming EXCEPT ![l] = @ + Ask(c)]
  /\ NextLine(c, call[c].got)
  /\ UNCHANGED << under, kind, docVars, left, arrived >>

(* A cancelled order's line: the item is read, and saved unconditionally.  *)
ReadAnnounced(c) ==
  /\ OnLine(c, "cancel")
  /\ Ask(c) > 0
  /\ IF incoming[call[c].line] = 0 THEN NextLine(c, call[c].got)
     ELSE Suspend(c, [call[c] EXCEPT !.pc = "announced", !.seen = incoming[call[c].line]])
  /\ UNCHANGED << under, kind, docVars, stockVars >>

Withdraw(c) ==
  LET reduce == IF call[c].seen < Ask(c) THEN call[c].seen ELSE Ask(c) IN
  /\ call[c].pc = "announced"
  /\ incoming' = [incoming EXCEPT ![call[c].line] = call[c].seen - reduce]
  /\ NextLine(c, call[c].got)
  /\ UNCHANGED << under, kind, docVars, left, arrived >>

(* A movement is refused (stock short, a version conflict), or the process *)
(* dies: the call ends with nothing saved.                                 *)
BreakOff(c) ==
  /\ under.fail
  /\ call[c].pc # "idle"
  /\ Leave(c)
  /\ UNCHANGED << under, kind, docVars, stockVars >>

-----------------------------------------------------------------------------
(* The save at the end writes the fields the call has changed.  A deleted  *)
(* document is marked so beside its status, and stays it.                  *)

StatusToSave(c) ==
  LET full == \A l \in LineNumbers : call[c].got[l] >= Quantity
      some == \E l \in LineNumbers : call[c].got[l] > 0
  IN IF call[c].op # "receive" \/ kind = "transfer" \/ full THEN call[c].aim
     ELSE IF some THEN "partial" ELSE call[c].status

Save(c) ==
  /\ \/ call[c].pc = "save"
     \/ call[c].pc = "line" /\ call[c].line > Lines
  /\ status' = IF status = "deleted" \/ (StatusToSave(c) = call[c].status /\ call[c].op # "edit")
               THEN status ELSE StatusToSave(c)
  /\ got' = IF call[c].op = "receive"
            THEN [l \in LineNumbers |-> IF call[c].ask[l] > 0 THEN call[c].got[l] ELSE got[l]]
            ELSE got
  /\ Leave(c)
  /\ UNCHANGED << under, kind, stockVars >>

Step(c) ==
  \/ \E op \in Ops : Begin(c, op)
  \/ SkipLine(c) \/ LineShips(c) \/ LineArrives(c) \/ LineExceeds(c) \/ LineAnnounced(c)
  \/ ReadAnnounced(c) \/ Withdraw(c) \/ BreakOff(c) \/ Save(c)

Next == \E c \in Calls : Step(c)

Spec == Init /\ [][Next]_vars

-----------------------------------------------------------------------------
TypeOK ==
  /\ under \in Circumstances
  /\ kind \in {"transfer", "purchase"}
  /\ status \in (IF kind = "transfer" THEN TransferStatuses ELSE PurchaseStatuses)
  /\ got \in [LineNumbers -> Nat]
  /\ left \in Counts /\ arrived \in Counts /\ incoming \in Counts
  /\ call \in [Calls -> [pc : Labels, op : Ops, status : Statuses, aim : Statuses,
                         got : [LineNumbers -> Nat], ask : [LineNumbers -> Nat],
                         line : 1 .. Lines + 1, seen : Nat]]

(* Whatever calls overlap, fail half way or are repeated: what a document  *)
(* says has left or arrived really has.  A shipped transfer's lines have   *)
(* all left, a received document's lines have all arrived, and a purchase  *)
(* order records no receipt that did not take place.  (A status set by     *)
(* hand says nothing.)                                                     *)
DocumentsAreBacked ==
  /\ kind = "transfer" /\ status \in {"shipped", "received"} =>
       \A l \in LineNumbers : left[l] >= Quantity
  /\ status = "received" /\ ~under.edit => \A l \in LineNumbers : arrived[l] >= Quantity
  /\ \A l \in LineNumbers : got[l] <= arrived[l]

(* One call at a time and none failing half way: between calls a transfer  *)
(* has moved every unit exactly once for each of the two steps its status  *)
(* says it has taken, and a purchase order's receipts are the units that   *)
(* came in, never more than were ordered.                                  *)
UnitsMoveOnce ==
  Quiet /\ ~under.overlap /\ ~under.fail =>
    \A l \in LineNumbers :
      IF kind = "transfer"
      THEN /\ left[l]    = IF status \in {"shipped", "received"} THEN Quantity ELSE 0
           /\ arrived[l] = IF status = "received" THEN Quantity ELSE 0
      ELSE got[l] = arrived[l] /\ got[l] <= Quantity

(* One call at a time, none failing, no status set by hand: between calls  *)
(* the units announced to the warehouse, beside those of other orders, are *)
(* those still outstanding on this one while it is open, and none once it  *)
(* is closed.                                                              *)
IncomingIsOutstanding ==
  Quiet /\ kind = "purchase" /\ under = [overlap |-> FALSE, fail |-> FALSE, edit |-> FALSE] =>
    \A l \in LineNumbers :
      incoming[l] = Elsewhere +
        (IF status \in {"ordered", "partial"} THEN Outstanding(l, got) ELSE 0)

=============================================================================
