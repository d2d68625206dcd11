------------------------ MODULE ReplenishmentProofs -------------------------
(***************************************************************************)
(* What holds of a transfer or a purchase order for any number of lines,   *)
(* units and calls, under every circumstance.                              *)
(***************************************************************************)
EXTENDS Replenishment, TLAPS

(* What a call under way knows of the stock: a receipt it carries has      *)
(* arrived, the lines behind it have moved, and a transfer it is about to  *)
(* receive had left when it was read.                                      *)
CarriedIsBacked(c) ==
  call[c].pc # "idle" =>
    /\ call[c].op \in OpsOf[kind]
    /\ call[c].op # "edit" => call[c].aim = Target[call[c].op]
    /\ call[c].op = "edit" => under.edit
    /\ call[c].op \in {"ship", "receive"} => call[c].pc = "line"
    /\ \A l \in LineNumbers : call[c].got[l] <= arrived[l] /\ call[c].got[l] <= Quantity
    /\ call[c].op = "ship" =>
         \A l \in LineNumbers : call[c].ask[l] = Quantity /\ (l < call[c].line => left[l] >= Quantity)
    /\ call[c].op = "receive" /\ kind = "transfer" =>
         \A l \in LineNumbers :
           /\ call[c].ask[l] = Quantity
           /\ left[l] >= Quantity
           /\ l < call[c].line => arrived[l] >= Quantity
    /\ call[c].op = "receive" /\ kind = "purchase" => call[c].status \in {"ordered", "partial"}

(* A call that has read what is announced is a cancellation on one of the  *)
(* lines; staff set by hand only a purchase order's statuses.              *)
Bounded(c) ==
  /\ call[c].pc = "announced" =>
       call[c].op = "cancel" /\ call[c].line <= Lines /\ call[c].seen <= MaxUnits
  /\ call[c].pc # "idle" /\ call[c].op = "edit" => call[c].aim \in PurchaseStatuses

Recorded == \A l \in LineNumbers : got[l] <= Quantity

Inv == TypeOK /\ DocumentsAreBacked /\ Recorded
       /\ \A c \in Calls : CarriedIsBacked(c) /\ Bounded(c)

-----------------------------------------------------------------------------
(* The order of a transfer's steps, spelt out.                             *)
LEMMA FlowIs ==
  /\ TransferStatuses = {"requested", "approved", "packed", "shipped", "received", "cancelled"}
  /\ \A s : NextInFlow(s, "received") => s = "shipped"
<1>1. DOMAIN TransferFlow = {1, 2, 3, 4, 5}
  BY DEF TransferFlow
<1>2. /\ TransferFlow[1] = "requested" /\ TransferFlow[2] = "approved" /\ TransferFlow[3] = "packed"
      /\ TransferFlow[4] = "shipped" /\ TransferFlow[5] = "received"
  BY DEF TransferFlow
<1>3. TransferStatuses = {"requested", "approved", "packed", "shipped", "received", "cancelled"}
  BY <1>1, <1>2, Zenon DEF TransferStatuses
<1>4. \A s : NextInFlow(s, "received") => s = "shipped"
  <2> SUFFICES ASSUME NEW s, NEW k \in DOMAIN TransferFlow \ {1},
                      TransferFlow[k - 1] = s, TransferFlow[k] = "received"
               PROVE  s = "shipped"
    BY DEF NextInFlow
  <2>1. k = 5
    BY <1>1, <1>2
  <2>2. QED BY <2>1, <1>2
<1>5. QED BY <1>3, <1>4

(* Statuses and labels as sets of strings, for the steps below.            *)
LEMMA StatusesAre ==
  /\ Statuses = {"requested", "approved", "packed", "shipped", "received", "cancelled",
                 "draft", "ordered", "partial", "deleted"}
  /\ \A op \in Ops : Target[op] \in Statuses
  /\ \A op \in TransferOps : Target[op] \in TransferStatuses
  /\ \A op \in PurchaseOps : Target[op] \in PurchaseStatuses
<1>1. Statuses = {"requested", "approved", "packed", "shipped", "received", "cancelled",
                  "draft", "ordered", "partial", "deleted"}
  BY FlowIs DEF Statuses, PurchaseStatuses
<1>2. QED
  BY <1>1, FlowIs DEF Ops, TransferOps, PurchaseOps, PurchaseStatuses, Target

LEMMA AtRestTyped ==
  AtRest \in [pc : Labels, op : Ops, status : Statuses, aim : Statuses,
              got : [LineNumbers -> Nat], ask : [LineNumbers -> Nat],
              line : 1 .. Lines + 1, seen : Nat]
  BY StatusesAre, ReplenishmentConstants DEF AtRest, Labels, Ops, TransferOps, Zero, LineNumbers

LEMMA InitInv == Init => Inv
<1> SUFFICES ASSUME Init PROVE Inv
  OBVIOUS
<1>1. \A c \in Calls : call[c] = AtRest
  BY DEF Init
<1>2. TypeOK
  BY FlowIs, AtRestTyped, ReplenishmentConstants
  DEF Init, TypeOK, Zero, Counts, LineNumbers, PurchaseStatuses
<1>3. DocumentsAreBacked
  BY DEF Init, DocumentsAreBacked, Zero, PurchaseStatuses
<1>4. Recorded
  BY ReplenishmentConstants DEF Init, Recorded, Zero
<1>5. QED BY <1>1, <1>2, <1>3, <1>4 DEF Inv, CarriedIsBacked, Bounded, AtRest

-----------------------------------------------------------------------------
(* A call that is suspended differently leaves the others as they were;    *)
(* nothing ever moves back.                                                *)
LEMMA OthersStand ==
  ASSUME NEW c \in Calls, \A d \in Calls : CarriedIsBacked(d),
         \A l \in LineNumbers : left'[l] >= left[l] /\ arrived'[l] >= arrived[l],
         left \in Counts, arrived \in Counts, left' \in Counts, arrived' \in Counts,
         call \in [Calls -> [pc : Labels, op : Ops, status : Statuses, aim : Statuses,
                             got : [LineNumbers -> Nat], ask : [LineNumbers -> Nat],
                             line : 1 .. Lines + 1, seen : Nat]],
         UNCHANGED << under, kind >>,
         NEW x, call' = [call EXCEPT ![c] = x]
  PROVE  \A d \in Calls \ {c} : CarriedIsBacked(d)'
<1> SUFFICES ASSUME NEW d \in Calls \ {c}, call'[d].pc # "idle" PROVE CarriedIsBacked(d)'
  BY DEF CarriedIsBacked
<1>1. call'[d] = call[d] /\ call[d].pc # "idle" /\ d \in Calls
  OBVIOUS
<1>2. CarriedIsBacked(d)
  BY <1>1
<1>3. \A l \in LineNumbers : /\ left[l] \in Int /\ left'[l] \in Int /\ arrived[l] \in Int
                             /\ arrived'[l] \in Int /\ call[d].got[l] \in Int
  BY <1>1, ReplenishmentConstants DEF Counts
<1>4. Quantity \in Int /\ call[d].line \in Int /\ \A l \in LineNumbers : l \in Int
  BY <1>1, ReplenishmentConstants DEF LineNumbers
<1>5. \A l \in LineNumbers :
        /\ call[d].got[l] <= arrived[l] => call[d].got[l] <= arrived'[l]
        /\ left[l] >= Quantity => left'[l] >= Quantity
        /\ arrived[l] >= Quantity => arrived'[l] >= Quantity
  BY <1>3, <1>4
<1>6. QED BY <1>1, <1>2, <1>5, Zenon DEF CarriedIsBacked

(* A call that ends carries nothing.                                       *)
LEMMA LeavingStands ==
  ASSUME Inv, NEW c \in Calls, Leave(c), UNCHANGED << under, kind, docVars, stockVars >>
  PROVE  Inv'
<1> USE DEF Leave, Suspend, docVars, stockVars
<1>1. TypeOK'
  BY AtRestTyped DEF Inv, TypeOK
<1>2. DocumentsAreBacked' /\ Recorded'
  BY DEF Inv, DocumentsAreBacked, Recorded
<1>3. \A d \in Calls : CarriedIsBacked(d)'
  <2>1. \A d \in Calls \ {c} : CarriedIsBacked(d)'
    <3>1. \A l \in LineNumbers : left'[l] >= left[l] /\ arrived'[l] >= arrived[l]
      BY ReplenishmentConstants DEF Inv, TypeOK, Counts
    <3>2. QED BY <3>1, OthersStand DEF Inv, TypeOK
  <2>2. call'[c] = AtRest
    BY DEF Inv, TypeOK
  <2>3. CarriedIsBacked(c)'
    BY <2>2 DEF CarriedIsBacked, AtRest
  <2>4. QED BY <2>1, <2>3
<1>4. \A d \in Calls : Bounded(d)'
  BY DEF Inv, TypeOK, Bounded, AtRest
<1>5. QED BY <1>1, <1>2, <1>3, <1>4 DEF Inv

(* What a call begins with is backed by the document it read.              *)
LEMMA BeginStands ==
  ASSUME Inv, NEW c \in Calls, NEW op \in Ops, Begin(c, op)
  PROVE  Inv'
<1> USE DEF docVars, stockVars
<1>1. op \in OpsOf[kind] /\ May(op) /\ UNCHANGED << under, kind, docVars, stockVars >>
  BY DEF Begin
<1>2. PICK ask \in Asks(op), aim \in Aims(op) :
        call' = [call EXCEPT ![c] =
                  [AtRest EXCEPT !.pc = FirstLabel(op), !.op = op, !.status = status,
                                 !.aim = aim, !.got = got, !.ask = ask]]
  BY DEF Begin, Suspend
<1>3. call'[c] = [pc |-> FirstLabel(op), op |-> op, status |-> status, aim |-> aim,
                  got |-> got, ask |-> ask, line |-> 1, seen |-> 0]
  BY <1>2 DEF AtRest, Inv, TypeOK
<1>4. /\ kind = "transfer" => op \in TransferOps
      /\ kind = "purchase" => op \in PurchaseOps
  BY <1>1 DEF OpsOf, Inv, TypeOK
<1>5. \A l \in LineNumbers : got[l] \in Nat /\ got[l] <= Quantity /\ got[l] <= arrived[l]
  BY DEF Inv, TypeOK, Recorded, DocumentsAreBacked
<1>6. ask \in [LineNumbers -> Nat]
  <2>1. \A p \in Portions : p \in [LineNumbers -> Nat]
    BY ReplenishmentConstants DEF Portions
  <2>2. CancelAsk \in [LineNumbers -> Nat]
    BY <1>5, ReplenishmentConstants DEF CancelAsk, Outstanding, Zero
  <2>3. Zero \in [LineNumbers -> Nat] /\ [l \in LineNumbers |-> Quantity] \in [LineNumbers -> Nat]
    BY ReplenishmentConstants DEF Zero
  <2>4. QED BY <2>1, <2>2, <2>3 DEF Asks
<1>7. aim \in Statuses /\ (op # "edit" => aim = Target[op])
  BY StatusesAre DEF Aims, PurchaseStatuses
<1>8. TypeOK'
  <2>1. status \in Statuses
    BY DEF Inv, TypeOK, Statuses
  <2>2. call'[c] \in [pc : Labels, op : Ops, status : Statuses, aim : Statuses,
                      got : [LineNumbers -> Nat], ask : [LineNumbers -> Nat],
                      line : 1 .. Lines + 1, seen : Nat]
    BY <1>3, <1>6, <1>7, <2>1, ReplenishmentConstants DEF Inv, TypeOK, FirstLabel, Labels
  <2>3. QED BY <1>1, <1>2, <2>2 DEF Inv, TypeOK
<1>9. DocumentsAreBacked' /\ Recorded'
  BY <1>1 DEF Inv, DocumentsAreBacked, Recorded
<1>10. CarriedIsBacked(c)'
  <2>1. op = "edit" => under.edit
    BY <1>1, <1>4 DEF May, MayPurchase, Inv, TypeOK, TransferOps
  <2>2. op = "receive" /\ kind = "transfer" => \A l \in LineNumbers : left[l] >= Quantity
    <3>1. SUFFICES ASSUME op = "receive", kind = "transfer" PROVE status = "shipped"
      BY DEF Inv, DocumentsAreBacked
    <3>2. NextInFlow(status, "received")
      BY <1>1, <3>1 DEF May, MayTransfer, Target
    <3>3. QED BY <3>2, FlowIs
  <2>3. op = "receive" /\ kind = "purchase" => status \in {"ordered", "partial"}
    BY <1>1 DEF May, MayPurchase
  <2>4. op = "ship" \/ (op = "receive" /\ kind = "transfer") =>
          \A l \in LineNumbers : ask[l] = Quantity
    BY <1>4 DEF Asks, PurchaseOps
  <2>5. op \in {"ship", "receive"} => FirstLabel(op) = "line"
    BY DEF FirstLabel
  <2>6. \A l \in LineNumbers : ~(l < 1)
    BY DEF LineNumbers
  <2>7. QED
    BY <1>1, <1>3, <1>5, <1>7, <2>1, <2>2, <2>3, <2>4, <2>5, <2>6 DEF CarriedIsBacked
<1>11. \A d \in Calls \ {c} : CarriedIsBacked(d)'
  <2>1. \A l \in LineNumbers : left'[l] >= left[l] /\ arrived'[l] >= arrived[l]
    BY <1>1, ReplenishmentConstants DEF Inv, TypeOK, Counts
  <2>2. QED BY <1>1, <1>2, <2>1, OthersStand DEF Inv, TypeOK
<1>12. \A d \in Calls : Bounded(d)'
  <2>1. Bounded(c)'
    BY <1>3 DEF Bounded, FirstLabel, Aims
  <2>2. \A d \in Calls \ {c} : Bounded(d)'
    BY <1>2 DEF Inv, TypeOK, Bounded
  <2>3. QED BY <2>1, <2>2
<1>13. QED BY <1>8, <1>9, <1>10, <1>11, <1>12 DEF Inv

-----------------------------------------------------------------------------
(* A line of the loop is done: stock has only grown, what is carried is    *)
(* still backed, and the line number is one on.                            *)
LEMMA LineStands ==
  ASSUME Inv, NEW c \in Calls, NEW counts \in [LineNumbers -> Nat],
         call[c].pc \in {"line", "announced"}, call[c].line <= Lines, NextLine(c, counts),
         UNCHANGED << under, kind, docVars >>,
         left' \in Counts, arrived' \in Counts, incoming' \in Counts,
         \A l \in LineNumbers : left'[l] >= left[l] /\ arrived'[l] >= arrived[l],
         \A l \in LineNumbers : counts[l] <= arrived'[l] /\ counts[l] <= Quantity,
         call[c].op \in {"ship", "receive"} => call[c].pc = "line",
         call[c].op = "ship" => left'[call[c].line] >= Quantity,
         call[c].op = "receive" /\ kind = "transfer" => arrived'[call[c].line] >= Quantity
  PROVE  Inv'
<1> DEFINE next == [call[c] EXCEPT !.pc = "line", !.line = @ + 1, !.got = counts, !.seen = 0]
<1>1. call' = [call EXCEPT ![c] = next]
  BY DEF NextLine, Suspend
<1>2. call[c] \in [pc : Labels, op : Ops, status : Statuses, aim : Statuses,
                   got : [LineNumbers -> Nat], ask : [LineNumbers -> Nat],
                   line : 1 .. Lines + 1, seen : Nat]
  BY DEF Inv, TypeOK
<1>3. next = [pc |-> "line", op |-> call[c].op, status |-> call[c].status, aim |-> call[c].aim,
              got |-> counts, ask |-> call[c].ask, line |-> call[c].line + 1, seen |-> 0]
  <2> DEFINE n1 == [call[c] EXCEPT !.pc = "line"]
             n2 == [n1 EXCEPT !.line = call[c].line + 1]
             n3 == [n2 EXCEPT !.got = counts]
             n4 == [n3 EXCEPT !.seen = 0]
  <2>1. n1 = [pc |-> "line", op |-> call[c].op, status |-> call[c].status, aim |-> call[c].aim,
              got |-> call[c].got, ask |-> call[c].ask, line |-> call[c].line, seen |-> call[c].seen]
    BY <1>2
  <2> HIDE DEF n1
  <2>2. n2 = [pc |-> "line", op |-> call[c].op, status |-> call[c].status, aim |-> call[c].aim,
              got |-> call[c].got, ask |-> call[c].ask, line |-> call[c].line + 1, seen |-> call[c].seen]
    BY <2>1
  <2> HIDE DEF n2
  <2>3. n3 = [pc |-> "line", op |-> call[c].op, status |-> call[c].status, aim |-> call[c].aim,
              got |-> counts, ask |-> call[c].ask, line |-> call[c].line + 1, seen |-> call[c].seen]
    BY <2>2
  <2> HIDE DEF n3
  <2>4. n4 = [pc |-> "line", op |-> call[c].op, status |-> call[c].status, aim |-> call[c].aim,
              got |-> counts, ask |-> call[c].ask, line |-> call[c].line + 1, seen |-> 0]
    BY <2>3
  <2>5. QED BY <2>4 DEF n1, n2, n3
<1>4. call[c].line + 1 \in 1 .. Lines + 1
  BY <1>2, ReplenishmentConstants
<1>5. next \in [pc : Labels, op : Ops, status : Statuses, aim : Statuses,
                got : [LineNumbers -> Nat], ask : [LineNumbers -> Nat],
                line : 1 .. Lines + 1, seen : Nat]
  BY <1>2, <1>3, <1>4 DEF Labels
<1> HIDE DEF next
<1>6. TypeOK'
  BY <1>1, <1>5 DEF Inv, TypeOK, docVars
<1>7. DocumentsAreBacked' /\ Recorded'
  <2>1. \A l \in LineNumbers : /\ left[l] \in Int /\ left'[l] \in Int /\ arrived[l] \in Int
                               /\ arrived'[l] \in Int /\ got[l] \in Int
    BY ReplenishmentConstants DEF Inv, TypeOK, Counts
  <2>2. QED
    BY <2>1, ReplenishmentConstants DEF Inv, DocumentsAreBacked, Recorded, docVars
<1>8. CarriedIsBacked(c)'
  <2>1. call'[c] = next
    BY <1>1 DEF Inv, TypeOK
  <2>2. CarriedIsBacked(c)
    BY DEF Inv
  <2>3. \A l \in LineNumbers : l < call[c].line + 1 <=> (l < call[c].line \/ l = call[c].line)
    <3>1. call[c].line \in Int /\ \A l \in LineNumbers : l \in Int
      BY <1>2, ReplenishmentConstants DEF LineNumbers
    <3>2. ASSUME NEW l \in LineNumbers, NEW n \in Int, l \in Int
          PROVE  l < n + 1 <=> (l < n \/ l = n)
      BY <3>2
    <3>3. QED BY <3>1, <3>2
  <2>4. \A l \in LineNumbers : /\ left[l] \in Int /\ left'[l] \in Int /\ arrived[l] \in Int
                               /\ arrived'[l] \in Int
    BY ReplenishmentConstants DEF Inv, TypeOK, Counts
  <2>5. Quantity \in Int
    BY ReplenishmentConstants
  <2>6. QED
    BY <1>3, <2>1, <2>2, <2>3, <2>4, <2>5, SMTT(30) DEF CarriedIsBacked
<1>9. \A d \in Calls \ {c} : CarriedIsBacked(d)'
  BY <1>1, OthersStand DEF Inv, TypeOK
<1>10. \A d \in Calls : Bounded(d)'
  <2>1. Bounded(c)'
    BY <1>1, <1>3 DEF Inv, TypeOK, Bounded
  <2>2. \A d \in Calls \ {c} : Bounded(d)'
    BY <1>1 DEF Inv, TypeOK, Bounded
  <2>3. QED BY <2>1, <2>2
<1>11. QED BY <1>6, <1>7, <1>8, <1>9, <1>10 DEF Inv

(* Facts about a call in the loop, for the lemmas below.                   *)
LEMMA InLoop ==
  ASSUME Inv, NEW c \in Calls, call[c].pc # "idle", call[c].line <= Lines
  PROVE  /\ call[c].line \in LineNumbers
         /\ Ask(c) \in Nat
         /\ call[c].got \in [LineNumbers -> Nat]
         /\ call[c].op = "ship" => Ask(c) = Quantity
         /\ call[c].op = "receive" /\ kind = "transfer" => Ask(c) = Quantity
         /\ \A l \in LineNumbers : call[c].got[l] <= arrived[l] /\ call[c].got[l] <= Quantity
         /\ \A l \in LineNumbers : left[l] \in Nat /\ arrived[l] \in Nat /\ incoming[l] \in 0 .. MaxUnits
         /\ Quantity \in Nat \ {0} /\ MaxUnits \in Nat
<1>1. call[c].line \in LineNumbers
  BY ReplenishmentConstants DEF Inv, TypeOK, LineNumbers
<1>2. Ask(c) \in Nat /\ call[c].got \in [LineNumbers -> Nat]
  BY <1>1 DEF Inv, TypeOK, Ask
<1>3. CarriedIsBacked(c)
  BY DEF Inv
<1>4. QED
  BY <1>1, <1>2, <1>3, ReplenishmentConstants DEF CarriedIsBacked, Ask, Inv, TypeOK, Counts

LEMMA LoopStands ==
  ASSUME Inv, NEW c \in Calls,
         SkipLine(c) \/ LineShips(c) \/ LineArrives(c) \/ LineAnnounced(c)
  PROVE  Inv'
<1> DEFINE l == call[c].line
           q == Ask(c)
<1>1. call[c].pc = "line" /\ call[c].line <= Lines
  BY DEF SkipLine, LineShips, LineArrives, LineAnnounced, OnLine
<1>2. /\ l \in LineNumbers /\ q \in Nat /\ call[c].got \in [LineNumbers -> Nat]
      /\ call[c].op = "ship" => q = Quantity
      /\ call[c].op = "receive" /\ kind = "transfer" => q = Quantity
      /\ \A n \in LineNumbers : call[c].got[n] <= arrived[n] /\ call[c].got[n] <= Quantity
      /\ \A n \in LineNumbers : left[n] \in Nat /\ arrived[n] \in Nat /\ incoming[n] \in 0 .. MaxUnits
      /\ Quantity \in Nat \ {0} /\ MaxUnits \in Nat
  BY <1>1, InLoop
<1>3. left \in Counts /\ arrived \in Counts /\ incoming \in Counts
  BY DEF Inv, TypeOK
<1> HIDE DEF l, q
<1>4. CASE SkipLine(c)
  <2>1. UNCHANGED << under, kind, docVars, stockVars >> /\ NextLine(c, call[c].got) /\ q = 0
    BY <1>4 DEF SkipLine, q
  <2>2. call[c].op # "ship" /\ ~(call[c].op = "receive" /\ kind = "transfer")
    BY <1>2, <2>1
  <2>3. \A n \in LineNumbers : left'[n] >= left[n] /\ arrived'[n] >= arrived[n]
    BY <1>2, <2>1 DEF stockVars
  <2>4. QED
    BY <1>1, <1>2, <1>3, <2>1, <2>2, <2>3, LineStands DEF stockVars
<1>5. CASE LineShips(c)
  <2>1. /\ left[l] + q <= MaxUnits
        /\ left' = [left EXCEPT ![l] = @ + q]
        /\ NextLine(c, call[c].got) /\ UNCHANGED << under, kind, docVars, arrived, incoming >>
        /\ call[c].op = "ship"
    BY <1>5 DEF LineShips, OnLine, l, q
  <2>2. left' \in Counts /\ \A n \in LineNumbers : left'[n] >= left[n] /\ arrived'[n] >= arrived[n]
    BY <1>2, <1>3, <2>1 DEF Counts
  <2>3. left'[l] >= Quantity
    BY <1>2, <1>3, <2>1 DEF Counts
  <2>4. QED
    BY <1>1, <1>2, <1>3, <2>1, <2>2, <2>3, LineStands DEF l
<1>6. CASE LineArrives(c)
  <2>1. /\ arrived[l] + q <= MaxUnits /\ q > 0
        /\ arrived' = [arrived EXCEPT ![l] = @ + q]
        /\ kind = "purchase" => q <= Quantity - call[c].got[l]
        /\ incoming' = IF kind = "purchase" /\ incoming[l] >= q
                       THEN [incoming EXCEPT ![l] = @ - q] ELSE incoming
        /\ NextLine(c, IF kind = "transfer" THEN [call[c].got EXCEPT ![l] = q]
                       ELSE [call[c].got EXCEPT ![l] = @ + q])
        /\ UNCHANGED << under, kind, docVars, left >>
        /\ call[c].op = "receive"
    BY <1>6 DEF LineArrives, OnLine, Outstanding, l, q
  <2>2. arrived' \in Counts /\ \A n \in LineNumbers : left'[n] >= left[n] /\ arrived'[n] >= arrived[n]
    BY <1>2, <1>3, <2>1 DEF Counts
  <2>3. incoming' \in Counts
    <3>1. CASE kind = "purchase" /\ incoming[l] >= q
      BY <1>2, <1>3, <2>1, <3>1 DEF Counts
    <3>2. CASE ~(kind = "purchase" /\ incoming[l] >= q)
      BY <1>3, <2>1, <3>2
    <3>3. QED BY <3>1, <3>2
  <2>4. arrived'[l] = arrived[l] + q
    BY <1>2, <1>3, <2>1 DEF Counts
  <2>5. CASE kind = "transfer"
    <3> DEFINE counts == [call[c].got EXCEPT ![l] = q]
    <3>1. NextLine(c, counts)
      BY <2>1, <2>5
    <3>2. counts \in [LineNumbers -> Nat]
      BY <1>2
    <3>3. \A n \in LineNumbers : counts[n] <= arrived'[n] /\ counts[n] <= Quantity
      <4>1. counts[l] = q /\ q = Quantity /\ arrived'[l] >= q
        BY <1>2, <2>1, <2>4, <2>5
      <4>2. \A n \in LineNumbers \ {l} : counts[n] = call[c].got[n] /\ arrived'[n] = arrived[n]
        BY <1>2, <1>3, <2>1 DEF Counts
      <4>3. QED BY <1>2, <4>1, <4>2
    <3>4. arrived'[l] >= Quantity
      BY <1>2, <2>1, <2>4, <2>5
    <3> HIDE DEF counts
    <3>5. QED
      BY <1>1, <1>3, <2>1, <2>2, <2>3, <3>1, <3>2, <3>3, <3>4, LineStands DEF l
  <2>6. CASE kind = "purchase"
    <3> DEFINE counts == [call[c].got EXCEPT ![l] = @ + q]
    <3>1. NextLine(c, counts)
      BY <2>1, <2>6
    <3>2. counts \in [LineNumbers -> Nat]
      BY <1>2
    <3>3. \A n \in LineNumbers : counts[n] <= arrived'[n] /\ counts[n] <= Quantity
      <4>1. counts[l] = call[c].got[l] + q /\ counts[l] <= Quantity /\ counts[l] <= arrived'[l]
        BY <1>2, <2>1, <2>4, <2>6
      <4>2. \A n \in LineNumbers \ {l} : counts[n] = call[c].got[n] /\ arrived'[n] = arrived[n]
        BY <1>2, <1>3, <2>1 DEF Counts
      <4>3. QED BY <1>2, <4>1, <4>2
    <3> HIDE DEF counts
    <3>4. QED
      BY <1>1, <1>3, <2>1, <2>2, <2>3, <2>6, <3>1, <3>2, <3>3, LineStands DEF l
  <2>7. QED BY <2>5, <2>6 DEF Inv, TypeOK
<1>7. CASE LineAnnounced(c)
  <2>1. /\ incoming[l] + q <= MaxUnits
        /\ incoming' = [incoming EXCEPT ![l] = @ + q]
        /\ NextLine(c, call[c].got) /\ UNCHANGED << under, kind, docVars, left, arrived >>
        /\ call[c].op = "place"
    BY <1>7 DEF LineAnnounced, OnLine, l, q
  <2>2. incoming' \in Counts
    BY <1>2, <1>3, <2>1 DEF Counts
  <2>3. \A n \in LineNumbers : left'[n] >= left[n] /\ arrived'[n] >= arrived[n]
    BY <1>2, <2>1
  <2>4. QED
    BY <1>1, <1>2, <1>3, <2>1, <2>2, <2>3, LineStands
<1>8. QED BY <1>4, <1>5, <1>6, <1>7

(* A cancelled order takes units back from the announcement: the item is   *)
(* read, then saved.                                                       *)
LEMMA WithdrawalStands ==
  ASSUME Inv, NEW c \in Calls, ReadAnnounced(c) \/ Withdraw(c)
  PROVE  Inv'
<1>1. left \in Counts /\ arrived \in Counts /\ incoming \in Counts
  BY DEF Inv, TypeOK
<1>2. CASE ReadAnnounced(c)
  <2>1. /\ call[c].pc = "line" /\ call[c].op = "cancel" /\ call[c].line <= Lines
        /\ UNCHANGED << under, kind, docVars, stockVars >>
    BY <1>2 DEF ReadAnnounced, OnLine
  <2>2. /\ call[c].line \in LineNumbers /\ call[c].got \in [LineNumbers -> Nat]
        /\ \A l \in LineNumbers : call[c].got[l] <= arrived[l] /\ call[c].got[l] <= Quantity
        /\ \A l \in LineNumbers : left[l] \in Nat /\ arrived[l] \in Nat /\ incoming[l] \in 0 .. MaxUnits
    BY <2>1, InLoop
  <2>3. \A n \in LineNumbers : left'[n] >= left[n] /\ arrived'[n] >= arrived[n]
    BY <2>1, <2>2 DEF stockVars
  <2>4. CASE incoming[call[c].line] = 0
    <3>1. NextLine(c, call[c].got)
      BY <1>2, <2>4 DEF ReadAnnounced
    <3>2. QED
      BY <1>1, <2>1, <2>2, <2>3, <3>1, LineStands DEF stockVars
  <2>5. CASE incoming[call[c].line] # 0
    <3> DEFINE next == [call[c] EXCEPT !.pc = "announced", !.seen = incoming[call[c].line]]
               n1   == [call[c] EXCEPT !.pc = "announced"]
    <3>1. call' = [call EXCEPT ![c] = next]
      BY <1>2, <2>5 DEF ReadAnnounced, Suspend
    <3>2. call[c] \in [pc : Labels, op : Ops, status : Statuses, aim : Statuses,
                       got : [LineNumbers -> Nat], ask : [LineNumbers -> Nat],
                       line : 1 .. Lines + 1, seen : Nat]
      BY DEF Inv, TypeOK
    <3>3. n1 = [pc |-> "announced", op |-> call[c].op, status |-> call[c].status,
                aim |-> call[c].aim, got |-> call[c].got, ask |-> call[c].ask,
                line |-> call[c].line, seen |-> call[c].seen]
      BY <3>2
    <3>4. next = [pc |-> "announced", op |-> call[c].op, status |-> call[c].status,
                  aim |-> call[c].aim, got |-> call[c].got, ask |-> call[c].ask,
                  line |-> call[c].line, seen |-> incoming[call[c].line]]
      <4>1. [n1 EXCEPT !.seen = incoming[call[c].line]] =
              [pc |-> "announced", op |-> call[c].op, status |-> call[c].status,
               aim |-> call[c].aim, got |-> call[c].got, ask |-> call[c].ask,
               line |-> call[c].line, seen |-> incoming[call[c].line]]
        <5> HIDE DEF n1
        <5>1. QED BY <3>3
      <4>2. QED BY <4>1 DEF n1
    <3> HIDE DEF next
    <3>5. next \in [pc : Labels, op : Ops, status : Statuses, aim : Statuses,
                    got : [LineNumbers -> Nat], ask : [LineNumbers -> Nat],
                    line : 1 .. Lines + 1, seen : Nat]
      BY <2>2, <3>2, <3>4, ReplenishmentConstants DEF Labels
    <3>6. TypeOK'
      BY <2>1, <3>1, <3>5 DEF Inv, TypeOK, docVars, stockVars
    <3>7. DocumentsAreBacked' /\ Recorded'
      BY <2>1 DEF Inv, DocumentsAreBacked, Recorded, docVars, stockVars
    <3>8. CarriedIsBacked(c)'
      <4>1. call'[c] = next
        BY <3>1 DEF Inv, TypeOK
      <4>2. CarriedIsBacked(c)
        BY DEF Inv
      <4>3. QED
        BY <2>1, <3>4, <4>1, <4>2 DEF CarriedIsBacked, stockVars
    <3>9. \A d \in Calls \ {c} : CarriedIsBacked(d)'
      BY <1>1, <2>1, <2>3, <3>1, OthersStand DEF Inv, TypeOK, stockVars
    <3>10. \A d \in Calls : Bounded(d)'
      <4>1. Bounded(c)'
        BY <2>1, <2>2, <3>1, <3>4 DEF Inv, TypeOK, Bounded
      <4>2. \A d \in Calls \ {c} : Bounded(d)'
        BY <3>1 DEF Inv, TypeOK, Bounded
      <4>3. QED BY <4>1, <4>2
    <3>11. QED BY <3>6, <3>7, <3>8, <3>9, <3>10 DEF Inv
  <2>6. QED BY <2>4, <2>5
<1>3. CASE Withdraw(c)
  <2> DEFINE l == call[c].line
             reduce == IF call[c].seen < Ask(c) THEN call[c].seen ELSE Ask(c)
  <2>1. /\ call[c].pc = "announced"
        /\ incoming' = [incoming EXCEPT ![l] = call[c].seen - reduce]
        /\ NextLine(c, call[c].got) /\ UNCHANGED << under, kind, docVars, left, arrived >>
    BY <1>3 DEF Withdraw
  <2>2. call[c].op = "cancel" /\ l <= Lines /\ call[c].seen <= MaxUnits
    BY <2>1 DEF Inv, Bounded
  <2>3. /\ l \in LineNumbers /\ call[c].got \in [LineNumbers -> Nat] /\ Ask(c) \in Nat
        /\ \A n \in LineNumbers : call[c].got[n] <= arrived[n] /\ call[c].got[n] <= Quantity
        /\ \A n \in LineNumbers : left[n] \in Nat /\ arrived[n] \in Nat
        /\ MaxUnits \in Nat
    BY <2>1, <2>2, InLoop
  <2>4. call[c].seen - reduce \in 0 .. MaxUnits
    <3>1. call[c].seen \in Nat
      BY DEF Inv, TypeOK
    <3>2. QED BY <2>2, <2>3, <3>1
  <2>5. incoming' \in Counts
    BY <1>1, <2>1, <2>3, <2>4 DEF Counts
  <2>6. \A n \in LineNumbers : left'[n] >= left[n] /\ arrived'[n] >= arrived[n]
    BY <2>1, <2>3
  <2>7. QED
    BY <1>1, <2>1, <2>2, <2>3, <2>5, <2>6, LineStands
<1>4. QED BY <1>2, <1>3

(* The save at the end says of the document only what the call has done,   *)
(* whatever the document has become meanwhile.                             *)
LEMMA SaveStands ==
  ASSUME Inv, NEW c \in Calls, Save(c)
  PROVE  Inv'
<1> DEFINE r == call[c]
           s == StatusToSave(c)
<1>1. /\ r.pc # "idle"
      /\ r.pc = "save" \/ (r.pc = "line" /\ r.line > Lines)
      /\ status' = IF status = "deleted" \/ (s = r.status /\ r.op # "edit") THEN status ELSE s
      /\ got' = IF r.op = "receive"
                THEN [l \in LineNumbers |-> IF r.ask[l] > 0 THEN r.got[l] ELSE got[l]]
                ELSE got
      /\ Leave(c) /\ UNCHANGED << under, kind, stockVars >>
  BY DEF Save
<1>2. CarriedIsBacked(c) /\ TypeOK /\ DocumentsAreBacked /\ Recorded
  BY DEF Inv
<1>3. r \in [pc : Labels, op : Ops, status : Statuses, aim : Statuses,
             got : [LineNumbers -> Nat], ask : [LineNumbers -> Nat],
             line : 1 .. Lines + 1, seen : Nat]
  BY DEF Inv, TypeOK
<1>4. r.op \in OpsOf[kind] /\ (r.op # "edit" => r.aim = Target[r.op]) /\ (r.op = "edit" => under.edit)
  BY <1>1, <1>2 DEF CarriedIsBacked
<1> HIDE DEF r, s
<1>5. got' \in [LineNumbers -> Nat]
  BY <1>1, <1>2, <1>3 DEF TypeOK
<1>6. Recorded' /\ \A l \in LineNumbers : got'[l] <= arrived'[l]
  <2>1. \A l \in LineNumbers : r.got[l] <= arrived[l] /\ r.got[l] <= Quantity
    BY <1>1, <1>2 DEF CarriedIsBacked, r
  <2>2. \A l \in LineNumbers : got[l] <= arrived[l] /\ got[l] <= Quantity
    BY <1>2 DEF DocumentsAreBacked, Recorded
  <2>3. arrived' = arrived
    BY <1>1 DEF stockVars
  <2>4. QED BY <1>1, <2>1, <2>2, <2>3 DEF Recorded
<1>9. \A d \in Calls : CarriedIsBacked(d)' /\ Bounded(d)'
  <2>1. call' = [call EXCEPT ![c] = AtRest] /\ UNCHANGED << under, kind, left, arrived >>
    BY <1>1 DEF Leave, Suspend, stockVars
  <2>2. \A l \in LineNumbers : left'[l] >= left[l] /\ arrived'[l] >= arrived[l]
    BY <2>1, ReplenishmentConstants DEF Inv, TypeOK, Counts
  <2>3. \A d \in Calls \ {c} : CarriedIsBacked(d)'
    BY <2>1, <2>2, OthersStand DEF Inv, TypeOK
  <2>4. \A d \in Calls \ {c} : Bounded(d)'
    BY <2>1 DEF Inv, TypeOK, Bounded
  <2>5. call'[c].pc = "idle"
    BY <2>1 DEF Inv, TypeOK, AtRest
  <2>6. CarriedIsBacked(c)' /\ Bounded(c)'
    BY <2>5 DEF CarriedIsBacked, Bounded
  <2>7. QED BY <2>3, <2>4, <2>6
<1>7. CASE kind = "transfer"
  <2>1. s = r.aim
    BY <1>7 DEF s, StatusToSave, r
  <2>2. r.op \in TransferOps /\ r.op # "edit" /\ s = Target[r.op]
    BY <1>4, <1>7, <2>1 DEF OpsOf, TransferOps
  <2>3. status' \in TransferStatuses
    BY <1>1, <1>2, <1>7, <2>2, StatusesAre DEF TypeOK
  <2>4. ASSUME NEW l \in LineNumbers, s \in {"shipped", "received"}
        PROVE  left[l] >= Quantity /\ (s = "received" => arrived[l] >= Quantity)
    <3>1. r.op \in {"ship", "receive"} /\ (s = "received" => r.op = "receive")
      BY <2>2, <2>4 DEF TransferOps, Target
    <3>2. r.pc = "line" /\ r.line > Lines
      BY <1>1, <1>2, <3>1 DEF CarriedIsBacked, r
    <3>3. l < r.line
      BY <1>3, <3>2, ReplenishmentConstants DEF LineNumbers
    <3>4. QED BY <1>2, <1>7, <3>1, <3>2, <3>3 DEF CarriedIsBacked, r
  <2>5. DocumentsAreBacked'
    BY <1>1, <1>2, <1>6, <1>7, <2>4 DEF DocumentsAreBacked, stockVars
  <2>6. TypeOK'
    BY <1>1, <1>2, <1>5, <1>7, <2>3, AtRestTyped DEF TypeOK, stockVars, Leave, Suspend
  <2>7. QED BY <1>6, <2>5, <2>6, <1>9 DEF Inv
<1>8. CASE kind = "purchase"
  <2>1. r.op \in PurchaseOps
    BY <1>4, <1>8 DEF OpsOf
  <2>2. r.op = "receive" => r.status \in {"ordered", "partial"}
    BY <1>1, <1>2, <1>8 DEF CarriedIsBacked, r
  <2>3. s \in PurchaseStatuses
    <3>1. r.aim \in PurchaseStatuses
      BY <1>1, <1>4, <2>1, StatusesAre DEF Inv, Bounded, r
    <3>2. s \in {r.aim, "partial", r.status} /\ (s # r.aim => r.op = "receive")
      BY DEF s, StatusToSave, r
    <3>3. QED BY <2>2, <3>1, <3>2 DEF PurchaseStatuses
  <2>4. TypeOK'
    BY <1>1, <1>2, <1>5, <1>8, <2>3, AtRestTyped DEF TypeOK, stockVars, Leave, Suspend
  <2>5. ASSUME NEW l \in LineNumbers, s = "received", ~under.edit
        PROVE  arrived[l] >= Quantity
    <3>1. r.op # "edit" /\ r.aim = Target[r.op]
      BY <1>4, <2>5
    <3>2. r.op = "receive"
      BY <2>1, <2>5, <3>1 DEF s, StatusToSave, r, PurchaseOps, Target
    <3>3. \A n \in LineNumbers : r.got[n] >= Quantity
      BY <1>8, <2>2, <2>5, <3>2 DEF s, StatusToSave, r
    <3>4. r.got[l] <= arrived[l] /\ r.got[l] \in Int /\ arrived[l] \in Int
      BY <1>1, <1>2, <1>3, ReplenishmentConstants DEF CarriedIsBacked, r, TypeOK, Counts
    <3>5. QED BY <3>3, <3>4, ReplenishmentConstants
  <2>6. DocumentsAreBacked'
    BY <1>1, <1>2, <1>6, <1>8, <2>5 DEF DocumentsAreBacked, stockVars
  <2>7. QED BY <1>6, <2>4, <2>6, <1>9 DEF Inv
<1>10. QED BY <1>7, <1>8, <1>2 DEF TypeOK

(* Every step keeps the invariant.                                         *)
LEMMA NextStands == Inv /\ [Next]_vars => Inv'
<1> SUFFICES ASSUME Inv, [Next]_vars PROVE Inv'
  OBVIOUS
<1>1. CASE UNCHANGED vars
  BY <1>1 DEF vars, docVars, stockVars, Inv, TypeOK, DocumentsAreBacked, Recorded,
              CarriedIsBacked, Bounded
<1>2. ASSUME NEW c \in Calls, Step(c) PROVE Inv'
  <2>1. ASSUME NEW op \in Ops, Begin(c, op) PROVE Inv'
    BY <2>1, BeginStands
  <2>2. CASE SkipLine(c) \/ LineShips(c) \/ LineArrives(c) \/ LineAnnounced(c)
    BY <2>2, LoopStands
  <2>3. CASE LineExceeds(c)
    BY <2>3, LeavingStands DEF LineExceeds
  <2>4. CASE ReadAnnounced(c) \/ Withdraw(c)
    BY <2>4, WithdrawalStands
  <2>5. CASE BreakOff(c)
    BY <2>5, LeavingStands DEF BreakOff
  <2>6. CASE Save(c)
    BY <2>6, SaveStands
  <2>7. QED BY <1>2, <2>1, <2>2, <2>3, <2>4, <2>5, <2>6 DEF Step
<1>3. QED BY <1>1, <1>2 DEF Next

LEMMA InvAlways == Spec => []Inv
<1>1. QED BY InitInv, NextStands, PTL DEF Spec

(* A document and the calls on it stay well formed: no call leaves its     *)
(* lines, no status of the other kind of document is ever saved, no count  *)
(* goes below zero (withdrawals of announced units included).              *)
THEOREM TypeCorrect == Spec => []TypeOK
<1>1. Inv => TypeOK
  BY DEF Inv
<1>2. QED BY <1>1, InvAlways, PTL

(* However many staff work on one transfer or purchase order at once, and  *)
(* wherever a call breaks off: what it says has been shipped or received   *)
(* has been.                                                               *)
THEOREM BackedAlways == Spec => []DocumentsAreBacked
<1>1. Inv => DocumentsAreBacked
  BY DEF Inv
<1>2. QED BY <1>1, InvAlways, PTL

-----------------------------------------------------------------------------
(* Calls in turn, none failing.  A call under way has moved the lines it   *)
(* is past and no other, whatever the document does not say yet.           *)
InTurn == ~under.overlap /\ ~under.fail
ByTheBook == kind = "purchase" /\ ~under.edit
Open == {"ordered", "partial"}

MovedLine(c, l) ==
  LET r == call[c] IN
  /\ left[l] = IF status \in {"shipped", "received"} \/ (r.op = "ship" /\ l < r.line)
               THEN Quantity ELSE 0
  /\ arrived[l] = IF status = "received" \/ (r.op = "receive" /\ l < r.line)
                  THEN Quantity ELSE 0

ReceiptLine(c, l) ==
  LET r == call[c] IN
  IF r.op # "receive" THEN got[l] = arrived[l]
  ELSE /\ r.got[l] = arrived[l]
       /\ r.ask[l] = 0 \/ l >= r.line => got[l] = arrived[l]
       /\ l >= r.line => r.ask[l] <= Quantity - got[l]

AnnouncedLine(c, l) ==
  LET r == call[c] IN
  /\ r.op = "place" =>
       /\ r.ask[l] = Quantity
       /\ incoming[l] = Elsewhere + (IF l < r.line THEN Quantity ELSE 0)
  /\ r.op = "receive" => incoming[l] = Elsewhere + (Quantity - r.got[l])
  /\ r.op = "cancel" =>
       /\ r.ask[l] = IF status \in Open THEN Quantity - got[l] ELSE 0
       /\ incoming[l] = Elsewhere + (IF l >= r.line THEN r.ask[l] ELSE 0)
  /\ r.op \notin {"place", "receive", "cancel"} => incoming[l] = Elsewhere + 0

(* The status is the one that was read, and one the operation starts from. *)
ReadStatus(c) ==
  LET r == call[c] IN
  /\ r.status = status
  /\ kind = "transfer" =>
       /\ r.op = "ship" => status = "packed"
       /\ r.op = "receive" => status = "shipped"
       /\ r.op \in {"approve", "pack", "cancel"} => status \notin {"shipped", "received"}
  /\ ByTheBook =>
       /\ r.op = "place" => status = "draft"
       /\ r.op = "receive" => status \in Open
       /\ r.op = "remove" => status \in {"draft", "cancelled"}

AtWork(c) ==
  /\ ReadStatus(c)
  /\ kind = "transfer" => \A l \in LineNumbers : MovedLine(c, l)
  /\ kind = "purchase" => \A l \in LineNumbers : ReceiptLine(c, l)
  /\ ByTheBook => \A l \in LineNumbers : AnnouncedLine(c, l)
  /\ ByTheBook /\ call[c].pc = "announced" => call[c].seen = incoming[call[c].line]
  /\ ByTheBook /\ call[c].pc = "save" => call[c].op = "remove"

(* A document nobody works on.                                             *)
SettledLine(l) ==
  /\ kind = "transfer" =>
       /\ left[l]    = IF status \in {"shipped", "received"} THEN Quantity ELSE 0
       /\ arrived[l] = IF status = "received" THEN Quantity ELSE 0
  /\ kind = "purchase" => got[l] = arrived[l]
  /\ ByTheBook =>
       incoming[l] = Elsewhere + (IF status \in Open THEN Quantity - got[l] ELSE 0)

DraftIsEmpty == ByTheBook /\ status = "draft" => \A l \in LineNumbers : got[l] = 0

TurnInv ==
  InTurn =>
    /\ \A c, d \in Calls : call[c].pc # "idle" /\ call[d].pc # "idle" => c = d
    /\ Quiet => \A l \in LineNumbers : SettledLine(l)
    /\ \A c \in Calls : call[c].pc # "idle" => AtWork(c)
    /\ DraftIsEmpty

LEMMA StepsOfFlow ==
  \A s : /\ NextInFlow(s, "approved") => s = "requested"
         /\ NextInFlow(s, "packed") => s = "approved"
         /\ NextInFlow(s, "shipped") => s = "packed"
         /\ NextInFlow(s, "received") => s = "shipped"
<1>1. DOMAIN TransferFlow = {1, 2, 3, 4, 5}
  BY DEF TransferFlow
<1>2. /\ TransferFlow[1] = "requested" /\ TransferFlow[2] = "approved" /\ TransferFlow[3] = "packed"
      /\ TransferFlow[4] = "shipped" /\ TransferFlow[5] = "received"
  BY DEF TransferFlow
<1>3. ASSUME NEW s, NEW to, NextInFlow(s, to)
      PROVE  \E k \in {2, 3, 4, 5} : TransferFlow[k - 1] = s /\ TransferFlow[k] = to
  BY <1>1, <1>3 DEF NextInFlow
<1>4. QED BY <1>2, <1>3

CallRecords ==
  [pc : Labels, op : Ops, status : Statuses, aim : Statuses, got : [LineNumbers -> Nat],
   ask : [LineNumbers -> Nat], line : 1 .. Lines + 1, seen : Nat]

LEMMA Numbers ==
  ASSUME Inv, NEW c \in Calls, NEW l \in LineNumbers
  PROVE  /\ call[c] \in CallRecords
         /\ left[l] \in Nat /\ arrived[l] \in Nat /\ incoming[l] \in Nat /\ got[l] \in Nat
         /\ call[c].got[l] \in Nat /\ call[c].ask[l] \in Nat /\ call[c].line \in Nat
         /\ Quantity \in Nat \ {0} /\ Elsewhere \in Nat /\ Lines \in Nat /\ l \in Nat
         /\ got[l] <= Quantity
<1>1. call[c] \in CallRecords
  BY DEF Inv, TypeOK, CallRecords
<1>2. call[c].got[l] \in Nat /\ call[c].ask[l] \in Nat /\ call[c].line \in 1 .. Lines + 1
  BY <1>1 DEF CallRecords
<1>3. left[l] \in 0 .. MaxUnits /\ arrived[l] \in 0 .. MaxUnits /\ incoming[l] \in 0 .. MaxUnits
  BY DEF Inv, TypeOK, Counts
<1>4. got[l] \in Nat /\ got[l] <= Quantity
  BY DEF Inv, TypeOK, Recorded
<1>5. l \in 1 .. Lines
  BY DEF LineNumbers
<1>6. QED BY <1>1, <1>2, <1>3, <1>4, <1>5, ReplenishmentConstants

(* The shapes of a step: a call begins or goes on, or it ends.             *)
LEMMA WorkPasses ==
  ASSUME Inv, NEW c \in Calls, \A d \in Calls : d # c => call[d].pc = "idle",
         NEW r, Suspend(c, r), r.pc # "idle", AtWork(c)', DraftIsEmpty'
  PROVE  TurnInv'
<1>1. \A d \in Calls : call'[d] = IF d = c THEN r ELSE call[d]
  BY DEF Suspend, Inv, TypeOK
<1>2. \A d \in Calls : call'[d].pc # "idle" <=> d = c
  BY <1>1
<1>3. ~Quiet'
  BY <1>2 DEF Quiet
<1>4. \A d \in Calls : call'[d].pc # "idle" => AtWork(d)'
  BY <1>2
<1>5. QED BY <1>2, <1>3, <1>4 DEF TurnInv

LEMMA WorkEnds ==
  ASSUME Inv, NEW c \in Calls, \A d \in Calls : d # c => call[d].pc = "idle",
         Leave(c), \A l \in LineNumbers : SettledLine(l)', DraftIsEmpty'
  PROVE  TurnInv'
<1>1. \A d \in Calls : call'[d].pc = "idle"
  BY DEF Leave, Suspend, Inv, TypeOK, AtRest
<1>2. QED BY <1>1 DEF TurnInv

LEMMA BeginIs ==
  ASSUME Inv, NEW c \in Calls, NEW op \in Ops, Begin(c, op)
  PROVE  \E ask \in Asks(op), aim \in Aims(op) : \E r :
           /\ Suspend(c, r) /\ call'[c] = r
           /\ r = [pc |-> FirstLabel(op), op |-> op, status |-> status, aim |-> aim,
                   got |-> got, ask |-> ask, line |-> 1, seen |-> 0]
<1>1. PICK ask \in Asks(op), aim \in Aims(op) :
        Suspend(c, [AtRest EXCEPT !.pc = FirstLabel(op), !.op = op, !.status = status,
                                  !.aim = aim, !.got = got, !.ask = ask])
  BY DEF Begin
<1>2. call'[c] = [pc |-> FirstLabel(op), op |-> op, status |-> status, aim |-> aim,
                  got |-> got, ask |-> ask, line |-> 1, seen |-> 0]
  BY <1>1 DEF AtRest, Suspend, Inv, TypeOK
<1>3. Suspend(c, call'[c])
  BY <1>1 DEF Suspend, Inv, TypeOK
<1>4. QED BY <1>2, <1>3

(* A call begins on a document nobody works on.                            *)
LEMMA TurnBegins ==
  ASSUME Inv, TurnInv, InTurn, NEW c \in Calls, NEW op \in Ops, Begin(c, op)
  PROVE  TurnInv'
<1>1. /\ op \in OpsOf[kind] /\ May(op) /\ Quiet
      /\ UNCHANGED << under, kind, status, got, left, arrived, incoming >>
  BY DEF Begin, InTurn, docVars, stockVars
<1>0. PICK ask \in Asks(op), aim \in Aims(op) : \E r :
        /\ Suspend(c, r) /\ call'[c] = r
        /\ r = [pc |-> FirstLabel(op), op |-> op, status |-> status, aim |-> aim,
                got |-> got, ask |-> ask, line |-> 1, seen |-> 0]
  BY BeginIs
<1>2. PICK r :
        /\ Suspend(c, r) /\ call'[c] = r
        /\ r = [pc |-> FirstLabel(op), op |-> op, status |-> status, aim |-> aim,
                got |-> got, ask |-> ask, line |-> 1, seen |-> 0]
  BY <1>0
<1>3. r.pc \in {"line", "save"} /\ \A d \in Calls : call[d].pc = "idle"
  BY <1>1, <1>2 DEF FirstLabel, Quiet
<1>4. \A l \in LineNumbers : SettledLine(l)
  BY <1>1 DEF TurnInv
<1>5. /\ kind \in {"transfer", "purchase"}
      /\ kind = "transfer" => op \in TransferOps
      /\ kind = "purchase" => op \in PurchaseOps
  BY <1>1 DEF OpsOf, Inv, TypeOK
<1>6. ReadStatus(c)'
  <2>1. kind = "transfer" =>
          /\ op = "ship" => status = "packed"
          /\ op = "receive" => status = "shipped"
          /\ op \in {"approve", "pack", "cancel"} => status \notin {"shipped", "received"}
    <3>1. SUFFICES ASSUME kind = "transfer"
                   PROVE  /\ op = "ship" => status = "packed"
                          /\ op = "receive" => status = "shipped"
                          /\ op \in {"approve", "pack", "cancel"} => status \notin {"shipped", "received"}
      OBVIOUS
    <3>2. \/ op = "cancel" /\ status \in {"requested", "approved", "packed"}
          \/ op # "cancel" /\ NextInFlow(status, Target[op])
      BY <1>1, <3>1, Zenon DEF May, MayTransfer
    <3>3. QED BY <1>5, <3>1, <3>2, StepsOfFlow DEF Target, TransferOps
  <2>2. kind = "purchase" =>
          /\ op = "place" => status = "draft"
          /\ op = "receive" => status \in Open
          /\ op = "remove" => status \in {"draft", "cancelled"}
    BY <1>1 DEF May, MayPurchase, Open
  <2>3. QED BY <1>1, <1>2, <2>1, <2>2 DEF ReadStatus, ByTheBook
<1>7. \A l \in LineNumbers : ~(l < 1) /\ l >= 1
  BY DEF LineNumbers
<1>8. kind = "transfer" => \A l \in LineNumbers : MovedLine(c, l)'
  BY <1>1, <1>2, <1>4, <1>7 DEF MovedLine, SettledLine
<1>9. kind = "purchase" => \A l \in LineNumbers : ReceiptLine(c, l)'
  <2> SUFFICES ASSUME kind = "purchase", NEW l \in LineNumbers PROVE ReceiptLine(c, l)'
    OBVIOUS
  <2>1. got[l] = arrived[l]
    BY <1>4 DEF SettledLine
  <2>2. op = "receive" => ask[l] <= Quantity - got[l]
    <3>1. op = "receive" => ask \in Portions
      BY <1>2 DEF Asks
    <3>2. QED BY <3>1 DEF Portions, InTurn, Outstanding
  <2>3. QED BY <1>1, <1>2, <2>1, <2>2 DEF ReceiptLine
<1>10. ByTheBook => \A l \in LineNumbers : AnnouncedLine(c, l)'
  <2> SUFFICES ASSUME ByTheBook, NEW l \in LineNumbers PROVE AnnouncedLine(c, l)'
    OBVIOUS
  <2>1. kind = "purchase" /\ ~under.edit /\ op # "edit" /\ op \in PurchaseOps
    BY <1>1, <1>5 DEF ByTheBook, May, MayPurchase
  <2>2. incoming[l] = Elsewhere + (IF status \in Open THEN Quantity - got[l] ELSE 0)
    BY <1>4 DEF SettledLine
  <2>3. op = "place" => ask[l] = Quantity /\ status = "draft"
    BY <1>1, <1>2, <2>1 DEF Asks, May, MayPurchase
  <2>4. op = "cancel" => ask[l] = IF status \in Open THEN Quantity - got[l] ELSE 0
    BY <1>2, <2>1 DEF Asks, CancelAsk, Open, Outstanding, Zero
  <2>5. op = "receive" => status \in Open
    BY <1>1, <2>1 DEF May, MayPurchase, Open
  <2>6. op = "remove" => status \notin Open
    BY <1>1, <2>1 DEF May, MayPurchase, Open
  <2>7. QED
    BY <1>1, <1>2, <1>7, <2>1, <2>2, <2>3, <2>4, <2>5, <2>6 DEF AnnouncedLine, Open, PurchaseOps
<1>11. call'[c].pc # "announced" /\ UNCHANGED ByTheBook
  BY <1>1, <1>2, <1>3 DEF ByTheBook
<1>12. AtWork(c)'
  <2>1. ByTheBook /\ call'[c].pc = "save" => call'[c].op = "remove"
    <3>1. ByTheBook => kind = "purchase" /\ op \in PurchaseOps /\ op # "edit"
      BY <1>1, <1>5 DEF ByTheBook, May, MayPurchase
    <3>2. QED BY <1>2, <3>1 DEF FirstLabel, PurchaseOps
  <2>2. QED BY <1>1, <1>6, <1>8, <1>9, <1>10, <1>11, <2>1 DEF AtWork
<1>13. DraftIsEmpty'
  BY <1>1 DEF TurnInv, DraftIsEmpty, ByTheBook
<1>14. QED BY <1>2, <1>3, <1>12, <1>13, WorkPasses

-----------------------------------------------------------------------------
LEMMA LineIs ==
  ASSUME Inv, NEW c \in Calls, NEW counts, NextLine(c, counts)
  PROVE  call'[c] = [pc |-> "line", op |-> call[c].op, status |-> call[c].status,
                     aim |-> call[c].aim, got |-> counts, ask |-> call[c].ask,
                     line |-> call[c].line + 1, seen |-> 0]
<1> DEFINE n1 == [call[c] EXCEPT !.pc = "line"]
           n2 == [n1 EXCEPT !.line = call[c].line + 1]
           n3 == [n2 EXCEPT !.got = counts]
           n4 == [n3 EXCEPT !.seen = 0]
<1>1. n1 = [pc |-> "line", op |-> call[c].op, status |-> call[c].status, aim |-> call[c].aim,
            got |-> call[c].got, ask |-> call[c].ask, line |-> call[c].line, seen |-> call[c].seen]
  BY DEF Inv, TypeOK
<1> HIDE DEF n1
<1>2. n2 = [pc |-> "line", op |-> call[c].op, status |-> call[c].status, aim |-> call[c].aim,
            got |-> call[c].got, ask |-> call[c].ask, line |-> call[c].line + 1, seen |-> call[c].seen]
  BY <1>1
<1> HIDE DEF n2
<1>3. n3 = [pc |-> "line", op |-> call[c].op, status |-> call[c].status, aim |-> call[c].aim,
            got |-> counts, ask |-> call[c].ask, line |-> call[c].line + 1, seen |-> call[c].seen]
  BY <1>2
<1> HIDE DEF n3
<1>4. n4 = [pc |-> "line", op |-> call[c].op, status |-> call[c].status, aim |-> call[c].aim,
            got |-> counts, ask |-> call[c].ask, line |-> call[c].line + 1, seen |-> 0]
  BY <1>3
<1>5. call'[c] = n4
  BY DEF NextLine, Suspend, Inv, TypeOK, n1, n2, n3, n4
<1>6. QED BY <1>4, <1>5

(* One line of the loop: what was asked of it has moved, and no other line *)
(* has changed.                                                            *)
LEMMA LineWorks ==
  ASSUME Inv, NEW c \in Calls, AtWork(c), CarriedIsBacked(c), call[c].pc # "idle",
         NEW k, k = call[c].line, k \in LineNumbers,
         NEW counts, NextLine(c, counts),
         UNCHANGED << under, kind, status, got >>,
         \A l \in LineNumbers \ {k} :
           /\ left'[l] = left[l] /\ arrived'[l] = arrived[l] /\ incoming'[l] = incoming[l]
           /\ counts[l] = call[c].got[l],
         left'[k] = left[k] + (IF call[c].op = "ship" THEN Ask(c) ELSE 0),
         arrived'[k] = arrived[k] + (IF call[c].op = "receive" THEN Ask(c) ELSE 0),
         kind = "purchase" /\ call[c].op = "receive" => counts[k] = call[c].got[k] + Ask(c),
         ByTheBook =>
           incoming'[k] = incoming[k] + (IF call[c].op = "place" THEN Ask(c)
                                         ELSE IF call[c].op \in {"receive", "cancel"} THEN 0 - Ask(c)
                                         ELSE 0)
  PROVE  AtWork(c)'
<1> DEFINE r == call[c]
<1>1. call'[c] = [pc |-> "line", op |-> r.op, status |-> r.status, aim |-> r.aim, got |-> counts,
                  ask |-> r.ask, line |-> r.line + 1, seen |-> 0]
  BY LineIs
<1>2. Ask(c) = r.ask[k]
  BY DEF Ask
<1> HIDE DEF r
<1>3. UNCHANGED ByTheBook
  BY DEF ByTheBook
<1>4. ReadStatus(c)'
  BY <1>1, <1>3 DEF AtWork, ReadStatus, r
<1>5. \A l \in LineNumbers :
        /\ l < r.line + 1 <=> (l < r.line \/ l = k)
        /\ l >= r.line + 1 <=> (l >= r.line /\ l # k)
        /\ k >= r.line /\ ~(k < r.line)
  <2> SUFFICES ASSUME NEW l \in LineNumbers
               PROVE  /\ l < r.line + 1 <=> (l < r.line \/ l = k)
                      /\ l >= r.line + 1 <=> (l >= r.line /\ l # k)
                      /\ k >= r.line /\ ~(k < r.line)
    OBVIOUS
  <2>1. l \in Int /\ k \in Int /\ k = r.line
    BY Numbers DEF r
  <2>2. QED BY <2>1
<1>6. kind = "transfer" => \A l \in LineNumbers : MovedLine(c, l)'
  <2> SUFFICES ASSUME kind = "transfer", NEW l \in LineNumbers PROVE MovedLine(c, l)'
    OBVIOUS
  <2>1. MovedLine(c, l) /\ ReadStatus(c)
    BY DEF AtWork
  <2>2. r.op \in {"ship", "receive"} => Ask(c) = Quantity
    BY <1>2 DEF CarriedIsBacked, r
  <2>3. /\ left[l] \in Nat /\ arrived[l] \in Nat /\ Quantity \in Nat
    BY Numbers
  <2>4. CASE l = k
    BY <1>1, <1>5, <2>1, <2>2, <2>3, <2>4 DEF MovedLine, ReadStatus, r
  <2>5. CASE l # k
    BY <1>1, <1>5, <2>1, <2>5 DEF MovedLine, r
  <2>6. QED BY <2>4, <2>5
<1>7. kind = "purchase" => \A l \in LineNumbers : ReceiptLine(c, l)'
  <2> SUFFICES ASSUME kind = "purchase", NEW l \in LineNumbers PROVE ReceiptLine(c, l)'
    OBVIOUS
  <2>1. ReceiptLine(c, l)
    BY DEF AtWork
  <2>2. /\ got[l] \in Nat /\ arrived[l] \in Nat /\ r.ask[l] \in Nat /\ r.got[l] \in Nat
    BY Numbers DEF r
  <2>3. CASE l = k
    BY <1>1, <1>2, <1>5, <2>1, <2>2, <2>3 DEF ReceiptLine, r
  <2>4. CASE l # k
    BY <1>1, <1>5, <2>1, <2>4 DEF ReceiptLine, r
  <2>5. QED BY <2>3, <2>4
<1>8. ByTheBook => \A l \in LineNumbers : AnnouncedLine(c, l)'
  <2> SUFFICES ASSUME ByTheBook, NEW l \in LineNumbers PROVE AnnouncedLine(c, l)'
    OBVIOUS
  <2>1. AnnouncedLine(c, l) /\ kind = "purchase"
    BY DEF AtWork, ByTheBook
  <2>2. /\ incoming[l] \in Nat /\ r.ask[l] \in Nat /\ r.got[l] \in Nat /\ Elsewhere \in Nat
        /\ Quantity \in Nat /\ got[l] \in Nat
    BY Numbers DEF r
  <2>3. CASE l = k
    <3>1. /\ call'[c].op = r.op /\ call'[c].got = counts /\ call'[c].ask = r.ask
          /\ call'[c].line = r.line + 1
      BY <1>1
    <3>2. k < r.line + 1 /\ ~(k >= r.line + 1) /\ k >= r.line /\ ~(k < r.line)
      BY <1>5, <2>3
    <3>3. /\ r.op = "place" => r.ask[k] = Quantity
          /\ r.op = "cancel" => r.ask[k] = IF status \in Open THEN Quantity - got[k] ELSE 0
      BY <2>1, <2>3 DEF AnnouncedLine, r
    <3>4. /\ r.op = "receive" => incoming'[k] = Elsewhere + (Quantity - counts[k])
          /\ r.op = "place" => incoming'[k] = Elsewhere + Quantity
          /\ r.op \notin {"receive", "place"} => incoming'[k] = Elsewhere + 0
      <4>1. CASE r.op = "receive"
        <5>1. incoming[k] = Elsewhere + (Quantity - r.got[k])
          BY <2>1, <2>3, <4>1 DEF AnnouncedLine, r
        <5>2. incoming'[k] = incoming[k] + (0 - r.ask[k]) /\ counts[k] = r.got[k] + r.ask[k]
          BY <1>2, <2>1, <4>1 DEF r
        <5>3. QED BY <2>2, <2>3, <4>1, <5>1, <5>2
      <4>2. CASE r.op = "place"
        <5>1. incoming[k] = Elsewhere + 0
          BY <2>1, <2>3, <3>2, <4>2 DEF AnnouncedLine, r
        <5>2. incoming'[k] = incoming[k] + r.ask[k]
          BY <1>2, <4>2 DEF r
        <5>3. QED BY <2>2, <2>3, <3>3, <4>2, <5>1, <5>2
      <4>3. CASE r.op = "cancel"
        <5>1. incoming[k] = Elsewhere + r.ask[k]
          BY <2>1, <2>3, <3>2, <4>3 DEF AnnouncedLine, r
        <5>2. incoming'[k] = incoming[k] + (0 - r.ask[k])
          BY <1>2, <4>3 DEF r
        <5>3. QED BY <2>2, <2>3, <4>3, <5>1, <5>2
      <4>4. CASE r.op \notin {"receive", "place", "cancel"}
        <5>1. incoming[k] = Elsewhere + 0
          BY <2>1, <2>3, <4>4 DEF AnnouncedLine, r
        <5>2. incoming'[k] = incoming[k] + 0
          BY <4>4 DEF r
        <5>3. QED BY <2>2, <2>3, <4>4, <5>1, <5>2
      <4>5. QED BY <4>1, <4>2, <4>3, <4>4
    <3>5. QED BY <2>3, <3>1, <3>2, <3>3, <3>4 DEF AnnouncedLine
  <2>4. CASE l # k
    BY <1>1, <1>5, <2>1, <2>4 DEF AnnouncedLine, r
  <2>5. QED BY <2>3, <2>4
<1>9. QED BY <1>1, <1>3, <1>4, <1>6, <1>7, <1>8 DEF AtWork

(* The steps of the loop, each of which moves what it is asked.            *)
LEMMA TurnGoesOn ==
  ASSUME Inv, TurnInv, InTurn, NEW c \in Calls,
         \/ SkipLine(c) \/ LineShips(c) \/ LineArrives(c) \/ LineAnnounced(c)
         \/ ReadAnnounced(c) \/ Withdraw(c)
  PROVE  TurnInv'
<1> DEFINE k == call[c].line
           q == Ask(c)
<1>1. call[c].pc \in {"line", "announced"} /\ UNCHANGED << under, kind, status, got >>
  BY DEF SkipLine, LineShips, LineArrives, LineAnnounced, ReadAnnounced, Withdraw, OnLine,
         docVars, stockVars
<1>2. call[c].pc = "announced" => call[c].op = "cancel" /\ k <= Lines
  BY DEF Inv, Bounded
<1>3. k <= Lines
  BY <1>2 DEF SkipLine, LineShips, LineArrives, LineAnnounced, ReadAnnounced, Withdraw, OnLine
<1>4. k \in LineNumbers /\ q \in Nat /\ q = call[c].ask[k]
  BY <1>1, <1>3, InLoop DEF Ask
<1>5. AtWork(c) /\ CarriedIsBacked(c) /\ \A d \in Calls : d # c => call[d].pc = "idle"
  BY <1>1 DEF TurnInv, Inv
<1>6. DraftIsEmpty'
  BY <1>1 DEF TurnInv, DraftIsEmpty, ByTheBook
<1>7. SUFFICES AtWork(c)' /\ \E r : Suspend(c, r) /\ r.pc # "idle"
  BY <1>5, <1>6, WorkPasses
<1>8. ASSUME NEW counts, NextLine(c, counts)
      PROVE  \E r : Suspend(c, r) /\ r.pc # "idle"
  <2> DEFINE r == [call[c] EXCEPT !.pc = "line", !.line = @ + 1, !.got = counts, !.seen = 0]
  <2>1. Suspend(c, r)
    BY <1>8 DEF NextLine
  <2> HIDE DEF r
  <2>2. call'[c] = r
    BY <2>1 DEF Suspend, Inv, TypeOK
  <2>3. call'[c] = [pc |-> "line", op |-> call[c].op, status |-> call[c].status,
                    aim |-> call[c].aim, got |-> counts, ask |-> call[c].ask,
                    line |-> call[c].line + 1, seen |-> 0]
    BY <1>8, LineIs, Zenon
  <2>4. QED BY <2>1, <2>2, <2>3
<1>9. /\ left \in [LineNumbers -> Nat] /\ arrived \in [LineNumbers -> Nat]
      /\ incoming \in [LineNumbers -> Nat] /\ call[c].got \in [LineNumbers -> Nat]
  BY ReplenishmentConstants DEF Inv, TypeOK, Counts
<1> HIDE DEF k, q
<1>10. CASE SkipLine(c)
  <2>1. q = 0 /\ NextLine(c, call[c].got) /\ UNCHANGED << left, arrived, incoming >>
    BY <1>10 DEF SkipLine, stockVars, q
  <2>2. AtWork(c)'
    BY <1>1, <1>4, <1>5, <1>9, <2>1, LineWorks DEF k, q
  <2>3. QED BY <1>8, <2>1, <2>2
<1>11. CASE LineShips(c)
  <2>1. /\ left' = [left EXCEPT ![k] = @ + q] /\ NextLine(c, call[c].got)
        /\ UNCHANGED << arrived, incoming >> /\ call[c].op = "ship"
    BY <1>11 DEF LineShips, OnLine, k, q
  <2>2. kind = "transfer"
    BY <1>1, <1>5, <2>1 DEF CarriedIsBacked, OpsOf, Inv, TypeOK, PurchaseOps
  <2>3. AtWork(c)'
    BY <1>1, <1>4, <1>5, <1>9, <2>1, <2>2, LineWorks DEF k, q, ByTheBook
  <2>4. QED BY <1>8, <2>1, <2>3
<1>12. CASE LineArrives(c)
  <2> DEFINE counts == IF kind = "transfer" THEN [call[c].got EXCEPT ![k] = q]
                       ELSE [call[c].got EXCEPT ![k] = @ + q]
  <2>1. /\ arrived' = [arrived EXCEPT ![k] = @ + q] /\ NextLine(c, counts) /\ left' = left
        /\ incoming' = IF kind = "purchase" /\ incoming[k] >= q
                       THEN [incoming EXCEPT ![k] = @ - q] ELSE incoming
        /\ call[c].op = "receive"
        /\ kind = "purchase" => q <= Quantity - call[c].got[k]
    BY <1>12 DEF LineArrives, OnLine, Outstanding, k, q
  <2>2. /\ kind = "purchase" => counts[k] = call[c].got[k] + q
        /\ \A l \in LineNumbers \ {k} : counts[l] = call[c].got[l]
    BY <1>4, <1>9
  <2> HIDE DEF counts
  <2>3. ByTheBook => incoming'[k] = incoming[k] - q
    <3>1. SUFFICES ASSUME ByTheBook PROVE incoming'[k] = incoming[k] - q
      OBVIOUS
    <3>2. incoming[k] = Elsewhere + (Quantity - call[c].got[k]) /\ kind = "purchase"
      BY <1>4, <1>5, <2>1, <3>1 DEF AtWork, AnnouncedLine, ByTheBook
    <3>3. incoming[k] >= q
      <4>1. Elsewhere \in Nat /\ Quantity \in Nat /\ call[c].got[k] \in Nat
        BY <1>4, Numbers
      <4>2. QED BY <1>4, <2>1, <3>2, <4>1
    <3>4. QED BY <1>4, <1>9, <2>1, <3>2, <3>3
  <2>4. \A l \in LineNumbers \ {k} : arrived'[l] = arrived[l] /\ incoming'[l] = incoming[l]
    BY <1>4, <1>9, <2>1
  <2>5. arrived'[k] = arrived[k] + q /\ left[k] = left[k] + 0 /\ incoming[k] - q = incoming[k] + (0 - q)
    BY <1>4, <1>9, <2>1
  <2>6. AtWork(c)'
    BY <1>1, <1>4, <1>5, <2>1, <2>2, <2>3, <2>4, <2>5, LineWorks DEF k, q
  <2>7. QED BY <1>8, <2>1, <2>6
<1>13. CASE LineAnnounced(c)
  <2>1. /\ incoming' = [incoming EXCEPT ![k] = @ + q] /\ NextLine(c, call[c].got)
        /\ UNCHANGED << left, arrived >> /\ call[c].op = "place"
    BY <1>13 DEF LineAnnounced, OnLine, k, q
  <2>2. AtWork(c)'
    BY <1>1, <1>4, <1>5, <1>9, <2>1, LineWorks DEF k, q
  <2>3. QED BY <1>8, <2>1, <2>2
<1>14. CASE ReadAnnounced(c)
  <2>1. /\ call[c].op = "cancel" /\ q > 0 /\ UNCHANGED << left, arrived, incoming >>
        /\ call[c].pc = "line"
        /\ IF incoming[k] = 0 THEN NextLine(c, call[c].got)
           ELSE Suspend(c, [call[c] EXCEPT !.pc = "announced", !.seen = incoming[k]])
    BY <1>14 DEF ReadAnnounced, OnLine, stockVars, k, q
  <2>2. CASE incoming[k] = 0
    <3>1. NextLine(c, call[c].got)
      BY <2>1, <2>2
    <3>2. ~ByTheBook
      <4>1. ByTheBook => incoming[k] = Elsewhere + call[c].ask[k]
        <5>1. ByTheBook => AnnouncedLine(c, k)
          BY <1>4, <1>5 DEF AtWork
        <5>2. k >= call[c].line
          BY <1>4 DEF k, LineNumbers
        <5>3. QED BY <2>1, <5>1, <5>2 DEF AnnouncedLine
      <4>2. Elsewhere \in Nat
        BY ReplenishmentConstants
      <4>3. QED BY <1>4, <2>1, <2>2, <4>1, <4>2
    <3>3. AtWork(c)'
      BY <1>1, <1>4, <1>5, <1>9, <2>1, <3>1, <3>2, LineWorks DEF k, q
    <3>4. QED BY <1>8, <3>1, <3>3
  <2>3. CASE incoming[k] # 0
    <3> DEFINE n == [call[c] EXCEPT !.pc = "announced"]
               r == [n EXCEPT !.seen = incoming[k]]
    <3>1. n = [pc |-> "announced", op |-> call[c].op, status |-> call[c].status,
               aim |-> call[c].aim, got |-> call[c].got, ask |-> call[c].ask,
               line |-> call[c].line, seen |-> call[c].seen]
      BY DEF Inv, TypeOK
    <3>2. Suspend(c, r)
      BY <2>1, <2>3
    <3> HIDE DEF n
    <3>3. r = [pc |-> "announced", op |-> call[c].op, status |-> call[c].status,
               aim |-> call[c].aim, got |-> call[c].got, ask |-> call[c].ask,
               line |-> call[c].line, seen |-> incoming[k]]
      BY <3>1
    <3> HIDE DEF r
    <3>4. call'[c] = r
      BY <3>2 DEF Suspend, Inv, TypeOK
    <3>5. AtWork(c)'
      <4>1. ReadStatus(c)'
        BY <1>1, <1>5, <3>3, <3>4 DEF AtWork, ReadStatus, ByTheBook
      <4>2. kind = "transfer" => \A l \in LineNumbers : MovedLine(c, l)'
        BY <1>1, <1>5, <2>1, <3>3, <3>4 DEF AtWork, MovedLine
      <4>3. kind = "purchase" => \A l \in LineNumbers : ReceiptLine(c, l)'
        BY <1>1, <1>5, <2>1, <3>3, <3>4 DEF AtWork, ReceiptLine
      <4>4. ByTheBook => \A l \in LineNumbers : AnnouncedLine(c, l)'
        BY <1>1, <1>5, <2>1, <3>3, <3>4 DEF AtWork, AnnouncedLine
      <4>5. QED BY <1>1, <2>1, <3>3, <3>4, <4>1, <4>2, <4>3, <4>4 DEF AtWork, ByTheBook, k
    <3>6. QED BY <3>2, <3>3, <3>5
  <2>4. QED BY <2>2, <2>3
<1>15. CASE Withdraw(c)
  <2> DEFINE reduce == IF call[c].seen < q THEN call[c].seen ELSE q
  <2>1. /\ call[c].pc = "announced" /\ NextLine(c, call[c].got) /\ UNCHANGED << left, arrived >>
        /\ incoming' = [incoming EXCEPT ![k] = call[c].seen - reduce]
    BY <1>15 DEF Withdraw, k, q
  <2>2. call[c].op = "cancel"
    BY <1>2, <2>1
  <2>3. ByTheBook => incoming'[k] = incoming[k] + (0 - q)
    <3>1. SUFFICES ASSUME ByTheBook PROVE incoming'[k] = incoming[k] + (0 - q)
      OBVIOUS
    <3>2. call[c].seen = incoming[k] /\ AnnouncedLine(c, k)
      BY <1>4, <1>5, <2>1, <3>1 DEF AtWork, k
    <3>3. k >= call[c].line
      BY <1>4 DEF k, LineNumbers
    <3>4. incoming[k] = Elsewhere + q
      BY <1>4, <2>2, <3>2, <3>3 DEF AnnouncedLine
    <3>5. Elsewhere \in Nat
      BY ReplenishmentConstants
    <3>6. reduce = q
      BY <1>4, <3>2, <3>4, <3>5
    <3>7. QED BY <1>4, <1>9, <2>1, <3>2, <3>4, <3>5, <3>6
  <2>4. \A l \in LineNumbers \ {k} : incoming'[l] = incoming[l]
    BY <1>9, <2>1
  <2>5. left[k] = left[k] + 0 /\ arrived[k] = arrived[k] + 0
    BY <1>4, <1>9
  <2>6. AtWork(c)'
    BY <1>1, <1>4, <1>5, <2>1, <2>2, <2>3, <2>4, <2>5, LineWorks DEF k, q
  <2>7. QED BY <1>8, <2>1, <2>6
<1>16. QED BY <1>10, <1>11, <1>12, <1>13, <1>14, <1>15

-----------------------------------------------------------------------------
(* The save of a call that was alone puts into the document what has been  *)
(* moved.                                                                  *)
LEMMA TurnEnds ==
  ASSUME Inv, TurnInv, InTurn, NEW c \in Calls, Save(c)
  PROVE  TurnInv'
<1> DEFINE r == call[c]
           s == StatusToSave(c)
<1>1. /\ r.pc = "save" \/ (r.pc = "line" /\ r.line > Lines)
      /\ status' = IF status = "deleted" \/ (s = r.status /\ r.op # "edit") THEN status ELSE s
      /\ got' = IF r.op = "receive"
                THEN [l \in LineNumbers |-> IF r.ask[l] > 0 THEN r.got[l] ELSE got[l]]
                ELSE got
      /\ Leave(c) /\ UNCHANGED << under, kind, left, arrived, incoming >>
  BY DEF Save, stockVars
<1>2. AtWork(c) /\ CarriedIsBacked(c) /\ DraftIsEmpty /\ \A d \in Calls : d # c => call[d].pc = "idle"
  BY <1>1 DEF TurnInv, Inv
<1>3. /\ r.op \in OpsOf[kind] /\ (r.op # "edit" => r.aim = Target[r.op]) /\ (r.op = "edit" => under.edit)
      /\ r.op \in {"ship", "receive"} => r.pc = "line"
      /\ \A l \in LineNumbers : r.got[l] <= Quantity
  BY <1>1, <1>2 DEF CarriedIsBacked
<1>4. r.status = status /\ kind \in {"transfer", "purchase"}
  BY <1>2 DEF AtWork, ReadStatus, Inv, TypeOK
<1>5. r.pc = "line" => \A l \in LineNumbers : l < r.line /\ ~(l >= r.line)
  BY <1>1, ReplenishmentConstants, Numbers DEF LineNumbers
<1>6. UNCHANGED ByTheBook /\ (ByTheBook => kind = "purchase" /\ ~under.edit)
  BY <1>1 DEF ByTheBook
<1> HIDE DEF r, s
<1>7. kind = "transfer" => \A l \in LineNumbers : SettledLine(l)'
  <2> SUFFICES ASSUME kind = "transfer", NEW l \in LineNumbers PROVE SettledLine(l)'
    OBVIOUS
  <2>1. r.op \in TransferOps /\ s = Target[r.op]
    <3>1. r.op \in TransferOps
      BY <1>3 DEF OpsOf
    <3>2. s = r.aim
      BY DEF s, StatusToSave, r
    <3>3. QED BY <1>3, <3>1, <3>2 DEF TransferOps
  <2>2. status' = s
    <3>1. status # "deleted"
      BY FlowIs DEF Inv, TypeOK
    <3>2. r.op # "edit"
      BY <2>1 DEF TransferOps
    <3>3. QED BY <1>1, <1>4, <3>1, <3>2
  <2>3. MovedLine(c, l) /\ ReadStatus(c)
    BY <1>2 DEF AtWork
  <2>4. CASE r.op = "ship"
    BY <1>1, <1>3, <1>5, <2>1, <2>2, <2>3, <2>4, <1>6 DEF MovedLine, ReadStatus, SettledLine, Target, r
  <2>5. CASE r.op = "receive"
    BY <1>1, <1>3, <1>5, <2>1, <2>2, <2>3, <2>5, <1>6 DEF MovedLine, ReadStatus, SettledLine, Target, r
  <2>6. CASE r.op \in {"approve", "pack", "cancel"}
    BY <1>1, <2>1, <2>2, <2>3, <2>6, <1>6 DEF MovedLine, ReadStatus, SettledLine, Target, r
  <2>7. QED BY <2>1, <2>4, <2>5, <2>6 DEF TransferOps
<1>8. kind = "purchase" => \A l \in LineNumbers : got'[l] = arrived'[l]
  <2> SUFFICES ASSUME kind = "purchase", NEW l \in LineNumbers PROVE got'[l] = arrived'[l]
    OBVIOUS
  <2>1. ReceiptLine(c, l)
    BY <1>2 DEF AtWork
  <2>2. r.ask[l] \in Nat
    BY Numbers DEF r
  <2>3. CASE r.op = "receive"
    <3>1. got'[l] = IF r.ask[l] > 0 THEN r.got[l] ELSE got[l]
      BY <1>1, <2>3
    <3>2. QED BY <1>1, <2>1, <2>2, <2>3, <3>1 DEF ReceiptLine, r
  <2>4. CASE r.op # "receive"
    BY <1>1, <2>1, <2>4 DEF ReceiptLine, r
  <2>5. QED BY <2>3, <2>4
<1>9. ByTheBook =>
        /\ status' # "draft"
        /\ \A l \in LineNumbers :
             incoming'[l] = Elsewhere + (IF status' \in Open THEN Quantity - got'[l] ELSE 0)
  <2> SUFFICES ASSUME ByTheBook
               PROVE  /\ status' # "draft"
                      /\ \A l \in LineNumbers :
                           incoming[l] = Elsewhere + (IF status' \in Open THEN Quantity - got'[l] ELSE 0)
    BY <1>1
  <2>1. kind = "purchase" /\ r.op \in PurchaseOps \ {"edit"} /\ r.aim = Target[r.op]
    BY <1>3, <1>6 DEF OpsOf
  <2>2. \A l \in LineNumbers : AnnouncedLine(c, l) /\ ReceiptLine(c, l)
    BY <1>2, <2>1 DEF AtWork
  <2>3. ReadStatus(c)
    BY <1>2 DEF AtWork
  <2>4. status' = s \/ (status = "deleted" /\ status' = "deleted")
    BY <1>1, <1>4
  <2>5. r.op # "remove" => r.pc = "line"
    BY <1>1, <1>2 DEF AtWork, r
  <2>6. CASE r.op = "place"
    <3>1. status = "draft" /\ s = "ordered"
      BY <2>1, <2>3, <2>6 DEF ReadStatus, s, StatusToSave, r, Target
    <3>2. got' = got /\ status' = "ordered"
      BY <1>1, <2>4, <2>6, <3>1
    <3>3. ASSUME NEW l \in LineNumbers PROVE incoming[l] = Elsewhere + (Quantity - got'[l])
      <4>1. got[l] = 0
        BY <1>2, <3>1 DEF DraftIsEmpty
      <4>2. incoming[l] = Elsewhere + Quantity
        <5>1. AnnouncedLine(c, l) /\ l < r.line
          BY <1>5, <2>2, <2>5, <2>6
        <5>2. QED BY <2>6, <5>1 DEF AnnouncedLine, r
      <4>3. QED BY <3>2, <4>1, <4>2, ReplenishmentConstants
    <3>4. QED BY <3>2, <3>3 DEF Open
  <2>7. CASE r.op = "receive"
    <3>1. status \in Open
      BY <2>3, <2>7 DEF ReadStatus, r
    <3>2. status' = s
      BY <2>4, <3>1 DEF Open
    <3>3. \A l \in LineNumbers : got'[l] = r.got[l] /\ incoming[l] = Elsewhere + (Quantity - r.got[l])
      BY <1>1, <1>8, <2>1, <2>2, <2>7 DEF AnnouncedLine, ReceiptLine, r
    <3>4. \/ s = "received" /\ \A l \in LineNumbers : r.got[l] >= Quantity
          \/ s \in Open
      BY <1>4, <2>1, <2>7, <3>1 DEF s, StatusToSave, r, Open, Target
    <3>5. ASSUME s = "received", \A l \in LineNumbers : r.got[l] >= Quantity, NEW l \in LineNumbers
          PROVE  incoming[l] = Elsewhere + 0
      <4>1. r.got[l] = Quantity
        <5>1. r.got[l] \in Nat /\ Quantity \in Nat
          BY Numbers DEF r
        <5>2. QED BY <1>3, <3>5, <5>1
      <4>2. QED BY <3>3, <4>1, ReplenishmentConstants
    <3>6. CASE s \in Open
      BY <3>2, <3>3, <3>6 DEF Open
    <3>7. CASE s = "received" /\ \A l \in LineNumbers : r.got[l] >= Quantity
      BY <3>2, <3>5, <3>7 DEF Open
    <3>8. QED BY <3>4, <3>6, <3>7
  <2>8. CASE r.op \in {"cancel", "remove"}
    <3>1. s \in {"cancelled", "deleted"}
      BY <2>1, <2>8 DEF s, StatusToSave, r, Target
    <3>2. \A l \in LineNumbers : incoming[l] = Elsewhere + 0
      BY <1>5, <2>2, <2>5, <2>8 DEF AnnouncedLine, r
    <3>3. QED BY <2>4, <3>1, <3>2 DEF Open
  <2>9. QED BY <2>1, <2>6, <2>7, <2>8 DEF PurchaseOps
<1>10. \A l \in LineNumbers : SettledLine(l)'
  <2>1. CASE kind = "transfer"
    BY <1>7, <2>1
  <2>2. CASE kind = "purchase"
    BY <1>1, <1>6, <1>8, <1>9, <2>2 DEF SettledLine
  <2>3. QED BY <1>4, <2>1, <2>2
<1>11. DraftIsEmpty'
  BY <1>6, <1>9 DEF DraftIsEmpty
<1>12. QED BY <1>1, <1>2, <1>10, <1>11, WorkEnds

LEMMA NextInTurn == Inv /\ TurnInv /\ [Next]_vars => TurnInv'
<1> SUFFICES ASSUME Inv, TurnInv, [Next]_vars PROVE TurnInv'
  OBVIOUS
<1>1. CASE UNCHANGED vars
  BY <1>1 DEF vars, docVars, stockVars, TurnInv, InTurn, Quiet, AtWork, ReadStatus, MovedLine,
              ReceiptLine, AnnouncedLine, SettledLine, DraftIsEmpty, ByTheBook
<1>2. ASSUME NEW c \in Calls, Step(c) PROVE TurnInv'
  <2>1. under' = under
    BY <1>2, Zenon DEF Step, Begin, SkipLine, LineShips, LineArrives, LineExceeds, LineAnnounced,
                       ReadAnnounced, Withdraw, BreakOff, Save
  <2>2. CASE ~InTurn
    BY <2>1, <2>2 DEF TurnInv, InTurn
  <2>3. CASE InTurn /\ \E op \in Ops : Begin(c, op)
    BY <2>3, TurnBegins
  <2>4. CASE InTurn /\ (SkipLine(c) \/ LineShips(c) \/ LineArrives(c) \/ LineAnnounced(c)
                        \/ ReadAnnounced(c) \/ Withdraw(c))
    BY <2>4, TurnGoesOn
  <2>5. CASE InTurn /\ LineExceeds(c)
    <3> DEFINE k == call[c].line
    <3>1. /\ call[c].pc = "line" /\ call[c].op = "receive" /\ k <= Lines /\ kind = "purchase"
          /\ call[c].ask[k] > Quantity - call[c].got[k]
      BY <2>5 DEF LineExceeds, OnLine, Ask, Outstanding
    <3>2. k \in LineNumbers
      BY <3>1, InLoop
    <3>3. ReceiptLine(c, k)
      BY <2>5, <3>1, <3>2 DEF TurnInv, AtWork
    <3>4. /\ got[k] \in Nat /\ call[c].got[k] \in Nat /\ call[c].ask[k] \in Nat /\ k \in Nat
          /\ Quantity \in Nat
      BY <3>2, Numbers
    <3> HIDE DEF k
    <3>5. got[k] = call[c].got[k] /\ call[c].ask[k] <= Quantity - got[k]
      BY <3>1, <3>3, <3>4 DEF ReceiptLine, k
    <3>6. QED BY <3>1, <3>4, <3>5
  <2>6. CASE InTurn /\ BreakOff(c)
    BY <2>6 DEF BreakOff, InTurn
  <2>7. CASE InTurn /\ Save(c)
    BY <2>7, TurnEnds
  <2>8. QED BY <1>2, <2>2, <2>3, <2>4, <2>5, <2>6, <2>7 DEF Step
<1>3. QED BY <1>1, <1>2 DEF Next

LEMMA InitInTurn == Init => TurnInv
<1> SUFFICES ASSUME Init, InTurn PROVE TurnInv
  BY DEF TurnInv
<1>1. \A c \in Calls : call[c].pc = "idle"
  BY DEF Init, AtRest
<1>2. \A l \in LineNumbers : SettledLine(l)
  <2> SUFFICES ASSUME NEW l \in LineNumbers PROVE SettledLine(l)
    OBVIOUS
  <2>1. got[l] = 0 /\ left[l] = 0 /\ arrived[l] = 0 /\ incoming[l] = Elsewhere
    BY DEF Init, Zero
  <2>2. /\ kind = "transfer" => status = "requested"
        /\ ByTheBook => status = "draft"
    BY DEF Init, ByTheBook
  <2>3. QED BY <2>1, <2>2, ReplenishmentConstants DEF SettledLine, Open
<1>3. DraftIsEmpty
  BY DEF Init, DraftIsEmpty, Zero
<1>4. QED BY <1>1, <1>2, <1>3 DEF TurnInv

LEMMA TurnAlways == Spec => [](Inv /\ TurnInv)
<1>1. QED BY InitInv, NextStands, InitInTurn, NextInTurn, PTL DEF Spec

(* One call at a time and none failing half way: a transfer moves each of  *)
(* its units out once and in once, and a purchase order's receipts are the *)
(* units that came in, however many partial receipts there are.            *)
THEOREM UnitsAlwaysMoveOnce == Spec => []UnitsMoveOnce
<1>1. Inv /\ TurnInv => UnitsMoveOnce
  <2> SUFFICES ASSUME Inv, TurnInv, Quiet, InTurn, NEW l \in LineNumbers
               PROVE  IF kind = "transfer"
                      THEN /\ left[l]    = IF status \in {"shipped", "received"} THEN Quantity ELSE 0
                           /\ arrived[l] = IF status = "received" THEN Quantity ELSE 0
                      ELSE got[l] = arrived[l] /\ got[l] <= Quantity
    BY DEF UnitsMoveOnce, InTurn
  <2>1. SettledLine(l) /\ got[l] <= Quantity /\ kind \in {"transfer", "purchase"}
    BY DEF TurnInv, Inv, TypeOK, Recorded
  <2>2. QED BY <2>1 DEF SettledLine
<1>2. QED BY <1>1, TurnAlways, PTL

(* Between such calls, unless staff set a status by hand, the units that a *)
(* warehouse is told to expect are those outstanding on open orders.       *)
THEOREM IncomingAlwaysOutstanding == Spec => []IncomingIsOutstanding
<1>1. Inv /\ TurnInv => IncomingIsOutstanding
  <2> SUFFICES ASSUME Inv, TurnInv, Quiet, kind = "purchase",
                      under = [overlap |-> FALSE, fail |-> FALSE, edit |-> FALSE],
                      NEW l \in LineNumbers
               PROVE  incoming[l] = Elsewhere +
                        (IF status \in {"ordered", "partial"} THEN Outstanding(l, got) ELSE 0)
    BY DEF IncomingIsOutstanding
  <2>1. InTurn /\ ByTheBook
    BY DEF InTurn, ByTheBook
  <2>2. SettledLine(l)
    BY <2>1 DEF TurnInv
  <2>3. QED BY <2>1, <2>2 DEF SettledLine, Open, Outstanding
<1>2. QED BY <1>1, TurnAlways, PTL

=============================================================================
