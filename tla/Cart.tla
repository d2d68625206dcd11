-------------------------------- MODULE Cart --------------------------------
(***************************************************************************)
(* CartService: the lines of one customer's cart and of the carts the same *)
(* browser fills as a guest.  A line is a document of its own, for a       *)
(* variant, in the cart proper or saved for later; lines are combined when *)
(* they are set aside, taken back or merged into the customer's cart, one  *)
(* document after the other.  A save writes the fields that were changed   *)
(* and looks at nothing; only the unique index on the live lines of a      *)
(* variant can refuse it.                                                  *)
(***************************************************************************)
EXTENDS Integers

CONSTANTS
  Variants,      (* product variants                                       *)
  MaxQuantity,   (* CART_QTY.MAX, the units a line may be for              *)
  Calls,         (* calls that may be under way at once                    *)
  Circumstances  (* the circumstances behaviours take place under          *)

(* Bounds of the model.                                                    *)
CONSTANTS
  MaxGuestCarts, (* guest carts, one after the other                       *)
  MaxLines       (* lines that are live or known to a call                 *)

(* overlap: calls may overlap; fail: a call may end half way, because      *)
(* stock is short, a product has gone from the catalogue or a process dies; *)
(* bag: the variants the customer takes an interest in.                    *)
ASSUME CartConstants ==
  /\ Variants # {}
  /\ MaxQuantity \in Nat \ {0}
  /\ MaxGuestCarts \in Nat \ {0}
  /\ MaxLines \in Nat \ {0}
  /\ Circumstances \subseteq [overlap : BOOLEAN, fail : BOOLEAN, bag : SUBSET Variants]

VARIABLES
  under,    (* the circumstances of this behaviour                         *)
  line,     (* line id -> its document                                     *)
  merged,   (* guest carts that are marked MERGED                          *)
  call      (* call -> where it is suspended and what it carries           *)

vars == << under, line, merged, call >>

Customer == 0
GuestCarts == 1 .. MaxGuestCarts
Carts == {Customer} \cup GuestCarts
LineIds == 1 .. MaxLines
Quantities == 1 .. MaxQuantity

(* An ACTIVE cart is made for the guest's token when one is first needed.  *)
GuestCart == CHOOSE g \in GuestCarts \ merged : \A o \in GuestCarts \ merged : g <= o
OpenCarts == {Customer} \cup (IF merged = GuestCarts THEN {} ELSE {GuestCart})

(* Nothing revives a deleted line, so what it was is forgotten.            *)
SomeVariant == CHOOSE v \in Variants : TRUE
Locations == {"cart", "saved"}
Lines == [cart : Carts, variant : Variants, loc : Locations, qty : Quantities, live : BOOLEAN]
NoLine == [cart |-> Customer, variant |-> SomeVariant, loc |-> "cart", qty |-> 1, live |-> FALSE]

(* A call's copy of a line.                                                *)
Copies == [id : LineIds, variant : Variants, loc : Locations, qty : Quantities]
NoCopy == [id |-> 1, variant |-> SomeVariant, loc |-> "cart", qty |-> 1]
Copy(l) == [id |-> l, variant |-> line[l].variant, loc |-> line[l].loc, qty |-> line[l].qty]

Labels == {"idle", "find", "create", "write", "delete", "wipe", "each", "combine", "drop", "move",
           "close"}

(* todo: the lines it has yet to go through; item: the line in hand;       *)
(* other: the line it is combined with; qty: the quantity to write.        *)
AtRest == [pc |-> "idle", op |-> "add", cart |-> Customer, variant |-> SomeVariant, qty |-> 1,
           todo |-> {}, item |-> NoCopy, other |-> NoCopy]

Init ==
  /\ under  \in Circumstances
  /\ line   = [l \in LineIds |-> NoLine]
  /\ merged = {}
  /\ call   = [c \in Calls |-> AtRest]

Quiet == \A c \in Calls : call[c].pc = "idle"
MayBegin(c) == call[c].pc = "idle" /\ (Quiet \/ under.overlap)
Suspend(c, carried) == call' = [call EXCEPT ![c] = carried]
Goto(c, label) == Suspend(c, [call[c] EXCEPT !.pc = label])
Leave(c) == Suspend(c, AtRest)

LiveLines(k) == {l \in LineIds : line[l].live /\ line[l].cart = k}
At(k, v, loc) == {l \in LiveLines(k) : line[l].variant = v /\ line[l].loc = loc}

Known(c) == {i.id : i \in call[c].todo \cup {call[c].item, call[c].other}}
Unused == {l \in LineIds : ~line[l].live /\ \A c \in Calls : call[c].pc # "idle" => l \notin Known(c)}
NewLine == CHOOSE l \in Unused : \A n \in Unused : l <= n

(* The save of one line: a line that is deleted stays deleted.             *)
Save(l, doc) == line' = IF line[l].live THEN [line EXCEPT ![l] = doc] ELSE line
Delete(l) == line' = [line EXCEPT ![l] = NoLine]

(* validateLineQuantity, as far as the line itself goes.                   *)
FitsAny(qty) == TRUE                    \* faulty: the sum is not looked at again
Fits(qty) == qty <= MaxQuantity

-----------------------------------------------------------------------------
(* addItem, updateItem, removeItem, clear.                                 *)

BeginAdd(c) ==
  /\ MayBegin(c)
  /\ \E k \in OpenCarts, v \in under.bag, q \in Quantities :
       Suspend(c, [AtRest EXCEPT !.pc = "find", !.cart = k, !.variant = v, !.qty = q])
  /\ UNCHANGED << under, line, merged >>

FindLine(c) ==
  LET existing == At(call[c].cart, call[c].variant, "cart") IN
  /\ call[c].pc = "find"
  /\ \/ /\ existing = {}
        /\ Goto(c, "create")
     \/ \E l \in existing :
          LET nextQty == line[l].qty + call[c].qty IN
          IF Fits(nextQty) THEN Suspend(c, [call[c] EXCEPT !.pc = "write", !.item = Copy(l), !.qty = nextQty])
          ELSE Leave(c)
  /\ UNCHANGED << under, line, merged >>

CreateLine(c) ==
  /\ call[c].pc = "create"
  /\ IF At(call[c].cart, call[c].variant, "cart") = {}
     THEN /\ Unused # {}
          /\ line' = [line EXCEPT ![NewLine] = [cart |-> call[c].cart, variant |-> call[c].variant,
                                               loc |-> "cart", qty |-> call[c].qty, live |-> TRUE]]
     ELSE UNCHANGED line                \* the index refuses it
  /\ Leave(c)
  /\ UNCHANGED << under, merged >>

BeginUpdate(c) ==
  /\ MayBegin(c)
  /\ \E k \in OpenCarts, q \in Quantities : \E l \in {n \in LiveLines(k) : line[n].loc = "cart"} :
       Suspend(c, [AtRest EXCEPT !.pc = "write", !.op = "update", !.item = Copy(l), !.qty = q])
  /\ UNCHANGED << under, line, merged >>

WriteQuantity(c) ==
  /\ call[c].pc = "write"
  /\ Save(call[c].item.id, [line[call[c].item.id] EXCEPT !.qty = call[c].qty])
  /\ Leave(c)
  /\ UNCHANGED << under, merged >>

BeginRemove(c) ==
  /\ MayBegin(c)
  /\ \E k \in OpenCarts : \E l \in LiveLines(k) :
       Suspend(c, [AtRest EXCEPT !.pc = "delete", !.op = "remove", !.item = Copy(l)])
  /\ UNCHANGED << under, line, merged >>

DeleteLine(c) ==
  /\ call[c].pc = "delete"
  /\ Delete(call[c].item.id)
  /\ Leave(c)
  /\ UNCHANGED << under, merged >>

BeginClear(c) ==
  /\ MayBegin(c)
  /\ \E k \in OpenCarts : Suspend(c, [AtRest EXCEPT !.pc = "wipe", !.op = "clear", !.cart = k])
  /\ UNCHANGED << under, line, merged >>

(* clear also has an "all" that takes the saved lines; the route passes    *)
(* "cart".                                                                 *)
WipeLines(c) ==
  /\ call[c].pc = "wipe"
  /\ line' = [l \in LineIds |->
       IF l \in LiveLines(call[c].cart) /\ line[l].loc = "cart" THEN NoLine ELSE line[l]]
  /\ Leave(c)
  /\ UNCHANGED << under, merged >>

-----------------------------------------------------------------------------
(* saveForLater, restore and merge: line after line is moved to where it   *)
(* belongs, or combined with the line that is already there.               *)

LinesInCart(g) == {l \in LiveLines(g) : line[l].loc = "cart"}   \* faulty: saved lines are left
LinesToMerge(g) == LiveLines(g)

BeginMove(c, op) ==
  /\ MayBegin(c)
  /\ \E k \in OpenCarts :
       \E todo \in SUBSET {l \in LiveLines(k) : line[l].loc = IF op = "save" THEN "cart" ELSE "saved"} :
         /\ todo # {}
         /\ Suspend(c, [AtRest EXCEPT !.pc = "each", !.op = op, !.cart = k,
                                      !.todo = {Copy(l) : l \in todo}])
  /\ UNCHANGED << under, line, merged >>

BeginMerge(c) ==
  /\ MayBegin(c)
  /\ merged # GuestCarts
  /\ Suspend(c, [AtRest EXCEPT !.pc = "each", !.op = "merge", !.cart = GuestCart,
                               !.todo = {Copy(l) : l \in LinesToMerge(GuestCart)}])
  /\ UNCHANGED << under, line, merged >>

(* Where a call takes a line, and the line that is there.                  *)
TargetCart(c) == IF call[c].op = "merge" THEN Customer ELSE call[c].cart
TargetLoc(c, i) ==
  IF call[c].op = "save" THEN "saved" ELSE IF call[c].op = "restore" THEN "cart" ELSE i.loc
Existing(c, i) == At(TargetCart(c), i.variant, TargetLoc(c, i))

(* The quantity of the combined line: the larger, or when carts are merged *)
(* that of the line changed last.                                          *)
Larger(m, n) == IF m >= n THEN m ELSE n
Combined(c, i, qty) ==
  IF call[c].op = "merge" THEN {i.qty, qty} ELSE {Larger(i.qty, qty)}

TakeLine(c) ==
  /\ call[c].pc = "each"
  /\ \E i \in call[c].todo :
       LET carried == [call[c] EXCEPT !.todo = @ \ {i}, !.item = i] IN
       \/ /\ Existing(c, i) = {}
          /\ Suspend(c, [carried EXCEPT !.pc = "move"])
       \/ \E l \in Existing(c, i) : \E q \in Combined(c, i, line[l].qty) :
            Suspend(c, [carried EXCEPT !.pc = "combine", !.other = Copy(l), !.qty = q])
  /\ UNCHANGED << under, line, merged >>

(* An unchanged quantity is not written.                                   *)
Combine(c) ==
  LET l == call[c].other.id IN
  /\ call[c].pc = "combine"
  /\ IF call[c].qty = call[c].other.qty THEN UNCHANGED line
     ELSE Save(l, [line[l] EXCEPT !.qty = call[c].qty])
  /\ Suspend(c, [call[c] EXCEPT !.pc = "drop", !.other = NoCopy, !.qty = 1])
  /\ UNCHANGED << under, merged >>

BackToEach(c) == Suspend(c, [call[c] EXCEPT !.pc = "each", !.item = NoCopy])

DropLine(c) ==
  /\ call[c].pc = "drop"
  /\ Delete(call[c].item.id)
  /\ BackToEach(c)
  /\ UNCHANGED << under, merged >>

(* Merging writes the line's cart, the other two its place in the cart.    *)
Moved(c) ==
  LET doc == line[call[c].item.id] IN
  IF call[c].op = "merge" THEN [doc EXCEPT !.cart = Customer]
  ELSE [doc EXCEPT !.loc = TargetLoc(c, call[c].item)]

MoveLine(c) ==
  LET l    == call[c].item.id
      doc  == Moved(c)
      free == At(doc.cart, doc.variant, doc.loc) \subseteq {l} IN
  /\ call[c].pc = "move"
  /\ \/ /\ free \/ ~line[l].live
        /\ Save(l, doc)
        /\ BackToEach(c)
     \/ /\ ~free /\ line[l].live        \* the index refuses it
        /\ Leave(c)
        /\ UNCHANGED line
  /\ UNCHANGED << under, merged >>

EndMove(c) ==
  /\ call[c].pc = "each" /\ call[c].todo = {}
  /\ IF call[c].op = "merge" THEN Goto(c, "close") ELSE Leave(c)
  /\ UNCHANGED << under, line, merged >>

CloseCart(c) ==
  /\ call[c].pc = "close"
  /\ merged' = merged \cup {call[c].cart}
  /\ Leave(c)
  /\ UNCHANGED << under, line >>

BreakOff(c) ==
  /\ under.fail
  /\ call[c].pc # "idle"
  /\ Leave(c)
  /\ UNCHANGED << under, line, merged >>

Step(c) ==
  \/ BeginAdd(c) \/ FindLine(c) \/ CreateLine(c) \/ BeginUpdate(c) \/ WriteQuantity(c)
  \/ BeginRemove(c) \/ DeleteLine(c) \/ BeginClear(c) \/ WipeLines(c)
  \/ \E op \in {"save", "restore"} : BeginMove(c, op)
  \/ BeginMerge(c) \/ TakeLine(c) \/ Combine(c) \/ DropLine(c) \/ MoveLine(c) \/ EndMove(c)
  \/ CloseCart(c) \/ BreakOff(c)

Next == \E c \in Calls : Step(c)

Spec == Init /\ [][Next]_vars

-----------------------------------------------------------------------------
TypeOK ==
  /\ under \in Circumstances
  /\ line \in [LineIds -> Lines]
  /\ merged \subseteq GuestCarts
  /\ call \in [Calls -> [pc : Labels, op : {"add", "update", "remove", "clear", "save", "restore", "merge"},
                         cart : Carts, variant : Variants, qty : Quantities, todo : SUBSET Copies,
                         item : Copies, other : Copies]]

(* Whatever calls overlap, no line is ever for more units than the limit,  *)
(* however lines were added to, combined or merged.                        *)
QuantityWithinLimit == \A l \in LineIds : line[l].live => line[l].qty \in Quantities

(* The variants the customer has in a cart that is in use.                 *)
Shown ==
  {line[l].variant : l \in {n \in LineIds : line[n].live /\ line[n].cart \notin merged}}

(* One call at a time, also when calls break off half way and are made     *)
(* again: only removing a line or clearing a cart takes a variant from the *)
(* customer; setting aside, restoring and merging lose none.               *)
NothingVanishes ==
  [][~under.overlap /\ ~(Shown \subseteq Shown') =>
       \E c \in Calls : call[c].pc \in {"delete", "wipe"} /\ call'[c].pc = "idle"]_vars

=============================================================================
