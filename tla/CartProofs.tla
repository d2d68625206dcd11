----------------------------- MODULE CartProofs ------------------------------
(***************************************************************************)
(* What holds of the carts for any number of variants, lines, guest carts  *)
(* and calls.                                                              *)
(***************************************************************************)
EXTENDS Cart, WellFoundedInduction, TLAPS

Ops == {"add", "update", "remove", "clear", "save", "restore", "merge"}

(* Only a merge closes a cart, and it is a guest's.                        *)
Closes(r) ==
  /\ r.pc = "close" => r.op = "merge"
  /\ r.op = "merge" => r.cart \in GuestCarts

CallRecords ==
  {r \in [pc : Labels, op : Ops, cart : Carts, variant : Variants, qty : Quantities,
          todo : SUBSET Copies, item : Copies, other : Copies] : Closes(r)}

Inv == TypeOK /\ \A c \in Calls : Closes(call[c])

(* A set of naturals has a least element.                                  *)
LEMMA LeastExists ==
  ASSUME NEW S, S \subseteq Nat, S # {}
  PROVE  \E x \in S : \A y \in S : x <= y
<1>1. PICK x \in S : \A y \in S : ~(<<y, x>> \in OpToRel(<, Nat))
  BY NatLessThanWellFounded, WFMin
<1>2. \A y \in S : ~(y < x)
  BY <1>1 DEF OpToRel
<1>3. \A y \in S : x <= y
  BY <1>2
<1>4. QED BY <1>3

(* The carts and lines the code's queries choose exist.                    *)
LEMMA ChosenExist ==
  ASSUME merged \subseteq GuestCarts
  PROVE  /\ merged # GuestCarts => GuestCart \in GuestCarts \ merged
         /\ OpenCarts \subseteq Carts
         /\ Unused # {} => NewLine \in Unused
<1>1. ASSUME merged # GuestCarts PROVE GuestCart \in GuestCarts \ merged
  <2>1. GuestCarts \ merged # {}
    BY <1>1, Zenon
  <2>2. GuestCarts \ merged \subseteq Nat
    BY CartConstants DEF GuestCarts
  <2>3. \E g \in GuestCarts \ merged : \A o \in GuestCarts \ merged : g <= o
    BY <2>1, <2>2, LeastExists
  <2>4. QED BY <2>3, Zenon DEF GuestCart
<1>2. OpenCarts \subseteq Carts
  BY <1>1 DEF OpenCarts, Carts
<1>3. ASSUME Unused # {} PROVE NewLine \in Unused
  <2>1. Unused \subseteq Nat
    BY CartConstants DEF Unused, LineIds
  <2>2. \E l \in Unused : \A n \in Unused : l <= n
    BY <1>3, <2>1, LeastExists
  <2>3. QED BY <2>2, Zenon DEF NewLine
<1>4. QED BY <1>1, <1>2, <1>3

-----------------------------------------------------------------------------
(* What the steps carry on, field by field.                                *)
LEMMA CarryTo ==
  ASSUME NEW r \in CallRecords, NEW pc
  PROVE  [r EXCEPT !.pc = pc] =
           [pc |-> pc, op |-> r.op, cart |-> r.cart, variant |-> r.variant, qty |-> r.qty,
            todo |-> r.todo, item |-> r.item, other |-> r.other]
  BY DEF CallRecords

LEMMA CarryItem ==
  ASSUME NEW r \in CallRecords, NEW pc, NEW item
  PROVE  [r EXCEPT !.pc = pc, !.item = item] =
           [pc |-> pc, op |-> r.op, cart |-> r.cart, variant |-> r.variant, qty |-> r.qty,
            todo |-> r.todo, item |-> item, other |-> r.other]
<1> DEFINE p == [r EXCEPT !.pc = pc]
<1>1. p = [pc |-> pc, op |-> r.op, cart |-> r.cart, variant |-> r.variant, qty |-> r.qty,
           todo |-> r.todo, item |-> r.item, other |-> r.other]
  BY DEF CallRecords
<1> HIDE DEF p
<1>2. [p EXCEPT !.item = item] =
        [pc |-> pc, op |-> r.op, cart |-> r.cart, variant |-> r.variant, qty |-> r.qty,
         todo |-> r.todo, item |-> item, other |-> r.other]
  BY <1>1
<1>3. QED BY <1>2 DEF p

LEMMA CarryItemQty ==
  ASSUME NEW r \in CallRecords, NEW pc, NEW item, NEW qty
  PROVE  [r EXCEPT !.pc = pc, !.item = item, !.qty = qty] =
           [pc |-> pc, op |-> r.op, cart |-> r.cart, variant |-> r.variant, qty |-> qty,
            todo |-> r.todo, item |-> item, other |-> r.other]
<1> DEFINE p == [r EXCEPT !.pc = pc, !.item = item]
<1>1. p = [pc |-> pc, op |-> r.op, cart |-> r.cart, variant |-> r.variant, qty |-> r.qty,
           todo |-> r.todo, item |-> item, other |-> r.other]
  BY CarryItem
<1> HIDE DEF p
<1>2. [p EXCEPT !.qty = qty] =
        [pc |-> pc, op |-> r.op, cart |-> r.cart, variant |-> r.variant, qty |-> qty,
         todo |-> r.todo, item |-> item, other |-> r.other]
  BY <1>1
<1>3. QED BY <1>2 DEF p

LEMMA CarryOther ==
  ASSUME NEW r \in CallRecords, NEW pc, NEW other, NEW qty
  PROVE  [r EXCEPT !.pc = pc, !.other = other, !.qty = qty] =
           [pc |-> pc, op |-> r.op, cart |-> r.cart, variant |-> r.variant, qty |-> qty,
            todo |-> r.todo, item |-> r.item, other |-> other]
<1> DEFINE p == [r EXCEPT !.pc = pc]
           o == [p EXCEPT !.other = other]
<1>1. p = [pc |-> pc, op |-> r.op, cart |-> r.cart, variant |-> r.variant, qty |-> r.qty,
           todo |-> r.todo, item |-> r.item, other |-> r.other]
  BY DEF CallRecords
<1> HIDE DEF p
<1>2. o = [pc |-> pc, op |-> r.op, cart |-> r.cart, variant |-> r.variant, qty |-> r.qty,
           todo |-> r.todo, item |-> r.item, other |-> other]
  BY <1>1
<1> HIDE DEF o
<1>3. [o EXCEPT !.qty = qty] =
        [pc |-> pc, op |-> r.op, cart |-> r.cart, variant |-> r.variant, qty |-> qty,
         todo |-> r.todo, item |-> r.item, other |-> other]
  BY <1>2
<1>4. QED BY <1>3 DEF p, o

LEMMA CarryTaken ==
  ASSUME NEW r \in CallRecords, NEW todo, NEW item
  PROVE  [r EXCEPT !.todo = todo, !.item = item] =
           [pc |-> r.pc, op |-> r.op, cart |-> r.cart, variant |-> r.variant, qty |-> r.qty,
            todo |-> todo, item |-> item, other |-> r.other]
<1> DEFINE t == [r EXCEPT !.todo = todo]
<1>1. t = [pc |-> r.pc, op |-> r.op, cart |-> r.cart, variant |-> r.variant, qty |-> r.qty,
           todo |-> todo, item |-> r.item, other |-> r.other]
  BY DEF CallRecords
<1> HIDE DEF t
<1>2. [t EXCEPT !.item = item] =
        [pc |-> r.pc, op |-> r.op, cart |-> r.cart, variant |-> r.variant, qty |-> r.qty,
         todo |-> todo, item |-> item, other |-> r.other]
  BY <1>1
<1>3. QED BY <1>2 DEF t

(* What rests, and what is written for no line, is well formed.            *)
LEMMA RestTyped ==
  /\ 1 \in Quantities /\ Customer \in Carts /\ SomeVariant \in Variants
  /\ NoLine \in Lines /\ NoCopy \in Copies /\ AtRest \in CallRecords
<1>1. 1 \in Quantities /\ Customer \in Carts /\ 1 \in LineIds
  BY CartConstants DEF Quantities, Carts, LineIds
<1>2. SomeVariant \in Variants
  BY CartConstants, Zenon DEF SomeVariant
<1>3. NoLine \in Lines /\ NoCopy \in Copies
  BY <1>1, <1>2 DEF NoLine, Lines, Locations, NoCopy, Copies
<1>4. AtRest \in CallRecords
  BY <1>1, <1>2, <1>3 DEF AtRest, CallRecords, Closes, Labels, Ops
<1>5. QED BY <1>1, <1>2, <1>3, <1>4

LEMMA Initially == Init => Inv
  BY RestTyped DEF Init, Inv, TypeOK, CallRecords, Closes, Ops

(* A copy of a line is well formed, and says what the line says.           *)
LEMMA CopyTyped ==
  ASSUME Inv, NEW l \in LineIds
  PROVE  /\ Copy(l) \in Copies
         /\ Copy(l).id = l /\ Copy(l).variant = line[l].variant
         /\ Copy(l).loc = line[l].loc /\ Copy(l).qty = line[l].qty
<1>1. line[l] \in Lines
  BY DEF Inv, TypeOK
<1>2. QED BY <1>1 DEF Copy, Copies, Lines

(* A line that is written: its place, its cart or its quantity.            *)
LEMMA WrittenTyped ==
  ASSUME NEW doc \in Lines, NEW q, NEW k, NEW loc
  PROVE  /\ [doc EXCEPT !.qty = q] = [cart |-> doc.cart, variant |-> doc.variant, loc |-> doc.loc,
                                      qty |-> q, live |-> doc.live]
         /\ [doc EXCEPT !.cart = k] = [cart |-> k, variant |-> doc.variant, loc |-> doc.loc,
                                       qty |-> doc.qty, live |-> doc.live]
         /\ [doc EXCEPT !.loc = loc] = [cart |-> doc.cart, variant |-> doc.variant, loc |-> loc,
                                        qty |-> doc.qty, live |-> doc.live]
  BY DEF Lines

-----------------------------------------------------------------------------
(* Each step keeps carts, lines and calls well formed; quantities are part *)
(* of that.                                                                *)
LEMMA BeginTyped ==
  ASSUME Inv, NEW c \in Calls,
         \/ BeginAdd(c) \/ BeginUpdate(c) \/ BeginRemove(c) \/ BeginClear(c) \/ BeginMerge(c)
         \/ \E op \in {"save", "restore"} : BeginMove(c, op)
  PROVE  Inv'
<1> USE RestTyped
<1>1. merged \subseteq GuestCarts /\ under \in Circumstances
  BY DEF Inv, TypeOK
<1>2. under.bag \subseteq Variants
  BY <1>1, CartConstants
<1>3. OpenCarts \subseteq Carts
  BY <1>1, ChosenExist
<1>4. SUFFICES \E r \in CallRecords : call' = [call EXCEPT ![c] = r] /\ UNCHANGED << under, line, merged >>
  BY DEF Inv, TypeOK, CallRecords, Closes, Ops
<1>5. CASE BeginAdd(c)
  <2>1. PICK k \in OpenCarts, v \in under.bag, q \in Quantities :
          call' = [call EXCEPT ![c] =
                    [AtRest EXCEPT !.pc = "find", !.cart = k, !.variant = v, !.qty = q]]
    BY <1>5 DEF BeginAdd, Suspend
  <2>2. [AtRest EXCEPT !.pc = "find", !.cart = k, !.variant = v, !.qty = q] \in CallRecords
    BY <1>2, <1>3 DEF AtRest, CallRecords, Closes, Labels, Ops
  <2>3. QED BY <1>5, <2>1, <2>2 DEF BeginAdd
<1>6. CASE BeginUpdate(c)
  <2>1. PICK k \in OpenCarts, q \in Quantities, l \in LineIds :
          call' = [call EXCEPT ![c] =
                    [AtRest EXCEPT !.pc = "write", !.op = "update", !.item = Copy(l), !.qty = q]]
    BY <1>6 DEF BeginUpdate, Suspend, LiveLines
  <2>2. Copy(l) \in Copies
    BY CopyTyped
  <2>3. [AtRest EXCEPT !.pc = "write", !.op = "update", !.item = Copy(l), !.qty = q] \in CallRecords
    BY <2>2 DEF AtRest, CallRecords, Closes, Labels, Ops
  <2>4. QED BY <1>6, <2>1, <2>3 DEF BeginUpdate
<1>7. CASE BeginRemove(c)
  <2>1. PICK k \in OpenCarts, l \in LineIds :
          call' = [call EXCEPT ![c] = [AtRest EXCEPT !.pc = "delete", !.op = "remove", !.item = Copy(l)]]
    BY <1>7 DEF BeginRemove, Suspend, LiveLines
  <2>2. Copy(l) \in Copies
    BY CopyTyped
  <2>3. [AtRest EXCEPT !.pc = "delete", !.op = "remove", !.item = Copy(l)] \in CallRecords
    BY <2>2 DEF AtRest, CallRecords, Closes, Labels, Ops
  <2>4. QED BY <1>7, <2>1, <2>3 DEF BeginRemove
<1>8. CASE BeginClear(c)
  <2>1. PICK k \in OpenCarts :
          call' = [call EXCEPT ![c] = [AtRest EXCEPT !.pc = "wipe", !.op = "clear", !.cart = k]]
    BY <1>8 DEF BeginClear, Suspend
  <2>2. [AtRest EXCEPT !.pc = "wipe", !.op = "clear", !.cart = k] \in CallRecords
    BY <1>3 DEF AtRest, CallRecords, Closes, Labels, Ops
  <2>3. QED BY <1>8, <2>1, <2>2 DEF BeginClear
<1>9. CASE BeginMerge(c)
  <2> DEFINE todo == {Copy(l) : l \in LinesToMerge(GuestCart)}
  <2>1. call' = [call EXCEPT ![c] =
                  [AtRest EXCEPT !.pc = "each", !.op = "merge", !.cart = GuestCart, !.todo = todo]]
    BY <1>9 DEF BeginMerge, Suspend
  <2>2. todo \in SUBSET Copies
    BY CopyTyped DEF LinesToMerge, LiveLines
  <2>3. GuestCart \in Carts /\ GuestCart \in GuestCarts
    BY <1>1, <1>9, ChosenExist DEF BeginMerge, Carts
  <2> HIDE DEF todo
  <2>4. [AtRest EXCEPT !.pc = "each", !.op = "merge", !.cart = GuestCart, !.todo = todo] \in CallRecords
    BY <2>2, <2>3 DEF AtRest, CallRecords, Closes, Labels, Ops
  <2>5. QED BY <1>9, <2>1, <2>4 DEF BeginMerge
<1>10. ASSUME NEW op \in {"save", "restore"}, BeginMove(c, op)
       PROVE  \E r \in CallRecords : call' = [call EXCEPT ![c] = r] /\ UNCHANGED << under, line, merged >>
  <2>1. PICK k \in OpenCarts, ids \in SUBSET LineIds :
          call' = [call EXCEPT ![c] = [AtRest EXCEPT !.pc = "each", !.op = op, !.cart = k,
                                                     !.todo = {Copy(l) : l \in ids}]]
    BY <1>10 DEF BeginMove, Suspend, LiveLines
  <2> DEFINE todo == {Copy(l) : l \in ids}
  <2>2. todo \in SUBSET Copies
    BY CopyTyped
  <2> HIDE DEF todo
  <2>3. [AtRest EXCEPT !.pc = "each", !.op = op, !.cart = k, !.todo = todo] \in CallRecords
    BY <1>3, <2>2 DEF AtRest, CallRecords, Closes, Labels, Ops
  <2>4. QED BY <1>10, <2>1, <2>3 DEF BeginMove, todo
<1>11. QED BY <1>5, <1>6, <1>7, <1>8, <1>9, <1>10

LEMMA LinesTyped ==
  ASSUME Inv, NEW c \in Calls,
         CreateLine(c) \/ WriteQuantity(c) \/ DeleteLine(c) \/ WipeLines(c)
  PROVE  Inv'
<1>1. line \in [LineIds -> Lines] /\ call \in [Calls -> CallRecords] /\ merged \subseteq GuestCarts
  BY DEF Inv, TypeOK, CallRecords, Closes, Ops
<1>2. Leave(c) /\ UNCHANGED << under, merged >>
  BY DEF CreateLine, WriteQuantity, DeleteLine, WipeLines
<1>3. call' \in [Calls -> CallRecords]
  BY <1>1, <1>2, RestTyped DEF Leave, Suspend
<1>4. call[c].item.id \in LineIds
  BY <1>1 DEF CallRecords, Closes, Copies
<1>5. SUFFICES line' \in [LineIds -> Lines]
  BY <1>1, <1>2, <1>3 DEF Inv, TypeOK, CallRecords, Closes, Ops
<1>6. CASE CreateLine(c)
  <2> DEFINE doc == [cart |-> call[c].cart, variant |-> call[c].variant, loc |-> "cart",
                     qty |-> call[c].qty, live |-> TRUE]
  <2>1. doc \in Lines
    BY <1>1 DEF CallRecords, Closes, Lines, Locations
  <2>2. line' = line \/ line' = [line EXCEPT ![NewLine] = doc]
    BY <1>6, Zenon DEF CreateLine
  <2> HIDE DEF doc
  <2>3. QED BY <1>1, <2>1, <2>2
<1>7. CASE WriteQuantity(c)
  <2> DEFINE doc == [line[call[c].item.id] EXCEPT !.qty = call[c].qty]
  <2>1. line' = line \/ line' = [line EXCEPT ![call[c].item.id] = doc]
    BY <1>7 DEF WriteQuantity, Save
  <2>2. doc \in Lines
    BY <1>1, <1>4, WrittenTyped DEF CallRecords, Closes, Lines
  <2> HIDE DEF doc
  <2>3. QED BY <1>1, <2>1, <2>2
<1>8. CASE DeleteLine(c)
  BY <1>1, <1>8, RestTyped DEF DeleteLine, Delete
<1>9. CASE WipeLines(c)
  BY <1>1, <1>9, RestTyped DEF WipeLines
<1>10. QED BY <1>6, <1>7, <1>8, <1>9

LEMMA FindTyped ==
  ASSUME Inv, NEW c \in Calls, FindLine(c)
  PROVE  Inv'
<1>1. line \in [LineIds -> Lines] /\ call \in [Calls -> CallRecords] /\ call[c] \in CallRecords
  BY DEF Inv, TypeOK, CallRecords, Closes, Ops
<1>2. SUFFICES \E r \in CallRecords : call' = [call EXCEPT ![c] = r]
  BY <1>1, ZenonT(40) DEF FindLine, Inv, TypeOK, CallRecords, Closes, Ops
<1>3. CASE Goto(c, "create")
  <2>1. [call[c] EXCEPT !.pc = "create"] \in CallRecords
    BY <1>1, CarryTo DEF CallRecords, Closes, Labels
  <2>2. QED BY <1>3, <2>1 DEF Goto, Suspend
<1>4. CASE Leave(c)
  BY <1>4, RestTyped DEF Leave, Suspend
<1>5. ASSUME NEW l \in LineIds, Fits(line[l].qty + call[c].qty),
             Suspend(c, [call[c] EXCEPT !.pc = "write", !.item = Copy(l),
                                        !.qty = line[l].qty + call[c].qty])
      PROVE  \E r \in CallRecords : call' = [call EXCEPT ![c] = r]
  <2> DEFINE q == line[l].qty + call[c].qty
  <2>1. q \in Quantities
    BY <1>1, <1>5, CartConstants DEF Lines, CallRecords, Closes, Quantities, Fits
  <2> HIDE DEF q
  <2>2. Copy(l) \in Copies
    BY CopyTyped
  <2>3. [call[c] EXCEPT !.pc = "write", !.item = Copy(l), !.qty = q] =
          [pc |-> "write", op |-> call[c].op, cart |-> call[c].cart, variant |-> call[c].variant,
           qty |-> q, todo |-> call[c].todo, item |-> Copy(l), other |-> call[c].other]
    BY <1>1, CarryItemQty, Zenon
  <2>4. [call[c] EXCEPT !.pc = "write", !.item = Copy(l), !.qty = q] \in CallRecords
    BY <1>1, <2>1, <2>2, <2>3 DEF CallRecords, Closes, Labels
  <2>5. QED BY <1>5, <2>4 DEF q, Suspend
<1>6. QED BY <1>3, <1>4, <1>5, Zenon DEF FindLine, At, LiveLines

LEMMA MovingTyped ==
  ASSUME Inv, NEW c \in Calls,
         TakeLine(c) \/ Combine(c) \/ DropLine(c) \/ MoveLine(c) \/ EndMove(c)
  PROVE  Inv'
<1>1. /\ line \in [LineIds -> Lines] /\ call \in [Calls -> CallRecords] /\ call[c] \in CallRecords
      /\ merged \subseteq GuestCarts /\ UNCHANGED << under, merged >>
  BY DEF Inv, TypeOK, CallRecords, Closes, Ops, TakeLine, Combine, DropLine, MoveLine, EndMove
<1>2. SUFFICES line' \in [LineIds -> Lines] /\ \E r \in CallRecords : call' = [call EXCEPT ![c] = r]
  BY <1>1 DEF Inv, TypeOK, CallRecords, Closes, Ops
<1>3. call[c].item \in Copies /\ call[c].item.id \in LineIds /\ call[c].other.id \in LineIds
  BY <1>1 DEF CallRecords, Closes, Copies
<1>4. Leave(c) => \E r \in CallRecords : call' = [call EXCEPT ![c] = r]
  BY RestTyped DEF Leave, Suspend
<1>5. BackToEach(c) => \E r \in CallRecords : call' = [call EXCEPT ![c] = r]
  <2>1. [call[c] EXCEPT !.pc = "each", !.item = NoCopy] =
          [pc |-> "each", op |-> call[c].op, cart |-> call[c].cart, variant |-> call[c].variant,
           qty |-> call[c].qty, todo |-> call[c].todo, item |-> NoCopy, other |-> call[c].other]
    BY <1>1, CarryItem, Zenon
  <2>2. [call[c] EXCEPT !.pc = "each", !.item = NoCopy] \in CallRecords
    BY <1>1, <2>1, RestTyped DEF CallRecords, Closes, Labels
  <2>3. QED BY <2>2 DEF BackToEach, Suspend
<1>6. CASE TakeLine(c)
  <2>1. PICK i \in call[c].todo :
          LET carried == [call[c] EXCEPT !.todo = @ \ {i}, !.item = i] IN
          \/ Suspend(c, [carried EXCEPT !.pc = "move"])
          \/ \E l \in LineIds : \E q \in Combined(c, i, line[l].qty) :
               Suspend(c, [carried EXCEPT !.pc = "combine", !.other = Copy(l), !.qty = q])
    BY <1>6 DEF TakeLine, Existing, At, LiveLines
  <2> DEFINE carried == [call[c] EXCEPT !.todo = call[c].todo \ {i}, !.item = i]
  <2>2. i \in Copies
    BY <1>1 DEF CallRecords, Closes
  <2>3. carried \in CallRecords
    <3>1. carried = [pc |-> call[c].pc, op |-> call[c].op, cart |-> call[c].cart,
                     variant |-> call[c].variant, qty |-> call[c].qty, todo |-> call[c].todo \ {i},
                     item |-> i, other |-> call[c].other]
      BY <1>1, CarryTaken, Zenon
    <3>2. QED BY <1>1, <2>2, <3>1 DEF CallRecords, Closes
  <2>4. line' = line
    BY <1>6 DEF TakeLine
  <2>5. \/ Suspend(c, [carried EXCEPT !.pc = "move"])
        \/ \E l \in LineIds : \E q \in Combined(c, i, line[l].qty) :
             Suspend(c, [carried EXCEPT !.pc = "combine", !.other = Copy(l), !.qty = q])
    BY <2>1
  <2> HIDE DEF carried
  <2>6. CASE Suspend(c, [carried EXCEPT !.pc = "move"])
    <3>1. [carried EXCEPT !.pc = "move"] \in CallRecords
      BY <2>3, CarryTo DEF CallRecords, Closes, Labels
    <3>2. QED BY <1>1, <2>4, <2>6, <3>1 DEF Suspend
  <2>7. ASSUME NEW l \in LineIds, NEW q \in Combined(c, i, line[l].qty),
               Suspend(c, [carried EXCEPT !.pc = "combine", !.other = Copy(l), !.qty = q])
        PROVE  \E r \in CallRecords : call' = [call EXCEPT ![c] = r]
    <3>1. q \in Quantities
      BY <1>1, <2>2 DEF Combined, Larger, Lines, Copies
    <3>2. [carried EXCEPT !.pc = "combine", !.other = Copy(l), !.qty = q] =
            [pc |-> "combine", op |-> carried.op, cart |-> carried.cart, variant |-> carried.variant,
             qty |-> q, todo |-> carried.todo, item |-> carried.item, other |-> Copy(l)]
      BY <2>3, CarryOther, Zenon
    <3>3. [carried EXCEPT !.pc = "combine", !.other = Copy(l), !.qty = q] \in CallRecords
      BY <2>3, <3>1, <3>2, CopyTyped DEF CallRecords, Closes, Labels
    <3>4. QED BY <2>7, <3>3 DEF Suspend
  <2>8. QED BY <1>1, <2>4, <2>5, <2>6, <2>7
<1>7. CASE Combine(c)
  <2> DEFINE doc == [line[call[c].other.id] EXCEPT !.qty = call[c].qty]
  <2>1. line' = line \/ line' = [line EXCEPT ![call[c].other.id] = doc]
    BY <1>7 DEF Combine, Save
  <2>2. doc \in Lines
    BY <1>1, <1>3, WrittenTyped DEF CallRecords, Closes, Lines
  <2> HIDE DEF doc
  <2>3. [call[c] EXCEPT !.pc = "drop", !.other = NoCopy, !.qty = 1] =
          [pc |-> "drop", op |-> call[c].op, cart |-> call[c].cart, variant |-> call[c].variant,
           qty |-> 1, todo |-> call[c].todo, item |-> call[c].item, other |-> NoCopy]
    BY <1>1, CarryOther, Zenon
  <2>4. [call[c] EXCEPT !.pc = "drop", !.other = NoCopy, !.qty = 1] \in CallRecords
    BY <1>1, <2>3, RestTyped DEF CallRecords, Closes, Labels
  <2>5. QED BY <1>1, <1>7, <2>1, <2>2, <2>4 DEF Combine, Suspend
<1>8. CASE DropLine(c)
  BY <1>1, <1>5, <1>8, RestTyped DEF DropLine, Delete
<1>9. CASE MoveLine(c)
  <2>1. line' = line \/ line' = [line EXCEPT ![call[c].item.id] = Moved(c)]
    BY <1>9 DEF MoveLine, Save
  <2>2. Moved(c) \in Lines
    <3>1. TargetLoc(c, call[c].item) \in Locations
      BY <1>3 DEF TargetLoc, Copies, Locations
    <3>2. line[call[c].item.id] \in Lines
      BY <1>1, <1>3
    <3> DEFINE doc == line[call[c].item.id]
    <3>3. [doc EXCEPT !.cart = Customer] \in Lines
      BY <3>2, WrittenTyped, RestTyped DEF Lines
    <3>4. [doc EXCEPT !.loc = TargetLoc(c, call[c].item)] \in Lines
      BY <3>1, <3>2, WrittenTyped DEF Lines
    <3>5. QED BY <3>3, <3>4 DEF Moved
  <2>3. BackToEach(c) \/ Leave(c)
    BY <1>9 DEF MoveLine
  <2>4. QED BY <1>1, <1>4, <1>5, <2>1, <2>2, <2>3
<1>10. CASE EndMove(c)
  <2>1. ASSUME call[c].op = "merge" PROVE [call[c] EXCEPT !.pc = "close"] \in CallRecords
    BY <1>1, <2>1, CarryTo DEF CallRecords, Closes, Labels
  <2>2. line' = line /\ ((call[c].op = "merge" /\ Goto(c, "close")) \/ Leave(c))
    BY <1>10 DEF EndMove
  <2>3. QED BY <1>1, <1>4, <2>1, <2>2 DEF Goto, Suspend
<1>11. QED BY <1>6, <1>7, <1>8, <1>9, <1>10

LEMMA EndingTyped ==
  ASSUME Inv, NEW c \in Calls, CloseCart(c) \/ BreakOff(c)
  PROVE  Inv'
<1>1. call[c] \in CallRecords
  BY DEF Inv, TypeOK, CallRecords, Ops
<1>2. merged' \subseteq GuestCarts
  BY <1>1 DEF Inv, TypeOK, CallRecords, Closes, CloseCart, BreakOff
<1>3. Leave(c) /\ UNCHANGED << under, line >>
  BY DEF CloseCart, BreakOff
<1>4. QED
  BY <1>2, <1>3, RestTyped DEF Leave, Suspend, Inv, TypeOK, CallRecords, Closes, Ops

LEMMA NextTyped == Inv /\ [Next]_vars => Inv'
<1> SUFFICES ASSUME Inv, [Next]_vars PROVE Inv'
  OBVIOUS
<1>1. CASE UNCHANGED vars
  BY <1>1 DEF vars, Inv, TypeOK, Closes
<1>2. ASSUME NEW c \in Calls, Step(c) PROVE Inv'
  BY <1>2, BeginTyped, FindTyped, LinesTyped, MovingTyped, EndingTyped DEF Step
<1>3. QED BY <1>1, <1>2 DEF Next

LEMMA InvAlways == Spec => []Inv
<1>1. QED BY Initially, NextTyped, PTL DEF Spec

(* Carts, lines and what calls carry stay well formed; in particular a     *)
(* cart that is marked merged is a guest's.                                *)
THEOREM TypeCorrect == Spec => []TypeOK
<1>1. Inv => TypeOK
  BY DEF Inv
<1>2. QED BY <1>1, InvAlways, PTL

(* No interleaving of adding to, combining, setting aside and merging      *)
(* lines makes one that is for more units than the limit: a quantity that  *)
(* was checked against an older line is written as it was checked.         *)
THEOREM QuantityAlwaysWithin == Spec => []QuantityWithinLimit
<1>1. Inv => QuantityWithinLimit
  BY DEF Inv, TypeOK, QuantityWithinLimit, Lines
<1>2. QED BY <1>1, InvAlways, PTL

-----------------------------------------------------------------------------
(* Calls that come one after the other.  The lines a call has yet to go    *)
(* through are still where it found them; a line it is about to drop has   *)
(* another for the same variant in a cart in use; and a merge goes through *)
(* every line of the cart it is going to close.                            *)
Moving == {"each", "combine", "drop", "move", "close"}
WithItem == {"combine", "drop", "move"}

InHand(r, i, docs) ==
  /\ docs[i.id].live /\ docs[i.id].variant = i.variant /\ docs[i.id].cart = r.cart
  /\ r.op = "save" => docs[i.id].loc = "cart"
  /\ r.op = "restore" => docs[i.id].loc = "saved"

Replaces(n, i, docs, closed) ==
  docs[n].live /\ docs[n].variant = i.variant /\ docs[n].cart \notin closed /\ n # i.id

OnTheMove(r, docs, closed) ==
  r.pc \in Moving =>
    /\ r.op \in {"save", "restore", "merge"}
    /\ r.cart \notin closed
    /\ \A i \in r.todo : InHand(r, i, docs)
    /\ \A i, j \in r.todo : i.id = j.id => i = j
    /\ r.pc \in WithItem => InHand(r, r.item, docs) /\ \A i \in r.todo : i.id # r.item.id
    /\ r.pc = "combine" => Replaces(r.other.id, r.item, docs, closed)
    /\ r.pc = "drop" => \E n \in LineIds : Replaces(n, r.item, docs, closed)
    /\ r.op = "merge" =>
         \A n \in LineIds : docs[n].live /\ docs[n].cart = r.cart =>
           (\E i \in r.todo : i.id = n) \/ (r.pc \in WithItem /\ n = r.item.id)
    /\ r.pc = "close" => r.todo = {}

OneAtATime == \A c, d \in Calls : call[c].pc # "idle" /\ call[d].pc # "idle" => c = d

TurnInv == ~under.overlap => OneAtATime /\ \A c \in Calls : OnTheMove(call[c], line, merged)

LEMMA RestMoves == AtRest.pc = "idle" /\ OnTheMove(AtRest, line, merged) /\ OnTheMove(AtRest, line', merged')
  BY DEF AtRest, OnTheMove, Moving

(* A step of one call, the others being at rest.                           *)
LEMMA TurnPasses ==
  ASSUME Inv, TurnInv, ~under.overlap, NEW c \in Calls, call[c].pc # "idle" \/ Quiet,
         NEW r, call' = [call EXCEPT ![c] = r], UNCHANGED under,
         OnTheMove(r, line', merged')
  PROVE  TurnInv'
<1>1. call \in [Calls -> CallRecords]
  BY DEF Inv, TypeOK, CallRecords, Ops
<1>2. \A d \in Calls : d # c => call[d].pc = "idle" /\ call'[d] = call[d]
  BY <1>1 DEF TurnInv, OneAtATime, Quiet
<1>3. call'[c] = r
  BY <1>1
<1>4. OneAtATime'
  BY <1>2 DEF OneAtATime
<1>5. ASSUME NEW d \in Calls PROVE OnTheMove(call'[d], line', merged')
  <2>1. CASE d = c
    BY <1>3, <2>1
  <2>2. CASE d # c
    BY <1>2, <2>2 DEF OnTheMove, Moving
  <2>3. QED BY <2>1, <2>2
<1>6. QED BY <1>4, <1>5 DEF TurnInv

(* The customer keeps every variant that some line in a cart in use still  *)
(* stands for.                                                             *)
LEMMA ShownStays ==
  ASSUME \A l \in LineIds : line[l].live /\ line[l].cart \notin merged =>
           \E n \in LineIds :
             line'[n].live /\ line'[n].variant = line[l].variant /\ line'[n].cart \notin merged'
  PROVE  Shown \subseteq Shown'
<1> SUFFICES ASSUME NEW v \in Shown PROVE v \in Shown'
  OBVIOUS
<1>1. PICK l \in LineIds : line[l].live /\ line[l].cart \notin merged /\ line[l].variant = v
  BY DEF Shown
<1>2. PICK n \in LineIds : line'[n].live /\ line'[n].variant = v /\ line'[n].cart \notin merged'
  BY <1>1
<1>3. QED BY <1>2 DEF Shown

LEMMA InUse == Inv => Customer \notin merged /\ OpenCarts \cap merged = {}
<1> SUFFICES ASSUME Inv PROVE Customer \notin merged /\ OpenCarts \cap merged = {}
  OBVIOUS
<1>1. merged \subseteq GuestCarts
  BY DEF Inv, TypeOK
<1>2. Customer \notin GuestCarts
  BY CartConstants DEF Customer, GuestCarts
<1>3. QED BY <1>1, <1>2, ChosenExist DEF OpenCarts

(* What a call finds when it begins.                                       *)
LEMMA MoveBegins ==
  ASSUME Inv, TurnInv, ~under.overlap, NEW c \in Calls,
         \/ BeginAdd(c) \/ BeginUpdate(c) \/ BeginRemove(c) \/ BeginClear(c) \/ BeginMerge(c)
         \/ \E op \in {"save", "restore"} : BeginMove(c, op)
  PROVE  TurnInv' /\ Shown' = Shown
<1>1. UNCHANGED << under, line, merged >> /\ Quiet
  BY DEF BeginAdd, BeginUpdate, BeginRemove, BeginClear, BeginMerge, BeginMove, MayBegin
<1>2. Shown' = Shown
  BY <1>1 DEF Shown
<1>3. SUFFICES \E r : call' = [call EXCEPT ![c] = r] /\ OnTheMove(r, line, merged)
  <2>1. PICK r : call' = [call EXCEPT ![c] = r] /\ OnTheMove(r, line, merged)
    BY <1>3
  <2>2. OnTheMove(r, line', merged')
    BY <1>1, <2>1
  <2>3. QED BY <1>1, <1>2, <2>1, <2>2, TurnPasses
<1> DEFINE Begun(op, k, ids) ==
      [AtRest EXCEPT !.pc = "each", !.op = op, !.cart = k, !.todo = {Copy(l) : l \in ids}]
<1>4. ASSUME NEW op \in {"save", "restore", "merge"}, NEW k \in OpenCarts, NEW ids \in SUBSET LiveLines(k),
             op = "save" => \A l \in ids : line[l].loc = "cart",
             op = "restore" => \A l \in ids : line[l].loc = "saved",
             op = "merge" => ids = LiveLines(k)
      PROVE  OnTheMove(Begun(op, k, ids), line, merged)
  <2> DEFINE todo == {Copy(l) : l \in ids}
             r == Begun(op, k, ids)
  <2>1. \A i \in todo : \E l \in ids : i = Copy(l) /\ i.id = l /\ i.variant = line[l].variant
    BY CopyTyped DEF LiveLines
  <2>2. \A l \in ids : \E i \in todo : i.id = l
    BY CopyTyped DEF LiveLines
  <2> HIDE DEF todo
  <2>3. r.pc = "each" /\ r.op = op /\ r.cart = k /\ r.todo = todo
    BY DEF AtRest, todo
  <2> HIDE DEF r, Begun
  <2>4. k \notin merged
    BY InUse
  <2>5. \A i \in todo : InHand(r, i, line)
    BY <1>4, <2>1, <2>3 DEF InHand, LiveLines
  <2>6. \A i, j \in todo : i.id = j.id => i = j
    BY <2>1
  <2>7. op = "merge" => \A n \in LineIds : line[n].live /\ line[n].cart = k => \E i \in todo : i.id = n
    BY <1>4, <2>2 DEF LiveLines
  <2>8. OnTheMove(r, line, merged)
    BY <2>3, <2>4, <2>5, <2>6, <2>7 DEF OnTheMove, WithItem
  <2>9. QED BY <2>8 DEF r
<1>5. ASSUME NEW r, Suspend(c, r), r.pc \notin Moving
      PROVE  \E q : call' = [call EXCEPT ![c] = q] /\ OnTheMove(q, line, merged)
  BY <1>5 DEF Suspend, OnTheMove
<1>6. CASE BeginAdd(c)
  <2>1. PICK k \in OpenCarts, v \in under.bag, q \in Quantities :
          Suspend(c, [AtRest EXCEPT !.pc = "find", !.cart = k, !.variant = v, !.qty = q])
    BY <1>6 DEF BeginAdd
  <2>2. [AtRest EXCEPT !.pc = "find", !.cart = k, !.variant = v, !.qty = q].pc = "find"
    BY DEF AtRest
  <2>3. QED BY <1>5, <2>1, <2>2 DEF Moving
<1>7. CASE BeginUpdate(c) \/ BeginRemove(c)
  <2>1. PICK pc \in {"write", "delete"} : \E op, item, q :
          \/ Suspend(c, [AtRest EXCEPT !.pc = pc, !.op = op, !.item = item, !.qty = q])
          \/ Suspend(c, [AtRest EXCEPT !.pc = pc, !.op = op, !.item = item])
    BY <1>7 DEF BeginUpdate, BeginRemove
  <2>2. PICK op, item, q :
          \/ Suspend(c, [AtRest EXCEPT !.pc = pc, !.op = op, !.item = item, !.qty = q])
          \/ Suspend(c, [AtRest EXCEPT !.pc = pc, !.op = op, !.item = item])
    BY <2>1
  <2>3. /\ [AtRest EXCEPT !.pc = pc, !.op = op, !.item = item, !.qty = q].pc = pc
        /\ [AtRest EXCEPT !.pc = pc, !.op = op, !.item = item].pc = pc
    BY DEF AtRest
  <2>4. QED BY <1>5, <2>2, <2>3 DEF Moving
<1>8. CASE BeginClear(c)
  <2>1. PICK k \in OpenCarts : Suspend(c, [AtRest EXCEPT !.pc = "wipe", !.op = "clear", !.cart = k])
    BY <1>8 DEF BeginClear
  <2>2. [AtRest EXCEPT !.pc = "wipe", !.op = "clear", !.cart = k].pc = "wipe"
    BY DEF AtRest
  <2>3. QED BY <1>5, <2>1, <2>2 DEF Moving
<1>9. CASE BeginMerge(c)
  <2>1. call' = [call EXCEPT ![c] = Begun("merge", GuestCart, LiveLines(GuestCart))] /\ merged # GuestCarts
    BY <1>9 DEF BeginMerge, Suspend, LinesToMerge
  <2>2. GuestCart \in OpenCarts
    BY <2>1 DEF OpenCarts
  <2> HIDE DEF Begun
  <2>3. QED BY <1>4, <2>1, <2>2
<1>10. ASSUME NEW op \in {"save", "restore"}, BeginMove(c, op)
       PROVE  \E r : call' = [call EXCEPT ![c] = r] /\ OnTheMove(r, line, merged)
  <2>1. PICK k \in OpenCarts : \E ids \in SUBSET LiveLines(k) :
          /\ \A l \in ids : line[l].loc = IF op = "save" THEN "cart" ELSE "saved"
          /\ call' = [call EXCEPT ![c] = Begun(op, k, ids)]
    BY <1>10 DEF BeginMove, Suspend
  <2> HIDE DEF Begun
  <2>2. PICK ids \in SUBSET LiveLines(k) :
          /\ \A l \in ids : line[l].loc = IF op = "save" THEN "cart" ELSE "saved"
          /\ call' = [call EXCEPT ![c] = Begun(op, k, ids)]
    BY <2>1
  <2>3. OnTheMove(Begun(op, k, ids), line, merged)
    BY <1>4, <2>2
  <2>4. QED BY <2>2, <2>3
<1>11. QED BY <1>6, <1>7, <1>8, <1>9, <1>10

(* Adding to a line or giving it another quantity takes no variant away.   *)
LEMMA LinesStay ==
  ASSUME Inv, TurnInv, ~under.overlap, NEW c \in Calls,
         FindLine(c) \/ CreateLine(c) \/ WriteQuantity(c)
  PROVE  TurnInv' /\ Shown \subseteq Shown'
<1>1. line \in [LineIds -> Lines] /\ call[c] \in CallRecords /\ UNCHANGED << under, merged >>
  BY DEF Inv, TypeOK, CallRecords, Ops, FindLine, CreateLine, WriteQuantity
<1>2. call[c].pc # "idle"
  BY DEF FindLine, CreateLine, WriteQuantity
<1>3. \E r : call' = [call EXCEPT ![c] = r] /\ r.pc \notin Moving
  <2>1. CASE FindLine(c)
    <3>1. CASE Leave(c)
      BY <3>1, RestMoves DEF Leave, Suspend, Moving
    <3>2. CASE Goto(c, "create")
      <4>1. [call[c] EXCEPT !.pc = "create"].pc = "create"
        BY <1>1, CarryTo
      <4>2. QED BY <3>2, <4>1 DEF Goto, Suspend, Moving
    <3>3. ASSUME NEW l, NEW q, Suspend(c, [call[c] EXCEPT !.pc = "write", !.item = Copy(l), !.qty = q])
          PROVE  \E r : call' = [call EXCEPT ![c] = r] /\ r.pc \notin Moving
      <4>1. [call[c] EXCEPT !.pc = "write", !.item = Copy(l), !.qty = q].pc = "write"
        BY <1>1, CarryItemQty
      <4>2. QED BY <3>3, <4>1 DEF Suspend, Moving
    <3>4. QED BY <2>1, <3>1, <3>2, <3>3, Zenon DEF FindLine
  <2>2. CASE CreateLine(c) \/ WriteQuantity(c)
    BY <2>2, RestMoves DEF CreateLine, WriteQuantity, Leave, Suspend, Moving
  <2>3. QED BY <2>1, <2>2
<1>4. TurnInv'
  BY <1>1, <1>2, <1>3, TurnPasses DEF OnTheMove
<1>5. \A l \in LineIds : line[l].live =>
        line'[l].live /\ line'[l].variant = line[l].variant /\ line'[l].cart = line[l].cart
  <2>1. CASE FindLine(c)
    BY <2>1 DEF FindLine
  <2>2. CASE CreateLine(c)
    <3>1. CASE Unused # {}
      <4>1. ~line[NewLine].live
        BY <3>1, ChosenExist DEF Inv, TypeOK, Unused
      <4>2. \A l \in LineIds : line[l].live => line'[l] = line[l]
        BY <1>1, <2>2, <4>1 DEF CreateLine
      <4>3. QED BY <4>2
    <3>2. CASE Unused = {}
      BY <2>2, <3>2 DEF CreateLine
    <3>3. QED BY <3>1, <3>2
  <2>3. CASE WriteQuantity(c)
    <3> DEFINE doc == [line[call[c].item.id] EXCEPT !.qty = call[c].qty]
    <3>1. line' = line \/ line' = [line EXCEPT ![call[c].item.id] = doc]
      BY <2>3 DEF WriteQuantity, Save
    <3>2. line[call[c].item.id] \in Lines
      BY <1>1 DEF CallRecords, Copies
    <3>3. doc.live = line[call[c].item.id].live /\ doc.variant = line[call[c].item.id].variant
          /\ doc.cart = line[call[c].item.id].cart
      BY <3>2 DEF Lines
    <3> HIDE DEF doc
    <3>4. QED BY <1>1, <3>1, <3>3
  <2>4. QED BY <2>1, <2>2, <2>3
<1>6. Shown \subseteq Shown'
  BY <1>1, <1>5, ShownStays
<1>7. QED BY <1>4, <1>6

(* Removing a line and clearing a cart are the customer's own doing; they  *)
(* leave nothing under way.                                                *)
LEMMA RemovalEnds ==
  ASSUME Inv, TurnInv, ~under.overlap, NEW c \in Calls, DeleteLine(c) \/ WipeLines(c)
  PROVE  TurnInv' /\ call[c].pc \in {"delete", "wipe"} /\ call'[c].pc = "idle"
<1>1. call \in [Calls -> CallRecords]
  BY DEF Inv, TypeOK, CallRecords, Ops
<1>2. call[c].pc \in {"delete", "wipe"} /\ call' = [call EXCEPT ![c] = AtRest] /\ UNCHANGED under
  BY DEF DeleteLine, WipeLines, Leave, Suspend
<1>3. QED BY <1>1, <1>2, RestMoves, TurnPasses

(* Taking up a line leaves it where it is.                                 *)
LEMMA TakingMoves ==
  ASSUME Inv, TurnInv, ~under.overlap, NEW c \in Calls, TakeLine(c)
  PROVE  TurnInv' /\ Shown' = Shown
<1>1. /\ UNCHANGED << under, line, merged >> /\ call[c].pc = "each" /\ call[c] \in CallRecords
      /\ merged \subseteq GuestCarts
  BY DEF TakeLine, Inv, TypeOK, CallRecords, Ops
<1>2. OnTheMove(call[c], line, merged)
  BY DEF TurnInv
<1>3. SUFFICES \E r : call' = [call EXCEPT ![c] = r] /\ OnTheMove(r, line, merged)
  <2>1. PICK r : call' = [call EXCEPT ![c] = r] /\ OnTheMove(r, line, merged)
    BY <1>3
  <2>2. OnTheMove(r, line', merged')
    BY <1>1, <2>1
  <2>3. QED BY <1>1, <2>1, <2>2, TurnPasses DEF Shown
<1>4. PICK i \in call[c].todo :
        LET carried == [call[c] EXCEPT !.todo = call[c].todo \ {i}, !.item = i] IN
        \/ Suspend(c, [carried EXCEPT !.pc = "move"])
        \/ \E l \in Existing(c, i) : \E q \in Combined(c, i, line[l].qty) :
             Suspend(c, [carried EXCEPT !.pc = "combine", !.other = Copy(l), !.qty = q])
  BY DEF TakeLine
<1> DEFINE carried == [call[c] EXCEPT !.todo = call[c].todo \ {i}, !.item = i]
           rest == call[c].todo \ {i}
<1>5. carried = [pc |-> call[c].pc, op |-> call[c].op, cart |-> call[c].cart,
                 variant |-> call[c].variant, qty |-> call[c].qty, todo |-> rest,
                 item |-> i, other |-> call[c].other]
  BY <1>1, CarryTaken, Zenon
<1>6. carried \in CallRecords
  BY <1>1, <1>5 DEF CallRecords, Closes
<1>7. \/ Suspend(c, [carried EXCEPT !.pc = "move"])
      \/ \E l \in Existing(c, i) : \E q \in Combined(c, i, line[l].qty) :
           Suspend(c, [carried EXCEPT !.pc = "combine", !.other = Copy(l), !.qty = q])
  BY <1>4
<1> HIDE DEF carried, rest
<1>8. ASSUME NEW r, r.pc \in {"move", "combine"}, r.op = call[c].op, r.cart = call[c].cart,
             r.todo = rest, r.item = i,
             r.pc = "combine" => Replaces(r.other.id, i, line, merged)
      PROVE  OnTheMove(r, line, merged)
  <2>1. \A j \in rest : j \in call[c].todo /\ j.id # i.id /\ InHand(call[c], j, line)
    BY <1>1, <1>2 DEF OnTheMove, Moving, rest
  <2>2. InHand(call[c], i, line)
    BY <1>1, <1>2 DEF OnTheMove, Moving
  <2>3. (\A j \in rest : InHand(r, j, line)) /\ InHand(r, i, line)
    BY <1>8, <2>1, <2>2 DEF InHand
  <2>4. r.op = "merge" =>
          \A n \in LineIds : line[n].live /\ line[n].cart = r.cart => (\E j \in rest : j.id = n) \/ n = i.id
    BY <1>1, <1>2, <1>8 DEF OnTheMove, Moving, WithItem, rest
  <2>5. /\ r.op \in {"save", "restore", "merge"} /\ r.cart \notin merged
        /\ \A j, k \in rest : j.id = k.id => j = k
    BY <1>1, <1>2, <1>8 DEF OnTheMove, Moving, rest
  <2>6. QED BY <1>8, <2>1, <2>3, <2>4, <2>5 DEF OnTheMove, WithItem
<1>9. CASE Suspend(c, [carried EXCEPT !.pc = "move"])
  <2> DEFINE r == [carried EXCEPT !.pc = "move"]
  <2>1. r.pc = "move" /\ r.op = call[c].op /\ r.cart = call[c].cart /\ r.todo = rest /\ r.item = i
    BY <1>5, <1>6, CarryTo
  <2>2. call' = [call EXCEPT ![c] = r]
    BY <1>9 DEF Suspend
  <2> HIDE DEF r
  <2>3. OnTheMove(r, line, merged)
    BY <1>8, <2>1
  <2>4. QED BY <2>2, <2>3
<1>10. ASSUME NEW l \in Existing(c, i), NEW q,
              Suspend(c, [carried EXCEPT !.pc = "combine", !.other = Copy(l), !.qty = q])
       PROVE  \E r : call' = [call EXCEPT ![c] = r] /\ OnTheMove(r, line, merged)
  <2> DEFINE r == [carried EXCEPT !.pc = "combine", !.other = Copy(l), !.qty = q]
  <2>1. r = [pc |-> "combine", op |-> call[c].op, cart |-> call[c].cart, variant |-> call[c].variant,
             qty |-> q, todo |-> rest, item |-> i, other |-> Copy(l)]
    <3>1. r = [pc |-> "combine", op |-> carried.op, cart |-> carried.cart, variant |-> carried.variant,
               qty |-> q, todo |-> carried.todo, item |-> carried.item, other |-> Copy(l)]
      BY <1>6, CarryOther, Zenon
    <3>2. QED BY <1>5, <3>1
  <2>2. call' = [call EXCEPT ![c] = r]
    BY <1>10 DEF Suspend
  <2> HIDE DEF r
  <2>3. l \in LineIds /\ line[l].live /\ line[l].variant = i.variant
        /\ line[l].cart = TargetCart(c) /\ line[l].loc = TargetLoc(c, i)
    BY <1>10 DEF Existing, At, LiveLines
  <2>4. Copy(l).id = l
    BY <2>3, CopyTyped
  <2>5. InHand(call[c], i, line) /\ call[c].cart \notin merged /\ call[c].op \in {"save", "restore", "merge"}
    BY <1>1, <1>2 DEF OnTheMove, Moving
  <2>6. line[l].cart \notin merged
    BY <2>3, <2>5, InUse DEF TargetCart
  <2>7. l # i.id
    <3>1. CASE call[c].op = "merge"
      <4>1. call[c].cart # Customer
        BY <1>1, <3>1, CartConstants DEF CallRecords, Closes, GuestCarts, Customer
      <4>2. QED BY <2>3, <2>5, <3>1, <4>1 DEF InHand, TargetCart
    <3>2. CASE call[c].op # "merge"
      BY <2>3, <2>5, <3>2 DEF InHand, TargetLoc
    <3>3. QED BY <3>1, <3>2
  <2>8. Replaces(r.other.id, i, line, merged)
    BY <2>1, <2>3, <2>4, <2>6, <2>7 DEF Replaces
  <2>9. /\ r.pc = "combine" /\ r.op = call[c].op /\ r.cart = call[c].cart /\ r.todo = rest
        /\ r.item = i
    BY <2>1
  <2>10. OnTheMove(r, line, merged)
    BY <1>8, <2>8, <2>9
  <2>11. QED BY <2>2, <2>10
<1>11. QED BY <1>7, <1>9, <1>10

(* A line that is combined, dropped or moved keeps its variant shown.      *)
LEMMA CombineMoves ==
  ASSUME Inv, TurnInv, ~under.overlap, NEW c \in Calls, Combine(c)
  PROVE  TurnInv' /\ Shown \subseteq Shown'
<1>1. /\ UNCHANGED << under, merged >> /\ call[c].pc = "combine" /\ call[c] \in CallRecords
      /\ line \in [LineIds -> Lines]
  BY DEF Combine, Inv, TypeOK, CallRecords, Ops
<1>2. OnTheMove(call[c], line, merged)
  BY DEF TurnInv
<1> DEFINE o   == call[c].other.id
           doc == [line[o] EXCEPT !.qty = call[c].qty]
           r   == [call[c] EXCEPT !.pc = "drop", !.other = NoCopy, !.qty = 1]
<1>3. o \in LineIds
  BY <1>1 DEF CallRecords, Copies
<1>4. line' = line \/ line' = [line EXCEPT ![o] = doc]
  BY DEF Combine, Save
<1>5. /\ doc.live = line[o].live /\ doc.variant = line[o].variant
      /\ doc.cart = line[o].cart /\ doc.loc = line[o].loc
  BY <1>1, <1>3 DEF Lines
<1> HIDE DEF doc
<1>6. \A l \in LineIds : /\ line'[l].live = line[l].live /\ line'[l].variant = line[l].variant
                         /\ line'[l].cart = line[l].cart /\ line'[l].loc = line[l].loc
  BY <1>1, <1>4, <1>5
<1>7. Shown \subseteq Shown'
  BY <1>1, <1>6, ShownStays
<1>8. r = [pc |-> "drop", op |-> call[c].op, cart |-> call[c].cart, variant |-> call[c].variant,
           qty |-> 1, todo |-> call[c].todo, item |-> call[c].item, other |-> NoCopy]
  BY <1>1, CarryOther, ZenonT(40)
<1>9. call' = [call EXCEPT ![c] = r]
  BY DEF Combine, Suspend
<1> HIDE DEF r
<1>10. /\ \A i \in call[c].todo : i.id \in LineIds
       /\ call[c].item.id \in LineIds
  BY <1>1 DEF CallRecords, Copies
<1>11. (\A i \in call[c].todo : InHand(r, i, line')) /\ InHand(r, call[c].item, line')
  BY <1>1, <1>2, <1>6, <1>8, <1>10 DEF OnTheMove, Moving, WithItem, InHand
<1>12. Replaces(o, call[c].item, line', merged')
  BY <1>1, <1>2, <1>3, <1>6 DEF OnTheMove, Moving, Replaces
<1>13. r.op = "merge" =>
         \A n \in LineIds : line'[n].live /\ line'[n].cart = r.cart =>
           (\E i \in r.todo : i.id = n) \/ n = r.item.id
  BY <1>1, <1>2, <1>6, <1>8 DEF OnTheMove, Moving, WithItem
<1>14. /\ r.op \in {"save", "restore", "merge"} /\ r.cart \notin merged'
       /\ \A i, j \in r.todo : i.id = j.id => i = j
       /\ \A i \in r.todo : i.id # r.item.id
  BY <1>1, <1>2, <1>8 DEF OnTheMove, Moving, WithItem
<1>15. OnTheMove(r, line', merged')
  BY <1>3, <1>8, <1>11, <1>12, <1>13, <1>14 DEF OnTheMove, WithItem
<1>16. QED BY <1>1, <1>7, <1>9, <1>15, TurnPasses

(* Back to the next line: what is still in hand has not been touched.      *)
LEMMA BackMoves ==
  ASSUME Inv, TurnInv, NEW c \in Calls, ~under.overlap, call[c].pc \in {"drop", "move"},
         UNCHANGED << under, merged >>, BackToEach(c),
         \A l \in LineIds : l # call[c].item.id => line'[l] = line[l],
         line'[call[c].item.id].live => line'[call[c].item.id].cart # call[c].cart \/ call[c].op # "merge"
  PROVE  TurnInv'
<1>1. call[c] \in CallRecords /\ call[c].pc \in Moving /\ call[c].pc \in WithItem
  BY DEF Inv, TypeOK, CallRecords, Ops, Moving, WithItem
<1>2. OnTheMove(call[c], line, merged)
  BY DEF TurnInv
<1> DEFINE r == [call[c] EXCEPT !.pc = "each", !.item = NoCopy]
<1>3. r = [pc |-> "each", op |-> call[c].op, cart |-> call[c].cart, variant |-> call[c].variant,
           qty |-> call[c].qty, todo |-> call[c].todo, item |-> NoCopy, other |-> call[c].other]
  BY <1>1, CarryItem, Zenon
<1>4. call' = [call EXCEPT ![c] = r]
  BY DEF BackToEach, Suspend
<1> HIDE DEF r
<1>5. \A i \in call[c].todo : i.id \in LineIds /\ i.id # call[c].item.id /\ InHand(call[c], i, line)
  BY <1>1, <1>2 DEF CallRecords, Copies, OnTheMove
<1>6. \A i \in r.todo : InHand(r, i, line')
  BY <1>3, <1>5 DEF InHand
<1>7. r.op = "merge" =>
        \A n \in LineIds : line'[n].live /\ line'[n].cart = r.cart => \E i \in r.todo : i.id = n
  BY <1>1, <1>2, <1>3 DEF OnTheMove
<1>8. /\ r.op \in {"save", "restore", "merge"} /\ r.cart \notin merged'
      /\ \A i, j \in r.todo : i.id = j.id => i = j
  BY <1>1, <1>2, <1>3 DEF OnTheMove
<1>9. OnTheMove(r, line', merged')
  BY <1>3, <1>6, <1>7, <1>8 DEF OnTheMove, WithItem
<1>10. call[c].pc # "idle"
  OBVIOUS
<1>11. QED BY <1>4, <1>9, <1>10, TurnPasses

LEMMA DropMoves ==
  ASSUME Inv, TurnInv, ~under.overlap, NEW c \in Calls, DropLine(c)
  PROVE  TurnInv' /\ Shown \subseteq Shown'
<1> DEFINE d == call[c].item.id
<1>1. /\ UNCHANGED << under, merged >> /\ call[c].pc = "drop" /\ call[c] \in CallRecords
      /\ line \in [LineIds -> Lines] /\ BackToEach(c) /\ line' = [line EXCEPT ![d] = NoLine]
  BY DEF DropLine, Delete, Inv, TypeOK, CallRecords, Ops
<1>2. OnTheMove(call[c], line, merged) /\ d \in LineIds
  BY <1>1 DEF TurnInv, CallRecords, Copies
<1>3. ~line'[d].live /\ \A l \in LineIds : l # d => line'[l] = line[l]
  BY <1>1, <1>2 DEF NoLine
<1>4. TurnInv'
  <2>1. \A l : l # d => line'[l] = line[l]
    BY <1>1
  <2>2. QED BY <1>1, <1>3, <2>1, BackMoves
<1>5. PICK n \in LineIds : Replaces(n, call[c].item, line, merged)
  BY <1>1, <1>2 DEF OnTheMove, Moving
<1>6. line[d].variant = call[c].item.variant
  BY <1>1, <1>2 DEF OnTheMove, Moving, WithItem, InHand
<1>7. line'[n].live /\ line'[n].variant = line[d].variant /\ line'[n].cart \notin merged'
  BY <1>1, <1>3, <1>5, <1>6 DEF Replaces
<1>8. Shown \subseteq Shown'
  BY <1>1, <1>3, <1>7, ShownStays
<1>9. QED BY <1>4, <1>8

LEMMA LineMoves ==
  ASSUME Inv, TurnInv, ~under.overlap, NEW c \in Calls, MoveLine(c)
  PROVE  TurnInv' /\ Shown \subseteq Shown'
<1> DEFINE l   == call[c].item.id
           doc == Moved(c)
<1>1. /\ UNCHANGED << under, merged >> /\ call[c].pc = "move" /\ call[c] \in CallRecords
      /\ line \in [LineIds -> Lines]
  BY DEF MoveLine, Inv, TypeOK, CallRecords, Ops
<1>2. OnTheMove(call[c], line, merged) /\ l \in LineIds /\ line[l] \in Lines
  BY <1>1 DEF TurnInv, CallRecords, Copies
<1>3. CASE Leave(c) /\ UNCHANGED line
  <2>1. Shown' = Shown
    BY <1>1, <1>3 DEF Shown
  <2>2. TurnInv'
    BY <1>1, <1>3, RestMoves, TurnPasses DEF Leave, Suspend
  <2>3. QED BY <2>1, <2>2
<1>4. CASE Save(l, doc) /\ BackToEach(c)
  <2>1. /\ line[l].live /\ line[l].cart = call[c].cart
        /\ call[c].op \in {"save", "restore", "merge"} /\ call[c].cart \notin merged
    BY <1>1, <1>2 DEF OnTheMove, Moving, WithItem, InHand
  <2>2. line' = [line EXCEPT ![l] = doc]
    BY <1>4, <2>1 DEF Save
  <2>3. /\ doc.live /\ doc.variant = line[l].variant
        /\ doc.cart = IF call[c].op = "merge" THEN Customer ELSE line[l].cart
    BY <1>2, <2>1 DEF Moved, Lines
  <2> HIDE DEF doc
  <2>4. line'[l] = doc /\ \A n : n # l => line'[n] = line[n]
    BY <1>1, <1>2, <2>2
  <2>5. doc.cart \notin merged'
    BY <1>1, <2>1, <2>3, InUse
  <2>6. Shown \subseteq Shown'
    BY <1>1, <1>2, <2>3, <2>4, <2>5, ShownStays
  <2>7. call[c].op = "merge" => doc.cart # call[c].cart
    BY <1>1, <2>3, CartConstants DEF CallRecords, Closes, GuestCarts, Customer
  <2>8. TurnInv'
    BY <1>1, <1>4, <2>4, <2>7, BackMoves
  <2>9. QED BY <2>6, <2>8
<1>5. QED BY <1>3, <1>4 DEF MoveLine

(* A cart that is closed has no line left; a call that breaks off changes  *)
(* nothing.                                                                *)
LEMMA EndingMoves ==
  ASSUME Inv, TurnInv, ~under.overlap, NEW c \in Calls, EndMove(c) \/ CloseCart(c) \/ BreakOff(c)
  PROVE  TurnInv' /\ Shown \subseteq Shown'
<1>1. UNCHANGED << under, line >> /\ call[c].pc # "idle" /\ call[c] \in CallRecords
  BY DEF EndMove, CloseCart, BreakOff, Inv, TypeOK, CallRecords, Ops
<1>2. OnTheMove(call[c], line, merged)
  BY DEF TurnInv
<1>3. CASE EndMove(c)
  <2>1. Shown' = Shown /\ UNCHANGED merged
    BY <1>1, <1>3 DEF EndMove, Shown
  <2>2. CASE Goto(c, "close") /\ call[c].op = "merge"
    <3> DEFINE r == [call[c] EXCEPT !.pc = "close"]
    <3>1. r = [pc |-> "close", op |-> call[c].op, cart |-> call[c].cart, variant |-> call[c].variant,
               qty |-> call[c].qty, todo |-> call[c].todo, item |-> call[c].item, other |-> call[c].other]
      BY <1>1, CarryTo, Zenon
    <3>2. call' = [call EXCEPT ![c] = r]
      BY <2>2 DEF Goto, Suspend
    <3> HIDE DEF r
    <3>3. call[c].pc = "each" /\ call[c].todo = {}
      BY <1>3 DEF EndMove
    <3>4. r.todo = {} /\ r.pc = "close" /\ r.op = "merge" /\ r.cart = call[c].cart
      BY <2>2, <3>1, <3>3
    <3>5. /\ call[c].cart \notin merged
          /\ \A n \in LineIds : line[n].live => line[n].cart # call[c].cart
      BY <1>2, <2>2, <3>3 DEF OnTheMove, Moving, WithItem
    <3>6. OnTheMove(r, line', merged')
      BY <1>1, <2>1, <3>4, <3>5 DEF OnTheMove, WithItem
    <3>7. QED BY <1>1, <2>1, <3>2, <3>6, TurnPasses
  <2>3. CASE Leave(c)
    BY <1>1, <2>1, <2>3, RestMoves, TurnPasses DEF Leave, Suspend
  <2>4. QED BY <1>3, <2>2, <2>3 DEF EndMove
<1>4. CASE CloseCart(c)
  <2>1. call[c].pc = "close" /\ call[c].op = "merge" /\ call[c].todo = {}
    BY <1>1, <1>2, <1>4 DEF CloseCart, CallRecords, Closes, OnTheMove, Moving
  <2>2. \A n \in LineIds : line[n].live => line[n].cart # call[c].cart
    BY <1>2, <2>1 DEF OnTheMove, Moving, WithItem
  <2>3. merged' = merged \cup {call[c].cart}
    BY <1>4 DEF CloseCart
  <2>4. Shown \subseteq Shown'
    BY <1>1, <2>2, <2>3, ShownStays
  <2>5. QED BY <1>1, <1>4, <2>4, RestMoves, TurnPasses DEF CloseCart, Leave, Suspend
<1>5. CASE BreakOff(c)
  BY <1>1, <1>5, RestMoves, TurnPasses DEF BreakOff, Leave, Suspend, Shown
<1>6. QED BY <1>3, <1>4, <1>5

Taken ==
  ~under.overlap /\ ~(Shown \subseteq Shown') =>
    \E c \in Calls : call[c].pc \in {"delete", "wipe"} /\ call'[c].pc = "idle"

LEMMA NextMoves ==
  ASSUME Inv, TurnInv, [Next]_vars
  PROVE  TurnInv' /\ Taken
<1>1. CASE UNCHANGED vars
  BY <1>1 DEF vars, TurnInv, OneAtATime, Taken, Shown
<1>2. ASSUME NEW c \in Calls, Step(c) PROVE TurnInv' /\ Taken
  <2>1. under' = under
    BY <1>2 DEF Step, BeginAdd, FindLine, CreateLine, BeginUpdate, WriteQuantity, BeginRemove,
                DeleteLine, BeginClear, WipeLines, BeginMove, BeginMerge, TakeLine, Combine,
                DropLine, MoveLine, EndMove, CloseCart, BreakOff
  <2>2. CASE under.overlap
    BY <2>1, <2>2 DEF TurnInv, Taken
  <2>3. CASE ~under.overlap
    BY <1>2, <2>3, MoveBegins, LinesStay, RemovalEnds, TakingMoves, CombineMoves, DropMoves,
       LineMoves, EndingMoves DEF Step, Taken
  <2>4. QED BY <2>2, <2>3
<1>3. QED BY <1>1, <1>2 DEF Next

(* One call at a time, wherever calls break off: setting lines aside,      *)
(* restoring and merging them lose no variant; only removing a line and    *)
(* clearing a cart do.                                                     *)
THEOREM NothingEverVanishes == Spec => NothingVanishes
<1>1. Init => TurnInv
  BY RestMoves DEF Init, TurnInv, OneAtATime
<1>2. Inv /\ TurnInv /\ [Next]_vars => TurnInv'
  BY NextMoves
<1>3. Inv /\ TurnInv /\ [Next]_vars =>
        [~under.overlap /\ ~(Shown \subseteq Shown') =>
           \E c \in Calls : call[c].pc \in {"delete", "wipe"} /\ call'[c].pc = "idle"]_vars
  BY NextMoves DEF Taken
<1>4. QED BY <1>1, <1>2, <1>3, InvAlways, PTL DEF Spec, NothingVanishes

=============================================================================
