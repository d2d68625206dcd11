---------------------------- MODULE StockProofs -----------------------------
(***************************************************************************)
(* Theorems about stock for every set of items, warehouses, requests,      *)
(* operations and reservations.                                            *)
(*                                                                         *)
(* Inventory: type correctness, the stock invariants, and that interleaved *)
(* operations implement StockAccount.  Reservation: no status without its  *)
(* movement, and what is reserved is held.  Names of the second that would *)
(* clash with the first begin with Reservation.                            *)
(***************************************************************************)
EXTENDS Inventory, Reservation, Sums

-----------------------------------------------------------------------------
(* The arithmetic of one movement.                                         *)

(* An accepted movement turns buckets into buckets.                        *)
LEMMA MovedIsBuckets ==
  ASSUME NEW b \in Buckets, NEW m \in Movements, Accepts(b, m)
  PROVE  Moved(b, m) \in Buckets
<1> DEFINE n == Moved(b, m)
<1>1. /\ n.onHand \in Int /\ n.reserved \in Int /\ n.damaged \in Int
      /\ n.incoming \in Int /\ n.available \in Int /\ n.returned \in Int
  BY DEF Moved, OnHandDelta, ReservedDelta, DamagedDelta, IncomingDelta,
         ComputeAvailable, Buckets, Movements, MovementsOf
<1>2. DOMAIN n = {"onHand", "available", "reserved", "incoming", "damaged", "returned"}
  BY DEF Moved
<1>3. \A k \in DOMAIN n : n[k] >= 0
  BY DEF Accepts, NonNegative
<1>4. /\ n.onHand >= 0 /\ n.reserved >= 0 /\ n.damaged >= 0
      /\ n.incoming >= 0 /\ n.available >= 0 /\ n.returned >= 0
  BY <1>2, <1>3
<1>5. n = [onHand |-> n.onHand, available |-> n.available, reserved |-> n.reserved,
           incoming |-> n.incoming, damaged |-> n.damaged, returned |-> n.returned]
  BY DEF Moved
<1> QED BY <1>1, <1>4, <1>5 DEF Buckets

(* A movement leaves "available" derived from the other buckets.           *)
LEMMA MovedIsDerived ==
  ASSUME NEW b \in Buckets, NEW m \in Movements
  PROVE  AvailableDerived(Moved(b, m))
BY DEF AvailableDerived, Moved

(* An accepted movement of a covered balance leaves it covered.            *)
LEMMA MovedIsCovered ==
  ASSUME NEW b \in Buckets, NEW m \in Movements,
         AvailableDerived(b), Covered(b), Accepts(b, m)
  PROVE  Covered(Moved(b, m))
<1>1. b.available = b.onHand - b.reserved - b.damaged
  BY DEF AvailableDerived, ComputeAvailable, Covered, Buckets
<1>2. Admits(b, m)
  BY DEF Accepts
<1> QED BY <1>1, <1>2 DEF Admits, Covered, Moved, OnHandDelta, ReservedDelta, DamagedDelta,
               TakesFromShelf, PutsOnShelf, Corrections, Buckets, Movements, MovementsOf

(* The balance staff open an item with.                                    *)
LEMMA OpeningIsBuckets ==
  ASSUME NEW o \in OperationSpace
  PROVE  /\ OpeningBuckets(o) \in Buckets
         /\ AvailableDerived(OpeningBuckets(o))
         /\ OpeningBuckets(o).onHand = o.quantity
         /\ o.reserved + o.damaged <= o.quantity => Covered(OpeningBuckets(o))
BY DEF OpeningBuckets, Buckets, EmptyBuckets, ComputeAvailable, AvailableDerived,
       Covered, OperationSpace

LEMMA EmptyIsBuckets ==
  EmptyBuckets \in Buckets /\ AvailableDerived(EmptyBuckets) /\ Covered(EmptyBuckets)
BY DEF EmptyBuckets, Buckets, AvailableDerived, ComputeAvailable, Covered

(* The steps that write incoming leave every other count alone.            *)
LEMMA IncomingIsApart ==
  ASSUME TypeOK, NEW w \in Requests, WriteIncoming(w) \/ WriteDrop(w)
  PROVE  /\ \A i \in Items : /\ buckets'[i].onHand = buckets[i].onHand
                             /\ buckets'[i].available = buckets[i].available
                             /\ buckets'[i].reserved = buckets[i].reserved
                             /\ buckets'[i].damaged = buckets[i].damaged
                             /\ buckets'[i].returned = buckets[i].returned
         /\ UNCHANGED snap
<1> DEFINE i == op[w].item
<1>1. i \in Items /\ buckets \in [Items -> Buckets]
  BY DEF TypeOK, OperationSpace
<1>2. /\ UNCHANGED snap
      /\ \/ UNCHANGED buckets
         \/ \E n : buckets' = [buckets EXCEPT ![i] = [buckets[i] EXCEPT !.incoming = n]]
  BY DEF WriteIncoming, WriteDrop, localVars
<1>3. ASSUME NEW n PROVE
        LET b == [buckets[i] EXCEPT !.incoming = n]
        IN  /\ b.onHand = buckets[i].onHand /\ b.available = buckets[i].available
            /\ b.reserved = buckets[i].reserved /\ b.damaged = buckets[i].damaged
            /\ b.returned = buckets[i].returned
  BY <1>1 DEF Buckets
<1>4. CASE UNCHANGED buckets
  BY <1>2, <1>4
<1>5. ASSUME NEW n, buckets' = [buckets EXCEPT ![i] = [buckets[i] EXCEPT !.incoming = n]]
      PROVE  \A j \in Items : /\ buckets'[j].onHand = buckets[j].onHand
                             /\ buckets'[j].available = buckets[j].available
                             /\ buckets'[j].reserved = buckets[j].reserved
                             /\ buckets'[j].damaged = buckets[j].damaged
                             /\ buckets'[j].returned = buckets[j].returned
  <2> SUFFICES ASSUME NEW j \in Items
               PROVE  /\ buckets'[j].onHand = buckets[j].onHand
                      /\ buckets'[j].available = buckets[j].available
                      /\ buckets'[j].reserved = buckets[j].reserved
                      /\ buckets'[j].damaged = buckets[j].damaged
                      /\ buckets'[j].returned = buckets[j].returned
    OBVIOUS
  <2>1. CASE j = i
    BY <1>1, <1>3, <1>5, <2>1
  <2>2. CASE j # i
    BY <1>1, <1>5, <2>2
  <2> QED BY <2>1, <2>2
<1> QED BY <1>2, <1>4, <1>5

(* A movement that passed the Zod schema has a positive quantity.          *)
LEMMA MovementOfIsMovement ==
  ASSUME NEW o \in Operations, o.kind = "move"
  PROVE  MovementOf(o) \in Movements
BY InventoryConstants DEF MovementOf, Movements, MovementsOf, OperationSpace

-----------------------------------------------------------------------------
(* Type correctness: in particular no stock bucket is ever negative.       *)
THEOREM TypeCorrect == Spec => []TypeOK
<1>1. Init => TypeOK
  <2> SUFFICES ASSUME Init PROVE TypeOK
    OBVIOUS
  <2>1. NoOperation \in OperationSpace
    BY InventoryConstants DEF NoOperation, BasicOperation, OperationSpace, MovementTypes
  <2>2. Correction(1, FALSE) \in Movements
    BY DEF Correction, Movements, MovementsOf, MovementTypes
  <2> QED BY <2>1, <2>2, EmptyIsBuckets DEF Init, TypeOK, Labels
<1>2. TypeOK /\ [Next]_vars => TypeOK'
  <2> SUFFICES ASSUME TypeOK, [Next]_vars PROVE TypeOK'
    OBVIOUS
  <2> USE DEF TypeOK, Goto, stockVars, localVars
  <2>0. \A w \in Requests : op[w].item \in Items /\ op[w].quantity \in Nat
    BY DEF OperationSpace
  <2>1. ASSUME NEW w \in Requests, Begin(w) PROVE TypeOK'
    <3> PICK o \in Operations :
          /\ op' = [op EXCEPT ![w] = o]
          /\ mv' = IF o.kind = "move" THEN [mv EXCEPT ![w] = MovementOf(o)] ELSE mv
          /\ Goto(w, FirstStep[o.kind])
      BY <2>1 DEF Begin
    <3>1. o \in OperationSpace
      BY InventoryConstants
    <3>2. FirstStep[o.kind] \in Labels
      BY <3>1 DEF FirstStep, Labels, OperationSpace
    <3>3. mv' \in [Requests -> Movements]
      BY MovementOfIsMovement
    <3> QED BY <2>1, <3>1, <3>2, <3>3 DEF Begin
  <2>2. ASSUME NEW w \in Requests, Lookup(w) PROVE TypeOK'
    BY <2>0, <2>2 DEF Lookup, AfterLookup, Labels
  <2>3. ASSUME NEW w \in Requests, Create(w) PROVE TypeOK'
    BY <2>0, <2>3, EmptyIsBuckets, SMTT(30) DEF Create, AfterLookup, Labels
  <2>4. ASSUME NEW w \in Requests, Write(w) PROVE TypeOK'
    <3>1. mv[w] \in Movements /\ snap[w] \in Buckets
      OBVIOUS
    <3>2. Accepts(snap[w], mv[w]) => Moved(snap[w], mv[w]) \in Buckets
      BY <3>1, MovedIsBuckets
    <3> QED BY <2>0, <2>4, <3>2 DEF Write, Labels
  <2>5. ASSUME NEW w \in Requests, WriteLedger(w) PROVE TypeOK'
    BY <2>5 DEF WriteLedger, Labels
  <2>6. ASSUME NEW w \in Requests, WriteIncoming(w) PROVE TypeOK'
    <3>1. [buckets[op[w].item] EXCEPT
             !.incoming = buckets[op[w].item].incoming + op[w].quantity] \in Buckets
      BY <2>0 DEF Buckets
    <3> QED BY <2>0, <2>6, <3>1 DEF WriteIncoming, Labels
  <2>7. ASSUME NEW w \in Requests, ReadOthers(w) PROVE TypeOK'
    <3> DEFINE elsewhere == {i \in Items \ {DefaultItem} : life[i] = "live"}
               f == [i \in Items |-> buckets[i].onHand]
               units == SumFunctionOnSet(f, elsewhere)
    <3>1. IsFiniteSet(elsewhere)
      BY InventoryConstants, FS_Subset
    <3>2. \A i \in elsewhere : f[i] \in Nat
      BY DEF Buckets
    <3>3. units \in Nat
      <4> HIDE DEF elsewhere, f
      <4>1. QED BY <3>1, <3>2, SumIsNat
    <3>4. /\ others' = [others EXCEPT ![w] = units]
          /\ \/ pc' = [pc EXCEPT ![w] = "failed"]
             \/ pc' = [pc EXCEPT ![w] = "setLookup"]
      BY <2>7 DEF ReadOthers
    <3> HIDE DEF units
    <3> QED BY <2>7, <3>3, <3>4 DEF ReadOthers, Labels
  <2>8. ASSUME NEW w \in Requests, ChooseDelta(w) PROVE TypeOK'
    <3> DEFINE target == op[w].quantity - others[w]
               held == snap[w].onHand
    <3>1. target \in Int /\ held \in Int
      BY <2>0 DEF Buckets
    <3>2. target > held => Correction(target - held, FALSE) \in Movements
      BY <3>1 DEF Correction, Movements, MovementsOf, MovementTypes
    <3>3. target < held => Correction(held - target, TRUE) \in Movements
      BY <3>1 DEF Correction, Movements, MovementsOf, MovementTypes
    <3> QED BY <2>8, <3>1, <3>2, <3>3 DEF ChooseDelta, Labels
  <2>9. ASSUME NEW w \in Requests, EditRead(w) PROVE TypeOK'
    BY <2>0, <2>9 DEF EditRead, Labels
  <2>10. ASSUME NEW w \in Requests, EditWrite(w) PROVE TypeOK'
    BY <2>0, <2>10 DEF EditWrite, Labels
  <2>11. ASSUME NEW w \in Requests, WriteDrop(w) PROVE TypeOK'
    BY <2>0, <2>11, SMTT(30) DEF WriteDrop, Labels, Buckets
  <2>12. ASSUME NEW w \in Requests, Delete(w) PROVE TypeOK'
    BY <2>0, <2>12 DEF Delete, Labels
  <2>13. ASSUME NEW w \in Requests, OpenCheck(w) PROVE TypeOK'
    BY <2>0, <2>13 DEF OpenCheck, Labels
  <2>14. ASSUME NEW w \in Requests, OpenWrite(w) PROVE TypeOK'
    <3>1. OpeningBuckets(op[w]) \in Buckets /\ OpeningBuckets(op[w]).onHand \in Nat
      BY OpeningIsBuckets DEF Buckets
    <3>2. \A q \in Nat \ {0} :
            [type |-> "receive", quantity |-> q, decrease |-> FALSE] \in Movements
      BY DEF Movements, MovementsOf, MovementTypes
    <3> QED BY <2>0, <2>14, <3>1, <3>2 DEF OpenWrite, Labels
  <2>15. ASSUME NEW w \in Requests, Crash(w) PROVE TypeOK'
    BY <2>15 DEF Crash, Labels
  <2>16. CASE UNCHANGED vars
    BY <2>16 DEF vars
  <2> QED BY <2>1, <2>2, <2>3, <2>4, <2>5, <2>6, <2>7, <2>8, <2>9, <2>10, <2>11,
             <2>12, <2>13, <2>14, <2>15, <2>16 DEF Next, Step
<1> QED BY <1>1, <1>2, PTL DEF Spec

-----------------------------------------------------------------------------
(* What is stored and what requests have read is coherent.                 *)
LEMMA DerivedInvariant == Spec => []DerivedInv
<1>1. Init => DerivedInv
  BY EmptyIsBuckets DEF Init, DerivedInv, AvailableAgrees
<1>2. TypeOK /\ DerivedInv /\ [Next]_vars => DerivedInv'
  <2> SUFFICES ASSUME TypeOK, DerivedInv, [Next]_vars PROVE DerivedInv'
    OBVIOUS
  <2> USE DEF DerivedInv, AvailableAgrees, stockVars, localVars
  <2>0. \A w \in Requests : /\ op[w] \in OperationSpace /\ op[w].item \in Items
                            /\ op[w].quantity \in Nat
    BY DEF TypeOK, OperationSpace
  <2>1. ASSUME NEW w \in Requests, Lookup(w) PROVE DerivedInv'
    BY <2>0, <2>1 DEF Lookup, TypeOK
  <2>2. ASSUME NEW w \in Requests, Create(w) PROVE DerivedInv'
    BY <2>0, <2>2, EmptyIsBuckets DEF Create, TypeOK
  <2>3. ASSUME NEW w \in Requests, Write(w) PROVE DerivedInv'
    <3>1. AvailableDerived(Moved(snap[w], mv[w]))
      BY MovedIsDerived DEF TypeOK
    <3> QED BY <2>0, <2>3, <3>1 DEF Write, TypeOK
  <2>4. ASSUME NEW w \in Requests, WriteIncoming(w) PROVE DerivedInv'
    BY <2>4, IncomingIsApart DEF AvailableDerived
  <2>5. ASSUME NEW w \in Requests, WriteDrop(w) PROVE DerivedInv'
    BY <2>5, IncomingIsApart DEF AvailableDerived
  <2>6. ASSUME NEW w \in Requests, OpenWrite(w) PROVE DerivedInv'
    <3>1. AvailableDerived(OpeningBuckets(op[w]))
      BY <2>0, OpeningIsBuckets
    <3> QED BY <2>0, <2>6, <3>1 DEF OpenWrite, TypeOK
  <2>7. ASSUME NEW w \in Requests,
               \/ Begin(w) \/ WriteLedger(w) \/ ReadOthers(w) \/ ChooseDelta(w)
               \/ EditRead(w) \/ EditWrite(w) \/ Delete(w) \/ OpenCheck(w) \/ Crash(w)
        PROVE  DerivedInv'
    BY <2>7 DEF Begin, WriteLedger, ReadOthers, ChooseDelta, EditRead, EditWrite,
                Delete, OpenCheck, Crash
  <2>8. CASE UNCHANGED vars
    BY <2>8 DEF vars
  <2> QED BY <2>1, <2>2, <2>3, <2>4, <2>5, <2>6, <2>7, <2>8 DEF Next, Step
<1> QED BY <1>1, <1>2, TypeCorrect, PTL DEF Spec

(* The stored "available" always agrees with the other buckets, whatever   *)
(* operations interleave, the unconditional writers included.              *)
THEOREM AvailableAlwaysAgrees == Spec => []AvailableAgrees
<1>1. DerivedInv => AvailableAgrees
  BY DEF DerivedInv
<1> QED BY <1>1, DerivedInvariant, PTL

-----------------------------------------------------------------------------
(* What the stock write and the ledger row know of each other: a request   *)
(* about to insert its row has changed the stock, and one that changed the *)
(* stock is about to insert its row, has done so, or died.                 *)
LedgerInv ==
  /\ ledger \subseteq landed
  /\ \A w \in Requests : pc[w] = "ledger" => w \in landed
  /\ \A w \in landed : pc[w] \in {"ledger", "done", "crashed"}
  /\ \A w \in landed \ ledger : pc[w] \in {"ledger", "crashed"}

(* A request that stays away from its ledger row, or dies.                 *)
LEMMA OffTheLedger ==
  ASSUME TypeOK, LedgerInv, NEW w \in Requests, NEW l \in Labels \ {"ledger"},
         pc' = [pc EXCEPT ![w] = l], UNCHANGED << landed, ledger >>,
         pc[w] \in {"ledger", "done", "crashed"} => l = "crashed"
  PROVE  LedgerInv'
BY DEF LedgerInv, TypeOK

(* A request that changes the stock and turns to its ledger row.           *)
LEMMA OntoTheLedger ==
  ASSUME TypeOK, LedgerInv, NEW w \in Requests,
         pc' = [pc EXCEPT ![w] = "ledger"], landed' = landed \cup {w}, UNCHANGED ledger
  PROVE  LedgerInv'
BY DEF LedgerInv, TypeOK

LEMMA LedgerStep == TypeOK /\ LedgerInv /\ [Next]_vars => LedgerInv'
<1> SUFFICES ASSUME TypeOK, LedgerInv, [Next]_vars PROVE LedgerInv'
  OBVIOUS
<1> USE DEF Goto
<1>1. CASE UNCHANGED vars
  BY <1>1 DEF vars, LedgerInv
<1>2. ASSUME NEW w \in Requests, Write(w) PROVE LedgerInv'
  <2>1. \/ pc' = [pc EXCEPT ![w] = "ledger"] /\ landed' = landed \cup {w}
        \/ pc' = [pc EXCEPT ![w] = "failed"] /\ UNCHANGED landed
    BY <1>2 DEF Write
  <2>2. pc[w] = "write" /\ UNCHANGED ledger
    BY <1>2 DEF Write
  <2>3. QED BY <2>1, <2>2, OffTheLedger, OntoTheLedger DEF Labels
<1>3. ASSUME NEW w \in Requests, OpenWrite(w) PROVE LedgerInv'
  <2>1. \/ pc' = [pc EXCEPT ![w] = "ledger"] /\ landed' = landed \cup {w}
        \/ \E l \in {"done", "failed"} : pc' = [pc EXCEPT ![w] = l] /\ UNCHANGED landed
    BY <1>3 DEF OpenWrite
  <2>2. pc[w] = "openWrite" /\ UNCHANGED ledger
    BY <1>3 DEF OpenWrite
  <2>3. QED BY <2>1, <2>2, OffTheLedger, OntoTheLedger DEF Labels
<1>4. ASSUME NEW w \in Requests, WriteLedger(w) PROVE LedgerInv'
  BY <1>4 DEF WriteLedger, LedgerInv, TypeOK
<1>5. ASSUME NEW w \in Requests, Crash(w) PROVE LedgerInv'
  BY <1>5, OffTheLedger DEF Crash, Labels
<1>6. ASSUME NEW w \in Requests,
             \/ Begin(w) \/ Lookup(w) \/ Create(w) \/ WriteIncoming(w) \/ ReadOthers(w)
             \/ ChooseDelta(w) \/ EditRead(w) \/ EditWrite(w) \/ WriteDrop(w)
             \/ Delete(w) \/ OpenCheck(w)
      PROVE  LedgerInv'
  <2>1. pc[w] \notin {"ledger", "done", "crashed"} /\ UNCHANGED << landed, ledger >>
    BY <1>6 DEF Begin, Lookup, Create, WriteIncoming, ReadOthers, ChooseDelta, EditRead,
                EditWrite, WriteDrop, Delete, OpenCheck
  <2>2. \E l \in Labels \ {"ledger"} : pc' = [pc EXCEPT ![w] = l]
    <3>1. \A o \in OperationSpace : FirstStep[o.kind] \in Labels \ {"ledger"}
      BY DEF FirstStep, OperationSpace, Labels
    <3>2. AfterLookup(w) \in Labels \ {"ledger"}
      BY DEF AfterLookup, Labels
    <3>3. CASE Begin(w)
      BY <3>1, <3>3, InventoryConstants DEF Begin
    <3>4. CASE Lookup(w) \/ Create(w)
      BY <3>2, <3>4 DEF Lookup, Create, Labels
    <3>5. CASE WriteIncoming(w) \/ ReadOthers(w) \/ ChooseDelta(w) \/ EditRead(w)
      BY <3>5 DEF WriteIncoming, ReadOthers, ChooseDelta, EditRead, Labels
    <3>6. CASE EditWrite(w) \/ WriteDrop(w) \/ Delete(w) \/ OpenCheck(w)
      BY <3>6 DEF EditWrite, WriteDrop, Delete, OpenCheck, Labels
    <3>7. QED BY <1>6, <3>3, <3>4, <3>5, <3>6
  <2>3. QED BY <2>1, <2>2, OffTheLedger
<1>7. QED BY <1>1, <1>2, <1>3, <1>4, <1>5, <1>6 DEF Next, Step

(* Every movement that changed the stock has its row in the history once   *)
(* its request is over, unless the request died between the two writes,    *)
(* and there is no row without its change of stock.                        *)
THEOREM LedgerAlwaysComplete == Spec => []LedgerComplete
<1>1. Init => LedgerInv
  BY DEF Init, LedgerInv
<1>2. LedgerInv => LedgerComplete
  BY DEF LedgerInv, LedgerComplete
<1>3. QED BY <1>1, <1>2, LedgerStep, TypeCorrect, PTL DEF Spec

-----------------------------------------------------------------------------
(* A soft-deleted item's stock is never written again, also by requests    *)
(* that read the item while it was live.                                   *)
THEOREM DeletedStaysFrozen == Spec => DeletedStockFrozen
<1> DEFINE Frozen ==
      \A i \in Items : life[i] = "deleted" =>
        \A k \in {"onHand", "available", "reserved", "damaged", "returned"} :
          buckets'[i][k] = buckets[i][k]
<1>1. TypeOK /\ [Next]_vars => [Frozen]_vars
  <2> SUFFICES ASSUME TypeOK, Next PROVE Frozen
    BY DEF vars
  <2> USE DEF stockVars, localVars
  <2>0. \A w \in Requests : op[w].item \in Items
    BY DEF TypeOK, OperationSpace
  <2>1. ASSUME NEW w \in Requests, WriteDrop(w) PROVE Frozen
    <3>1. \A i \in Items : buckets'[i].returned = buckets[i].returned
      BY <2>0, <2>1, IncomingIsApart
    <3> QED BY <2>1, <3>1, IncomingIsApart
  <2>2. ASSUME NEW w \in Requests, Create(w) \/ OpenWrite(w) \/ Write(w) \/ WriteIncoming(w)
        PROVE  Frozen
    BY <2>0, <2>2 DEF Create, OpenWrite, Write, WriteIncoming, MayWrite, TypeOK
  <2>3. ASSUME NEW w \in Requests,
               \/ Begin(w) \/ Lookup(w) \/ WriteLedger(w) \/ ReadOthers(w) \/ ChooseDelta(w)
               \/ EditRead(w) \/ EditWrite(w) \/ Delete(w) \/ OpenCheck(w) \/ Crash(w)
        PROVE  UNCHANGED buckets
    BY <2>3 DEF Begin, Lookup, WriteLedger, ReadOthers, ChooseDelta, EditRead,
                EditWrite, Delete, OpenCheck, Crash
  <2> QED BY <2>1, <2>2, <2>3 DEF Next, Step
<1> QED BY <1>1, TypeCorrect, PTL DEF Spec, DeletedStockFrozen

-----------------------------------------------------------------------------
(* Each request runs only the steps of its own operation.                  *)
LEMMA RequestsKeepToTheirKind == Spec => []StepsOfKind
<1>1. Init => StepsOfKind
  BY DEF Init, StepsOfKind
<1>2. TypeOK /\ StepsOfKind /\ [Next]_vars => StepsOfKind'
  <2> SUFFICES ASSUME TypeOK, StepsOfKind, [Next]_vars PROVE StepsOfKind'
    OBVIOUS
  <2> USE DEF StepsOfKind, Goto, localVars
  <2>1. ASSUME NEW w \in Requests, Begin(w) PROVE StepsOfKind'
    <3> PICK o \in Operations : /\ op' = [op EXCEPT ![w] = o]
                                /\ Goto(w, FirstStep[o.kind])
      BY <2>1 DEF Begin
    <3>1. o.kind \in {"move", "setStock", "incoming", "edit", "dropIncoming", "delete", "open"}
      BY InventoryConstants DEF OperationSpace
    <3>2. /\ FirstStep[o.kind] \notin {"editWrite", "writeDrop", "writeIncoming", "openWrite"}
          /\ FirstStep[o.kind] = "editRead" => o.kind = "edit"
          /\ FirstStep[o.kind] = "openCheck" => o.kind = "open"
      BY <3>1 DEF FirstStep
    <3> QED BY <3>2 DEF TypeOK
  <2>2. ASSUME NEW w \in Requests, Lookup(w) \/ Create(w) PROVE StepsOfKind'
    BY <2>2 DEF Lookup, Create, AfterLookup, TypeOK
  <2>3. ASSUME NEW w \in Requests,
               \/ Write(w) \/ WriteLedger(w) \/ WriteIncoming(w) \/ ReadOthers(w)
               \/ ChooseDelta(w) \/ WriteDrop(w) \/ Delete(w)
        PROVE  StepsOfKind'
    BY <2>3 DEF Write, WriteLedger, WriteIncoming, ReadOthers, ChooseDelta, WriteDrop,
                Delete, TypeOK
  <2>4. ASSUME NEW w \in Requests,
               EditRead(w) \/ EditWrite(w) \/ OpenCheck(w) \/ OpenWrite(w) \/ Crash(w)
        PROVE  StepsOfKind'
    BY <2>4 DEF EditRead, EditWrite, OpenCheck, OpenWrite, Crash, TypeOK
  <2>5. CASE UNCHANGED vars
    BY <2>5 DEF vars
  <2> QED BY <2>1, <2>2, <2>3, <2>4, <2>5 DEF Next, Step
<1> QED BY <1>1, <1>2, TypeCorrect, PTL DEF Spec

-----------------------------------------------------------------------------
(* When no item is opened with more promised than it holds, no item ever   *)
(* promises more than it holds: a reservation cannot exceed what is        *)
(* available however many requests race for it.                            *)
OpeningsCovered ==
  \A o \in Operations : o.kind = "open" => o.reserved + o.damaged <= o.quantity

THEOREM NeverOversold == ASSUME OpeningsCovered PROVE Spec => []NoOversell
<1>1. Init => CoveredInv
  BY EmptyIsBuckets DEF Init, CoveredInv, NoOversell
<1>2. TypeOK /\ DerivedInv /\ StepsOfKind /\ CoveredInv /\ [Next]_vars => CoveredInv'
  <2> SUFFICES ASSUME TypeOK, DerivedInv, StepsOfKind, CoveredInv, [Next]_vars
               PROVE  CoveredInv'
    OBVIOUS
  <2> USE DEF CoveredInv, NoOversell, stockVars, localVars
  <2>0. \A w \in Requests : /\ op[w] \in OperationSpace /\ op[w].item \in Items
                            /\ op[w].quantity \in Nat
    BY DEF TypeOK, OperationSpace
  <2>1. ASSUME NEW w \in Requests, Lookup(w) PROVE CoveredInv'
    BY <2>0, <2>1 DEF Lookup, TypeOK
  <2>2. ASSUME NEW w \in Requests, Create(w) PROVE CoveredInv'
    BY <2>0, <2>2, EmptyIsBuckets DEF Create, TypeOK
  <2>3. ASSUME NEW w \in Requests, Write(w) PROVE CoveredInv'
    <3>1. Accepts(snap[w], mv[w]) => Covered(Moved(snap[w], mv[w]))
      BY MovedIsCovered DEF TypeOK, DerivedInv
    <3> QED BY <2>0, <2>3, <3>1 DEF Write, TypeOK
  <2>4. ASSUME NEW w \in Requests, WriteIncoming(w) PROVE CoveredInv'
    BY <2>4, IncomingIsApart DEF Covered
  <2>5. ASSUME NEW w \in Requests, WriteDrop(w) PROVE CoveredInv'
    BY <2>5, IncomingIsApart DEF Covered
  <2>6. ASSUME NEW w \in Requests, OpenWrite(w) PROVE CoveredInv'
    <3>1. op[w].reserved + op[w].damaged <= op[w].quantity
      BY <2>6, OpeningsCovered DEF OpeningsCovered, StepsOfKind, OpenWrite
    <3>2. Covered(OpeningBuckets(op[w]))
      BY <2>0, <3>1, OpeningIsBuckets
    <3> QED BY <2>0, <2>6, <3>2 DEF OpenWrite, TypeOK
  <2>7. ASSUME NEW w \in Requests,
               \/ Begin(w) \/ WriteLedger(w) \/ ReadOthers(w) \/ ChooseDelta(w)
               \/ EditRead(w) \/ EditWrite(w) \/ Delete(w) \/ OpenCheck(w) \/ Crash(w)
        PROVE  CoveredInv'
    BY <2>7 DEF Begin, WriteLedger, ReadOthers, ChooseDelta, EditRead, EditWrite,
                Delete, OpenCheck, Crash
  <2>8. CASE UNCHANGED vars
    BY <2>8 DEF vars
  <2> QED BY <2>1, <2>2, <2>3, <2>4, <2>5, <2>6, <2>7, <2>8 DEF Next, Step
<1>3. CoveredInv => NoOversell
  BY DEF CoveredInv
<1> QED BY <1>1, <1>2, <1>3, TypeCorrect, DerivedInvariant, RequestsKeepToTheirKind,
           PTL DEF Spec

-----------------------------------------------------------------------------
(* Two kinds of operation write the version they read, plus one, with no   *)
(* condition: updateItem and the cancellation of a purchase order.         *)
NoUnconditionalWriter ==
  \A o \in Operations : o.kind \notin {"edit", "dropIncoming"}

(* Without them a version stands for one set of buckets.                   *)
LEMMA VersionsPinSnapshots ==
  ASSUME NoUnconditionalWriter PROVE Spec => []VersionPinsSnapshot
<1>1. Init => VersionPinsSnapshot
  BY DEF Init, VersionPinsSnapshot
<1>2. TypeOK /\ StepsOfKind /\ VersionPinsSnapshot /\ [Next]_vars => VersionPinsSnapshot'
  <2> SUFFICES ASSUME TypeOK, StepsOfKind, VersionPinsSnapshot, [Next]_vars
               PROVE  VersionPinsSnapshot'
    OBVIOUS
  <2> USE DEF VersionPinsSnapshot, Goto, stockVars, localVars
  <2>0. \A w \in Requests : op[w].item \in Items
    BY DEF TypeOK, OperationSpace
  <2>1. ASSUME NEW w \in Requests, Begin(w) PROVE VersionPinsSnapshot'
    <3> PICK o \in Operations : /\ op' = [op EXCEPT ![w] = o]
                                /\ Goto(w, FirstStep[o.kind])
      BY <2>1 DEF Begin
    <3>1. FirstStep[o.kind] # "write"
      BY InventoryConstants DEF FirstStep, OperationSpace
    <3> QED BY <2>1, <3>1 DEF Begin, TypeOK
  <2>2. ASSUME NEW w \in Requests, Lookup(w) PROVE VersionPinsSnapshot'
    BY <2>0, <2>2 DEF Lookup, TypeOK
  <2>3. ASSUME NEW w \in Requests, Create(w) PROVE VersionPinsSnapshot'
    BY <2>0, <2>3 DEF Create, TypeOK
  <2>4. ASSUME NEW w \in Requests, Write(w) PROVE VersionPinsSnapshot'
    BY <2>0, <2>4 DEF Write, MayWrite, TypeOK
  <2>5. ASSUME NEW w \in Requests, WriteIncoming(w) PROVE VersionPinsSnapshot'
    BY <2>0, <2>5 DEF WriteIncoming, MayWrite, TypeOK
  <2>6. ASSUME NEW w \in Requests, EditRead(w) \/ EditWrite(w) \/ WriteDrop(w)
        PROVE  VersionPinsSnapshot'
    BY <2>6, NoUnconditionalWriter
    DEF NoUnconditionalWriter, StepsOfKind, EditRead, EditWrite, WriteDrop
  <2>7. ASSUME NEW w \in Requests, OpenWrite(w) PROVE VersionPinsSnapshot'
    BY <2>0, <2>7 DEF OpenWrite, TypeOK
  <2>8. ASSUME NEW w \in Requests, Delete(w) PROVE VersionPinsSnapshot'
    BY <2>0, <2>8 DEF Delete, TypeOK
  <2>9. ASSUME NEW w \in Requests,
               WriteLedger(w) \/ ReadOthers(w) \/ ChooseDelta(w) \/ OpenCheck(w) \/ Crash(w)
        PROVE  VersionPinsSnapshot'
    BY <2>9 DEF WriteLedger, ReadOthers, ChooseDelta, OpenCheck, Crash, TypeOK
  <2>10. CASE UNCHANGED vars
    BY <2>10 DEF vars
  <2> QED BY <2>1, <2>2, <2>3, <2>4, <2>5, <2>6, <2>7, <2>8, <2>9, <2>10 DEF Next, Step
<1> QED BY <1>1, <1>2, TypeCorrect, RequestsKeepToTheirKind, PTL DEF Spec

-----------------------------------------------------------------------------
(* The stock on hand is the sum of the movements that went through.        *)

(* An item nobody has opened holds nothing.                                *)
AbsentIsEmpty == \A i \in Items : life[i] = "absent" => buckets[i].onHand = 0

(* What a request that went through did, and where, stays what it was.     *)
LEMMA LandedIsSettled ==
  TypeOK /\ LedgerInv /\ [Next]_vars =>
    \A w \in landed : w \in Requests /\ op'[w] = op[w] /\ mv'[w] = mv[w]
<1> SUFFICES ASSUME TypeOK, LedgerInv, [Next]_vars, NEW w \in landed
             PROVE  w \in Requests /\ op'[w] = op[w] /\ mv'[w] = mv[w]
  OBVIOUS
<1>1. w \in Requests /\ pc[w] \in {"ledger", "done", "crashed"}
  BY DEF LedgerInv, TypeOK
<1>2. ASSUME NEW v \in Requests, Begin(v) \/ ChooseDelta(v) \/ OpenWrite(v)
      PROVE  op'[w] = op[w] /\ mv'[w] = mv[w]
  <2>1. v # w
    BY <1>1, <1>2 DEF Begin, ChooseDelta, OpenWrite
  <2>2. QED BY <1>1, <1>2, <2>1 DEF Begin, ChooseDelta, OpenWrite, TypeOK
<1>3. ASSUME NEW v \in Requests,
             \/ Lookup(v) \/ Create(v) \/ Write(v) \/ WriteLedger(v) \/ WriteIncoming(v)
             \/ ReadOthers(v) \/ EditRead(v) \/ EditWrite(v) \/ WriteDrop(v) \/ Delete(v)
             \/ OpenCheck(v) \/ Crash(v)
      PROVE  UNCHANGED << op, mv >>
  BY <1>3 DEF Lookup, Create, Write, WriteLedger, WriteIncoming, ReadOthers, EditRead,
              EditWrite, WriteDrop, Delete, OpenCheck, Crash, localVars
<1>4. CASE UNCHANGED vars
  BY <1>1, <1>4 DEF vars
<1>5. QED BY <1>1, <1>2, <1>3, <1>4 DEF Next, Step

(* Finitely many movements have landed, and the stock of every item is their*)
(* sum; an item that is not there has none.                                *)
SumInv ==
  /\ IsFiniteSet(landed)
  /\ AbsentIsEmpty
  /\ StockIsSumOfMovements

(* A step that lets nothing through and changes no stock on hand.          *)
LEMMA NothingLands ==
  ASSUME TypeOK, LedgerInv, SumInv, [Next]_vars, UNCHANGED landed,
         \A i \in Items : buckets'[i].onHand = buckets[i].onHand
  PROVE  IsFiniteSet(landed') /\ StockIsSumOfMovements'
<1>1. \A w \in landed : w \in Requests /\ op'[w] = op[w] /\ mv'[w] = mv[w]
  BY LandedIsSettled
<1>2. ASSUME NEW i \in Items
      PROVE  buckets'[i].onHand
               = SumFunctionOnSet([w \in Requests |-> OnHandDelta(mv'[w])], LandedOn(i)')
  <2> DEFINE f == [w \in Requests |-> OnHandDelta(mv[w])]
             g == [w \in Requests |-> OnHandDelta(mv'[w])]
             L == LandedOn(i)
  <2>1. LandedOn(i)' = L
    BY <1>1 DEF LandedOn
  <2>2. IsFiniteSet(L)
    BY FS_Subset DEF SumInv, LandedOn
  <2>3. \A w \in L : f[w] = g[w]
    BY <1>1 DEF LandedOn, OnHandDelta, PutsOnShelf, TakesFromShelf
  <2>4. buckets[i].onHand = SumFunctionOnSet(f, L)
    BY DEF SumInv, StockIsSumOfMovements
  <2> HIDE DEF f, g, L
  <2>5. SumFunctionOnSet(f, L) = SumFunctionOnSet(g, L)
    BY <2>2, <2>3, SumAgrees
  <2>6. QED BY <2>1, <2>4, <2>5 DEF g
<1>3. QED BY <1>2 DEF SumInv, StockIsSumOfMovements

(* A step in which one request goes through and changes its item by what   *)
(* its movement says.                                                      *)
LEMMA OneLands ==
  ASSUME TypeOK, TypeOK', LedgerInv, SumInv, [Next]_vars, NEW w \in Requests \ landed,
         landed' = landed \cup {w}, op'[w] = op[w],
         \A i \in Items : buckets'[i].onHand =
           IF i = op[w].item THEN buckets[i].onHand + OnHandDelta(mv'[w]) ELSE buckets[i].onHand
  PROVE  IsFiniteSet(landed') /\ StockIsSumOfMovements'
<1>1. \A v \in landed : v \in Requests /\ op'[v] = op[v] /\ mv'[v] = mv[v]
  BY LandedIsSettled
<1>2. ASSUME NEW i \in Items
      PROVE  buckets'[i].onHand
               = SumFunctionOnSet([v \in Requests |-> OnHandDelta(mv'[v])], LandedOn(i)')
  <2> DEFINE f == [v \in Requests |-> OnHandDelta(mv[v])]
             g == [v \in Requests |-> OnHandDelta(mv'[v])]
             L == LandedOn(i)
  <2>1. LandedOn(i)' = IF i = op[w].item THEN L \cup {w} ELSE L
    BY <1>1 DEF LandedOn
  <2>2. IsFiniteSet(L) /\ w \notin L
    BY FS_Subset DEF SumInv, LandedOn
  <2>3. \A v \in L : f[v] = g[v]
    BY <1>1 DEF LandedOn, OnHandDelta, PutsOnShelf, TakesFromShelf
  <2>4. buckets[i].onHand = SumFunctionOnSet(f, L)
    BY DEF SumInv, StockIsSumOfMovements
  <2>5. \A v \in L \cup {w} : g[v] \in Int
    BY <1>1 DEF LandedOn, TypeOK, OnHandDelta, Movements, MovementsOf
  <2>6. g[w] = OnHandDelta(mv'[w])
    OBVIOUS
  <2>7. g[w] \in Int /\ buckets[i].onHand \in Int
    <3>1. buckets[i].onHand \in Int
      BY DEF TypeOK, Buckets
    <3> HIDE DEF g, L
    <3>2. QED BY <2>5, <3>1
  <2> HIDE DEF f, g, L
  <2>8. SumFunctionOnSet(f, L) = SumFunctionOnSet(g, L)
    BY <2>2, <2>3, SumAgrees
  <2>9. SumFunctionOnSet(g, L \cup {w}) = g[w] + SumFunctionOnSet(g, L)
    BY <2>2, <2>5, SumAdds
  <2>10. buckets'[i].onHand = SumFunctionOnSet(g, LandedOn(i)')
    BY <2>1, <2>4, <2>6, <2>7, <2>8, <2>9
  <2>11. QED BY <2>10 DEF g
<1>3. IsFiniteSet(landed')
  BY FS_AddElement DEF SumInv
<1>4. QED BY <1>2, <1>3 DEF StockIsSumOfMovements

(* Every step keeps that, as no writer overwrites what it has not read.    *)
LEMMA SumStep ==
  ASSUME NoUnconditionalWriter
  PROVE  TypeOK /\ TypeOK' /\ LedgerInv /\ StepsOfKind /\ VersionPinsSnapshot /\ SumInv
           /\ [Next]_vars => SumInv'
<1> SUFFICES ASSUME TypeOK, TypeOK', LedgerInv, StepsOfKind, VersionPinsSnapshot, SumInv,
                    [Next]_vars
             PROVE  SumInv'
  OBVIOUS
<1> USE DEF stockVars, localVars, Goto
<1>0. \A w \in Requests : op[w] \in OperationSpace /\ op[w].item \in Items
  BY DEF TypeOK, OperationSpace
<1>1. ASSUME NEW w \in Requests, Write(w) PROVE SumInv'
  <2>1. w \notin landed
    BY <1>1 DEF Write, LedgerInv
  <2>2. CASE Accepts(snap[w], mv[w]) /\ MayWrite(w)
    <3>1. /\ landed' = landed \cup {w} /\ UNCHANGED << op, mv, life >>
          /\ buckets' = [buckets EXCEPT ![op[w].item] = Moved(snap[w], mv[w])]
      BY <1>1, <2>2 DEF Write
    <3>2. snap[w] = buckets[op[w].item] /\ life[op[w].item] = "live"
      BY <1>1, <2>2 DEF Write, MayWrite, VersionPinsSnapshot
    <3>3. Moved(snap[w], mv[w]).onHand = snap[w].onHand + OnHandDelta(mv[w])
      BY DEF Moved
    <3>4. \A i \in Items : buckets'[i].onHand =
            IF i = op[w].item THEN buckets[i].onHand + OnHandDelta(mv'[w]) ELSE buckets[i].onHand
      BY <1>0, <3>1, <3>2, <3>3 DEF TypeOK
    <3>5. AbsentIsEmpty'
      BY <3>1, <3>2, <3>4 DEF AbsentIsEmpty, SumInv
    <3>6. QED BY <2>1, <3>1, <3>4, <3>5, OneLands DEF SumInv
  <2>3. CASE ~(Accepts(snap[w], mv[w]) /\ MayWrite(w))
    <3>1. UNCHANGED << buckets, landed, life >>
      BY <1>1, <2>3 DEF Write
    <3>2. QED BY <3>1, NothingLands DEF SumInv, AbsentIsEmpty
  <2>4. QED BY <2>2, <2>3
<1>2. ASSUME NEW w \in Requests, OpenWrite(w) PROVE SumInv'
  <2> DEFINE b == OpeningBuckets(op[w])
  <2>1. w \notin landed
    BY <1>2 DEF OpenWrite, LedgerInv
  <2>2. b \in Buckets /\ b.onHand \in Nat
    BY <1>0, OpeningIsBuckets DEF Buckets
  <2>3. CASE life[op[w].item] # "absent"
    <3>1. UNCHANGED << buckets, landed, life >>
      BY <1>2, <2>3 DEF OpenWrite
    <3>2. QED BY <3>1, NothingLands DEF SumInv, AbsentIsEmpty
  <2>4. CASE life[op[w].item] = "absent"
    <3>1. /\ buckets' = [buckets EXCEPT ![op[w].item] = b]
          /\ life' = [life EXCEPT ![op[w].item] = "live"]
          /\ UNCHANGED op
      BY <1>2, <2>4 DEF OpenWrite
    <3>2. buckets[op[w].item].onHand = 0
      BY <1>0, <2>4 DEF SumInv, AbsentIsEmpty
    <3>3. \A i \in Items : buckets'[i].onHand =
            IF i = op[w].item THEN b.onHand ELSE buckets[i].onHand
      BY <1>0, <3>1 DEF TypeOK
    <3>4. AbsentIsEmpty'
      <4> HIDE DEF b
      <4>1. QED BY <1>0, <3>1, <3>3 DEF AbsentIsEmpty, SumInv, TypeOK
    <3>5. CASE b.onHand > 0
      <4>1. /\ landed' = landed \cup {w}
            /\ mv' = [mv EXCEPT ![w] =
                        [type |-> "receive", quantity |-> b.onHand, decrease |-> FALSE]]
        BY <1>2, <2>4, <3>5 DEF OpenWrite
      <4>2. OnHandDelta(mv'[w]) = b.onHand
        BY <4>1 DEF TypeOK, OnHandDelta, PutsOnShelf
      <4>3. \A i \in Items : buckets'[i].onHand =
            IF i = op[w].item THEN buckets[i].onHand + OnHandDelta(mv'[w]) ELSE buckets[i].onHand
        <5> HIDE DEF b
        <5>1. QED BY <2>2, <3>2, <3>3, <4>2
      <4>4. QED BY <2>1, <3>1, <3>4, <4>1, <4>3, OneLands DEF SumInv
    <3>6. CASE ~(b.onHand > 0)
      <4>1. b.onHand = 0
        BY <2>2, <3>6
      <4>2. UNCHANGED landed
        BY <1>2, <2>4, <3>6 DEF OpenWrite
      <4>3. \A i \in Items : buckets'[i].onHand = buckets[i].onHand
        BY <3>2, <3>3, <4>1
      <4>4. QED BY <3>4, <4>2, <4>3, NothingLands DEF SumInv
    <3>7. QED BY <3>5, <3>6
  <2>5. QED BY <2>3, <2>4
<1>3. ASSUME NEW w \in Requests, Create(w) PROVE SumInv'
  <2>1. \A i \in Items : buckets'[i].onHand = buckets[i].onHand
    BY <1>0, <1>3 DEF Create, SumInv, AbsentIsEmpty, EmptyBuckets, TypeOK
  <2>2. AbsentIsEmpty'
    BY <1>0, <1>3, <2>1 DEF Create, SumInv, AbsentIsEmpty, TypeOK
  <2>3. UNCHANGED landed
    BY <1>3 DEF Create
  <2>4. QED BY <2>1, <2>2, <2>3, NothingLands DEF SumInv
<1>4. ASSUME NEW w \in Requests, WriteIncoming(w) PROVE SumInv'
  <2>1. \A i \in Items : buckets'[i].onHand = buckets[i].onHand
    BY <1>4, IncomingIsApart
  <2>2. UNCHANGED << life, landed >>
    BY <1>4 DEF WriteIncoming
  <2>3. QED BY <2>1, <2>2, NothingLands DEF SumInv, AbsentIsEmpty
<1>5. ASSUME NEW w \in Requests, WriteDrop(w) PROVE FALSE
  BY <1>5, NoUnconditionalWriter DEF NoUnconditionalWriter, StepsOfKind, WriteDrop
<1>6. ASSUME NEW w \in Requests, Delete(w) PROVE SumInv'
  <2>1. UNCHANGED << buckets, landed >> /\ \A i \in Items : life'[i] = "absent" => life[i] = "absent"
    BY <1>0, <1>6 DEF Delete, TypeOK
  <2>2. QED BY <2>1, NothingLands DEF SumInv, AbsentIsEmpty
<1>7. ASSUME NEW w \in Requests,
             \/ Begin(w) \/ Lookup(w) \/ WriteLedger(w) \/ ReadOthers(w) \/ ChooseDelta(w)
             \/ EditRead(w) \/ EditWrite(w) \/ OpenCheck(w) \/ Crash(w)
      PROVE  SumInv'
  <2>1. UNCHANGED << buckets, life, landed >>
    BY <1>7 DEF Begin, Lookup, WriteLedger, ReadOthers, ChooseDelta, EditRead, EditWrite,
                OpenCheck, Crash
  <2>2. QED BY <2>1, NothingLands DEF SumInv, AbsentIsEmpty
<1>8. CASE UNCHANGED vars
  BY <1>8, NothingLands DEF SumInv, AbsentIsEmpty, vars
<1>9. QED
  BY <1>1, <1>2, <1>3, <1>4, <1>5, <1>6, <1>7, <1>8 DEF Next, Step

(* The stock on hand of every item is what its movements add up to, for    *)
(* any number of requests: none is lost under another, none counts twice   *)
(* (applyMovement, createItem).                                            *)
THEOREM StockAlwaysSumOfMovements ==
  ASSUME NoUnconditionalWriter PROVE Spec => []StockIsSumOfMovements
<1>1. Init => LedgerInv /\ SumInv
  <2> SUFFICES ASSUME Init PROVE SumInv
    BY DEF Init, LedgerInv
  <2>1. \A i \in Items : LandedOn(i) = {} /\ buckets[i].onHand = 0
    BY DEF Init, LandedOn, EmptyBuckets
  <2>2. QED
    BY <2>1, SumOfNone, FS_EmptySet DEF Init, SumInv, AbsentIsEmpty, StockIsSumOfMovements
<1>2. SumInv => StockIsSumOfMovements
  BY DEF SumInv
<1>3. QED
  BY <1>1, <1>2, SumStep, LedgerStep, TypeCorrect, RequestsKeepToTheirKind,
     VersionsPinSnapshots, PTL DEF Spec

-----------------------------------------------------------------------------
(* The account's rules are the rules the operations apply.                 *)
LEMMA SameRules ==
  /\ Account!EmptyBuckets = EmptyBuckets
  /\ \A b, m : /\ Account!Accepts(b, m) <=> Accepts(b, m)
               /\ Account!Moved(b, m) = Moved(b, m)
BY DEF EmptyBuckets, Accepts, Admits, NonNegative, Moved, OnHandDelta, ReservedDelta,
       DamagedDelta, IncomingDelta, ComputeAvailable, TakesFromShelf, PutsOnShelf, Corrections,
       Account!EmptyBuckets, Account!Accepts, Account!Admits, Account!NonNegative,
       Account!Moved, Account!OnHandDelta, Account!ReservedDelta, Account!DamagedDelta,
       Account!IncomingDelta, Account!ComputeAvailable, Account!TakesFromShelf,
       Account!PutsOnShelf, Account!Corrections

(* Without them, and whatever the quantities, the interleaved operations   *)
(* implement the one-at-a-time account: no movement overwrites another,    *)
(* and each is judged against the stock it changes.                        *)
OnlyConditionalWriters == NoUnconditionalWriter /\ Units = Nat \ {0}

THEOREM ImplementsAccount == ASSUME OnlyConditionalWriters PROVE Spec => AccountSpec
<1> USE DEF AccountSpec
<1>1. Init => Account!AccountInit
  BY SameRules DEF Init, Account!AccountInit
<1>2. TypeOK /\ StepsOfKind /\ VersionPinsSnapshot /\ [Next]_vars
        => [Account!AccountNext]_(Account!accountVars)
  <2> SUFFICES ASSUME TypeOK, StepsOfKind, VersionPinsSnapshot, [Next]_vars
               PROVE  Account!AccountNext \/ UNCHANGED << buckets, life >>
    BY DEF Account!accountVars
  <2> DEFINE openings ==
        {EmptyBuckets} \cup {OpeningBuckets(o) : o \in {p \in Operations : p.kind = "open"}}
  <2> USE DEF stockVars, localVars
  <2>0. \A w \in Requests : op[w].item \in Items
    BY DEF TypeOK, OperationSpace
  <2>1. ASSUME NEW w \in Requests, Create(w)
        PROVE  Account!AccountNext \/ UNCHANGED << buckets, life >>
    <3>1. CASE life[op[w].item] = "absent"
      <4>1. Account!Open(op[w].item, EmptyBuckets)
        BY <2>1, <3>1 DEF Create, Account!Open
      <4> QED BY <2>0, <4>1 DEF Account!AccountNext
    <3> QED BY <2>1, <3>1 DEF Create
  <2>2. ASSUME NEW w \in Requests, Write(w)
        PROVE  Account!AccountNext \/ UNCHANGED << buckets, life >>
    <3>1. CASE Accepts(snap[w], mv[w]) /\ MayWrite(w)
      <4>1. snap[w] = buckets[op[w].item]
        BY <2>2, <3>1 DEF VersionPinsSnapshot, Write, MayWrite
      <4>2. Account!Apply(op[w].item, mv[w])
        BY <2>2, <3>1, <4>1, SameRules DEF Write, MayWrite, Account!Apply
      <4>3. mv[w] \in Account!MovementsOf(Units)
        BY OnlyConditionalWriters
        DEF TypeOK, Movements, MovementsOf, MovementTypes, OnlyConditionalWriters,
            Account!MovementsOf, Account!MovementTypes
      <4> QED BY <2>0, <4>2, <4>3 DEF Account!AccountNext
    <3> QED BY <2>2, <3>1 DEF Write
  <2>3. ASSUME NEW w \in Requests, WriteIncoming(w)
        PROVE  Account!AccountNext \/ UNCHANGED << buckets, life >>
    <3>1. CASE MayWrite(w)
      <4>1. Account!Announce(op[w].item, op[w].quantity)
        BY <2>3, <3>1 DEF WriteIncoming, MayWrite, Account!Announce
      <4>2. op[w].quantity \in Units
        BY <2>3, InventoryConstants DEF WriteIncoming, StepsOfKind
      <4> QED BY <2>0, <4>1, <4>2 DEF Account!AccountNext
    <3> QED BY <2>3, <3>1 DEF WriteIncoming
  <2>4. ASSUME NEW w \in Requests, OpenWrite(w)
        PROVE  Account!AccountNext \/ UNCHANGED << buckets, life >>
    <3>1. CASE life[op[w].item] = "absent"
      <4>1. Account!Open(op[w].item, OpeningBuckets(op[w]))
        BY <2>4, <3>1 DEF OpenWrite, Account!Open
      <4>2. OpeningBuckets(op[w]) \in openings
        BY <2>4 DEF OpenWrite, StepsOfKind
      <4> QED BY <2>0, <4>1, <4>2 DEF Account!AccountNext
    <3> QED BY <2>4, <3>1 DEF OpenWrite
  <2>5. ASSUME NEW w \in Requests, Delete(w)
        PROVE  Account!AccountNext \/ UNCHANGED << buckets, life >>
    <3>1. CASE life[op[w].item] = "live"
      <4>1. Account!Retire(op[w].item)
        BY <2>5, <3>1 DEF Delete, Account!Retire
      <4> QED BY <2>0, <4>1 DEF Account!AccountNext
    <3> QED BY <2>5, <3>1 DEF Delete
  <2>6. ASSUME NEW w \in Requests, WriteDrop(w) PROVE FALSE
    BY <2>6, OnlyConditionalWriters
    DEF OnlyConditionalWriters, NoUnconditionalWriter, StepsOfKind, WriteDrop
  <2>7. ASSUME NEW w \in Requests,
               \/ Begin(w) \/ Lookup(w) \/ WriteLedger(w) \/ ReadOthers(w) \/ ChooseDelta(w)
               \/ EditRead(w) \/ EditWrite(w) \/ OpenCheck(w) \/ Crash(w)
        PROVE  UNCHANGED << buckets, life >>
    BY <2>7 DEF Begin, Lookup, WriteLedger, ReadOthers, ChooseDelta, EditRead,
                EditWrite, OpenCheck, Crash
  <2>8. CASE UNCHANGED vars
    BY <2>8 DEF vars
  <2> QED BY <2>1, <2>2, <2>3, <2>4, <2>5, <2>6, <2>7, <2>8 DEF Next, Step
<1> QED BY <1>1, <1>2, TypeCorrect, RequestsKeepToTheirKind, VersionsPinSnapshots,
           PTL DEF Spec, OnlyConditionalWriters, Account!AccountSpec

-----------------------------------------------------------------------------
(* Reservations.  Whatever operations do, a sweep only ever expires, a     *)
(* request never does, and an extension moves no stock.                    *)
JobsFit ==
  /\ \A a \in Actors : at[a] = "next" => a \in Sweepers
  /\ \A a \in Sweepers : job[a] = "expire" /\ at[a] # "extend"
  /\ \A a \in Callers : at[a] \in {"move", "save"} => job[a] \in {"release", "commit"}

(* The types, and that every operation is of a kind for its actor.         *)
HeldInv == ReservationTypeOK /\ JobsFit

(* What a reservation asks of the stock is a movement.                     *)
LEMMA HoldingIsMovement ==
  ASSUME NEW r \in Reservations, NEW t \in {"reserve", "release", "commit"}
  PROVE  /\ Holding(t, r) \in Movements
         /\ ReservedDelta(Holding(t, r)) = IF t = "reserve" THEN Quantity[r] ELSE -Quantity[r]
BY ReservationConstants DEF Holding, Movements, MovementsOf, MovementTypes, ReservedDelta

(* What an operation does to the stock, and the status it saves after it.  *)
LEMMA MovementForJob ==
  ASSUME HeldInv, NEW a \in Actors, at[a] \in {"move", "save"}
  PROVE  /\ MovementFor[job[a]] \in {"release", "commit"}
         /\ StatusFor[job[a]] \in {"released", "committed", "expired"}
BY DEF HeldInv, JobsFit, MovementFor, StatusFor, Actors, ReservationTypeOK

(* Every step keeps types and kinds, with them the stock above zero.       *)
LEMMA HeldStep == HeldInv /\ [ReservationNext]_reservationVars => HeldInv'
<1> SUFFICES ASSUME HeldInv, [ReservationNext]_reservationVars PROVE HeldInv'
  OBVIOUS
<1> USE ReservationConstants DEF HeldInv, ReservationTypeOK, JobsFit, Actors, Proceed, Statuses
<1>0. AnyReservation \in Reservations
  BY DEF AnyReservation
<1>1. ASSUME NEW r \in Reservations, ReserveStock(r) PROVE HeldInv'
  <2>1. stock' \in Buckets
    BY <1>1, HoldingIsMovement, MovedIsBuckets DEF ReserveStock
  <2>2. QED BY <1>1, <2>1 DEF ReserveStock
<1>2. ASSUME NEW r \in Reservations, CreateReservation(r) PROVE HeldInv'
  BY <1>2 DEF CreateReservation
<1>3. ASSUME NEW r \in Reservations, LoseReservation(r) PROVE HeldInv'
  BY <1>3 DEF LoseReservation
<1>4. ASSUME NEW r \in Reservations, ComeDue(r) PROVE HeldInv'
  BY <1>4 DEF ComeDue
<1>5. ASSUME NEW a \in Actors, NEW r \in Reservations,
             NEW j \in {"release", "commit", "extend"}, ReadActive(a, r, j)
      PROVE  HeldInv'
  BY <1>5 DEF ReadActive
<1>6. ASSUME NEW a \in Actors, SaveExtension(a) PROVE HeldInv'
  BY <1>6 DEF SaveExtension
<1>7. ASSUME NEW a \in Actors, FindDue(a) PROVE HeldInv'
  BY <1>7 DEF FindDue, DueReservations
<1>8. ASSUME NEW a \in Actors, NextDue(a) PROVE HeldInv'
  BY <1>8 DEF NextDue
<1>9. ASSUME NEW a \in Actors, MoveStock(a) PROVE HeldInv'
  <2>1. stock' \in Buckets
    BY <1>9, MovementForJob, HoldingIsMovement, MovedIsBuckets DEF MoveStock
  <2>2. QED BY <1>9, <2>1 DEF MoveStock
<1>10. ASSUME NEW a \in Actors, FailToMove(a) PROVE HeldInv'
  BY <1>0, <1>10 DEF FailToMove, Finish
<1>11. ASSUME NEW a \in Actors, SaveStatus(a) PROVE HeldInv'
  <2>1. status' \in [Reservations -> Statuses]
    BY <1>11, MovementForJob DEF SaveStatus
  <2>2. QED BY <1>0, <1>11, <2>1 DEF SaveStatus, Finish
<1>12. ASSUME NEW a \in Actors, Die(a) PROVE HeldInv'
  BY <1>12 DEF Die
<1>13. CASE UNCHANGED reservationVars
  BY <1>13 DEF reservationVars
<1>14. QED
  BY <1>1, <1>2, <1>3, <1>4, <1>5, <1>6, <1>7, <1>8, <1>9, <1>10, <1>11, <1>12, <1>13
     DEF ReservationNext

(* So they always hold.                                                    *)
LEMMA HeldAlways == ReservationSpec => []HeldInv
<1>1. ReservationInit => HeldInv
  <2>1. AnyReservation \in Reservations
    BY ReservationConstants DEF AnyReservation
  <2>2. [EmptyBuckets EXCEPT !.onHand = InitialOnHand, !.available = InitialOnHand] \in Buckets
    BY ReservationConstants DEF EmptyBuckets, Buckets
  <2>3. QED
    BY <2>1, <2>2 DEF ReservationInit, HeldInv, ReservationTypeOK, JobsFit, Actors, Statuses
<1>2. QED BY <1>1, HeldStep, PTL DEF ReservationSpec

(* Reservations keep to their types; the stock they hold and give back     *)
(* never drives a bucket below zero.                                       *)
THEOREM ReservationTypeCorrect == ReservationSpec => []ReservationTypeOK
<1>1. HeldInv => ReservationTypeOK
  BY DEF HeldInv
<1>2. QED BY <1>1, HeldAlways, PTL

(* A status is saved only after its movement, whatever overlaps or dies.   *)
BackedInv ==
  /\ StatusIsBacked
  /\ \A a \in Actors : at[a] = "save" => settled[current[a]] > 0

(* Every step keeps it: the step to save comes after the movement.         *)
LEMMA BackedStep ==
  HeldInv /\ BackedInv /\ [ReservationNext]_reservationVars => BackedInv'
<1> SUFFICES ASSUME HeldInv, BackedInv, [ReservationNext]_reservationVars PROVE BackedInv'
  OBVIOUS
<1> USE DEF HeldInv, BackedInv, StatusIsBacked, ReservationTypeOK, Actors, Proceed
<1>1. ASSUME NEW r \in Reservations,
             ReserveStock(r) \/ CreateReservation(r) \/ LoseReservation(r) \/ ComeDue(r)
      PROVE  BackedInv'
  BY <1>1 DEF ReserveStock, CreateReservation, LoseReservation, ComeDue
<1>2. ASSUME NEW a \in Actors, NEW r \in Reservations,
             NEW j \in {"release", "commit", "extend"}, ReadActive(a, r, j)
      PROVE  BackedInv'
  BY <1>2 DEF ReadActive
<1>3. ASSUME NEW a \in Actors,
             \/ SaveExtension(a) \/ FindDue(a) \/ NextDue(a) \/ FailToMove(a) \/ Die(a)
      PROVE  BackedInv'
  BY <1>3 DEF SaveExtension, FindDue, NextDue, FailToMove, Finish, Die
<1>4. ASSUME NEW a \in Actors, MoveStock(a) PROVE BackedInv'
  <2>1. \A r \in Reservations : settled'[r] >= settled[r]
    BY <1>4 DEF MoveStock
  <2>2. settled'[current[a]] > 0
    BY <1>4 DEF MoveStock
  <2>3. QED BY <1>4, <2>1, <2>2 DEF MoveStock
<1>5. ASSUME NEW a \in Actors, SaveStatus(a) PROVE BackedInv'
  BY <1>5 DEF SaveStatus, Finish
<1>6. CASE UNCHANGED reservationVars
  BY <1>6 DEF reservationVars
<1>7. QED BY <1>1, <1>2, <1>3, <1>4, <1>5, <1>6 DEF ReservationNext

(* A reservation that says its stock was given back or sold has moved that *)
(* stock, however operations on it race and wherever they die (release,    *)
(* commit, expireDue).                                                     *)
THEOREM StatusAlwaysBacked == ReservationSpec => []StatusIsBacked
<1>1. ReservationInit => BackedInv
  BY DEF ReservationInit, BackedInv, StatusIsBacked
<1>2. BackedInv => StatusIsBacked
  BY DEF BackedInv
<1>3. QED BY <1>1, <1>2, BackedStep, HeldAlways, PTL DEF ReservationSpec

-----------------------------------------------------------------------------
(* One operation at a time on a reservation, and none dying: an operation  *)
(* under way has its reservation to itself, finds it active, and settles   *)
(* it once.  A reservation that nobody handles is settled exactly when its *)
(* status says so.                                                         *)
Settling(r) == \E a \in Actors : r \in todo[a] /\ at[a] = "save" /\ current[a] = r

(* It has the reservation to itself from reading it to saving it.          *)
AloneInv ==
  Undisturbed =>
    /\ \A a, b \in Actors : todo[a] \cap todo[b] # {} => a = b
    /\ \A a \in Actors : at[a] \in {"move", "save", "extend"} => current[a] \in todo[a]
    /\ \A a \in Actors : at[a] = "idle" => todo[a] = {}
    /\ \A r \in Reservations : Handled(r) => status[r] = "active"
    /\ \A r \in Reservations : status[r] = "active" =>
         settled[r] = IF Settling(r) THEN 1 ELSE 0
    /\ \A r \in Reservations :
         making[r] # "made" => status[r] = "none" /\ settled[r] = 0

(* Every step keeps it, when operations come one after the other.          *)
LEMMA AloneStep ==
  HeldInv /\ AloneInv /\ [ReservationNext]_reservationVars => AloneInv'
<1> SUFFICES ASSUME HeldInv, AloneInv, [ReservationNext]_reservationVars, Undisturbed'
             PROVE  AloneInv'
  BY DEF AloneInv
<1>0. Undisturbed
  BY DEF Undisturbed, ReservationNext, reservationVars, ReserveStock, CreateReservation,
         LoseReservation, ComeDue, ReadActive, SaveExtension, FindDue, NextDue, MoveStock,
         FailToMove, SaveStatus, Die
<1> USE <1>0 DEF HeldInv, JobsFit, AloneInv, ReservationTypeOK, Actors, Proceed, Handled, Settling
<1>1. ASSUME NEW r \in Reservations, ReserveStock(r) \/ ComeDue(r)
      PROVE  AloneInv'
  BY <1>1 DEF ReserveStock, ComeDue
<1>2. ASSUME NEW r \in Reservations, CreateReservation(r) PROVE AloneInv'
  BY <1>2 DEF CreateReservation
<1>3. ASSUME NEW a \in Actors, NEW r \in Reservations,
             NEW j \in {"release", "commit", "extend"}, ReadActive(a, r, j)
      PROVE  AloneInv'
  BY <1>3 DEF ReadActive, Undisturbed
<1>4. ASSUME NEW a \in Actors, SaveExtension(a) PROVE AloneInv'
  BY <1>4 DEF SaveExtension
<1>5. ASSUME NEW a \in Actors, FindDue(a) PROVE AloneInv'
  BY <1>5 DEF FindDue, DueReservations, Undisturbed
<1>6. ASSUME NEW a \in Actors, NextDue(a) PROVE AloneInv'
  BY <1>6 DEF NextDue
<1>7. ASSUME NEW a \in Actors, MoveStock(a) PROVE AloneInv'
  BY <1>7 DEF MoveStock
<1>8. ASSUME NEW a \in Actors, FailToMove(a) PROVE AloneInv'
  BY <1>8 DEF FailToMove, Finish
<1>9. ASSUME NEW a \in Actors, SaveStatus(a) PROVE AloneInv'
  BY <1>9, MovementForJob DEF SaveStatus, Finish
<1>10. CASE UNCHANGED reservationVars
  BY <1>10 DEF reservationVars
<1>11. QED
  BY <1>1, <1>2, <1>3, <1>4, <1>5, <1>6, <1>7, <1>8, <1>9, <1>10
     DEF ReservationNext, LoseReservation, Die, Undisturbed

(* So it always holds.                                                     *)
LEMMA AloneAlways == ReservationSpec => []AloneInv
<1>1. ReservationInit => AloneInv
  BY DEF ReservationInit, AloneInv, Actors, Handled, Settling
<1>2. QED BY <1>1, AloneStep, HeldAlways, PTL DEF ReservationSpec

(* One operation at a time, none dying: a reservation is settled once and  *)
(* stays what it was settled as, although the save of a status has no      *)
(* condition (release, commit, expireDue).                                 *)
THEOREM SettledAlwaysFinal == ReservationSpec => SettledIsFinal
<1> DEFINE Final ==
      \A r \in Reservations :
        Undisturbed /\ status[r] \in {"committed", "released", "expired"}
          => status'[r] = status[r] /\ settled'[r] = settled[r]
<1>1. HeldInv /\ AloneInv /\ [ReservationNext]_reservationVars => [Final]_reservationVars
  <2> SUFFICES ASSUME HeldInv, AloneInv, ReservationNext, NEW r \in Reservations,
                      Undisturbed, status[r] \in {"committed", "released", "expired"}
               PROVE  status'[r] = status[r] /\ settled'[r] = settled[r]
    BY DEF reservationVars
  <2>1. making[r] = "made" /\ ~Handled(r)
    BY DEF AloneInv
  <2>2. \A a \in Actors : at[a] \in {"move", "save"} => current[a] # r
    BY <2>1 DEF AloneInv, Handled
  <2>3. ASSUME NEW a \in Actors, MoveStock(a) \/ SaveStatus(a)
        PROVE  status'[r] = status[r] /\ settled'[r] = settled[r]
    BY <2>2, <2>3 DEF MoveStock, SaveStatus, HeldInv, ReservationTypeOK
  <2>4. ASSUME NEW s \in Reservations, CreateReservation(s)
        PROVE  status'[r] = status[r] /\ settled'[r] = settled[r]
    BY <2>1, <2>4 DEF CreateReservation, HeldInv, ReservationTypeOK
  <2>5. QED
    BY <2>3, <2>4 DEF ReservationNext, ReserveStock, LoseReservation, ComeDue, ReadActive,
       SaveExtension, FindDue, NextDue, FailToMove, Die
<1>2. QED BY <1>1, HeldAlways, AloneAlways, PTL DEF ReservationSpec, SettledIsFinal

-----------------------------------------------------------------------------
(* The units of the reservations that hold stock.                          *)
Holders == {r \in Reservations : HoldsStock(r)}

(* One operation at a time: they are what is reserved of the item.         *)
HoldersInv ==
  Undisturbed =>
    /\ IsFiniteSet(Holders)
    /\ stock.reserved = SumFunctionOnSet(Quantity, Holders)

(* One reservation starts to hold its units, or lets go of them.           *)
LEMMA HoldersSum ==
  ASSUME NEW S \in SUBSET Reservations, IsFiniteSet(S), NEW r \in Reservations, r \notin S
  PROVE  /\ IsFiniteSet(S \cup {r})
         /\ SumFunctionOnSet(Quantity, S) \in Int
         /\ SumFunctionOnSet(Quantity, S \cup {r}) = Quantity[r] + SumFunctionOnSet(Quantity, S)
<1>1. \A x \in Reservations : Quantity[x] \in Int
  BY ReservationConstants
<1>2. QED BY <1>1, FS_AddElement, SumAdds, SumIsInt

(* Every step keeps it: status and stock move together, or one at a time   *)
(* while the operation has the reservation to itself.                      *)
LEMMA HoldersStep ==
  HeldInv /\ AloneInv /\ HoldersInv /\ [ReservationNext]_reservationVars => HoldersInv'
<1> SUFFICES ASSUME HeldInv, AloneInv, HoldersInv, [ReservationNext]_reservationVars, Undisturbed'
             PROVE  HoldersInv'
  BY DEF HoldersInv
<1>0. Undisturbed
  BY DEF Undisturbed, ReservationNext, reservationVars, ReserveStock, CreateReservation,
         LoseReservation, ComeDue, ReadActive, SaveExtension, FindDue, NextDue, MoveStock,
         FailToMove, SaveStatus, Die
<1>1. /\ IsFiniteSet(Holders)
      /\ stock.reserved = SumFunctionOnSet(Quantity, Holders)
  BY <1>0 DEF HoldersInv
<1>2. ASSUME Holders' = Holders, stock'.reserved = stock.reserved PROVE HoldersInv'
  BY <1>1, <1>2 DEF HoldersInv
<1> USE DEF HeldInv, ReservationTypeOK, Actors
<1>3. ASSUME NEW r \in Reservations, ReserveStock(r) PROVE HoldersInv'
  <2>1. status[r] = "none" /\ r \notin Holders
    BY <1>0, <1>3 DEF ReserveStock, AloneInv, Holders, HoldsStock
  <2>2. CASE making' = [making EXCEPT ![r] = "failed"] /\ UNCHANGED stock
    <3>1. Holders' = Holders
      BY <1>3, <2>1, <2>2 DEF ReserveStock, Holders, HoldsStock
    <3>2. QED BY <1>2, <2>2, <3>1
  <2>3. CASE stock' = Moved(stock, Holding("reserve", r)) /\ making' = [making EXCEPT ![r] = "moved"]
    <3>1. Holders' = Holders \cup {r}
      BY <1>3, <2>3 DEF ReserveStock, Holders, HoldsStock
    <3>2. stock'.reserved = stock.reserved + Quantity[r]
      BY <2>3, HoldingIsMovement DEF Moved
    <3>3. /\ IsFiniteSet(Holders \cup {r})
          /\ SumFunctionOnSet(Quantity, Holders) \in Int
          /\ SumFunctionOnSet(Quantity, Holders \cup {r})
               = Quantity[r] + SumFunctionOnSet(Quantity, Holders)
      BY <1>1, <2>1, HoldersSum DEF Holders
    <3>4. Quantity[r] \in Int
      BY ReservationConstants
    <3>5. QED BY <1>1, <3>1, <3>2, <3>3, <3>4 DEF HoldersInv
  <2>4. QED BY <1>3, <2>2, <2>3 DEF ReserveStock
<1>4. ASSUME NEW r \in Reservations, CreateReservation(r) PROVE HoldersInv'
  <2>1. settled[r] = 0
    BY <1>0, <1>4 DEF CreateReservation, AloneInv
  <2>2. Holders' = Holders
    BY <1>4, <2>1 DEF CreateReservation, Holders, HoldsStock
  <2>3. QED BY <1>2, <1>4, <2>2 DEF CreateReservation
<1>5. ASSUME NEW a \in Actors, MoveStock(a) PROVE HoldersInv'
  <2> DEFINE r == current[a]
  <2>1. r \in Reservations /\ status[r] = "active"
    BY <1>0, <1>5 DEF MoveStock, AloneInv, Handled
  <2>2. making[r] = "made" /\ settled[r] = 0
    <3>1. ~Settling(r)
      BY <1>0, <1>5 DEF MoveStock, AloneInv, Settling
    <3>2. QED BY <1>0, <2>1, <3>1 DEF AloneInv
  <2>3. r \in Holders /\ Holders' = Holders \ {r}
    BY <1>5, <2>1, <2>2 DEF MoveStock, Holders, HoldsStock
  <2>4. stock'.reserved = stock.reserved - Quantity[r]
    <3>1. MovementFor[job[a]] \in {"release", "commit"}
      BY <1>5, MovementForJob DEF MoveStock
    <3>2. stock' = Moved(stock, Holding(MovementFor[job[a]], r))
      BY <1>5 DEF MoveStock
    <3>3. ReservedDelta(Holding(MovementFor[job[a]], r)) = -Quantity[r]
      BY <2>1, <3>1, HoldingIsMovement
    <3>4. stock'.reserved = stock.reserved + ReservedDelta(Holding(MovementFor[job[a]], r))
      BY <3>2 DEF Moved
    <3>5. stock.reserved \in Int /\ Quantity[r] \in Int
      BY <2>1, ReservationConstants DEF Buckets
    <3>6. QED BY <3>3, <3>4, <3>5
  <2> DEFINE S == Holders \ {r}
  <2>5. /\ IsFiniteSet(S)
        /\ SumFunctionOnSet(Quantity, S) \in Int
        /\ SumFunctionOnSet(Quantity, Holders) = Quantity[r] + SumFunctionOnSet(Quantity, S)
    <3>1. IsFiniteSet(S) /\ S \in SUBSET Reservations /\ r \notin S /\ S \cup {r} = Holders
      BY <1>1, <2>3, FS_Subset DEF Holders
    <3> HIDE DEF S, r
    <3>2. QED BY <2>1, <3>1, HoldersSum
  <2>6. Quantity[r] \in Int
    BY <2>1, ReservationConstants
  <2>7. QED BY <1>1, <2>3, <2>4, <2>5, <2>6 DEF HoldersInv
<1>6. ASSUME NEW a \in Actors, SaveStatus(a) PROVE HoldersInv'
  <2> DEFINE r == current[a]
  <2>1. r \in Reservations /\ status[r] = "active" /\ Settling(r)
    BY <1>0, <1>6 DEF SaveStatus, AloneInv, Handled, Settling
  <2>2. settled[r] = 1 /\ making[r] = "made"
    BY <1>0, <2>1 DEF AloneInv
  <2>3. StatusFor[job[a]] # "active"
    BY <1>6, MovementForJob DEF SaveStatus
  <2>4. Holders' = Holders
    BY <1>6, <2>1, <2>2, <2>3 DEF SaveStatus, Holders, HoldsStock
  <2>5. QED BY <1>2, <1>6, <2>4 DEF SaveStatus
<1>7. ASSUME UNCHANGED << stock, making, status, settled >> PROVE HoldersInv'
  BY <1>2, <1>7 DEF Holders, HoldsStock
<1>8. QED
  BY <1>0, <1>3, <1>4, <1>5, <1>6, <1>7
     DEF ReservationNext, reservationVars, LoseReservation, ComeDue, ReadActive, SaveExtension,
         FindDue, NextDue, FailToMove, Die, Undisturbed

(* One operation at a time, none dying: the reserved bucket of the item is *)
(* exactly what the reservations that still hold stock are for; nothing    *)
(* leaks and nothing is given back twice (reserve, release, commit).       *)
THEOREM ReservedAlwaysHeld == ReservationSpec => []ReservedIsHeld
<1>1. ReservationInit => HoldersInv
  <2> SUFFICES ASSUME ReservationInit PROVE HoldersInv
    OBVIOUS
  <2>1. Holders = {} /\ stock.reserved = 0
    BY DEF ReservationInit, Holders, HoldsStock, EmptyBuckets
  <2>2. QED BY <2>1, SumOfNone, FS_EmptySet DEF HoldersInv
<1>2. HoldersInv => ReservedIsHeld
  BY DEF HoldersInv, ReservedIsHeld, Holders
<1>3. QED BY <1>1, <1>2, HoldersStep, HeldAlways, AloneAlways, PTL DEF ReservationSpec

=============================================================================
