----------------------------- MODULE Inventory ------------------------------
(***************************************************************************)
(* InventoryService: HTTP requests and background jobs that run one stock  *)
(* operation each, interleaved at every await.  An operation reads an item *)
(* document, decides in memory, and writes the whole set of buckets back   *)
(* with findOneAndUpdate conditioned on the version it read; the ledger    *)
(* row is a second, separate write.  Two operations write without that     *)
(* condition: updateItem and the incoming correction of a cancelled        *)
(* purchase order.                                                         *)
(*                                                                         *)
(* All items are the items of one variant in the different warehouses.     *)
(***************************************************************************)
EXTENDS StockRules, FiniteSets, Functions

CONSTANTS
  Items,          (* warehouses holding the variant                        *)
  DefaultItem,    (* the item of the default warehouse                     *)
  Requests,       (* the requests; each carries one operation              *)
  Operations,     (* the operations the requests may carry                 *)
  Units           (* quantities movements come in                          *)

VARIABLES
  buckets,        (* item -> its stock buckets                             *)
  version,        (* item -> the optimistic-concurrency version            *)
  life,           (* item -> "absent", "live" or "deleted" (soft delete)   *)
  pc,             (* request -> where it is suspended                      *)
  op,             (* request -> the operation it carries                   *)
  snap,           (* request -> the buckets it last read                   *)
  seen,           (* request -> the version it last read                   *)
  others,         (* request -> units seen in the other warehouses         *)
  mv,             (* request -> the movement it applies                    *)
  landed,         (* requests whose bucket write went through              *)
  ledger          (* requests whose stock_movements row was inserted       *)

stockVars == << buckets, version, life >>
localVars == << op, snap, seen, others, mv >>
vars == << buckets, version, life, pc, op, snap, seen, others, mv, landed, ledger >>

-----------------------------------------------------------------------------
(* Operations.  One record shape for all kinds; fields a kind does not use *)
(* are fixed.  reason is the direction the reason string starts with;      *)
(* noteDecrease says the free-text note contains the word "decrease".      *)

OperationSpace ==
  [kind : {"move", "setStock", "incoming", "edit", "dropIncoming", "delete", "open"},
   item : Items, type : MovementTypes, quantity : Nat,
   reason : {"increase", "decrease"}, noteDecrease : BOOLEAN,
   reserved : Nat, damaged : Nat]

BasicOperation(kind, i, q) ==
  [kind |-> kind, item |-> i, type |-> "receive", quantity |-> q,
   reason |-> "increase", noteDecrease |-> FALSE, reserved |-> 0, damaged |-> 0]

Move(i, t, q) == [BasicOperation("move", i, q) EXCEPT !.type = t]

Adjust(i, q, direction, noteDecrease) ==
  [Move(i, "adjustment", q) EXCEPT !.reason = direction, !.noteDecrease = noteDecrease]

OpenWith(i, onHand, reserved, damaged) ==
  [BasicOperation("open", i, onHand) EXCEPT !.reserved = reserved, !.damaged = damaged]

NoOperation == BasicOperation("delete", DefaultItem, 0)

ASSUME InventoryConstants ==
  /\ IsFiniteSet(Items)
  /\ DefaultItem \in Items
  /\ Operations \subseteq OperationSpace
  /\ Units \subseteq Nat \ {0}
  /\ \A o \in Operations : o.kind \in {"move", "incoming", "dropIncoming"} => o.quantity \in Units
  /\ \A o \in Operations : o.kind = "setStock" => o.item = DefaultItem

(* The direction convention of adjustments and manual corrections.         *)
MovementOf(o) ==
  [type |-> o.type, quantity |-> o.quantity,
   decrease |-> o.reason = "decrease" \/ o.noteDecrease]

Correction(q, decrease) ==
  [type |-> "adjustment", quantity |-> q, decrease |-> decrease]

(* The incoming and returned counts an item may also be opened with take   *)
(* part in no check; they start at 0 here.                                 *)
OpeningBuckets(o) ==
  [onHand   |-> o.quantity, reserved |-> o.reserved, damaged |-> o.damaged,
   available |-> ComputeAvailable(o.quantity, o.reserved, o.damaged),
   incoming |-> 0, returned |-> 0]

-----------------------------------------------------------------------------
FirstStep ==
  [move |-> "lookup", setStock |-> "readOthers", incoming |-> "lookup",
   edit |-> "editRead", dropIncoming |-> "lookup", delete |-> "deleting",
   open |-> "openCheck"]

AfterLookup(w) ==
  IF pc[w] \in {"setLookup", "setCreate"} THEN "choose"
  ELSE IF op[w].kind = "incoming" THEN "writeIncoming"
  ELSE IF op[w].kind = "dropIncoming" THEN "writeDrop"
  ELSE "write"

Goto(w, label) == pc' = [pc EXCEPT ![w] = label]

Init ==
  /\ buckets = [i \in Items |-> EmptyBuckets]
  /\ version = [i \in Items |-> 0]
  /\ life    = [i \in Items |-> "absent"]
  /\ pc      = [w \in Requests |-> "idle"]
  /\ op      = [w \in Requests |-> NoOperation]
  /\ snap    = [w \in Requests |-> EmptyBuckets]
  /\ seen    = [w \in Requests |-> 0]
  /\ others  = [w \in Requests |-> 0]
  /\ mv      = [w \in Requests |-> Correction(1, FALSE)]
  /\ landed  = {}
  /\ ledger  = {}

(* A request arrives.  Zod has already rejected quantities that are not    *)
(* positive integers.                                                      *)
Begin(w) ==
  /\ pc[w] = "idle"
  /\ \E o \in Operations :
       /\ op' = [op EXCEPT ![w] = o]
       /\ mv' = IF o.kind = "move" THEN [mv EXCEPT ![w] = MovementOf(o)] ELSE mv
       /\ Goto(w, FirstStep[o.kind])
  /\ UNCHANGED << stockVars, snap, seen, others, landed, ledger >>

(* getOrCreateItem, the read.                                              *)
Lookup(w) ==
  LET i == op[w].item IN
  /\ pc[w] \in {"lookup", "setLookup"}
  /\ \/ /\ life[i] = "live"
        /\ snap' = [snap EXCEPT ![w] = buckets[i]]
        /\ seen' = [seen EXCEPT ![w] = version[i]]
        /\ Goto(w, AfterLookup(w))
     \/ /\ life[i] # "live"
        /\ Goto(w, IF pc[w] = "lookup" THEN "create" ELSE "setCreate")
        /\ UNCHANGED << snap, seen >>
  /\ UNCHANGED << stockVars, op, others, mv, landed, ledger >>

(* getOrCreateItem, the insert.  The unique index on warehouse and variant *)
(* also covers soft-deleted rows, so the insert fails for those, and for a *)
(* row another request inserted meanwhile.                                 *)
Create(w) ==
  LET i == op[w].item IN
  /\ pc[w] \in {"create", "setCreate"}
  /\ \/ /\ life[i] = "absent"
        /\ life'    = [life EXCEPT ![i] = "live"]
        /\ version' = [version EXCEPT ![i] = 1]
        /\ buckets' = [buckets EXCEPT ![i] = EmptyBuckets]
        /\ snap'    = [snap EXCEPT ![w] = EmptyBuckets]
        /\ seen'    = [seen EXCEPT ![w] = 1]
        /\ Goto(w, AfterLookup(w))
     \/ /\ life[i] # "absent"
        /\ Goto(w, "failed")
        /\ UNCHANGED << stockVars, snap, seen >>
  /\ UNCHANGED << op, others, mv, landed, ledger >>

-----------------------------------------------------------------------------
(* applyMovement: the checks on the snapshot, then the conditional write.  *)
(* A rejected movement and a version conflict both fail the request.       *)

(* Faulty variants: a filter without isDeleted, one without the version.   *)
MayWriteDeleted(w) == version[op[w].item] = seen[w]

MayWriteAnyVersion(w) == life[op[w].item] = "live"

MayWrite(w) ==
  /\ life[op[w].item] = "live"
  /\ version[op[w].item] = seen[w]

(* A faulty variant: the ledger row is written without looking at whether  *)
(* the conditional write matched the item.                                 *)
WriteUnconfirmed(w) ==
  LET i == op[w].item IN
  /\ pc[w] = "write"
  /\ Goto(w, "ledger")
  /\ IF Accepts(snap[w], mv[w]) /\ MayWrite(w)
     THEN /\ buckets' = [buckets EXCEPT ![i] = Moved(snap[w], mv[w])]
          /\ version' = [version EXCEPT ![i] = seen[w] + 1]
          /\ landed'  = landed \cup {w}
     ELSE UNCHANGED << buckets, version, landed >>
  /\ UNCHANGED << life, localVars, ledger >>

Write(w) ==
  LET i == op[w].item IN
  /\ pc[w] = "write"
  /\ \/ /\ Accepts(snap[w], mv[w])
        /\ MayWrite(w)
        /\ buckets' = [buckets EXCEPT ![i] = Moved(snap[w], mv[w])]
        /\ version' = [version EXCEPT ![i] = seen[w] + 1]
        /\ landed'  = landed \cup {w}
        /\ Goto(w, "ledger")
     \/ /\ ~(Accepts(snap[w], mv[w]) /\ MayWrite(w))
        /\ Goto(w, "failed")
        /\ UNCHANGED << buckets, version, landed >>
  /\ UNCHANGED << life, localVars, ledger >>

WriteLedger(w) ==
  /\ pc[w] = "ledger"
  /\ ledger' = ledger \cup {w}
  /\ Goto(w, "done")
  /\ UNCHANGED << stockVars, localVars, landed >>

(* addIncoming: a conditional $inc of incoming; no ledger row.             *)
WriteIncoming(w) ==
  LET i == op[w].item IN
  /\ pc[w] = "writeIncoming"
  /\ \/ /\ MayWrite(w)
        /\ buckets' = [buckets EXCEPT ![i].incoming = buckets[i].incoming + op[w].quantity]
        /\ version' = [version EXCEPT ![i] = version[i] + 1]
        /\ Goto(w, "done")
     \/ /\ ~MayWrite(w)
        /\ Goto(w, "failed")
        /\ UNCHANGED << buckets, version >>
  /\ UNCHANGED << life, localVars, landed, ledger >>

-----------------------------------------------------------------------------
(* setStockQuantity: the delta is computed from one read of the stock and  *)
(* applied by applyMovement to another.                                    *)

ReadOthers(w) ==
  LET elsewhere == {i \in Items \ {DefaultItem} : life[i] = "live"}
      units     == SumFunctionOnSet([i \in Items |-> buckets[i].onHand], elsewhere)
  IN
  /\ pc[w] = "readOthers"
  /\ others' = [others EXCEPT ![w] = units]
  /\ Goto(w, IF units > op[w].quantity THEN "failed" ELSE "setLookup")
  /\ UNCHANGED << stockVars, op, snap, seen, mv, landed, ledger >>

ChooseDelta(w) ==
  LET target  == op[w].quantity - others[w]
      current == snap[w].onHand
  IN
  /\ pc[w] = "choose"
  /\ \/ /\ target = current
        /\ Goto(w, "done")
        /\ UNCHANGED mv
     \/ /\ target > current
        /\ mv' = [mv EXCEPT ![w] = Correction(target - current, FALSE)]
        /\ Goto(w, "lookup")
     \/ /\ target < current
        /\ snap[w].available >= current - target
        /\ mv' = [mv EXCEPT ![w] = Correction(current - target, TRUE)]
        /\ Goto(w, "lookup")
     \/ /\ target < current
        /\ snap[w].available < current - target
        /\ Goto(w, "failed")
        /\ UNCHANGED mv
  /\ UNCHANGED << stockVars, op, snap, seen, others, landed, ledger >>

-----------------------------------------------------------------------------
(* The two writers that set the version from a stale read, unconditionally *)

(* updateItem: edits of thresholds and cost; the buckets are not written.  *)
EditRead(w) ==
  LET i == op[w].item IN
  /\ pc[w] = "editRead"
  /\ \/ /\ life[i] = "live"
        /\ seen' = [seen EXCEPT ![w] = version[i]]
        /\ Goto(w, "editWrite")
     \/ /\ life[i] # "live"
        /\ Goto(w, "failed")
        /\ UNCHANGED seen
  /\ UNCHANGED << stockVars, op, snap, others, mv, landed, ledger >>

EditWrite(w) ==
  LET i == op[w].item IN
  /\ pc[w] = "editWrite"
  /\ version' = IF life[i] = "live" THEN [version EXCEPT ![i] = seen[w] + 1] ELSE version
  /\ Goto(w, "done")
  /\ UNCHANGED << buckets, life, localVars, landed, ledger >>

(* Cancelling a purchase order takes its outstanding units off incoming    *)
(* with a plain save of the document it read.                              *)
WriteDrop(w) ==
  LET i      == op[w].item
      reduce == IF snap[w].incoming < op[w].quantity THEN snap[w].incoming ELSE op[w].quantity
  IN
  /\ pc[w] = "writeDrop"
  /\ IF reduce > 0
     THEN /\ buckets' = [buckets EXCEPT ![i].incoming = snap[w].incoming - reduce]
          /\ version' = [version EXCEPT ![i] = seen[w] + 1]
     ELSE UNCHANGED << buckets, version >>
  /\ Goto(w, "done")
  /\ UNCHANGED << life, localVars, landed, ledger >>

-----------------------------------------------------------------------------
(* bulkDelete of one item: a soft delete, whatever the item holds.         *)
Delete(w) ==
  LET i == op[w].item IN
  /\ pc[w] = "deleting"
  /\ life' = IF life[i] = "live" THEN [life EXCEPT ![i] = "deleted"] ELSE life
  /\ Goto(w, "done")
  /\ UNCHANGED << buckets, version, localVars, landed, ledger >>

(* createItem: an item opened by staff with a balance.                     *)
OpenCheck(w) ==
  /\ pc[w] = "openCheck"
  /\ Goto(w, IF life[op[w].item] = "live" THEN "failed" ELSE "openWrite")
  /\ UNCHANGED << stockVars, localVars, landed, ledger >>

OpenWrite(w) ==
  LET i == op[w].item
      b == OpeningBuckets(op[w])
  IN
  /\ pc[w] = "openWrite"
  /\ \/ /\ life[i] = "absent"
        /\ life'    = [life EXCEPT ![i] = "live"]
        /\ version' = [version EXCEPT ![i] = 1]
        /\ buckets' = [buckets EXCEPT ![i] = b]
        /\ IF b.onHand > 0
           THEN /\ mv' = [mv EXCEPT ![w] =
                            [type |-> "receive", quantity |-> b.onHand, decrease |-> FALSE]]
                /\ landed' = landed \cup {w}
                /\ Goto(w, "ledger")
           ELSE /\ Goto(w, "done")
                /\ UNCHANGED << mv, landed >>
     \/ /\ life[i] # "absent"
        /\ Goto(w, "failed")
        /\ UNCHANGED << stockVars, mv, landed >>
  /\ UNCHANGED << op, snap, seen, others, ledger >>

(* The process serving the request dies, or its database connection does.  *)
Crash(w) ==
  /\ pc[w] \notin {"idle", "done", "failed", "crashed"}
  /\ Goto(w, "crashed")
  /\ UNCHANGED << stockVars, localVars, landed, ledger >>

-----------------------------------------------------------------------------
Step(w) ==
  \/ Lookup(w) \/ Create(w) \/ Write(w) \/ WriteLedger(w) \/ WriteIncoming(w)
  \/ ReadOthers(w) \/ ChooseDelta(w)
  \/ EditRead(w) \/ EditWrite(w) \/ WriteDrop(w)
  \/ Delete(w) \/ OpenCheck(w) \/ OpenWrite(w)

Next == \E w \in Requests : Begin(w) \/ Step(w) \/ Crash(w)

Spec == Init /\ [][Next]_vars

-----------------------------------------------------------------------------
Labels ==
  { "idle", "lookup", "setLookup", "create", "setCreate", "write", "ledger",
    "writeIncoming", "readOthers", "choose", "editRead", "editWrite",
    "writeDrop", "deleting", "openCheck", "openWrite", "done", "failed", "crashed" }

(* Type correctness.  The bucket counts are natural numbers: no movement,  *)
(* whatever it raced with, drives a stock bucket below zero.               *)
TypeOK ==
  /\ buckets \in [Items -> Buckets]
  /\ version \in [Items -> Nat]
  /\ life    \in [Items -> {"absent", "live", "deleted"}]
  /\ pc      \in [Requests -> Labels]
  /\ op      \in [Requests -> OperationSpace]
  /\ snap    \in [Requests -> Buckets]
  /\ seen    \in [Requests -> Nat]
  /\ others  \in [Requests -> Nat]
  /\ mv      \in [Requests -> Movements]
  /\ landed  \subseteq Requests
  /\ ledger  \subseteq Requests

-----------------------------------------------------------------------------
(* Every item's "available" is what its other buckets say it is, however   *)
(* reads and writes of concurrent operations interleave: each write stores *)
(* a complete set of buckets derived from one coherent read.               *)
AvailableAgrees == \A i \in Items : AvailableDerived(buckets[i])

(* No unit is promised twice: reserved and damaged units never exceed the  *)
(* units on hand (docs/15: a reservation cannot exceed available).         *)
NoOversell == \A i \in Items : Covered(buckets[i])

(* Stock of a soft-deleted item is frozen: an operation that read the item *)
(* before bulkDelete cannot change its stock afterwards.                   *)
DeletedStockFrozen ==
  [][\A i \in Items : life[i] = "deleted" =>
       \A k \in {"onHand", "available", "reserved", "damaged", "returned"} :
         buckets'[i][k] = buckets[i][k]]_vars

(* Stock on hand is exactly what the movements that went through add up    *)
(* to: no movement is lost under another, none is applied twice.           *)
LandedOn(i) == {w \in landed : op[w].item = i}

StockIsSumOfMovements ==
  \A i \in Items :
    buckets[i].onHand = SumFunctionOnSet([w \in Requests |-> OnHandDelta(mv[w])], LandedOn(i))

(* The movement history is complete once the operations are over: a        *)
(* movement that changed the stock has its row, unless its request died    *)
(* between the two writes; and no row exists without its stock change.     *)
LedgerComplete ==
  /\ ledger \subseteq landed
  /\ \A w \in landed \ ledger : pc[w] \in {"ledger", "crashed"}

(* The interleaved operations implement the one-at-a-time account, as long *)
(* as no operation writes the version unconditionally.                     *)
Account == INSTANCE StockAccount WITH
  stock <- buckets,
  Openings <- {EmptyBuckets} \cup {OpeningBuckets(o) : o \in {p \in Operations : p.kind = "open"}}

AccountSpec == Account!AccountSpec

-----------------------------------------------------------------------------
(* Inductive strengthenings of the above, used by the proofs.              *)

(* What a request read was as coherent as what is stored.                  *)
DerivedInv ==
  /\ AvailableAgrees
  /\ \A w \in Requests : AvailableDerived(snap[w])

CoveredInv ==
  /\ NoOversell
  /\ \A w \in Requests : Covered(snap[w])

(* A request only ever runs the steps of the operation it carries.         *)
StepsOfKind ==
  \A w \in Requests :
    /\ pc[w] # "idle" => op[w] \in Operations
    /\ pc[w] \in {"editRead", "editWrite"} => op[w].kind = "edit"
    /\ pc[w] = "writeDrop" => op[w].kind = "dropIncoming"
    /\ pc[w] = "writeIncoming" => op[w].kind = "incoming"
    /\ pc[w] \in {"openCheck", "openWrite"} => op[w].kind = "open"

(* Without unconditional writers a version stands for one set of buckets.  *)
VersionPinsSnapshot ==
  \A w \in Requests :
    pc[w] = "write" =>
      /\ life[op[w].item] # "absent"
      /\ seen[w] <= version[op[w].item]
      /\ seen[w] = version[op[w].item] => snap[w] = buckets[op[w].item]

=============================================================================
