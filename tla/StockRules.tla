----------------------------- MODULE StockRules -----------------------------
(***************************************************************************)
(* The arithmetic of one inventory item (one variant in one warehouse):    *)
(* its six stock buckets, what each stock movement requires of them and    *)
(* what it does to them.  No state: every stateful module of the project   *)
(* that touches stock takes its rules from here.                           *)
(***************************************************************************)
EXTENDS Integers

MovementTypes ==
  { "receive", "reserve", "release", "commit", "adjustment", "transfer_in",
    "transfer_out", "return", "damage", "manual_correction" }

(* A requested movement.  "decrease" is the direction read out of the      *)
(* reason and the note; only the two correction types look at it.          *)
MovementsOf(units) ==
  [type : MovementTypes, quantity : units, decrease : BOOLEAN]

Movements == MovementsOf(Nat \ {0})

Buckets ==
  [onHand : Nat, available : Nat, reserved : Nat,
   incoming : Nat, damaged : Nat, returned : Nat]

ComputeAvailable(onHand, reserved, damaged) ==
  IF onHand - reserved - damaged > 0 THEN onHand - reserved - damaged ELSE 0

EmptyBuckets ==
  [onHand |-> 0, available |-> 0, reserved |-> 0,
   incoming |-> 0, damaged |-> 0, returned |-> 0]

Corrections == {"adjustment", "manual_correction"}

TakesFromShelf(m) ==
  \/ m.type = "transfer_out"
  \/ m.type \in Corrections /\ m.decrease

PutsOnShelf(m) ==
  \/ m.type \in {"receive", "transfer_in", "return"}
  \/ m.type \in Corrections /\ ~m.decrease

OnHandDelta(m) ==
  IF PutsOnShelf(m) THEN m.quantity
  ELSE IF TakesFromShelf(m) \/ m.type = "commit" THEN -m.quantity
  ELSE 0

ReservedDelta(m) ==
  IF m.type = "reserve" THEN m.quantity
  ELSE IF m.type \in {"release", "commit"} THEN -m.quantity
  ELSE 0

DamagedDelta(m) == IF m.type = "damage" THEN m.quantity ELSE 0

(* A receipt draws down what was announced as incoming, but only when the  *)
(* whole receipt was announced; otherwise incoming is left alone.          *)
IncomingDelta(b, m) ==
  IF m.type = "receive" /\ b.incoming >= m.quantity THEN -m.quantity ELSE 0

(* A faulty variant: reserving against the units on hand.                  *)
AdmitsByOnHand(b, m) ==
  /\ (m.type \in {"reserve", "damage"} \/ TakesFromShelf(m)) => b.onHand >= m.quantity
  /\ m.type \in {"release", "commit"} => b.reserved >= m.quantity
  /\ m.type = "commit" => b.onHand >= m.quantity

(* What the switch of applyMovement checks before it moves anything.       *)
Admits(b, m) ==
  /\ (m.type \in {"reserve", "damage"} \/ TakesFromShelf(m)) => b.available >= m.quantity
  /\ m.type \in {"release", "commit"} => b.reserved >= m.quantity
  /\ m.type = "commit" => b.onHand >= m.quantity

(* A faulty variant: the buckets written back with the "available" read.   *)
MovedKeepingAvailable(b, m) ==
  [b EXCEPT !.onHand = b.onHand + OnHandDelta(m),
            !.reserved = b.reserved + ReservedDelta(m),
            !.damaged = b.damaged + DamagedDelta(m),
            !.incoming = b.incoming + IncomingDelta(b, m)]

(* The buckets after the movement, "available" recomputed from the rest.   *)
Moved(b, m) ==
  LET onHand   == b.onHand + OnHandDelta(m)
      reserved == b.reserved + ReservedDelta(m)
      damaged  == b.damaged + DamagedDelta(m)
  IN [onHand    |-> onHand,
      available |-> ComputeAvailable(onHand, reserved, damaged),
      reserved  |-> reserved,
      incoming  |-> b.incoming + IncomingDelta(b, m),
      damaged   |-> damaged,
      returned  |-> b.returned + (IF m.type = "return" THEN m.quantity ELSE 0)]

NonNegative(b) == \A k \in DOMAIN b : b[k] >= 0

Accepts(b, m) == Admits(b, m) /\ NonNegative(Moved(b, m))

(* The buckets "available" is derived from never disagree with it.         *)
AvailableDerived(b) ==
  b.available = ComputeAvailable(b.onHand, b.reserved, b.damaged)

(* Every reserved or damaged unit is physically there: nothing is oversold. *)
Covered(b) == b.reserved + b.damaged <= b.onHand

=============================================================================
