---------------------------- MODULE Reservation -----------------------------
(***************************************************************************)
(* ReservationService: stock held for a while.  Each operation is a read   *)
(* of the reservation, a stock movement and a save of the reservation's    *)
(* new status, three separate database operations with nothing between     *)
(* them that keeps another operation on the same reservation out.          *)
(*                                                                         *)
(* All reservations are on one inventory item.  A stock movement is one    *)
(* step here (module Inventory shows that it behaves as one) that either   *)
(* happens or fails; it may fail by a version conflict at any time.        *)
(*                                                                         *)
(* A behaviour takes place under one of the given circumstances: whether   *)
(* operations on one reservation may overlap, and whether processes may    *)
(* die.  The code excludes neither; its bookkeeping is exact without them. *)
(***************************************************************************)
EXTENDS StockRules, Functions

CONSTANTS
  Reservations,   (* the reservations that may be made                     *)
  Quantity,       (* reservation -> units it holds                         *)
  Callers,        (* requests that release, commit or extend; one shot     *)
  Sweepers,       (* processes running the expiry sweep                    *)
  InitialOnHand,  (* units on hand at the start                            *)
  Circumstances   (* the circumstances behaviours take place under         *)

ASSUME ReservationConstants ==
  /\ Quantity \in [Reservations -> Nat \ {0}]
  /\ InitialOnHand \in Nat
  /\ Callers \cap Sweepers = {}
  /\ Reservations # {}
  /\ Circumstances \subseteq [overlap : BOOLEAN, crash : BOOLEAN]

VARIABLES
  under,          (* the circumstances of this behaviour                   *)
  stock,          (* the item's buckets                                    *)
  making,         (* reservation -> progress of the reserve call           *)
  status,         (* reservation -> status of its document                 *)
  due,            (* reservation -> has expiresAt passed                   *)
  at,             (* actor -> where it is suspended                        *)
  job,            (* actor -> the operation it runs                        *)
  todo,           (* actor -> reservations it still has to handle          *)
  current,        (* actor -> the reservation it is handling               *)
  settled         (* reservation -> settlement movements made for it; a    *)
                  (* history variable, the code keeps it in the ledger     *)

reservationVars == << under, stock, making, status, due, at, job, todo, current, settled >>

Actors == Callers \cup Sweepers

Statuses == {"none", "active", "committed", "released", "expired"}

(* What each operation moves and the status it ends in.                    *)
MovementForUnreserved ==    \* faulty: a commit takes unreserved stock
  [release |-> "release", commit |-> "transfer_out", expire |-> "release"]
MovementFor == [release |-> "release", commit |-> "commit", expire |-> "release"]
StatusFor == [release |-> "released", commit |-> "committed", expire |-> "expired"]

Holding(t, r) == [type |-> t, quantity |-> Quantity[r], decrease |-> FALSE]

AnyReservation == CHOOSE r \in Reservations : TRUE

Proceed(a, label) == at' = [at EXCEPT ![a] = label]

ReservationInit ==
  /\ under \in Circumstances
  /\ stock = [EmptyBuckets EXCEPT !.onHand = InitialOnHand, !.available = InitialOnHand]
  /\ making  = [r \in Reservations |-> "idle"]
  /\ status  = [r \in Reservations |-> "none"]
  /\ due     = [r \in Reservations |-> FALSE]
  /\ at      = [a \in Actors |-> "idle"]
  /\ job     = [a \in Actors |-> "expire"]
  /\ todo    = [a \in Actors |-> {}]
  /\ current = [a \in Actors |-> AnyReservation]
  /\ settled = [r \in Reservations |-> 0]

-----------------------------------------------------------------------------
(* reserve: the movement, then the document.                               *)
ReserveStock(r) ==
  /\ making[r] = "idle"
  /\ \/ /\ Accepts(stock, Holding("reserve", r))
        /\ stock' = Moved(stock, Holding("reserve", r))
        /\ making' = [making EXCEPT ![r] = "moved"]
     \/ /\ making' = [making EXCEPT ![r] = "failed"]
        /\ UNCHANGED stock
  /\ UNCHANGED << under, status, due, at, job, todo, current, settled >>

CreateReservation(r) ==
  /\ making[r] = "moved"
  /\ making' = [making EXCEPT ![r] = "made"]
  /\ status' = [status EXCEPT ![r] = "active"]
  /\ UNCHANGED << under, stock, due, at, job, todo, current, settled >>

(* The reserve call dies with the stock reserved and no document.          *)
LoseReservation(r) ==
  /\ under.crash
  /\ making[r] = "moved"
  /\ making' = [making EXCEPT ![r] = "lost"]
  /\ UNCHANGED << under, stock, status, due, at, job, todo, current, settled >>

(* expiresAt passes.                                                       *)
ComeDue(r) ==
  /\ status[r] = "active" /\ ~due[r]
  /\ due' = [due EXCEPT ![r] = TRUE]
  /\ UNCHANGED << under, stock, making, status, at, job, todo, current, settled >>

-----------------------------------------------------------------------------
(* Another operation on r is under way.                                    *)
Handled(r) == \E a \in Actors : r \in todo[a]

(* release, commit and extend, the read: anything but an active            *)
(* reservation is refused, and extend refuses an expired one too.          *)
ReadActive(a, r, j) ==
  /\ at[a] = "idle"
  /\ a \in Callers
  /\ ~under.overlap => ~Handled(r)
  /\ job' = [job EXCEPT ![a] = j]
  /\ current' = [current EXCEPT ![a] = r]
  /\ IF status[r] = "active" /\ (j = "extend" => ~due[r])
     THEN /\ todo' = [todo EXCEPT ![a] = {r}]
          /\ Proceed(a, IF j = "extend" THEN "extend" ELSE "move")
     ELSE /\ Proceed(a, "failed")
          /\ UNCHANGED todo
  /\ UNCHANGED << under, stock, making, status, due, settled >>

SaveExtension(a) ==
  /\ at[a] = "extend"
  /\ due' = [due EXCEPT ![current[a]] = FALSE]
  /\ todo' = [todo EXCEPT ![a] = {}]
  /\ Proceed(a, "done")
  /\ UNCHANGED << under, stock, making, status, job, current, settled >>

(* expireDue, the find: one list, never looked at again.                   *)
DueByTimeOnly ==            \* faulty: settled reservations are found again
  {r \in Reservations : status[r] # "none" /\ due[r]}
DueComparedWrongly ==       \* faulty: expiresAt compared the wrong way round
  {r \in Reservations : status[r] = "active" /\ ~due[r]}
DueReservations == {r \in Reservations : status[r] = "active" /\ due[r]}

FindDue(a) ==
  /\ at[a] = "idle"
  /\ a \in Sweepers
  /\ DueReservations # {}
  /\ ~under.overlap => \A r \in DueReservations : ~Handled(r)
  /\ todo' = [todo EXCEPT ![a] = DueReservations]
  /\ job' = [job EXCEPT ![a] = "expire"]
  /\ Proceed(a, "next")
  /\ UNCHANGED << under, stock, making, status, due, current, settled >>

NextDue(a) ==
  /\ at[a] = "next"
  /\ \/ \E r \in todo[a] :
          /\ current' = [current EXCEPT ![a] = r]
          /\ Proceed(a, "move")
     \/ /\ todo[a] = {}
        /\ Proceed(a, "idle")
        /\ UNCHANGED current
  /\ UNCHANGED << under, stock, making, status, due, job, todo, settled >>

(* A caller is finished; the sweep goes on to the next one on its list.    *)
Finish(a, outcome) ==
  /\ todo' = [todo EXCEPT ![a] = todo[a] \ {current[a]}]
  /\ current' = [current EXCEPT ![a] = AnyReservation]
  /\ Proceed(a, IF a \in Sweepers THEN "next" ELSE outcome)

(* A faulty variant: the status is saved although the movement failed.     *)
FailToMoveIgnored(a) ==
  /\ at[a] = "move"
  /\ Proceed(a, "save")
  /\ UNCHANGED << under, stock, making, status, due, job, todo, current, settled >>

(* The movement, on the stock as it is by then.                            *)
MoveStock(a) ==
  LET r == current[a]
      m == Holding(MovementFor[job[a]], r)
  IN
  /\ at[a] = "move"
  /\ Accepts(stock, m)
  /\ stock' = Moved(stock, m)
  /\ settled' = [settled EXCEPT ![r] = settled[r] + 1]
  /\ Proceed(a, "save")
  /\ UNCHANGED << under, making, status, due, job, todo, current >>

(* It is refused, or loses a version race.  The sweep notes the error.     *)
FailToMove(a) ==
  /\ at[a] = "move"
  /\ Finish(a, "failed")
  /\ UNCHANGED << under, stock, making, status, due, job, settled >>

(* The save writes the status whatever the document holds by now.          *)
SaveStatus(a) ==
  /\ at[a] = "save"
  /\ status' = [status EXCEPT ![current[a]] = StatusFor[job[a]]]
  /\ Finish(a, "done")
  /\ UNCHANGED << under, stock, making, due, job, settled >>

Die(a) ==
  /\ under.crash
  /\ at[a] \in {"move", "save", "extend", "next"}
  /\ todo' = [todo EXCEPT ![a] = {}]
  /\ Proceed(a, IF a \in Sweepers THEN "idle" ELSE "crashed")
  /\ UNCHANGED << under, stock, making, status, due, job, current, settled >>

-----------------------------------------------------------------------------
ReservationNext ==
  \/ \E r \in Reservations :
       ReserveStock(r) \/ CreateReservation(r) \/ LoseReservation(r) \/ ComeDue(r)
  \/ \E a \in Actors :
       \/ \E r \in Reservations, j \in {"release", "commit", "extend"} : ReadActive(a, r, j)
       \/ SaveExtension(a) \/ FindDue(a) \/ NextDue(a)
       \/ MoveStock(a) \/ FailToMove(a) \/ SaveStatus(a) \/ Die(a)

ReservationSpec == ReservationInit /\ [][ReservationNext]_reservationVars

(* The sweep runs every minute, the server finishes what it has begun, and *)
(* a movement that is tried again and again does not lose every race.      *)
Fairness ==
  /\ \A a \in Sweepers :
       /\ WF_reservationVars(FindDue(a))
       /\ WF_reservationVars(NextDue(a))
       /\ WF_reservationVars(SaveStatus(a))
  /\ \A a \in Sweepers : \A r \in Reservations :
       SF_reservationVars(MoveStock(a) /\ current[a] = r)
  /\ \A a \in Sweepers : \A r \in Reservations :
       SF_reservationVars(NextDue(a) /\ current'[a] = r /\ at'[a] = "move")
  /\ \A a \in Callers : WF_reservationVars(SaveExtension(a)) /\ WF_reservationVars(SaveStatus(a))
  /\ \A a \in Callers : WF_reservationVars(MoveStock(a) \/ FailToMove(a))

FairSpec == ReservationSpec /\ Fairness

-----------------------------------------------------------------------------
ReservationTypeOK ==
  /\ under   \in Circumstances
  /\ stock   \in Buckets
  /\ making  \in [Reservations -> {"idle", "moved", "made", "failed", "lost"}]
  /\ status  \in [Reservations -> Statuses]
  /\ due     \in [Reservations -> BOOLEAN]
  /\ at      \in [Actors -> {"idle", "next", "move", "save", "extend", "done", "failed", "crashed"}]
  /\ job     \in [Actors -> {"release", "commit", "extend", "expire"}]
  /\ todo    \in [Actors -> SUBSET Reservations]
  /\ current \in [Actors -> Reservations]
  /\ settled \in [Reservations -> Nat]

(* A reservation whose document says its stock was given back or sold has  *)
(* really moved that stock: the status is never saved ahead of, or         *)
(* without, a movement, also when operations race or die.                  *)
StatusIsBacked ==
  \A r \in Reservations :
    status[r] \in {"committed", "released", "expired"} => settled[r] > 0

(* When operations neither overlap nor die, the reserved bucket is exactly *)
(* the units of the reservations that still hold stock.                    *)
Undisturbed == ~under.overlap /\ ~under.crash

HoldsStock(r) ==
  \/ making[r] = "moved"
  \/ status[r] = "active" /\ settled[r] = 0

ReservedIsHeld ==
  Undisturbed =>
    stock.reserved = SumFunctionOnSet(Quantity, {r \in Reservations : HoldsStock(r)})

(* ... and a settled reservation is settled once and stays what it was     *)
(* settled as.                                                             *)
SettledIsFinal ==
  [][\A r \in Reservations :
       Undisturbed /\ status[r] \in {"committed", "released", "expired"}
         => status'[r] = status[r] /\ settled'[r] = settled[r]]_reservationVars

(* ... and a reservation that has expired and is not extended does not     *)
(* keep its stock for ever.                                                *)
DueIsSettled ==
  \A r \in Reservations :
    (Undisturbed /\ status[r] = "active" /\ due[r]) ~> (status[r] # "active" \/ ~due[r])

=============================================================================
