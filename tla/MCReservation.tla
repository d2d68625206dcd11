--------------------------- MODULE MCReservation ----------------------------
(***************************************************************************)
(* Instances of Reservation for TLC.                                       *)
(***************************************************************************)
EXTENDS Reservation

CONSTANTS a, b, c1, c2, s1

(* One reservation of two units, the others of one.                        *)
UnitsHeld == [r \in Reservations |-> IF r = a THEN 2 ELSE 1]

Calm    == [overlap |-> FALSE, crash |-> FALSE]
Worst   == [overlap |-> TRUE, crash |-> TRUE]

CalmAndWorst == {Calm, Worst}

=============================================================================
