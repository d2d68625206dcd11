------------------------------ MODULE Capture -------------------------------
(***************************************************************************)
(* What the payment service promises the order consumer, whatever          *)
(* interleaves, fails or is delivered twice: a payment is recorded as paid *)
(* only after the gateway has taken money for it, and is announced as paid *)
(* only after it was recorded.                                             *)
(***************************************************************************)
CONSTANT Payments

VARIABLES
  taken,     (* payments for which a gateway has taken money               *)
  recorded,  (* payments that were once saved as paid                      *)
  announced  (* payments with a PAYMENT_SUCCEEDED event                    *)

vars == << taken, recorded, announced >>

Init == taken = {} /\ recorded = {} /\ announced = {}

Take(p) ==
  /\ taken' = taken \cup {p}
  /\ UNCHANGED << recorded, announced >>

Record(p) ==
  /\ p \in taken
  /\ recorded' = recorded \cup {p}
  /\ UNCHANGED << taken, announced >>

Announce(p) ==
  /\ p \in recorded
  /\ announced' = announced \cup {p}
  /\ UNCHANGED << taken, recorded >>

Next == \E p \in Payments : Take(p) \/ Record(p) \/ Announce(p)

Spec == Init /\ [][Next]_vars

=============================================================================
