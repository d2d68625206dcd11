-------------------------- MODULE MCOrderLifecycle ---------------------------
(***************************************************************************)
(* Instances of OrderLifecycle for TLC.                                    *)
(***************************************************************************)
EXTENDS OrderLifecycle, TLC

CONSTANTS r1, r2, w1, w2, none

InTransit == {"in transit"}
Delivered == {"deliver", "delivered"}
OnHold == {}

(* A courier that tells of a parcel held up or on its way, and then of its *)
(* delivery.                                                               *)
Courier == << {OnHold, InTransit}, {Delivered} >>

Mixed ==
  {[overlap |-> FALSE, crash |-> FALSE], [overlap |-> FALSE, crash |-> TRUE],
   [overlap |-> TRUE, crash |-> FALSE]}

=============================================================================
