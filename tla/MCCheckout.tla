----------------------------- MODULE MCCheckout -----------------------------
(***************************************************************************)
(* Instances of Checkout for TLC.                                          *)
(***************************************************************************)
EXTENDS Checkout

CONSTANTS a, b

Calm == [overlap |-> FALSE, short |-> FALSE, crash |-> FALSE]
Overlapping == [overlap |-> TRUE, short |-> FALSE, crash |-> FALSE]
Failing == [overlap |-> FALSE, short |-> TRUE, crash |-> TRUE]

Mixed == {Calm, Overlapping, Failing}

=============================================================================
