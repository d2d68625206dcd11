------------------------------- MODULE MCCart -------------------------------
(***************************************************************************)
(* Instances of Cart for TLC.                                              *)
(***************************************************************************)
EXTENDS Cart

CONSTANTS a, b, shirt, cap

Mixed == {[overlap |-> TRUE, fail |-> FALSE, bag |-> {shirt}],
          [overlap |-> FALSE, fail |-> TRUE, bag |-> {shirt, cap}]}

=============================================================================
