-------------------------- MODULE MCReplenishment ---------------------------
(***************************************************************************)
(* Instances of Replenishment for TLC.                                     *)
(***************************************************************************)
EXTENDS Replenishment

CONSTANTS a, b

Calm == [overlap |-> FALSE, fail |-> FALSE, edit |-> FALSE]

Mixed == {Calm, [Calm EXCEPT !.overlap = TRUE], [Calm EXCEPT !.fail = TRUE],
          [Calm EXCEPT !.edit = TRUE]}

=============================================================================
