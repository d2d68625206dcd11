------------------------------ MODULE MCRefund -------------------------------
(***************************************************************************)
(* Instances of Refund for TLC.                                            *)
(***************************************************************************)
EXTENDS Refund, TLC

CONSTANTS a1, a2, n1, x1, x2

Under(o, c, l) == [overlap |-> o, crash |-> c, lost |-> l]

(* In turn, undisturbed; in turn, with crashes and lost answers; calls     *)
(* that overlap.                                                           *)
Mixed == {Under(FALSE, FALSE, FALSE), Under(FALSE, TRUE, TRUE), Under(TRUE, FALSE, FALSE)}


=============================================================================
