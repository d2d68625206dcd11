------------------------- MODULE MCOrderFulfilment --------------------------
(***************************************************************************)
(* Instances of OrderFulfilment for TLC.                                   *)
(***************************************************************************)
EXTENDS OrderFulfilment, TLC

CONSTANTS p1, p2, p3, c1, c2, h1, h2, o1, o2, o3, l1, l2

(* p1 and p2 pay for the same checkout; p3, the newest, for another.       *)
PaysFor == [p \in Payments |-> IF p = p3 THEN c2 ELSE c1]
Age == [p \in Payments |-> CASE p = p1 -> 1 [] p = p2 -> 2 [] OTHER -> 3]

OrderSymmetry == Permutations(OrderIds)
RaceSymmetry == Permutations(OrderIds) \cup Permutations(Handlers)

=============================================================================
