---------------------------- MODULE MCInventory -----------------------------
(***************************************************************************)
(* Instances of Inventory for TLC.  The menus are the operations requests  *)
(* may carry in a run.                                                     *)
(***************************************************************************)
EXTENDS Inventory, TLC

CONSTANTS main, annex, r1, r2, r3

TwoItems == {main, annex}
OneItem == {main}

Symmetry == Permutations(Requests)

(* Every kind of operation on one item, the unconditional writers included *)
MixedMenu ==
  {OpenWith(main, 2, 1, 0), Move(main, "reserve", 1), Move(main, "release", 1),
   Move(main, "commit", 1), Move(main, "damage", 1), Move(main, "return", 1),
   Move(main, "transfer_out", 1), Move(main, "receive", 1),
   BasicOperation("incoming", main, 2), BasicOperation("dropIncoming", main, 1),
   BasicOperation("edit", main, 0), BasicOperation("delete", main, 0),
   BasicOperation("setStock", main, 1)}

(* Movements and other conditional writers, over two warehouses.           *)
ConditionalMenu ==
  {OpenWith(main, 2, 1, 0), Move(main, "receive", 2), Move(main, "reserve", 1),
   Move(main, "commit", 1), Move(annex, "transfer_in", 1),
   Adjust(main, 1, "decrease", FALSE), BasicOperation("incoming", main, 2),
   BasicOperation("delete", annex, 0), BasicOperation("setStock", main, 1)}

UnitRange == 1..3

=============================================================================
