------------------------- MODULE MCProductionOrders -------------------------
(* Small instances of ProductionOrders for TLC. *)
EXTENDS ProductionOrders, TLC

Quantities == {-1, 1}
Symmetry == Permutations(Order) \union Permutations(Request) \union Permutations(StaffKey)
=============================================================================
