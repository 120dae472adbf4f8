--------------------------- MODULE MCInventoryTx ---------------------------
(* Two sessions and a sweeper on two orders and two variants: enough for    *)
(* two transactions to lock the same rows in opposite orders, and for a     *)
(* settlement, a second settlement and an expiry of the same row.           *)
EXTENDS InventoryTx, TLC

CONSTANTS v1, v2

MCStock == v1 :> 2 @@ v2 :> 1
Symmetry == Permutations(Sessions) \cup Permutations(Orders)
=============================================================================
