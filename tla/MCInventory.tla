---------------------------- MODULE MCInventory -----------------------------
(* Inventory with the constants of its configuration, for TLC. *)
EXTENDS Inventory
=============================================================================
