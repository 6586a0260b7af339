----------------------------- MODULE MCAccounts -----------------------------
(* Accounts with three calls at a time, for TLC. *)
EXTENDS Accounts, TLC

Handles == Permutations(Handle)
=============================================================================
