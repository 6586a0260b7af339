----------------------------- MODULE MCCreation -----------------------------
(* Creation with interchangeable processes, for TLC. *)
EXTENDS Creation, TLC

Processes == Permutations(Process)
=============================================================================
