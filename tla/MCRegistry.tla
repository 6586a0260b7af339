---------------------------- MODULE MCRegistry ------------------------------
(* The registry with a few interchangeable threads, for TLC. *)
EXTENDS Registry, TLC

Threads == Permutations(Thread)
=============================================================================
