----------------------------- MODULE MCScratch ------------------------------
(* Scratch with three operations, for TLC. *)
EXTENDS Scratch
=============================================================================
