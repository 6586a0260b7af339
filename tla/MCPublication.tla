--------------------------- MODULE MCPublication ----------------------------
(* Publication on a small database, for TLC. *)
EXTENDS Publication
=============================================================================
