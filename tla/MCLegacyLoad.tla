---------------------------- MODULE MCLegacyLoad ----------------------------
(* LegacyLoad with an input that grows and shrinks, for TLC. *)
EXTENDS LegacyLoad

\* No row, rewritten as two, then as one.
Rewritten == <<0, 2, 1>>
=============================================================================
