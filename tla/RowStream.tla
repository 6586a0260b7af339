----------------------------- MODULE RowStream -----------------------------
(***************************************************************************)
(* What an operator, or a whole query, promises: the rows of its answer, in  *)
(* order and once, whatever buffers, files and replays it uses.             *)
(*                                                                          *)
(* "answer" is what the input and the query determine: the rows up to the   *)
(* first whose expressions fail, whether there is one, how many rows may    *)
(* have been given when an expression fails, and whether the input has more *)
(* rows than the engine admits.  An operator may be asked once to give      *)
(* everything again.                                                        *)
(***************************************************************************)
EXTENDS Naturals, Sequences

VARIABLES
  answer,      \* [rows, fails, failAt, refused]: fixed by the input
  given,       \* the rows returned since the start or the replay
  state,       \* "open", "ended" or "failed"
  cause,       \* why it failed, or "none"
  replayed

vars == <<answer, given, state, cause, replayed>>

Init ==
  /\ given = <<>> /\ state = "open" /\ cause = "none" /\ replayed = FALSE
  /\ answer.fails \in BOOLEAN /\ answer.refused \in BOOLEAN
  /\ answer.failAt \subseteq 0 .. Len(answer.rows)

\* One step returns one batch: the next rows of the answer.
Give ==
  /\ state = "open" /\ ~answer.refused
  /\ \E n \in Len(given) + 1 .. Len(answer.rows) : given' = SubSeq(answer.rows, 1, n)
  /\ UNCHANGED <<answer, state, cause, replayed>>

End ==
  /\ state = "open" /\ given = answer.rows /\ ~answer.fails /\ ~answer.refused
  /\ state' = "ended"
  /\ UNCHANGED <<answer, given, cause, replayed>>

\* Files and cancellation may fail it at any time, the row limit only when the
\* input exceeds it, an expression where the answer says.
Fail ==
  /\ state = "open"
  /\ \/ cause' = "io"
     \/ cause' = "limit" /\ answer.refused /\ given = <<>>
     \/ cause' = "expression" /\ Len(given) \in answer.failAt
  /\ state' = "failed"
  /\ UNCHANGED <<answer, given, replayed>>

Replay ==
  /\ state # "failed" /\ ~replayed
  /\ given' = <<>> /\ state' = "open" /\ replayed' = TRUE
  /\ UNCHANGED <<answer, cause>>

Next == Give \/ End \/ Fail \/ Replay

Spec == Init /\ [][Next]_vars
=============================================================================
