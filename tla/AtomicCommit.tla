---------------------------- MODULE AtomicCommit ----------------------------
(***************************************************************************)
(* What the storage engine promises its callers about publication attempts, *)
(* with no file, root or fence: every attempt ends in exactly one way, and  *)
(* the committed ones form one sequence of generations.                     *)
(*                                                                          *)
(* The variable is what callers can know: an attempt is unknown until its   *)
(* token is exposed (TransactionId, docs/architecture.md), then pending,    *)
(* then durable with a generation, or aborted.                              *)
(***************************************************************************)
EXTENDS Naturals, FiniteSets

CONSTANTS MaxIssued, MaxSuccesses

VARIABLE outcome

Attempt == 1 .. MaxIssued

Unknown == [status |-> "unknown", gen |-> 0]
Pending == [status |-> "pending", gen |-> 0]
Aborted == [status |-> "aborted", gen |-> 0]
Durable(g) == [status |-> "durable", gen |-> g]

With(o) == {a \in Attempt : outcome[a] = o}

Committed == {a \in Attempt : outcome[a].status = "durable"}

\* Attempt numbers are handed out in order: the known ones are a prefix.
FirstUnknown == MaxIssued - Cardinality(With(Unknown)) + 1

NextGeneration == Cardinality(Committed) + 1

Init == outcome = [a \in Attempt |-> Unknown]

\* One attempt at a time: a token is exposed only when every earlier one ended.
Issue ==
  /\ With(Pending) = {}
  /\ FirstUnknown \in Attempt
  /\ outcome' = [outcome EXCEPT ![FirstUnknown] = Pending]

Commit(a) ==
  /\ outcome[a] = Pending
  /\ NextGeneration <= MaxSuccesses
  /\ outcome' = [outcome EXCEPT ![a] = Durable(NextGeneration)]

Abort(a) ==
  /\ outcome[a] = Pending
  /\ outcome' = [outcome EXCEPT ![a] = Aborted]

\* A failed issuance may have consumed a number no caller was told: reopening
\* the database shows it as aborted, ending a pending attempt on the way.
Consume ==
  /\ With(Pending) = {}
  /\ FirstUnknown \in Attempt
  /\ outcome' = [outcome EXCEPT ![FirstUnknown] = Aborted]

Next ==
  \/ Issue
  \/ \E a \in Attempt : Commit(a) \/ Abort(a)
  \/ Consume

Spec == Init /\ [][Next]_outcome
=============================================================================
