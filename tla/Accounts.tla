------------------------------ MODULE Accounts ------------------------------
(***************************************************************************)
(* The shared resource account of src/src/resources.rs: threads charge it   *)
(* with a bounded compare-and-exchange loop, and reservations return what   *)
(* they hold, move bytes between each other, or pass part of them on.       *)
(* MemoryAuthority and TemporaryAuthority run the same loop.                *)
(*                                                                          *)
(* A reservation is changed by its owner alone, so each of its operations   *)
(* is one step; only the shared total is read and exchanged in two.         *)
(***************************************************************************)
EXTENDS Naturals, FiniteSetsExt

CONSTANTS
  Handle,         \* calls to reserve, and the reservations they return
  MaxWord,        \* stands for u64::MAX
  Limit,          \* MemoryAuthority::limit
  Attempts        \* RESERVATION_ATTEMPTS

ASSUME AccountsAssumption ==
  /\ IsFiniteSet(Handle)
  /\ MaxWord \in Nat
  /\ Limit \in 0 .. MaxWord
  /\ Attempts \in Nat \ {0}

Bytes == 0 .. MaxWord

VARIABLES
  reserved,       \* MemoryAuthority::reserved
  bytes,          \* bytes asked for by a call, then held by its reservation
  seen,           \* the total a call last observed
  tries,          \* exchanges it has lost
  pc,             \* "none", "trying", "held"
  peak            \* history: highest total since a trying call began

vars == <<reserved, bytes, seen, tries, pc, peak>>

Init ==
  /\ reserved = 0
  /\ bytes = [h \in Handle |-> 0]
  /\ seen = [h \in Handle |-> 0]
  /\ tries = [h \in Handle |-> 0]
  /\ pc = [h \in Handle |-> "none"]
  /\ peak = [h \in Handle |-> 0]

Goto(h, from, to) == pc[h] = from /\ pc' = [pc EXCEPT ![h] = to]

\* What a change of the total means for the calls under way.
Total(new) ==
  /\ reserved' = new
  /\ peak' = [h \in Handle |-> IF peak[h] < new THEN new ELSE peak[h]]

-----------------------------------------------------------------------------
(* MemoryAuthority::reserve.                                                *)

BeginReserve(h, n) ==
  /\ Goto(h, "none", "trying")
  /\ bytes' = [bytes EXCEPT ![h] = n]
  /\ seen' = [seen EXCEPT ![h] = reserved]
  /\ tries' = [tries EXCEPT ![h] = 0]
  /\ peak' = [peak EXCEPT ![h] = reserved]
  /\ UNCHANGED reserved

\* Mutant: the account refuses to become exactly full.
FitsBelow(h) == seen[h] + bytes[h] < Limit

\* checked_add, then the limit.
Fits(h) ==
  /\ seen[h] + bytes[h] <= MaxWord
  /\ seen[h] + bytes[h] <= Limit

Forget(h) ==
  /\ bytes' = [bytes EXCEPT ![h] = 0]
  /\ seen' = [seen EXCEPT ![h] = 0]
  /\ tries' = [tries EXCEPT ![h] = 0]

\* Error::Resource.
Refuse(h) ==
  /\ Goto(h, "trying", "none")
  /\ ~Fits(h)
  /\ Forget(h)
  /\ UNCHANGED <<reserved, peak>>

\* Mutant: the new total is stored without comparing.
ExchangeBlind(h) ==
  /\ Goto(h, "trying", "held")
  /\ Fits(h)
  /\ Total(seen[h] + bytes[h])
  /\ UNCHANGED <<bytes, seen, tries>>

Exchange(h) ==
  /\ Goto(h, "trying", "held")
  /\ Fits(h)
  /\ reserved = seen[h]
  /\ Total(seen[h] + bytes[h])
  /\ UNCHANGED <<bytes, seen, tries>>

\* A lost exchange returns the total it found.
Observe(h) == [seen EXCEPT ![h] = reserved]

\* The weak exchange may also fail when the total did not change.
LoseExchange(h) ==
  /\ pc[h] = "trying" /\ Fits(h)
  /\ tries[h] + 1 < Attempts
  /\ tries' = [tries EXCEPT ![h] = tries[h] + 1]
  /\ seen' = Observe(h)
  /\ UNCHANGED <<reserved, bytes, pc, peak>>

\* Error::Contention after the last attempt, although the bytes might fit.
GiveUp(h) ==
  /\ Goto(h, "trying", "none")
  /\ Fits(h)
  /\ tries[h] + 1 = Attempts
  /\ Forget(h)
  /\ UNCHANGED <<reserved, peak>>

-----------------------------------------------------------------------------
(* Reservation.                                                             *)

\* Drop releases everything.
DropReservation(h) ==
  /\ Goto(h, "held", "none")
  /\ Total(reserved - bytes[h])
  /\ Forget(h)

Shrink(h, n) ==
  /\ pc[h] = "held" /\ n < bytes[h]
  /\ Total(reserved - (bytes[h] - n))
  /\ bytes' = [bytes EXCEPT ![h] = n]
  /\ UNCHANGED <<seen, tries, pc>>

Split(h, g, n) ==
  /\ pc[h] = "held" /\ n <= bytes[h]
  /\ Goto(g, "none", "held")
  /\ bytes' = [bytes EXCEPT ![h] = bytes[h] - n, ![g] = n]
  /\ UNCHANGED <<reserved, seen, tries, peak>>

Transfer(h, g, n) ==
  /\ pc[h] = "held" /\ pc[g] = "held" /\ h # g
  /\ n <= bytes[h] /\ bytes[g] + n <= MaxWord
  /\ bytes' = [bytes EXCEPT ![h] = bytes[h] - n, ![g] = bytes[g] + n]
  /\ UNCHANGED <<reserved, seen, tries, pc, peak>>

-----------------------------------------------------------------------------
ReserveStep(h) == Refuse(h) \/ Exchange(h) \/ LoseExchange(h) \/ GiveUp(h)

Next ==
  \E h \in Handle :
    \/ ReserveStep(h)
    \/ DropReservation(h)
    \/ \E n \in Bytes :
         \/ BeginReserve(h, n) \/ Shrink(h, n)
         \/ \E g \in Handle : Split(h, g, n) \/ Transfer(h, g, n)

Spec == Init /\ [][Next]_vars

-----------------------------------------------------------------------------
(* Properties.                                                              *)

Holds(h) == pc[h] = "held"

\* The account and its reservations keep their types; totals fit a word.
TypeOK ==
  /\ reserved \in Bytes
  /\ bytes \in [Handle -> Bytes] /\ seen \in [Handle -> Bytes]
  /\ tries \in [Handle -> 0 .. Attempts - 1]
  /\ pc \in [Handle -> {"none", "trying", "held"}]
  /\ peak \in [Handle -> Bytes]

\* However calls interleave, the total is exactly what reservations hold and
\* stays within the limit: nothing is charged twice, lost, or admitted on a
\* stale observation, and no release can underflow.
AccountBalances ==
  /\ MapThenSumSet(LAMBDA h : bytes[h], {h \in Handle : Holds(h)}) = reserved
  /\ reserved <= Limit

\* A call is refused for space only if at some moment of that call its bytes
\* did not fit.
RefusalsAreHonest ==
  [][\A h \in Handle :
       pc[h] = "trying" /\ pc'[h] = "none" =>
         \/ peak[h] + bytes[h] > Limit
         \/ tries[h] + 1 = Attempts]_vars
=============================================================================
