---------------------------- MODULE AccountsProofs ----------------------------
(***************************************************************************)
(* Proofs about Accounts, for any number of calls, any limit, word size and *)
(* number of attempts.                                                      *)
(*                                                                          *)
(* The argument.  The exchange only succeeds on the total it was computed   *)
(* from, so the total stays the sum of what reservations hold; hence a      *)
(* release never underflows.  The highest total since a call began bounds   *)
(* what the call last saw (Peaks), so a refusal for space was right at some *)
(* moment of the call.                                                      *)
(***************************************************************************)
EXTENDS Accounts, DataTheorems

Holders == {h \in Handle : Holds(h)}

\* What a call under way has seen.
Peaks ==
  \A h \in Handle :
    pc[h] = "trying" => seen[h] <= peak[h] /\ reserved <= peak[h]

IInv == TypeOK /\ AccountBalances /\ Peaks

LEMMA Balance ==
  AccountBalances <=> SumFunctionOnSet(bytes, Holders) = reserved /\ reserved <= Limit
BY DEF AccountBalances, Holders, SumFunctionOnSet, FoldFunctionOnSet, MapThenSumSet,
       MapThenFoldSet

\* What a holder gives back is part of the total.
LEMMA HeldIsCharged ==
  ASSUME TypeOK, AccountBalances, NEW h \in Handle, Holds(h)
  PROVE  bytes[h] \in 0 .. reserved
<1>1. IsFiniteSet(Holders) /\ h \in Holders
    BY AccountsAssumption, FS_Subset DEF Holders
<1>2. \A g \in Holders : bytes[g] \in Nat
    BY AccountsAssumption DEF Holders, TypeOK, Bytes
<1>3. bytes[h] <= SumFunctionOnSet(bytes, Holders)
    BY <1>1, <1>2, SumChanged
<1> QED
    BY <1>1, <1>2, <1>3, Balance DEF TypeOK, Bytes

LEMMA TypeStep ==
  ASSUME TypeOK, AccountBalances, Next
  PROVE  TypeOK'
<1> USE AccountsAssumption DEF TypeOK, Bytes, Goto
<1>1. ASSUME NEW h \in Handle, ReserveStep(h) PROVE TypeOK'
    BY <1>1 DEF ReserveStep, Refuse, Exchange, LoseExchange, GiveUp, Forget, Fits,
                Total, Observe
<1>2. ASSUME NEW h \in Handle, DropReservation(h) PROVE TypeOK'
    BY <1>2, HeldIsCharged DEF DropReservation, Forget, Total, Holds
<1>3. ASSUME NEW h \in Handle, NEW n \in Bytes, BeginReserve(h, n) PROVE TypeOK'
    BY <1>3 DEF BeginReserve
<1>4. ASSUME NEW h \in Handle, NEW n \in Bytes, Shrink(h, n) PROVE TypeOK'
    BY <1>4, HeldIsCharged DEF Shrink, Total, Holds
<1>5. ASSUME NEW h \in Handle, NEW g \in Handle, NEW n \in Bytes,
             Split(h, g, n) \/ Transfer(h, g, n)
      PROVE  TypeOK'
    BY <1>5 DEF Split, Transfer
<1> QED
    BY <1>1, <1>2, <1>3, <1>4, <1>5 DEF Next

\* One holder more, one holder fewer, one holder's bytes changed.
LEMMA SumAdded ==
  ASSUME NEW S, IsFiniteSet(S), NEW f, NEW x, x \notin S,
         \A y \in S \union {x} : f[y] \in Nat
  PROVE  SumFunctionOnSet(f, S \union {x}) = f[x] + SumFunctionOnSet(f, S)
<1>1. IsFiniteSet(S \union {x}) /\ (S \union {x}) \ {x} = S /\ x \in S \union {x}
    BY FS_AddElement
<1> QED
    BY <1>1, SumSplit

\* The sum after a step equals the total after it.
Balanced(f, S, total) == SumFunctionOnSet(f, S) = total /\ total <= Limit

LEMMA BalanceNext ==
  AccountBalances' <=> Balanced(bytes', Holders', reserved')
BY DEF AccountBalances, Balanced, Holders, SumFunctionOnSet, FoldFunctionOnSet,
       MapThenSumSet, MapThenFoldSet

LEMMA BalanceStep ==
  ASSUME TypeOK, TypeOK', AccountBalances, Next
  PROVE  AccountBalances'
<1> USE AccountsAssumption
<1> DEFINE Goal == Balanced(bytes', Holders', reserved')
<1>0. /\ IsFiniteSet(Holders) /\ SumFunctionOnSet(bytes, Holders) = reserved
      /\ reserved <= Limit
    BY FS_Subset, Balance DEF Holders
<1>1. /\ \A h \in Handle : bytes[h] \in Nat /\ bytes'[h] \in Nat
      /\ reserved \in Nat /\ Limit \in Nat /\ Holders \subseteq Handle
    BY DEF Holders, TypeOK, Bytes
<1>2. ASSUME Holders' = Holders, \A h \in Holders : bytes'[h] = bytes[h],
             reserved' = reserved
      PROVE  Goal
  <2>1. SumFunctionOnSet(bytes', Holders) = SumFunctionOnSet(bytes, Holders)
      BY <1>0, <1>2, SumSame
  <2> QED
      BY <1>0, <1>2, <2>1 DEF Balanced
<1>3. ASSUME NEW h \in Handle, Refuse(h) \/ LoseExchange(h) \/ GiveUp(h)
      PROVE  Goal
    BY <1>2, <1>3 DEF Refuse, LoseExchange, GiveUp, Forget, TypeOK, Holders, Holds, Goto
<1>4. ASSUME NEW h \in Handle, NEW n \in Bytes, BeginReserve(h, n)
      PROVE  Goal
    BY <1>2, <1>4 DEF BeginReserve, TypeOK, Holders, Holds, Goto
<1>5. ASSUME NEW h \in Handle, Exchange(h)
      PROVE  Goal
  <2>1. /\ Holders' = Holders \union {h} /\ h \notin Holders /\ bytes' = bytes
        /\ reserved' = reserved + bytes[h] /\ reserved' <= Limit
      BY <1>5 DEF Exchange, Total, Fits, TypeOK, Holders, Holds, Goto
  <2>2. SumFunctionOnSet(bytes, Holders \union {h})
          = bytes[h] + SumFunctionOnSet(bytes, Holders)
    <3>1. \A y \in Holders \union {h} : bytes[y] \in Nat
        BY <1>1
    <3> QED
        BY <1>0, <2>1, <3>1, SumAdded
  <2> QED
      BY <1>0, <1>1, <2>1, <2>2 DEF Balanced
<1>6. ASSUME NEW h \in Handle, DropReservation(h)
      PROVE  Goal
  <2>1. /\ Holders' = Holders \ {h} /\ h \in Holders
        /\ \A g \in Holders \ {h} : bytes'[g] = bytes[g]
        /\ reserved' = reserved - bytes[h]
      BY <1>6 DEF DropReservation, Total, Forget, TypeOK, Holders, Holds, Goto
  <2>2. /\ \A g \in Holders : bytes[g] \in Nat
        /\ \A g \in Holders \ {h} : bytes[g] \in Nat
      BY <1>1
  <2>3. SumFunctionOnSet(bytes, Holders)
          = bytes[h] + SumFunctionOnSet(bytes, Holders \ {h})
      BY <1>0, <2>1, <2>2, SumSplit
  <2>4. IsFiniteSet(Holders \ {h})
      BY <1>0, FS_RemoveElement
  <2>5. SumFunctionOnSet(bytes', Holders \ {h}) = SumFunctionOnSet(bytes, Holders \ {h})
      BY <2>1, <2>4, SumSame
  <2>6. SumFunctionOnSet(bytes, Holders \ {h}) \in Nat
      BY <2>2, <2>4, SumSplit
  <2>7. bytes[h] \in Nat
      BY <1>1
  <2> QED
      BY <1>0, <1>1, <2>1, <2>3, <2>5, <2>6, <2>7 DEF Balanced
<1>7. ASSUME NEW h \in Handle, NEW n \in Bytes, Shrink(h, n)
      PROVE  Goal
  <2>1. /\ Holders' = Holders /\ h \in Holders /\ bytes'[h] = n /\ n <= bytes[h]
        /\ \A g \in Holders \ {h} : bytes'[g] = bytes[g]
        /\ reserved' = reserved - (bytes[h] - n) /\ n \in Nat
      BY <1>7 DEF Shrink, Total, TypeOK, Bytes, Holders, Holds
  <2>2. \A g \in Holders : bytes[g] \in Nat /\ bytes'[g] \in Nat
      BY <1>1
  <2>3. SumFunctionOnSet(bytes', Holders)
          = SumFunctionOnSet(bytes, Holders) - bytes[h] + bytes'[h]
      BY <1>0, <2>1, <2>2, SumChanged
  <2>4. bytes[h] \in Nat
      BY <1>1
  <2> QED
      BY <1>0, <1>1, <2>1, <2>3, <2>4 DEF Balanced
<1>8. ASSUME NEW h \in Handle, NEW g \in Handle, NEW n \in Bytes, Split(h, g, n)
      PROVE  Goal
  <2>1. /\ Holders' = Holders \union {g} /\ g \notin Holders /\ h \in Holders
        /\ bytes'[g] = n /\ bytes'[h] = bytes[h] - n /\ n \in Nat
        /\ \A i \in Holders \ {h} : bytes'[i] = bytes[i]
        /\ reserved' = reserved
      BY <1>8 DEF Split, TypeOK, Bytes, Holders, Holds, Goto
  <2>2. /\ \A i \in Holders \union {g} : bytes'[i] \in Nat
        /\ \A i \in Holders : bytes[i] \in Nat /\ bytes'[i] \in Nat
      BY <1>1
  <2>3. SumFunctionOnSet(bytes', Holders \union {g})
          = bytes'[g] + SumFunctionOnSet(bytes', Holders)
      BY <1>0, <2>1, <2>2, SumAdded
  <2>4. SumFunctionOnSet(bytes', Holders)
          = SumFunctionOnSet(bytes, Holders) - bytes[h] + bytes'[h]
      BY <1>0, <2>1, <2>2, SumChanged
  <2>5. bytes[h] \in Nat
      BY <1>1
  <2> QED
      BY <1>0, <1>1, <2>1, <2>3, <2>4, <2>5 DEF Balanced
<1>9. ASSUME NEW h \in Handle, NEW g \in Handle, NEW n \in Bytes, Transfer(h, g, n)
      PROVE  Goal
  <2> DEFINE mid == [bytes EXCEPT ![h] = bytes[h] - n]
  <2>1. /\ Holders' = Holders /\ g \in Holders /\ h \in Holders /\ g # h
        /\ bytes'[g] = bytes[g] + n /\ bytes'[h] = bytes[h] - n
        /\ n \in Nat /\ n <= bytes[h]
        /\ \A i \in Holders \ {h} : i # g => bytes'[i] = bytes[i]
        /\ reserved' = reserved
      BY <1>9 DEF Transfer, TypeOK, Bytes, Holders, Holds
  <2>2. /\ mid[h] = bytes'[h] /\ \A i \in Holders \ {h} : mid[i] = bytes[i]
        /\ \A i \in Holders : bytes[i] \in Nat /\ bytes'[i] \in Nat
      BY <1>1, <2>1 DEF TypeOK
  <2> HIDE DEF mid
  <2>3. \A i \in Holders \ {g} : bytes'[i] = mid[i]
      BY <2>1, <2>2
  <2>4. \A i \in Holders : mid[i] \in Nat
      BY <2>1, <2>2
  <2>5. SumFunctionOnSet(mid, Holders)
          = SumFunctionOnSet(bytes, Holders) - bytes[h] + mid[h]
    <3>1. \A i \in Holders : bytes[i] \in Nat /\ mid[i] \in Nat
        BY <2>2, <2>4
    <3> QED
        BY <1>0, <2>1, <2>2, <3>1, SumChanged
  <2>6. SumFunctionOnSet(bytes', Holders)
          = SumFunctionOnSet(mid, Holders) - mid[g] + bytes'[g]
    <3>1. \A i \in Holders : mid[i] \in Nat /\ bytes'[i] \in Nat
        BY <2>2, <2>4
    <3> QED
        BY <1>0, <2>1, <2>3, <3>1, SumChanged
  <2>7. mid[g] = bytes[g] /\ bytes[g] \in Nat /\ bytes[h] \in Nat
      BY <1>1, <2>1, <2>2
  <2> QED
      BY <1>0, <1>1, <2>1, <2>2, <2>5, <2>6, <2>7 DEF Balanced
<1>10. Goal
  <2> HIDE DEF Goal
  <2> QED
    BY <1>3, <1>4, <1>5, <1>6, <1>7, <1>8, <1>9 DEF Next, ReserveStep
<1> QED
    BY <1>10, BalanceNext

LEMMA PeaksStep ==
  ASSUME TypeOK, AccountBalances, Peaks, Next
  PROVE  Peaks'
<1> USE AccountsAssumption DEF TypeOK, Bytes, Peaks, Goto
<1>1. ASSUME NEW h \in Handle, Refuse(h) \/ LoseExchange(h) \/ GiveUp(h) PROVE Peaks'
    BY <1>1 DEF Refuse, LoseExchange, GiveUp, Forget, Observe
<1>2. ASSUME NEW h \in Handle, Exchange(h) PROVE Peaks'
    BY <1>2 DEF Exchange, Fits, Total
<1>3. ASSUME NEW h \in Handle, DropReservation(h) PROVE Peaks'
    BY <1>3, HeldIsCharged DEF DropReservation, Forget, Total, Holds
<1>4. ASSUME NEW h \in Handle, NEW n \in Bytes, BeginReserve(h, n) PROVE Peaks'
    BY <1>4 DEF BeginReserve
<1>5. ASSUME NEW h \in Handle, NEW n \in Bytes, Shrink(h, n) PROVE Peaks'
    BY <1>5, HeldIsCharged DEF Shrink, Total, Holds
<1>6. ASSUME NEW h \in Handle, NEW g \in Handle, NEW n \in Bytes,
             Split(h, g, n) \/ Transfer(h, g, n)
      PROVE  Peaks'
    BY <1>6 DEF Split, Transfer
<1> QED
    BY <1>1, <1>2, <1>3, <1>4, <1>5, <1>6 DEF Next, ReserveStep

LEMMA InitIInv ==
  Init => IInv
<1> SUFFICES ASSUME Init PROVE IInv
    OBVIOUS
<1>1. TypeOK
    BY AccountsAssumption DEF Init, TypeOK, Bytes
<1>2. AccountBalances
  <2>1. Holders = {}
      BY DEF Init, Holders, Holds
  <2>2. SumFunctionOnSet(bytes, {}) = 0
      BY FS_EmptySet, SumNext
  <2>3. 0 <= Limit /\ reserved = 0
      BY AccountsAssumption DEF Init
  <2> QED
      BY <2>1, <2>2, <2>3, Balance
<1>3. Peaks
    BY DEF Init, Peaks
<1> QED
    BY <1>1, <1>2, <1>3 DEF IInv

LEMMA IInvStep ==
  IInv /\ [Next]_vars => IInv'
<1>1. ASSUME IInv, Next PROVE IInv'
    BY <1>1, TypeStep, BalanceStep, PeaksStep DEF IInv
<1>2. ASSUME IInv, UNCHANGED vars PROVE IInv'
  <2>1. TypeOK' /\ Peaks'
      BY <1>2 DEF IInv, TypeOK, Peaks, vars
  <2>2. Holders' = Holders /\ bytes' = bytes /\ reserved' = reserved
      BY <1>2 DEF Holders, Holds, vars
  <2>3. AccountBalances'
      BY <1>2, <2>2, Balance, BalanceNext DEF IInv, Balanced
  <2> QED
      BY <2>1, <2>3 DEF IInv
<1> QED
    BY <1>1, <1>2

-----------------------------------------------------------------------------
\* The invariant holds in every reachable state, for any number of calls.
THEOREM Invariance == Spec => []IInv
BY InitIInv, IInvStep, PTL DEF Spec

\* Totals fit a word and no release underflows (MemoryAuthority::reserve and
\* Reservation's drop).
THEOREM TypeCorrect == Spec => []TypeOK
BY Invariance, PTL DEF IInv

\* The total is what reservations hold, and within the limit, however the
\* exchanges of MemoryAuthority::reserve interleave.
THEOREM AccountAlwaysBalances == Spec => []AccountBalances
BY Invariance, PTL DEF IInv

\* Error::Resource is only returned when the bytes did not fit at some moment of
\* the call.
THEOREM RefusalsAreAlwaysHonest == Spec => RefusalsAreHonest
<1> DEFINE Honest ==
      \A h \in Handle :
        pc[h] = "trying" /\ pc'[h] = "none" =>
          \/ peak[h] + bytes[h] > Limit
          \/ tries[h] + 1 = Attempts
<1>1. IInv /\ [Next]_vars => [Honest]_vars
  <2> SUFFICES ASSUME IInv, Next, NEW h \in Handle,
                      pc[h] = "trying", pc'[h] = "none"
               PROVE  \/ peak[h] + bytes[h] > Limit
                      \/ tries[h] + 1 = Attempts
      OBVIOUS
  <2>1. Refuse(h) \/ GiveUp(h)
      BY DEF IInv, TypeOK, Next, ReserveStep, Refuse, GiveUp, Exchange, LoseExchange,
             DropReservation, BeginReserve, Shrink, Split, Transfer, Goto
  <2>2. CASE Refuse(h)
      BY <2>2, AccountsAssumption
      DEF Refuse, Fits, IInv, Peaks, TypeOK, Bytes
  <2>3. CASE GiveUp(h)
      BY <2>3 DEF GiveUp
  <2> QED
      BY <2>1, <2>2, <2>3
<1> QED
    BY Invariance, <1>1, PTL DEF Spec, RefusalsAreHonest
=============================================================================
