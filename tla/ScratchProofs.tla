---------------------------- MODULE ScratchProofs -----------------------------
(***************************************************************************)
(* Proofs about Scratch, for any number of owners and any budget.           *)
(*                                                                          *)
(* The argument.  Admission lets one owner at a time use the two names, so   *)
(* whatever private/ holds while a pair is created belongs to that owner     *)
(* (Boot), and an owner that leaves without a mark leaves both views empty.  *)
(* Once the removal is durable no view names the pair, and bytes are only    *)
(* written after that (InUseIsAnonymous, Quiescent): a leftover of a crash   *)
(* names an empty file.                                                      *)
(***************************************************************************)
EXTENDS Scratch, DataTheorems

Clean == names = Unnamed /\ dnames = Unnamed

\* What private/ holds while an owner creates its pair.
Boot(o) ==
  pc[o] \in Bootstrapping =>
    /\ admission = "creating" /\ pc[o] # <<"found", 0>>
    /\ \A n \in Name : names[n] \in {NoFile, <<o, n>>} /\ dnames[n] \in {NoFile, <<o, n>>}
    /\ ~marked[o] => Clean
    /\ pc[o] \in {<<"inspect", 0>>, <<"create", 1>>, <<"admit", 0>>} => Clean
    /\ pc[o] \in {<<"create", 2>>, <<"sync", 0>>} => names = Unnamed
    /\ pc[o] = <<"unlink", 1>> => names[2] = NoFile
    /\ pc[o] = <<"unlink", 2>> => names[1] = NoFile

\* An owner holds bytes and charges only while it uses its pair.
Quiescent(o) ==
  /\ pc[o] \notin InUse => \A n \in Name : size[<<o, n>>] = 0 /\ extents[o][n] = 0
  /\ pc[o] = <<"closing", 0>> => \A n \in Name : size[<<o, n>>] = 0
  /\ \A n \in Name : pc[o] = <<"release", n>> => size[<<o, n>>] = 0

\* Nothing runs without an open database.
Stopped == handle # "open" => \A o \in Owner : pc[o] = Idle

\* Bytes in files never pass the charges.
Covered(o) == pc[o] \in InUse => \A n \in Name : size[<<o, n>>] <= extents[o][n]

\* The charges of all owners, and what else is charged, are the account.
Charges == [o \in Owner |-> Held(o)]
Charged == SumFunctionOnSet(Charges, Owner) + other = reserved /\ reserved <= Limit

Directory ==
  /\ Stopped
  /\ \A o \in Owner : Boot(o)
  /\ NamesAreExclusive /\ InUseIsAnonymous /\ IdleMeansClean

Usage == \A o \in Owner : Quiescent(o) /\ Covered(o)

IInv == TypeOK /\ Directory /\ Usage /\ Charged

-----------------------------------------------------------------------------
(* The stages of an owner.                                                  *)

LEMMA Stages ==
  /\ \A s \in Bootstrapping : s \notin InUse /\ s # Idle
  /\ Idle \notin InUse /\ Live \in InUse /\ <<"closing", 0>> \in InUse
  /\ \A n \in Name : <<"write", n>> \in InUse /\ <<"release", n>> \in InUse
  /\ {<<"inspect", 0>>, <<"found", 0>>, <<"sync", 0>>, <<"admit", 0>>}
       \subseteq Bootstrapping
  /\ \A n \in Name : <<"create", n>> \in Bootstrapping /\ <<"unlink", n>> \in Bootstrapping
BY DEF Bootstrapping, InUse, Idle, Live, AtName, Name

\* The same, for the set TypeOK names.
LEMMA StagesTyped ==
  /\ Bootstrapping \subseteq Stage /\ InUse \subseteq Stage /\ Idle \in Stage
  /\ \A s \in Stage : s \in Bootstrapping \/ s \in InUse \/ s = Idle
BY DEF Stage

LEMMA Names == Name = {1, 2} /\ \A n \in Name, o \in Owner : <<o, n>> \in File /\ <<o, n>> # NoFile
BY ScratchAssumption DEF Name, File

\* The account, as the run states it.
LEMMA Budget ==
  UsageWithinBudget <=> (\A o \in Owner : Covered(o)) /\ Charged
BY DEF UsageWithinBudget, Covered, Charged, Charges, SumFunction

\* No charge passes the account.
LEMMA HeldIsCharged ==
  ASSUME TypeOK, Charged, NEW o \in Owner
  PROVE  /\ Held(o) \in Nat /\ Held(o) <= reserved /\ other <= reserved
         /\ Held(o) + other <= reserved
<1>1. \A p \in Owner : Charges[p] \in Nat
    BY Names DEF TypeOK, Charges, Held
<1>2. /\ Charges[o] <= SumFunctionOnSet(Charges, Owner)
      /\ SumFunctionOnSet(Charges, Owner) \in Nat
    BY <1>1, ScratchAssumption, SumChanged
<1>3. Charges[o] = Held(o) /\ Held(o) \in Nat
    BY <1>1 DEF Charges
<1> QED
    BY <1>2, <1>3 DEF Charged, TypeOK


-----------------------------------------------------------------------------
(* Types.                                                                   *)

\* Only an open database changes an owner's stage.
LEMMA TypeBoot ==
  ASSUME TypeOK, NEW o \in Owner, BootstrapStep(o)
  PROVE  TypeOK'
<1> USE Stages, StagesTyped, Names DEF Goto
<1>1. ASSUME Begin(o) PROVE TypeOK'
    BY <1>1 DEF Begin, TypeOK, dirVars, accountVars
<1>2. ASSUME InspectNames(o) PROVE TypeOK'
    BY <1>2 DEF InspectNames, TypeOK, dirVars, accountVars
<1>3. ASSUME NEW n \in Name, Create(o, n) PROVE TypeOK'
  <2>1. names' \in [Name -> File \union {NoFile}]
      BY <1>3 DEF Create, TypeOK
  <2>2. size' \in [File -> 0 .. MaxExtent]
      BY <1>3, ScratchAssumption DEF Create, TypeOK
  <2>3. pc' \in [Owner -> Stage] /\ marked' \in [Owner -> BOOLEAN]
      BY <1>3 DEF Create, TypeOK
  <2> QED
      BY <1>3, <2>1, <2>2, <2>3 DEF Create, TypeOK, accountVars
<1>4. ASSUME NEW n \in Name, Unlink(o, n) PROVE TypeOK'
    BY <1>4 DEF Unlink, TypeOK, dirVars, accountVars
<1>5. ASSUME SyncNames(o) PROVE TypeOK'
    BY <1>5 DEF SyncNames, TypeOK, dirVars, accountVars
<1>6. ASSUME Admit(o) PROVE TypeOK'
    BY <1>6, ScratchAssumption DEF Admit, LeaveBootstrap, TypeOK, dirVars, accountVars
<1>7. ASSUME FailBootstrap(o) PROVE TypeOK'
    BY <1>7 DEF FailBootstrap, LeaveBootstrap, TypeOK, dirVars, accountVars
<1> QED
    BY <1>1, <1>2, <1>3, <1>4, <1>5, <1>6, <1>7 DEF BootstrapStep

LEMMA TypeUse ==
  ASSUME TypeOK, Charged, NEW o \in Owner, UseStep(o)
  PROVE  TypeOK'
<1> USE Stages, StagesTyped, Names, ScratchAssumption DEF Goto
<1>1. ASSUME NEW n \in Name, NEW end \in 1 .. MaxExtent, Reserve(o, n, end) PROVE TypeOK'
  <2>1. reserved' \in 0 .. Limit
      BY <1>1 DEF Reserve, TypeOK
  <2>2. extents' \in [Owner -> [Name -> 0 .. MaxExtent]]
      BY <1>1 DEF Reserve, TypeOK
  <2> QED
      BY <1>1, <2>1, <2>2 DEF Reserve, TypeOK, dirVars
<1>2. ASSUME NEW n \in Name, Rewrite(o, n) PROVE TypeOK'
    BY <1>2 DEF Rewrite, TypeOK, dirVars, accountVars
<1>3. ASSUME NEW n \in Name, WriteBytes(o, n) PROVE TypeOK'
  <2>1. PICK s \in size[<<o, n>>] .. extents[o][n] : size' = [size EXCEPT ![<<o, n>>] = s]
      BY <1>3 DEF WriteBytes
  <2>2. s \in 0 .. MaxExtent
      BY <2>1 DEF TypeOK
  <2> QED
      BY <1>3, <2>1, <2>2 DEF WriteBytes, TypeOK, dirVars, accountVars
<1>4. ASSUME NEW n \in Name, Truncate(o, n) PROVE TypeOK'
  <2>1. size' \in [File -> 0 .. MaxExtent]
      BY <1>4 DEF Truncate, TypeOK
  <2>2. pc' \in [Owner -> Stage]
      BY <1>4 DEF Truncate, TypeOK
  <2> QED
      BY <1>4, <2>1, <2>2 DEF Truncate, TypeOK, dirVars, accountVars
<1>5. ASSUME NEW n \in Name, ReleaseReset(o, n) PROVE TypeOK'
  <2>1. reserved' \in 0 .. Limit
      BY <1>5, HeldIsCharged DEF ReleaseReset, TypeOK, Held
  <2>2. extents' \in [Owner -> [Name -> 0 .. MaxExtent]]
      BY <1>5 DEF ReleaseReset, TypeOK
  <2> QED
      BY <1>5, <2>1, <2>2 DEF ReleaseReset, TypeOK, dirVars
<1>6. ASSUME NEW n \in Name, TruncateFails(o, n) PROVE TypeOK'
    BY <1>6 DEF TruncateFails, TypeOK, dirVars, accountVars
<1>7. ASSUME CloseFiles(o) PROVE TypeOK'
    BY <1>7 DEF CloseFiles, TypeOK, dirVars, accountVars
<1>8. ASSUME ReleaseDropped(o) PROVE TypeOK'
  <2>1. reserved' \in 0 .. Limit
      BY <1>8, HeldIsCharged DEF ReleaseDropped, TypeOK
  <2>2. extents' \in [Owner -> [Name -> 0 .. MaxExtent]]
      BY <1>8 DEF ReleaseDropped, TypeOK
  <2> QED
      BY <1>8, <2>1, <2>2 DEF ReleaseDropped, TypeOK, dirVars
<1> QED
    BY <1>1, <1>2, <1>3, <1>4, <1>5, <1>6, <1>7, <1>8 DEF UseStep

LEMMA TypeVanish ==
  ASSUME TypeOK, NEW kept, Vanish(kept), names' = names \/ names' = dnames,
         dnames' = dnames
  PROVE  TypeOK'
BY StagesTyped, ScratchAssumption DEF Vanish, TypeOK

LEMMA TypeRest ==
  ASSUME TypeOK, Charged,
         \/ OtherCharge \/ Close \/ Kill \/ PowerLoss
         \/ \E n \in Name : Writeback(n)
         \/ Recover
  PROVE  TypeOK'
<1>1. ASSUME OtherCharge PROVE TypeOK'
  <2>1. other <= reserved
    <3>1. SumFunctionOnSet(Charges, Owner) \in Nat
      <4>1. \A p \in Owner : Charges[p] \in Nat
          BY Names DEF TypeOK, Charges, Held
      <4> QED
          BY <4>1, ScratchAssumption, SumSplit
    <3> QED
        BY <3>1 DEF Charged, TypeOK
  <2>2. reserved' \in 0 .. Limit /\ other' \in 0 .. Limit
      BY <1>1, <2>1, ScratchAssumption DEF OtherCharge, TypeOK
  <2> QED
      BY <1>1, <2>2 DEF OtherCharge, TypeOK, dirVars
<1>2. ASSUME Close \/ Kill \/ PowerLoss PROVE TypeOK'
    BY <1>2, TypeVanish DEF Close, Kill, PowerLoss, dirVars
<1>3. ASSUME NEW n \in Name, Writeback(n) PROVE TypeOK'
    BY <1>3 DEF Writeback, TypeOK, accountVars
<1>4. ASSUME Recover PROVE TypeOK'
    BY <1>4 DEF Recover, BeginRecovery, SyncLeftovers, RemoveLeftover, TypeOK, dirVars,
                accountVars
<1> QED
    BY <1>1, <1>2, <1>3, <1>4

-----------------------------------------------------------------------------
(* The account.                                                             *)

LEMMA ChargesTyped ==
  ASSUME TypeOK
  PROVE  /\ \A p \in Owner : Charges[p] = Held(p) /\ Held(p) \in Nat /\ Charges[p] \in Nat
         /\ SumFunctionOnSet(Charges, Owner) \in Nat
<1>1. \A p \in Owner : Charges[p] = Held(p) /\ Held(p) \in Nat
    BY Names DEF TypeOK, Charges, Held
<1> QED
    BY <1>1, ScratchAssumption, SumSplit

LEMMA ChargesNext ==
  ASSUME TypeOK'
  PROVE  /\ \A p \in Owner : Charges'[p] = Held(p)' /\ Held(p)' \in Nat /\ Charges'[p] \in Nat
BY Names DEF TypeOK, Charges, Held

\* When one owner's charge changes, the account changes with it.
LEMMA ChargeMoves ==
  ASSUME TypeOK, TypeOK', Charged, NEW o \in Owner,
         \A p \in Owner \ {o} : extents'[p] = extents[p],
         reserved' = reserved - Held(o) + Held(o)', other' = other, reserved' <= Limit
  PROVE  Charged'
<1>1. /\ \A p \in Owner : Charges[p] \in Nat /\ Charges'[p] \in Nat
      /\ \A p \in Owner \ {o} : Charges'[p] = Charges[p]
      /\ Charges[o] = Held(o) /\ Charges'[o] = Held(o)'
      /\ Held(o) \in Nat /\ Held(o)' \in Nat
  <2>1. \A p \in Owner \ {o} : Held(p)' = Held(p)
      BY DEF Held
  <2> QED
      BY <2>1, ChargesTyped, ChargesNext
<1>2. /\ SumFunctionOnSet(Charges', Owner) =
           SumFunctionOnSet(Charges, Owner) - Charges[o] + Charges'[o]
      /\ SumFunctionOnSet(Charges, Owner) \in Nat
    BY <1>1, ScratchAssumption, SumChanged
<1>3. SumFunctionOnSet(Charges, Owner)' = SumFunctionOnSet(Charges', Owner)
    BY DEF SumFunctionOnSet, FoldFunctionOnSet, MapThenFoldSet
<1> QED
    BY <1>1, <1>2, <1>3 DEF Charged, TypeOK

LEMMA SameDifference ==
  ASSUME NEW sum \in Nat, NEW r \in Nat, NEW o \in Nat, NEW s \in Nat, NEW p \in Nat,
         sum + o = r, s + o = r + p
  PROVE  sum + p = s
OBVIOUS

\* The account when no owner's charge changes.
LEMMA ChargeStays ==
  ASSUME TypeOK, Charged, extents' = extents, reserved' + other = reserved + other',
         reserved' <= Limit, TypeOK'
  PROVE  Charged'
<1>1. SumFunctionOnSet(Charges', Owner) = SumFunctionOnSet(Charges, Owner)
  <2>1. Charges' = Charges
      BY DEF Charges, Held
  <2> QED
      BY <2>1
<1>2. SumFunctionOnSet(Charges, Owner) \in Nat
    BY ChargesTyped
<1>3. SumFunctionOnSet(Charges, Owner)' = SumFunctionOnSet(Charges', Owner)
    BY DEF SumFunctionOnSet, FoldFunctionOnSet, MapThenFoldSet
<1>4. /\ reserved \in Nat /\ other \in Nat /\ reserved' \in Nat /\ other' \in Nat
      /\ SumFunctionOnSet(Charges, Owner) + other = reserved
    BY DEF Charged, TypeOK
<1>5. SumFunctionOnSet(Charges', Owner) + other' = reserved'
    BY <1>1, <1>2, <1>4, SameDifference
<1> QED
    BY <1>3, <1>5 DEF Charged

\* The account of a process that ended.
LEMMA ChargeVanishes ==
  ASSUME NEW kept, Vanish(kept)
  PROVE  Charged'
<1>1. \A p \in Owner : Charges'[p] = 0
    BY Names DEF Vanish, Charges, Held
<1>2. SumFunctionOnSet(Charges', Owner) = 0
    BY <1>1, ScratchAssumption, SumZero
<1>3. SumFunctionOnSet(Charges, Owner)' = SumFunctionOnSet(Charges', Owner)
    BY DEF SumFunctionOnSet, FoldFunctionOnSet, MapThenFoldSet
<1> QED
    BY <1>2, <1>3, ScratchAssumption DEF Charged, Vanish


LEMMA ChargedStep ==
  ASSUME TypeOK, TypeOK', Usage, Charged, Next
  PROVE  Charged'
<1> USE ScratchAssumption
<1>0. reserved <= Limit /\ reserved' <= Limit
    BY DEF TypeOK
<1>1. ASSUME extents' = extents, reserved' = reserved, other' = other PROVE Charged'
  <2>1. reserved' + other = reserved + other'
      BY <1>1
  <2> QED
      BY <1>0, <1>1, <2>1, ChargeStays
<1>2. ASSUME NEW o \in Owner, BootstrapStep(o) PROVE Charged'
  <2>1. CASE Admit(o)
    <3>1. extents[o] = [n \in Name |-> 0]
      <4>1. \A n \in Name : extents[o][n] = 0
          BY <2>1, Stages DEF Admit, Goto, Usage, Quiescent
      <4> QED
          BY <4>1 DEF TypeOK
    <3>2. extents' = extents /\ reserved' = reserved /\ other' = other
        BY <2>1, <3>1 DEF Admit, TypeOK
    <3> QED
        BY <1>1, <3>2
  <2>2. CASE ~Admit(o)
      BY <1>1, <1>2, <2>2
      DEF BootstrapStep, Begin, InspectNames, Create, Unlink, SyncNames, FailBootstrap,
          accountVars
  <2> QED
      BY <2>1, <2>2
<1>3. ASSUME NEW o \in Owner, UseStep(o) PROVE Charged'
  <2>1. ASSUME NEW n \in Name, NEW end \in 1 .. MaxExtent, Reserve(o, n, end)
        PROVE  Charged'
    <3>1. /\ \A p \in Owner \ {o} : extents'[p] = extents[p]
          /\ extents'[o] = [extents[o] EXCEPT ![n] = end]
          /\ extents[o] \in [Name -> Nat]
        BY <2>1 DEF Reserve, TypeOK
    <3>2. reserved' = reserved - Held(o) + Held(o)'
      <4>1. reserved' = reserved + (end - extents[o][n]) /\ reserved \in Nat
          BY <2>1 DEF Reserve, TypeOK
      <4> QED
          BY <3>1, <4>1, Names DEF Held
    <3> QED
        BY <1>0, <2>1, <3>1, <3>2, ChargeMoves DEF Reserve
  <2>2. ASSUME NEW n \in Name, ReleaseReset(o, n)
        PROVE  Charged'
    <3>1. /\ \A p \in Owner \ {o} : extents'[p] = extents[p]
          /\ extents'[o] = [extents[o] EXCEPT ![n] = 0]
          /\ extents[o] \in [Name -> Nat]
        BY <2>2 DEF ReleaseReset, TypeOK
    <3>2. reserved' = reserved - Held(o) + Held(o)'
      <4>1. reserved' = reserved - extents[o][n] /\ reserved \in Nat
          BY <2>2 DEF ReleaseReset, TypeOK
      <4> QED
          BY <3>1, <4>1, Names DEF Held
    <3> QED
        BY <1>0, <2>2, <3>1, <3>2, ChargeMoves DEF ReleaseReset
  <2>3. CASE ReleaseDropped(o)
    <3>1. /\ \A p \in Owner \ {o} : extents'[p] = extents[p]
          /\ extents'[o] = [n \in Name |-> 0]
          /\ extents[o] \in [Name -> Nat]
        BY <2>3 DEF ReleaseDropped, TypeOK
    <3>2. reserved' = reserved - Held(o) + Held(o)'
      <4>1. reserved' = reserved - Held(o) /\ reserved \in Nat
          BY <2>3 DEF ReleaseDropped, TypeOK
      <4>2. Held(o)' = 0 /\ Held(o) \in Nat
          BY <3>1, Names DEF Held
      <4> QED
          BY <4>1, <4>2
    <3> QED
        BY <1>0, <2>3, <3>1, <3>2, ChargeMoves DEF ReleaseDropped
  <2>4. ASSUME NEW n \in Name,
               Rewrite(o, n) \/ WriteBytes(o, n) \/ Truncate(o, n) \/ TruncateFails(o, n)
        PROVE  Charged'
      BY <1>1, <2>4 DEF Rewrite, WriteBytes, Truncate, TruncateFails, accountVars
  <2>5. CASE CloseFiles(o)
      BY <1>1, <2>5 DEF CloseFiles, accountVars
  <2> QED
      BY <1>3, <2>1, <2>2, <2>3, <2>4, <2>5 DEF UseStep
<1>4. CASE OtherCharge
  <2>1. reserved' + other = reserved + other' /\ extents' = extents
    <3>1. reserved \in Nat /\ other \in Nat /\ extents' = extents
        BY <1>4 DEF OtherCharge, TypeOK
    <3>2. \/ other' = other + 1 /\ reserved' = reserved + 1
          \/ other' = other - 1 /\ reserved' = reserved - 1
        BY <1>4 DEF OtherCharge
    <3> QED
        BY <3>1, <3>2
  <2> QED
      BY <1>0, <2>1, ChargeStays
<1>5. CASE Close \/ Kill \/ PowerLoss
    BY <1>5, ChargeVanishes DEF Close, Kill, PowerLoss
<1>6. ASSUME NEW n \in Name, Writeback(n) PROVE Charged'
    BY <1>1, <1>6 DEF Writeback, accountVars
<1>7. CASE Recover
    BY <1>1, <1>7 DEF Recover, BeginRecovery, SyncLeftovers, RemoveLeftover, accountVars
<1> QED
    BY <1>2, <1>3, <1>4, <1>5, <1>6, <1>7 DEF Next


-----------------------------------------------------------------------------
(* Files and charges.                                                       *)

\* What an owner holds, when a step leaves the owner alone.
LEMMA UsageRests ==
  ASSUME NEW p \in Owner, Quiescent(p), Covered(p), pc'[p] = pc[p],
         extents'[p] = extents[p],
         \A n \in Name : size'[<<p, n>>] = size[<<p, n>>]
  PROVE  Quiescent(p)' /\ Covered(p)'
BY DEF Quiescent, Covered

LEMMA UsageBoot ==
  ASSUME TypeOK, TypeOK', Usage, NEW o \in Owner, BootstrapStep(o)
  PROVE  Usage'
<1> USE Names
<1>1. pc[o] = Idle \/ pc[o] \in Bootstrapping
    BY Stages DEF BootstrapStep, Begin, InspectNames, Create, Unlink, SyncNames, Admit,
                  FailBootstrap, Goto
<1>2. \A n \in Name : size[<<o, n>>] = 0 /\ extents[o][n] = 0
    BY <1>1, Stages DEF Usage, Quiescent
<1>3. \A p \in Owner, n \in Name :
        size'[<<p, n>>] = size[<<p, n>>] \/ (size'[<<p, n>>] = 0 /\ p = o)
  <2>1. SUFFICES ASSUME NEW p \in Owner, NEW n \in Name, <<p, n>> \in File
                 PROVE  size'[<<p, n>>] = size[<<p, n>>] \/ (size'[<<p, n>>] = 0 /\ p = o)
      OBVIOUS
  <2>2. ASSUME NEW m \in Name, Create(o, m)
        PROVE  size'[<<p, n>>] = size[<<p, n>>] \/ (size'[<<p, n>>] = 0 /\ p = o)
    <3>1. \A f \in File : size'[f] = IF f = <<o, m>> THEN 0 ELSE size[f]
        BY <2>2 DEF Create, TypeOK
    <3>2. size'[<<p, n>>] = IF <<p, n>> = <<o, m>> THEN 0 ELSE size[<<p, n>>]
        BY <2>1, <3>1
    <3>3. <<p, n>> = <<o, m>> => p = o
        OBVIOUS
    <3> QED
        BY <3>2, <3>3
  <2>3. ~(\E m \in Name : Create(o, m)) => size' = size
      BY DEF BootstrapStep, Begin, InspectNames, Unlink, SyncNames, Admit, FailBootstrap
  <2> QED
      BY <2>2, <2>3
<1>4. \A p \in Owner : p # o => pc'[p] = pc[p] /\ extents'[p] = extents[p]
    BY DEF BootstrapStep, Begin, InspectNames, Create, Unlink, SyncNames, Admit,
           FailBootstrap, Goto, TypeOK, accountVars
<1>5. \A n \in Name : extents'[o][n] = 0
    BY <1>2 DEF BootstrapStep, Begin, InspectNames, Create, Unlink, SyncNames, Admit,
           FailBootstrap, TypeOK, accountVars
<1>6. \A n \in Name : size'[<<o, n>>] = 0
    BY <1>2, <1>3
<1>7. ASSUME NEW p \in Owner, p # o
      PROVE  Quiescent(p)' /\ Covered(p)'
  <2>1. \A n \in Name : size'[<<p, n>>] = size[<<p, n>>]
      BY <1>3, <1>7
  <2> QED
      BY <1>4, <1>7, <2>1, UsageRests DEF Usage
<1>8. Quiescent(o)' /\ Covered(o)'
    BY <1>5, <1>6 DEF Quiescent, Covered
<1> QED
    BY <1>7, <1>8 DEF Usage

LEMMA UsageUse ==
  ASSUME TypeOK, TypeOK', Usage, NEW o \in Owner, UseStep(o)
  PROVE  Usage'
<1> USE Names
<1>1. ASSUME \A p \in Owner : p # o => pc'[p] = pc[p] /\ extents'[p] = extents[p],
             \A p \in Owner, n \in Name : p # o => size'[<<p, n>>] = size[<<p, n>>],
             Quiescent(o)' /\ Covered(o)'
      PROVE  Usage'
    BY <1>1, UsageRests DEF Usage
<1>2. Quiescent(o) /\ Covered(o)
    BY DEF Usage
<1>3. /\ size \in [File -> Nat] /\ extents \in [Owner -> [Name -> Nat]]
      /\ size' \in [File -> Nat] /\ extents' \in [Owner -> [Name -> Nat]]
      /\ pc \in [Owner -> Stage]
    BY DEF TypeOK
<1>12. /\ \A m \in Name : size[<<o, m>>] \in Nat /\ extents[o][m] \in Nat
       /\ \A m \in Name : size'[<<o, m>>] \in Nat /\ extents'[o][m] \in Nat
    BY <1>3
<1>13. pc[o] \in InUse => \A m \in Name : size[<<o, m>>] <= extents[o][m]
    BY <1>2 DEF Covered
<1>4. ASSUME NEW n \in Name, NEW end \in 1 .. MaxExtent, Reserve(o, n, end)
      PROVE  Usage'
  <2>1. /\ \A m \in Name : extents'[o][m] >= extents[o][m]
        /\ \A p \in Owner : p # o => pc'[p] = pc[p] /\ extents'[p] = extents[p]
      BY <1>3, <1>4 DEF Reserve, Goto
  <2>2. pc[o] = Live /\ pc'[o] = <<"write", n>> /\ size' = size
      BY <1>3, <1>4 DEF Reserve, Goto
  <2>3. Covered(o)'
    <3>1. \A m \in Name : size[<<o, m>>] <= extents[o][m]
        BY <1>13, <2>2, Stages
    <3>2. \A m \in Name : size'[<<o, m>>] <= extents'[o][m]
        BY <1>12, <2>1, <2>2, <3>1
    <3> QED
        BY <3>2 DEF Covered
  <2>4. Quiescent(o)'
      BY <2>2, Stages DEF Quiescent
  <2> QED
      BY <1>1, <2>1, <2>2, <2>3, <2>4
<1>5. ASSUME NEW n \in Name, Rewrite(o, n)
      PROVE  Usage'
  <2>1. \A p \in Owner : p # o => pc'[p] = pc[p]
      BY <1>3, <1>5 DEF Rewrite, Goto
  <2>2. pc[o] = Live /\ pc'[o] = <<"write", n>> /\ size' = size /\ extents' = extents
      BY <1>3, <1>5 DEF Rewrite, Goto, accountVars
  <2>3. Covered(o)'
      BY <1>2, <2>2, Stages DEF Covered
  <2>4. Quiescent(o)'
      BY <2>2, Stages DEF Quiescent
  <2> QED
      BY <1>1, <2>1, <2>2, <2>3, <2>4
<1>6. ASSUME NEW n \in Name, WriteBytes(o, n)
      PROVE  Usage'
  <2>1. PICK s \in size[<<o, n>>] .. extents[o][n] : size' = [size EXCEPT ![<<o, n>>] = s]
      BY <1>6 DEF WriteBytes
  <2>2. pc[o] = <<"write", n>> /\ pc'[o] = Live /\ extents' = extents
      BY <1>3, <1>6 DEF WriteBytes, Goto, accountVars
  <2>3. \A p \in Owner : p # o => pc'[p] = pc[p]
      BY <1>3, <1>6 DEF WriteBytes, Goto
  <2>4. /\ \A p \in Owner, m \in Name : p # o => size'[<<p, m>>] = size[<<p, m>>]
        /\ \A m \in Name : size'[<<o, m>>] = IF m = n THEN s ELSE size[<<o, m>>]
      BY <1>3, <2>1
  <2>5. Covered(o)'
    <3>1. \A m \in Name : size[<<o, m>>] <= extents[o][m]
        BY <1>13, <2>2, Stages
    <3>2. s <= extents[o][n]
        BY <1>12, <2>1
    <3>3. \A m \in Name : size'[<<o, m>>] <= extents'[o][m]
        BY <2>2, <2>4, <3>1, <3>2
    <3> QED
        BY <3>3 DEF Covered
  <2>6. Quiescent(o)'
      BY <2>2, Stages DEF Quiescent, Live
  <2> QED
      BY <1>1, <2>2, <2>3, <2>4, <2>5, <2>6
<1>7. ASSUME NEW n \in Name, Truncate(o, n)
      PROVE  Usage'
  <2>1. pc[o] = Live /\ pc'[o] = <<"release", n>> /\ extents' = extents
      BY <1>3, <1>7 DEF Truncate, Goto, accountVars
  <2>2. \A p \in Owner : p # o => pc'[p] = pc[p]
      BY <1>3, <1>7 DEF Truncate, Goto
  <2>3. /\ \A p \in Owner, m \in Name : p # o => size'[<<p, m>>] = size[<<p, m>>]
        /\ \A m \in Name : size'[<<o, m>>] = IF m = n THEN 0 ELSE size[<<o, m>>]
      BY <1>3, <1>7 DEF Truncate
  <2>4. Covered(o)'
    <3>1. \A m \in Name : size[<<o, m>>] <= extents[o][m]
        BY <1>13, <2>1, Stages
    <3>2. \A m \in Name : size'[<<o, m>>] <= extents'[o][m]
        BY <1>12, <2>1, <2>3, <3>1
    <3> QED
        BY <3>2 DEF Covered
  <2>5. Quiescent(o)'
      BY <2>1, <2>3, Stages DEF Quiescent
  <2> QED
      BY <1>1, <2>1, <2>2, <2>3, <2>4, <2>5
<1>8. ASSUME NEW n \in Name, ReleaseReset(o, n)
      PROVE  Usage'
  <2>1. pc[o] = <<"release", n>> /\ pc'[o] = Live /\ size' = size
      BY <1>3, <1>8 DEF ReleaseReset, Goto
  <2>2. /\ \A p \in Owner : p # o => pc'[p] = pc[p] /\ extents'[p] = extents[p]
        /\ \A m \in Name : extents'[o][m] = IF m = n THEN 0 ELSE extents[o][m]
      BY <1>3, <1>8 DEF ReleaseReset, Goto
  <2>3. Covered(o)'
    <3>1. \A m \in Name : size[<<o, m>>] <= extents[o][m]
        BY <1>13, <2>1, Stages
    <3>2. size[<<o, n>>] = 0
        BY <1>2, <2>1 DEF Quiescent
    <3>3. \A m \in Name : size'[<<o, m>>] <= extents'[o][m]
        BY <2>1, <2>2, <3>1, <3>2
    <3> QED
        BY <3>3 DEF Covered
  <2>4. Quiescent(o)'
      BY <2>1, Stages DEF Quiescent, Live
  <2> QED
      BY <1>1, <2>1, <2>2, <2>3, <2>4
<1>9. ASSUME NEW n \in Name, TruncateFails(o, n)
      PROVE  Usage'
  <2>1. pc[o] = Live /\ pc' = pc /\ extents' = extents
      BY <1>9 DEF TruncateFails, accountVars
  <2>2. /\ \A p \in Owner, m \in Name : p # o => size'[<<p, m>>] = size[<<p, m>>]
        /\ \A m \in Name : size'[<<o, m>>] = IF m = n THEN 0 ELSE size[<<o, m>>]
      BY <1>3, <1>9 DEF TruncateFails
  <2>3. Covered(o)'
    <3>1. \A m \in Name : size[<<o, m>>] <= extents[o][m]
        BY <1>13, <2>1, Stages
    <3>2. \A m \in Name : size'[<<o, m>>] <= extents'[o][m]
        BY <1>12, <2>1, <2>2, <3>1
    <3> QED
        BY <3>2 DEF Covered
  <2>4. Quiescent(o)'
      BY <2>1, Stages DEF Quiescent, Live
  <2> QED
      BY <1>1, <2>1, <2>2, <2>3, <2>4
<1>10. ASSUME CloseFiles(o)
       PROVE  Usage'
  <2>1. pc'[o] = <<"closing", 0>> /\ \A p \in Owner : p # o => pc'[p] = pc[p]
      BY <1>3, <1>10 DEF CloseFiles, Goto
  <2>2. extents' = extents
      BY <1>10 DEF CloseFiles, accountVars
  <2>3. /\ \A p \in Owner, m \in Name : p # o => size'[<<p, m>>] = size[<<p, m>>]
        /\ \A m \in Name : size'[<<o, m>>] = 0
      BY <1>10 DEF CloseFiles
  <2>4. Covered(o)'
    <3>1. \A m \in Name : size'[<<o, m>>] <= extents'[o][m]
        BY <1>12, <2>3
    <3> QED
        BY <3>1 DEF Covered
  <2>5. Quiescent(o)'
      BY <2>1, <2>3, Stages DEF Quiescent
  <2> QED
      BY <1>1, <2>1, <2>2, <2>3, <2>4, <2>5
<1>11. ASSUME ReleaseDropped(o)
       PROVE  Usage'
  <2>1. pc[o] = <<"closing", 0>> /\ size' = size
      BY <1>11 DEF ReleaseDropped, Goto
  <2>2. /\ \A p \in Owner : p # o => pc'[p] = pc[p] /\ extents'[p] = extents[p]
        /\ \A m \in Name : extents'[o][m] = 0
      BY <1>3, <1>11 DEF ReleaseDropped, Goto
  <2>3. \A m \in Name : size'[<<o, m>>] = 0
      BY <1>2, <2>1 DEF Quiescent
  <2>4. Quiescent(o)' /\ Covered(o)'
      BY <2>2, <2>3 DEF Quiescent, Covered
  <2> QED
      BY <1>1, <2>1, <2>2, <2>4
<1> QED
    BY <1>4, <1>5, <1>6, <1>7, <1>8, <1>9, <1>10, <1>11 DEF UseStep


\* A file that outlives the process is empty.
LEMMA UsageVanish ==
  ASSUME TypeOK, Usage, InUseIsAnonymous, NEW kept, kept = names \/ kept = dnames,
         Vanish(kept)
  PROVE  Usage'
<1>1. ASSUME NEW o \in Owner, NEW n \in Name
      PROVE  size'[<<o, n>>] = 0 /\ extents'[o][n] = 0
  <2>1. <<o, n>> \in File
      BY Names
  <2>2. size'[<<o, n>>] = IF \E m \in Name : kept[m] = <<o, n>> THEN size[<<o, n>>] ELSE 0
      BY <2>1 DEF Vanish
  <2>3. ASSUME pc[o] \notin InUse PROVE size[<<o, n>>] = 0
      BY <2>3 DEF Usage, Quiescent
  <2>4. ASSUME pc[o] \in InUse PROVE ~\E m \in Name : kept[m] = <<o, n>>
      BY <2>4 DEF InUseIsAnonymous
  <2>5. extents'[o][n] = 0
      BY DEF Vanish
  <2> QED
      BY <2>2, <2>3, <2>4, <2>5
<1> QED
    BY <1>1 DEF Usage, Quiescent, Covered

LEMMA UsageStep ==
  ASSUME TypeOK, TypeOK', Usage, InUseIsAnonymous, Next
  PROVE  Usage'
<1>1. ASSUME pc' = pc, extents' = extents, size' = size PROVE Usage'
    BY <1>1 DEF Usage, Quiescent, Covered
<1>2. ASSUME NEW o \in Owner, BootstrapStep(o) \/ UseStep(o) PROVE Usage'
    BY <1>2, UsageBoot, UsageUse
<1>3. CASE OtherCharge
    BY <1>1, <1>3 DEF OtherCharge
<1>4. CASE Close \/ Kill \/ PowerLoss
    BY <1>4, UsageVanish DEF Close, Kill, PowerLoss
<1>5. ASSUME NEW n \in Name, Writeback(n) PROVE Usage'
    BY <1>1, <1>5 DEF Writeback, accountVars
<1>6. CASE Recover
    BY <1>1, <1>6 DEF Recover, BeginRecovery, SyncLeftovers, RemoveLeftover, accountVars
<1> QED
    BY <1>2, <1>3, <1>4, <1>5, <1>6 DEF Next

-----------------------------------------------------------------------------
(* The directory.                                                           *)

\* Both views, as TypeOK gives them.
LEMMA Views ==
  ASSUME TypeOK
  PROVE  /\ names = Unnamed <=> \A n \in Name : names[n] = NoFile
         /\ dnames = Unnamed <=> \A n \in Name : dnames[n] = NoFile
BY DEF TypeOK, Unnamed

\* Using a pair changes neither view nor who may create one.
LEMMA DirectoryUse ==
  ASSUME TypeOK, Directory, NEW o \in Owner, UseStep(o)
  PROVE  Directory'
<1>1. /\ UNCHANGED <<names, dnames, admission, marked, handle>>
      /\ handle = "open"
    BY DEF UseStep, Reserve, Rewrite, WriteBytes, Truncate, ReleaseReset, TruncateFails,
           CloseFiles, ReleaseDropped, Goto, dirVars
<1>2. /\ pc[o] \in InUse /\ pc'[o] \in InUse \union {Idle}
      /\ \A p \in Owner : p # o => pc'[p] = pc[p]
    BY Stages DEF UseStep, Reserve, Rewrite, WriteBytes, Truncate, ReleaseReset,
           TruncateFails, CloseFiles, ReleaseDropped, Goto, TypeOK
<1>3. pc'[o] \notin Bootstrapping
    BY <1>2, Stages
<1>4. Stopped'
    BY <1>1 DEF Stopped
<1>5. \A p \in Owner : Boot(p)'
  <2>1. \A p \in Owner : pc'[p] \in Bootstrapping => pc'[p] = pc[p] /\ Boot(p)
      BY <1>2, <1>3 DEF Directory
  <2> QED
      BY <1>1, <2>1 DEF Boot, Clean
<1>6. NamesAreExclusive'
  <2>1. \A p \in Owner : pc'[p] \in Bootstrapping => pc'[p] = pc[p]
      BY <1>2, <1>3
  <2>2. \A p \in Owner, n \in Name : pc'[p] = <<"create", n>> => pc'[p] = pc[p]
      BY <2>1, Stages
  <2> QED
      BY <1>1, <2>1, <2>2 DEF Directory, NamesAreExclusive
<1>7. InUseIsAnonymous'
  <2>1. \A p \in Owner : pc'[p] \in InUse => pc[p] \in InUse
      BY <1>2
  <2> QED
      BY <1>1, <2>1 DEF Directory, InUseIsAnonymous
<1>8. IdleMeansClean'
    BY <1>1 DEF Directory, IdleMeansClean, Unnamed
<1> QED
    BY <1>4, <1>5, <1>6, <1>7, <1>8 DEF Directory

\* Without an open database nobody uses the names.
LEMMA DirectoryStopped ==
  ASSUME \A o \in Owner : pc'[o] = Idle,
         IdleMeansClean'
  PROVE  Directory'
<1>1. \A o \in Owner : pc'[o] \notin Bootstrapping /\ pc'[o] \notin InUse
    BY Stages
<1>2. \A o \in Owner, n \in Name : pc'[o] # <<"create", n>>
    BY <1>1, Stages
<1> QED
    BY <1>1, <1>2
    DEF Directory, Stopped, Boot, NamesAreExclusive, InUseIsAnonymous

\* The system writes back what the owner at work did.
LEMMA DirectoryWriteback ==
  ASSUME TypeOK, TypeOK', Directory, NEW n \in Name, Writeback(n)
  PROVE  Directory'
<1>1. /\ UNCHANGED <<names, admission, marked, pc, handle>>
      /\ \A m \in Name : dnames'[m] = dnames[m] \/ dnames'[m] = names[m]
    BY DEF Writeback, TypeOK
<1>2. Clean => Clean'
    BY DEF Clean, Writeback
<1>3. ASSUME NEW o \in Owner PROVE Boot(o)'
  <2>1. Boot(o)
      BY DEF Directory
  <2> QED
      BY <1>1, <1>2, <2>1 DEF Boot
<1>4. InUseIsAnonymous'
    BY <1>1 DEF Directory, InUseIsAnonymous
<1>5. IdleMeansClean'
    BY <1>1, <1>2 DEF Directory, IdleMeansClean, Clean
<1>6. Stopped' /\ NamesAreExclusive'
    BY <1>1 DEF Directory, Stopped, NamesAreExclusive
<1> QED
    BY <1>3, <1>4, <1>5, <1>6 DEF Directory


\* What the owner at work leaves in private/.
LEMMA BootStep ==
  ASSUME TypeOK, TypeOK', Directory, NEW o \in Owner, BootstrapStep(o)
  PROVE  Boot(o)'
<1> USE Names DEF Clean
<1>1. Boot(o) /\ (handle = "open" /\ admission = "idle" => Clean)
    BY DEF Directory, IdleMeansClean
<1>2. CASE Begin(o)
  <2>1. /\ pc'[o] = <<"inspect", 0>> /\ admission' = "creating"
        /\ names' = Unnamed /\ dnames' = Unnamed
      BY <1>1, <1>2 DEF Begin, Goto, TypeOK, dirVars
  <2>2. \A n \in Name : names'[n] = NoFile /\ dnames'[n] = NoFile
      BY <2>1, Views DEF Unnamed
  <2> QED
      BY <2>1, <2>2 DEF Boot, Unnamed
<1>3. CASE InspectNames(o)
  <2>1. Clean /\ admission = "creating"
      BY <1>1, <1>3, Stages DEF InspectNames, Goto, Boot
  <2>2. /\ pc'[o] = <<"create", 1>> /\ admission' = "creating"
        /\ names' = Unnamed /\ dnames' = Unnamed
      BY <1>3, <2>1 DEF InspectNames, Goto, TypeOK, dirVars
  <2>3. \A n \in Name : names'[n] = NoFile /\ dnames'[n] = NoFile
      BY <2>2, Views DEF Unnamed
  <2> QED
      BY <2>2, <2>3 DEF Boot, Unnamed
<1>4. ASSUME NEW n \in Name, Create(o, n) PROVE Boot(o)'
  <2>1. pc[o] = <<"create", n>> /\ pc[o] \in Bootstrapping
      BY <1>4, Stages DEF Create, Goto
  <2>2. /\ names = Unnamed /\ admission = "creating"
        /\ \A m \in Name : dnames[m] \in {NoFile, <<o, m>>}
      BY <1>1, <2>1 DEF Boot
  <2>3. /\ pc'[o] = <<"unlink", n>> /\ admission' = "creating" /\ dnames' = dnames
        /\ names' = [names EXCEPT ![n] = <<o, n>>] /\ marked'[o]
      BY <1>4, <2>2 DEF Create, Goto, TypeOK
  <2>4. \A m \in Name : names'[m] = IF m = n THEN <<o, n>> ELSE NoFile
      BY <2>2, <2>3 DEF Unnamed
  <2> QED
      BY <2>2, <2>3, <2>4 DEF Boot
<1>5. ASSUME NEW n \in Name, Unlink(o, n) PROVE Boot(o)'
  <2>1. pc[o] = <<"unlink", n>> /\ pc[o] \in Bootstrapping
      BY <1>5, Stages DEF Unlink, Goto
  <2>2. /\ admission = "creating" /\ \A m \in Name : m # n => names[m] = NoFile
        /\ \A m \in Name : dnames[m] \in {NoFile, <<o, m>>}
        /\ ~marked[o] => Clean
      BY <1>1, <2>1 DEF Boot
  <2>3. /\ pc'[o] \in {<<"create", 2>>, <<"sync", 0>>} /\ admission' = "creating"
        /\ dnames' = dnames /\ marked' = marked
        /\ names' = [names EXCEPT ![n] = NoFile]
      BY <1>5, <2>2 DEF Unlink, Goto, TypeOK
  <2>4. \A m \in Name : names'[m] = NoFile
      BY <2>2, <2>3 DEF TypeOK
  <2>5. names' = Unnamed
      BY <2>4 DEF TypeOK, Unnamed
  <2> QED
    <3>1. pc'[o] \notin {<<"inspect", 0>>, <<"create", 1>>, <<"admit", 0>>, <<"found", 0>>,
                        <<"unlink", 1>>, <<"unlink", 2>>}
        BY <2>3
    <3>2. ~marked'[o] => Clean'
        BY <2>2, <2>3, <2>5 DEF Unnamed
    <3> QED
        BY <2>2, <2>3, <2>4, <2>5, <3>1, <3>2 DEF Boot, Unnamed
<1>6. CASE SyncNames(o)
  <2>1. pc[o] = <<"sync", 0>> /\ pc[o] \in Bootstrapping
      BY <1>6, Stages DEF SyncNames, Goto
  <2>2. names = Unnamed /\ admission = "creating"
      BY <1>1, <2>1 DEF Boot
  <2>3. /\ pc'[o] = <<"admit", 0>> /\ admission' = "creating"
        /\ names' = Unnamed /\ dnames' = Unnamed
      BY <1>6, <2>2 DEF SyncNames, Goto, TypeOK
  <2>4. \A n \in Name : names'[n] = NoFile /\ dnames'[n] = NoFile
      BY <2>3, Views DEF Unnamed
  <2> QED
      BY <2>3, <2>4 DEF Boot, Unnamed
<1>7. CASE Admit(o) \/ FailBootstrap(o)
  <2>1. pc'[o] \in {Live, Idle}
      BY <1>7 DEF Admit, FailBootstrap, Goto, TypeOK
  <2>2. pc'[o] \notin Bootstrapping
      BY <2>1, Stages
  <2> QED
      BY <2>2 DEF Boot
<1> QED
    BY <1>2, <1>3, <1>4, <1>5, <1>6, <1>7 DEF BootstrapStep

LEMMA DirectoryBoot ==
  ASSUME TypeOK, TypeOK', Directory, NEW o \in Owner, BootstrapStep(o)
  PROVE  Directory'
<1> USE Names
<1>1. Boot(o)'
    BY BootStep
<1>2. handle = "open" /\ handle' = "open"
    BY DEF BootstrapStep, Begin, InspectNames, Create, Unlink, SyncNames, Admit,
           FailBootstrap, Goto
<1>3. \A p \in Owner : p # o => pc[p] \notin Bootstrapping /\ pc'[p] = pc[p]
  <2>1. \A p \in Owner : p # o => pc'[p] = pc[p]
      BY DEF BootstrapStep, Begin, InspectNames, Create, Unlink, SyncNames, Admit,
             FailBootstrap, Goto, TypeOK
  <2>2. admission = "idle" \/ pc[o] \in Bootstrapping
      BY Stages DEF BootstrapStep, Begin, InspectNames, Create, Unlink, SyncNames, Admit,
             FailBootstrap, Goto
  <2>3. \A p \in Owner : pc[p] \in Bootstrapping => admission # "idle"
      BY DEF Directory, Boot
  <2> QED
      BY <2>1, <2>2, <2>3 DEF Directory, NamesAreExclusive
<1>4. Stopped'
    BY <1>2 DEF Stopped
<1>5. \A p \in Owner : Boot(p)'
    BY <1>1, <1>3 DEF Boot
<1>6. NamesAreExclusive'
  <2>1. \A p, q \in Owner :
          pc'[p] \in Bootstrapping /\ pc'[q] \in Bootstrapping => p = q
      BY <1>3
  <2>2. ASSUME NEW p \in Owner, NEW n \in Name, pc'[p] = <<"create", n>>
        PROVE  names'[n] = NoFile
    <3>1. p = o /\ pc'[o] \in Bootstrapping
        BY <1>3, <2>2, Stages
    <3>2. names' = Unnamed
        BY <1>1, <2>2, <3>1 DEF Boot, Clean, Unnamed
    <3> QED
        BY <3>2 DEF Unnamed
  <2> QED
      BY <2>1, <2>2 DEF NamesAreExclusive
<1>7. \A n \in Name :
        /\ names'[n] \in {names[n], NoFile, <<o, n>>}
        /\ dnames'[n] \in {dnames[n], names[n]}
    BY DEF BootstrapStep, Begin, InspectNames, Create, Unlink, SyncNames, Admit,
           FailBootstrap, TypeOK, dirVars
<1>8. Admit(o) => names' = Unnamed /\ dnames' = Unnamed
  <2>1. Boot(o)
      BY DEF Directory
  <2> QED
      BY <2>1, Stages DEF Admit, Goto, Boot, Clean, dirVars
<1>9. pc'[o] \in InUse => Admit(o)
  <2>1. ASSUME ~Admit(o)
        PROVE  pc'[o] = Idle \/ pc'[o] \in Bootstrapping
    <3>1. CASE Begin(o) \/ InspectNames(o) \/ SyncNames(o) \/ FailBootstrap(o)
        BY <3>1, Stages DEF Begin, InspectNames, SyncNames, FailBootstrap, Goto, TypeOK
    <3>2. ASSUME NEW n \in Name, Create(o, n)
          PROVE  pc'[o] \in Bootstrapping
        BY <3>2, Stages DEF Create, Goto, TypeOK
    <3>3. ASSUME NEW n \in Name, Unlink(o, n)
          PROVE  pc'[o] \in Bootstrapping
      <4>1. pc'[o] \in {<<"create", 2>>, <<"sync", 0>>}
          BY <3>3 DEF Unlink, Goto, TypeOK
      <4> QED
          BY <4>1, Stages
    <3> QED
        BY <2>1, <3>1, <3>2, <3>3 DEF BootstrapStep
  <2> QED
      BY <2>1, Stages
<1>10. InUseIsAnonymous'
  <2>1. ASSUME NEW p \in Owner, pc'[p] \in InUse, NEW n \in Name, NEW m \in Name
        PROVE  <<p, n>> # names'[m] /\ <<p, n>> # dnames'[m]
    <3>1. CASE p = o
      <4>1. names'[m] = NoFile /\ dnames'[m] = NoFile
          BY <1>8, <1>9, <2>1, <3>1 DEF Unnamed
      <4> QED
          BY <4>1
    <3>2. CASE p # o
      <4>1. pc[p] \in InUse
          BY <1>3, <2>1, <3>2
      <4>2. <<p, n>> # names[m] /\ <<p, n>> # dnames[m]
          BY <4>1 DEF Directory, InUseIsAnonymous
      <4>3. <<p, n>> # <<o, m>> /\ <<p, n>> # NoFile
          BY <3>2
      <4> QED
          BY <1>7, <4>2, <4>3
    <3> QED
        BY <3>1, <3>2
  <2> QED
      BY <2>1 DEF InUseIsAnonymous
<1>11. IdleMeansClean'
  <2>1. SUFFICES ASSUME admission' = "idle"
                 PROVE  names' = Unnamed /\ dnames' = Unnamed
      BY DEF IdleMeansClean, Unnamed
  <2>2. Boot(o)
      BY DEF Directory
  <2>3. pc[o] \in Bootstrapping /\ LeaveBootstrap(o) /\ UNCHANGED <<names, dnames>>
    <3>1. pc[o] \in Bootstrapping => admission = "creating"
        BY <2>2 DEF Boot
    <3> QED
        BY <2>1, <3>1, Stages
        DEF BootstrapStep, Begin, InspectNames, Create, Unlink, SyncNames, Admit,
            FailBootstrap, Goto, dirVars
  <2>4. ~marked[o]
      BY <2>1, <2>3 DEF LeaveBootstrap
  <2> QED
      BY <2>2, <2>3, <2>4 DEF Boot, Clean
<1> QED
    BY <1>4, <1>5, <1>6, <1>10, <1>11 DEF Directory

LEMMA DirectoryStep ==
  ASSUME TypeOK, TypeOK', Directory, Next
  PROVE  Directory'
<1>1. ASSUME NEW o \in Owner, BootstrapStep(o) \/ UseStep(o) PROVE Directory'
    BY <1>1, DirectoryBoot, DirectoryUse
<1>2. CASE OtherCharge
  <2>1. UNCHANGED <<names, dnames, admission, marked, pc, handle>>
      BY <1>2 DEF OtherCharge, dirVars
  <2> QED
      BY <2>1 DEF Directory, Stopped, Boot, Clean, Unnamed, NamesAreExclusive,
                  InUseIsAnonymous, IdleMeansClean
<1>3. CASE Close \/ Kill \/ PowerLoss
  <2>1. handle' = "closed" /\ \A o \in Owner : pc'[o] = Idle
      BY <1>3 DEF Close, Kill, PowerLoss, Vanish
  <2>2. IdleMeansClean'
      BY <2>1 DEF IdleMeansClean
  <2> QED
      BY <2>1, <2>2, DirectoryStopped
<1>4. ASSUME NEW n \in Name, Writeback(n) PROVE Directory'
    BY <1>4, DirectoryWriteback
<1>5. CASE Recover
  <2>1. handle # "open" /\ pc' = pc
      BY <1>5 DEF Recover, BeginRecovery, SyncLeftovers, RemoveLeftover
  <2>2. \A o \in Owner : pc'[o] = Idle
      BY <2>1 DEF Directory, Stopped
  <2>3. handle' = "open" => names' = Unnamed /\ dnames' = Unnamed
      BY <1>5, <2>1 DEF Recover, BeginRecovery, SyncLeftovers, RemoveLeftover, Unnamed
  <2>4. IdleMeansClean'
      BY <2>3 DEF IdleMeansClean, Unnamed
  <2> QED
      BY <2>2, <2>4, DirectoryStopped
<1> QED
    BY <1>1, <1>2, <1>3, <1>4, <1>5 DEF Next

-----------------------------------------------------------------------------
(* The invariant.                                                           *)

LEMMA InitIInv ==
  Init => IInv
<1> SUFFICES ASSUME Init PROVE IInv
    OBVIOUS
<1> USE Names, ScratchAssumption
<1>1. TypeOK
    BY StagesTyped DEF Init, TypeOK, Unnamed
<1>2. \A o \in Owner : pc[o] = Idle /\ pc[o] \notin Bootstrapping /\ pc[o] \notin InUse
    BY Stages DEF Init
<1>3. Directory
  <2>1. \A o \in Owner, n \in Name : pc[o] # <<"create", n>>
      BY <1>2, Stages
  <2> QED
      BY <1>2, <2>1
      DEF Directory, Stopped, Boot, NamesAreExclusive, InUseIsAnonymous, IdleMeansClean,
          Init
<1>4. Usage
    BY <1>2 DEF Usage, Quiescent, Covered, Init
<1>5. Charged
  <2>1. \A o \in Owner : Charges[o] = 0
      BY DEF Init, Charges, Held
  <2>2. SumFunctionOnSet(Charges, Owner) = 0
      BY <2>1, SumZero
  <2> QED
      BY <2>2 DEF Charged, Init
<1> QED
    BY <1>1, <1>3, <1>4, <1>5 DEF IInv

LEMMA IInvStep ==
  IInv /\ [Next]_vars => IInv'
<1>1. ASSUME IInv, Next PROVE IInv'
  <2>1. TypeOK'
      BY <1>1, TypeBoot, TypeUse, TypeRest DEF IInv, Next
  <2>2. Directory' /\ Charged'
      BY <1>1, <2>1, DirectoryStep, ChargedStep DEF IInv
  <2>3. Usage'
      BY <1>1, <2>1, UsageStep DEF IInv, Directory
  <2> QED
      BY <2>1, <2>2, <2>3 DEF IInv
<1>2. ASSUME IInv, UNCHANGED vars PROVE IInv'
  <2>1. UNCHANGED <<names, dnames, size, admission, marked, extents, reserved, other, pc,
                    handle>>
      BY <1>2 DEF vars, dirVars, accountVars
  <2>2. TypeOK'
      BY <1>2, <2>1 DEF IInv, TypeOK
  <2>3. Directory'
      BY <1>2, <2>1 DEF IInv, Directory, Stopped, Boot, Clean, Unnamed, NamesAreExclusive,
                  InUseIsAnonymous, IdleMeansClean
  <2>4. Usage'
      BY <1>2, <2>1 DEF IInv, Usage, Quiescent, Covered
  <2>5. Charged'
    <3>1. reserved' + other = reserved + other' /\ reserved' <= Limit
        BY <1>2, <2>1 DEF IInv, TypeOK
    <3> QED
        BY <1>2, <2>1, <2>2, <3>1, ChargeStays DEF IInv
  <2> QED
      BY <2>2, <2>3, <2>4, <2>5 DEF IInv
<1> QED
    BY <1>1, <1>2

-----------------------------------------------------------------------------
\* The invariant holds in every reachable state, for any number of owners.
THEOREM Invariance == Spec => []IInv
BY InitIInv, IInvStep, PTL DEF Spec

\* Every field of Admission, Bootstrap, Scratch and the temporary account keeps
\* its type: in particular no release underflows (Drop for Scratch).
THEOREM TypeCorrect == Spec => []TypeOK
BY Invariance, PTL DEF IInv

\* Scratch in use has no name in either view, so no power loss names a payload
\* (Scratch::admit after the barrier that makes the removal durable).
THEOREM InUseIsAlwaysAnonymous == Spec => []InUseIsAnonymous
BY Invariance, PTL DEF IInv, Directory

\* validate_scratch_names accepts what any interruption leaves in private/.
THEOREM LeftoversAreAlwaysRemovable == Spec => []LeftoversRemovable
<1>1. IInv => LeftoversRemovable
  <2> SUFFICES ASSUME IInv, handle = "closed", NEW n \in Name, names[n] # NoFile
               PROVE  size[names[n]] = 0
      BY DEF LeftoversRemovable, Removable
  <2>1. PICK o \in Owner, m \in Name : names[n] = <<o, m>>
      BY DEF IInv, TypeOK, File
  <2>2. pc[o] \notin InUse
      BY Stages DEF IInv, Directory, Stopped
  <2>3. size[<<o, m>>] = 0
      BY <2>2 DEF IInv, Usage, Quiescent
  <2> QED
      BY <2>1, <2>3
<1> QED
    BY Invariance, <1>1, PTL

\* Admission lets one operation at a time use the two names, and it finds the
\* name it creates free (Admission::begin, create_new_read_write).
THEOREM NamesAreAlwaysExclusive == Spec => []NamesAreExclusive
BY Invariance, PTL DEF IInv, Directory

\* A further creation is only admitted when no name is left, visible or durable
\* (Bootstrap's drop and repair_namespace).
THEOREM IdleAlwaysMeansClean == Spec => []IdleMeansClean
BY Invariance, PTL DEF IInv, Directory

\* Files never pass their charges, and the charges never pass the budget
\* (Scratch::write, reset and drop).
THEOREM UsageAlwaysWithinBudget == Spec => []UsageWithinBudget
<1>1. IInv => UsageWithinBudget
    BY Budget DEF IInv, Usage
<1> QED
    BY Invariance, <1>1, PTL
=============================================================================
