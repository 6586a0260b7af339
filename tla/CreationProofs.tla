---------------------------- MODULE CreationProofs ----------------------------
(***************************************************************************)
(* Proofs about Creation, for any number of processes and of directories    *)
(* made at the path.                                                        *)
(*                                                                          *)
(* The argument.  Whoever acts on a directory owns the one at the path, and  *)
(* either holds the lock on its LOCK file or the directory holds at most     *)
(* that file (Bound).  An opener only passes inspection with the lock and    *)
(* with every mandatory name present, so neither kind of actor can be        *)
(* somebody else.  An incarnation has one creator (Creators), which alone    *)
(* says how its creation ended; what it waited for before it said so stays   *)
(* true (Progress).                                                          *)
(***************************************************************************)
EXTENDS Creation, TLAPS

\* Stages in which a process need not hold its lock, and those in which it does.
Unlocked == {<<"make", 1>>, At("lease")}
Locking ==
  (Creating \ Unlocked) \union
  {At("check"), At("locked"), At("inspected"), At("repair"), At("live")}

Owning(p) == pc[p] \in Creating \union Removing

\* Incarnations are numbered as they are made.
Numbered ==
  /\ dir \in survivors /\ survivors \subseteq 0 .. used
  /\ \A p \in Process : own[p] <= used
  /\ \A i \in Incarnation : told[i] # "nothing" => i <= used

\* One creator each, which has not returned.
Creators ==
  /\ \A p, q \in Process : Owning(p) /\ Owning(q) /\ own[p] = own[q] => p = q
  /\ \A p \in Process : Owning(p) => told[own[p]] = "nothing"

\* What a process acts on.
Bound(p) ==
  /\ pc[p] # Out => own[p] # 0
  /\ pc[p] \in Locking => Leased(p)
  /\ pc[p] \in Unlocked => names \subseteq {"LOCK"}
  /\ Acting(p) => dir = own[p] /\ (Leased(p) \/ names \subseteq {"LOCK"})
  /\ \A k \in Steps : pc[p] = <<"fill", k>> => CreationOrder[k] \in Written

\* What a process has established.
Progress(p) ==
  /\ pc[p] \in {At("syncRoot"), At("syncParent"), At("registry"), At("live")} =>
       names = Entry /\ Written \subseteq whole[own[p]]
  /\ pc[p] \in {At("syncParent"), At("registry")} =>
       synced[own[p]] = Entry /\ touched[own[p]] = {}
  /\ pc[p] = At("registry") => survivors = {dir}
  /\ pc[p] \in {At("inspected"), At("repair")} => Mandatory \subseteq names
  /\ pc[p] = At("repair") => "CONTROL" \in whole[own[p]]
  /\ pc[p] = At("syncGone") /\ clean[p] => dir # own[p]

IInv ==
  /\ TypeOK /\ Numbered /\ Creators
  /\ \A p \in Process : Bound(p) /\ Progress(p)
  /\ OneActor /\ CreatedIsDurable /\ FailedIsGone


-----------------------------------------------------------------------------
(* Stages and entries.                                                      *)

ActStage ==
  Creating \union (Removing \ {At("syncGone")}) \union
  {At("live"), At("inspected"), At("repair")}

\* The stages Progress speaks of.
Late ==
  {At("syncRoot"), At("syncParent"), At("registry"), At("live"), At("inspected"),
   At("repair"), At("syncGone")}

LEMMA ActingStages ==
  ASSUME NEW p \in Process
  PROVE  Acting(p) <=> pc[p] \in ActStage
BY DEF Acting, Live, ActStage, Removing

LEMMA Kinds ==
  /\ Creating \intersect Removing = {} /\ Creating \intersect Opening = {}
  /\ Removing \intersect Opening = {}
  /\ Out \notin Creating \union Removing \union Opening
  /\ At("live") \notin Creating \union Removing \union Opening \union {Out}
  /\ Unlocked \subseteq Creating /\ Unlocked \intersect Locking = {}
  /\ Creating \subseteq Unlocked \union Locking
  /\ Locking \intersect Removing = {At("check")} /\ Out \notin Locking
BY DEF Creating, Removing, Opening, Out, At, Making, Filling, Unlocked, Locking, Steps

LEMMA Named ==
  /\ {At("lease"), At("validate"), At("syncRoot"), At("syncParent"), At("registry")}
       \subseteq Creating
  /\ {At("check"), At("rmdir"), At("syncGone")} \subseteq Removing
  /\ Opening = {At("found"), At("locked"), At("inspected"), At("repair")}
  /\ At("found") \notin Locking /\ At("lease") \in Unlocked
  /\ {At("validate"), At("syncRoot"), At("syncParent"), At("registry"), At("check"),
      At("locked"), At("inspected"), At("repair"), At("live")} \subseteq Locking
  /\ {At("lease"), At("validate"), At("check"), At("rmdir"), At("found"), At("locked"),
      Out} \intersect Late = {}
BY DEF Creating, Removing, Opening, Out, At, Making, Filling, Unlocked, Locking, Late

LEMMA Numbers ==
  /\ <<"make", 1>> \in Unlocked
  /\ \A k \in Steps : <<"make", k>> \in Creating /\ <<"make", k>> \notin Late
  /\ \A k \in Steps : k # 1 => <<"make", k>> \in Locking
  /\ \A k \in Steps : <<"fill", k>> \in Creating /\ <<"fill", k>> \notin Late
  /\ \A k \in Steps : <<"fill", k>> \in Locking
  /\ \A k \in Steps : <<"remove", k>> \in Removing /\ <<"remove", k>> \notin Late
  /\ \A k \in Steps : <<"remove", k>> \notin Locking
  /\ At("rmdir") \notin Locking /\ At("syncGone") \notin Locking
BY DEF Creating, Removing, At, Making, Filling, Unlocked, Locking, Late, Steps

LEMMA ActStages ==
  /\ Creating \subseteq ActStage /\ Unlocked \subseteq ActStage
  /\ {At("check"), At("rmdir"), At("live"), At("inspected"), At("repair")} \subseteq ActStage
  /\ \A k \in Steps : <<"remove", k>> \in ActStage
  /\ {Out, At("found"), At("locked"), At("syncGone")} \intersect ActStage = {}
  /\ Late \ {At("syncGone")} \subseteq ActStage
  /\ \A s \in ActStage : s \in Creating \/ s \in Removing \/ s = At("live")
                           \/ s = At("inspected") \/ s = At("repair")
BY DEF ActStage, Creating, Removing, Out, At, Making, Filling, Unlocked, Late, Steps

\* The steps of the two orders, one by one.
LEMMA Nexts ==
  \A k \in Steps :
    /\ After(k) \in Creating /\ After(k) \notin Late /\ After(k) \in Locking
    /\ AfterRemoving(k) \in Removing /\ AfterRemoving(k) \notin Late
    /\ AfterRemoving(k) \notin Locking /\ AfterRemoving(k) \in ActStage
<1> SUFFICES ASSUME NEW k \in Steps
             PROVE  /\ After(k) \in Creating /\ After(k) \notin Late /\ After(k) \in Locking
                    /\ AfterRemoving(k) \in Removing /\ AfterRemoving(k) \notin Late
                    /\ AfterRemoving(k) \notin Locking /\ AfterRemoving(k) \in ActStage
    OBVIOUS
<1>1. CASE k = 6
    BY <1>1, Named, Numbers, ActStages DEF After, AfterRemoving
<1>2. CASE k # 6
  <2>1. k + 1 \in Steps /\ k + 1 # 1
      BY <1>2 DEF Steps
  <2> QED
      BY <1>2, <2>1, Numbers, ActStages DEF After, AfterRemoving
<1> QED
    BY <1>1, <1>2

LEMMA Orders ==
  /\ \A k \in Steps : CreationOrder[k] \in Entry /\ RemovalOrder[k] \in Entry
  /\ \A k \in Steps : CreationOrder[k] = "LOCK" <=> k = 1
BY DEF Steps, CreationOrder, RemovalOrder, Entry, Mandatory, Roots

Stage == Creating \union Removing \union Opening \union {Out, At("live")}


-----------------------------------------------------------------------------
(* Types.                                                                   *)

LEMMA LeaveTyped ==
  ASSUME TypeOK, NEW ps, Leave(ps)
  PROVE  /\ pc' \in [Process -> Stage] /\ own' \in [Process -> 0 .. MaxCreations]
         /\ clean' \in [Process -> BOOLEAN]
         /\ holder' \in [Incarnation -> Process \union {Nobody}]
         /\ \A p \in Process : p \notin ps => pc'[p] = pc[p] /\ own'[p] = own[p]
                                               /\ clean'[p] = clean[p]
         /\ \A p \in Process : p \in ps => pc'[p] = Out /\ own'[p] = 0
         /\ \A i \in Incarnation : holder'[i] = IF holder[i] \in ps THEN Nobody ELSE holder[i]
<1>1. pc' \in [Process -> Stage]
    BY DEF Leave, TypeOK, Stage
<1>2. own' \in [Process -> 0 .. MaxCreations] /\ clean' \in [Process -> BOOLEAN]
  <2>1. own' \in [Process -> 0 .. MaxCreations]
    <3>1. 0 \in 0 .. MaxCreations
        BY CreationAssumption
    <3>2. \A p \in Process : own[p] \in 0 .. MaxCreations
        BY DEF TypeOK
    <3> QED
        BY <3>1, <3>2 DEF Leave
  <2>2. \A p \in Process : (p \in ps \/ clean[p]) \in BOOLEAN
      OBVIOUS
  <2> QED
      BY <2>1, <2>2 DEF Leave
<1>3. holder' \in [Incarnation -> Process \union {Nobody}]
    BY DEF Leave, Unlock, TypeOK
<1>4. \A p \in Process : p \notin ps => pc'[p] = pc[p] /\ own'[p] = own[p]
    BY DEF Leave
<1>5. \A p \in Process : p \notin ps => clean'[p] = clean[p]
    BY DEF Leave, TypeOK
<1>6. \A p \in Process : p \in ps => pc'[p] = Out /\ own'[p] = 0
    BY DEF Leave
<1>7. \A i \in Incarnation : holder'[i] = IF holder[i] \in ps THEN Nobody ELSE holder[i]
    BY DEF Leave, Unlock
<1> QED
    BY <1>1, <1>2, <1>3, <1>4, <1>5, <1>6, <1>7

LEMMA KeepTyped ==
  ASSUME NEW T, NEW f \in [Incarnation -> SUBSET T], NEW d
  PROVE  /\ Keep(f, d) \in [Incarnation -> SUBSET T]
         /\ \A i \in Incarnation : Keep(f, d)[i] = IF i = d THEN f[i] ELSE {}
BY DEF Keep

\* What TypeOK says of the path.
PathTyped ==
  /\ dir \in 0 .. MaxCreations
  /\ survivors \subseteq 0 .. MaxCreations
  /\ names \subseteq Entry /\ (dir = 0 => names = {})
  /\ synced \in [Incarnation -> SUBSET Entry]
  /\ touched \in [Incarnation -> SUBSET Entry]
  /\ whole \in [Incarnation -> SUBSET Written]

\* What it says of the processes.
ProcTyped ==
  /\ used \in 0 .. MaxCreations
  /\ holder \in [Incarnation -> Process \union {Nobody}]
  /\ pc \in [Process -> Stage]
  /\ own \in [Process -> 0 .. MaxCreations]
  /\ clean \in [Process -> BOOLEAN]
  /\ told \in [Incarnation ->
                 {"nothing", "created", "failed and gone", "cleanup required"}]

LEMMA Typed == TypeOK <=> PathTyped /\ ProcTyped
BY DEF TypeOK, PathTyped, ProcTyped, Stage

LEMMA StagesTyped ==
  Creating \subseteq Stage /\ Removing \subseteq Stage /\ Opening \subseteq Stage
    /\ Out \in Stage /\ At("live") \in Stage
BY DEF Stage

\* The creator's incarnation is a directory.
LEMMA Owned ==
  ASSUME TypeOK, NEW p \in Process, Bound(p)
  PROVE  /\ pc[p] # Out => own[p] \in Incarnation
         /\ pc[p] \in ActStage => dir = own[p] /\ dir \in Incarnation
<1>1. own[p] \in 0 .. MaxCreations /\ (pc[p] # Out => own[p] # 0)
    BY DEF TypeOK, Bound
<1>2. pc[p] # Out => own[p] \in Incarnation
    BY <1>1, CreationAssumption DEF Incarnation
<1>3. pc[p] \in ActStage => pc[p] # Out /\ dir = own[p]
    BY ActingStages, ActStages DEF Bound
<1> QED
    BY <1>2, <1>3

LEMMA ProcTypedStep ==
  ASSUME TypeOK, NEW p \in Process, Bound(p),
         CreateStep(p) \/ CleanupStep(p) \/ OpenStep(p) \/ RefuseCloseOrKill(p)
  PROVE  ProcTyped'
<1>0. ProcTyped
    BY Typed
<1>a. 1 \in Steps /\ 2 \in Steps
    BY DEF Steps
<1> USE StagesTyped, Kinds, Named, Numbers, Nexts, CreationAssumption DEF Goto
<1>1. CASE CreateStep(p)
  <2>1. CASE CreateDirectory(p)
    <3>1. used' \in Incarnation /\ used' \in 0 .. MaxCreations
      <4>1. used' = used + 1 /\ used < MaxCreations /\ used \in 0 .. MaxCreations
          BY <1>0, <2>1 DEF CreateDirectory, ProcTyped
      <4> QED
          BY <4>1 DEF Incarnation
    <3>2. pc' \in [Process -> Stage]
        BY <1>0, <2>1 DEF CreateDirectory, ProcTyped
    <3>3. own' \in [Process -> 0 .. MaxCreations] /\ clean' \in [Process -> BOOLEAN]
      <4>1. own' = [own EXCEPT ![p] = used'] /\ clean' = [clean EXCEPT ![p] = TRUE]
          BY <2>1 DEF CreateDirectory
      <4> QED
          BY <1>0, <3>1, <4>1 DEF ProcTyped
    <3> QED
        BY <1>0, <2>1, <3>1, <3>2, <3>3 DEF CreateDirectory, ProcTyped
  <2>2. CASE TakeLease(p)
    <3>1. pc' \in [Process -> Stage]
        BY <1>0, <1>a, <2>2 DEF TakeLease, ProcTyped
    <3>2. holder' \in [Incarnation -> Process \union {Nobody}]
        BY <1>0, <2>2 DEF TakeLease, ProcTyped
    <3> QED
        BY <1>0, <2>2, <3>1, <3>2 DEF TakeLease, ProcTyped, procVars
  <2>3. ASSUME NEW k \in Steps, CreateEntry(p, k) PROVE ProcTyped'
    <3>1. pc' \in [Process -> Stage]
        BY <1>0, <2>3 DEF CreateEntry, ProcTyped
    <3> QED
        BY <1>0, <2>3, <3>1 DEF CreateEntry, ProcTyped, procVars
  <2>4. ASSUME NEW k \in Steps, FillEntry(p, k) PROVE ProcTyped'
      BY <1>0, <2>4 DEF FillEntry, ProcTyped, procVars
  <2>5. CASE ValidateCreated(p)
      BY <1>0, <2>5 DEF ValidateCreated, ProcTyped, procVars
  <2>6. CASE SyncRoot(p)
      BY <1>0, <2>6 DEF SyncRoot, ProcTyped, procVars
  <2>7. CASE SyncParent(p)
      BY <1>0, <2>7 DEF SyncParent, ProcTyped, procVars
  <2>8. CASE FinishCreate(p)
    <3>1. pc' \in [Process -> Stage]
        BY <1>0, <2>8 DEF FinishCreate, ProcTyped
    <3>2. told' \in [Incarnation ->
                 {"nothing", "created", "failed and gone", "cleanup required"}]
        BY <1>0, <2>8 DEF FinishCreate, ProcTyped
    <3> QED
        BY <1>0, <2>8, <3>1, <3>2 DEF FinishCreate, ProcTyped, procVars
  <2> QED
      BY <1>1, <2>1, <2>2, <2>3, <2>4, <2>5, <2>6, <2>7, <2>8 DEF CreateStep
<1>2. CASE CleanupStep(p)
  <2>1. CASE FailCreation(p)
      BY <1>0, <1>a, <2>1 DEF FailCreation, ProcTyped, procVars
  <2>2. CASE CheckLock(p)
      BY <1>0, <1>a, <2>2 DEF CheckLock, ProcTyped, procVars
  <2>3. CASE CleanupFails(p) \/ SyncGone(p)
    <3>1. \E t \in {"failed and gone", "cleanup required"} :
            told' = [told EXCEPT ![own[p]] = t]
        BY <2>3 DEF CleanupFails, SyncGone, Report
    <3>2. told' \in [Incarnation ->
                 {"nothing", "created", "failed and gone", "cleanup required"}]
        BY <1>0, <3>1 DEF ProcTyped
    <3>3. /\ pc' \in [Process -> Stage] /\ own' \in [Process -> 0 .. MaxCreations]
          /\ clean' \in [Process -> BOOLEAN]
          /\ holder' \in [Incarnation -> Process \union {Nobody}]
        BY <2>3, LeaveTyped DEF CleanupFails, SyncGone
    <3> QED
        BY <1>0, <2>3, <3>2, <3>3 DEF CleanupFails, SyncGone, ProcTyped
  <2>4. ASSUME NEW k \in Steps, RemoveEntry(p, k) PROVE ProcTyped'
      BY <1>0, <2>4 DEF RemoveEntry, ProcTyped
  <2>5. CASE RemoveRoot(p)
      BY <1>0, <2>5 DEF RemoveRoot, ProcTyped
  <2> QED
      BY <1>2, <2>1, <2>2, <2>3, <2>4, <2>5 DEF CleanupStep
<1>3. CASE OpenStep(p)
  <2>1. CASE FindLock(p)
      BY <1>0, <2>1 DEF FindLock, ProcTyped, TypeOK
  <2>2. CASE TryLock(p)
    <3>1. pc' \in [Process -> Stage]
        BY <1>0, <2>2 DEF TryLock, ProcTyped
    <3>2. holder' \in [Incarnation -> Process \union {Nobody}]
        BY <1>0, <2>2 DEF TryLock, ProcTyped
    <3> QED
        BY <1>0, <2>2, <3>1, <3>2 DEF TryLock, ProcTyped, procVars
  <2>3. CASE InspectNames(p) \/ ReadAuthority(p) \/ Repair(p)
    <3>1. pc' \in [Process -> Stage]
        BY <1>0, <2>3 DEF InspectNames, ReadAuthority, Repair, ProcTyped
    <3> QED
        BY <1>0, <2>3, <3>1 DEF InspectNames, ReadAuthority, Repair, ProcTyped, procVars
  <2> QED
      BY <1>3, <2>1, <2>2, <2>3 DEF OpenStep
<1>4. CASE RefuseCloseOrKill(p)
    BY <1>0, <1>4, LeaveTyped DEF RefuseCloseOrKill, ProcTyped
<1> QED
    BY <1>1, <1>2, <1>3, <1>4

LEMMA PathTypedStep ==
  ASSUME TypeOK, NEW p \in Process, Bound(p),
         CreateStep(p) \/ CleanupStep(p) \/ OpenStep(p) \/ RefuseCloseOrKill(p)
  PROVE  PathTyped'
<1>0. PathTyped /\ (pc[p] \in ActStage => dir = own[p] /\ dir \in Incarnation)
    BY Typed, Owned
<1> USE ActStages, Orders
<1>1. ASSUME UNCHANGED pathVars PROVE PathTyped'
    BY <1>0, <1>1 DEF pathVars, entryVars, PathTyped
<1>2. CASE CreateDirectory(p)
  <2>1. used + 1 \in 0 .. MaxCreations /\ used + 1 # 0
    <3>1. used < MaxCreations /\ used \in 0 .. MaxCreations
        BY <1>2 DEF CreateDirectory, TypeOK
    <3> QED
        BY <3>1, CreationAssumption
  <2> QED
      BY <1>0, <1>2, <2>1 DEF CreateDirectory, PathTyped
<1>3. ASSUME NEW k \in Steps, CreateEntry(p, k) PROVE PathTyped'
  <2>1. pc[p] \in ActStage
      BY <1>3, Numbers DEF CreateEntry, Goto
  <2>2. names' \subseteq Entry /\ touched' \in [Incarnation -> SUBSET Entry]
      BY <1>0, <1>3, <2>1 DEF CreateEntry, Touch, PathTyped
  <2>3. dir # 0
      BY <1>0, <2>1 DEF Incarnation
  <2> QED
      BY <1>0, <1>3, <2>2, <2>3 DEF CreateEntry, PathTyped
<1>4. ASSUME NEW k \in Steps, FillEntry(p, k) PROVE PathTyped'
  <2>1. CreationOrder[k] \in Written
      BY <1>4 DEF FillEntry, Goto, Bound
  <2>2. whole' \in [Incarnation -> SUBSET Written]
      BY <1>0, <1>4, <2>1 DEF FillEntry, PathTyped
  <2> QED
      BY <1>0, <1>4, <2>2 DEF FillEntry, PathTyped
<1>5. CASE SyncRoot(p)
  <2>1. synced' \in [Incarnation -> SUBSET Entry] /\ touched' \in [Incarnation -> SUBSET Entry]
      BY <1>0, <1>5 DEF SyncRoot, SyncEntries, PathTyped
  <2> QED
      BY <1>0, <1>5, <2>1 DEF SyncRoot, PathTyped
<1>6. CASE SyncParent(p) \/ SyncGone(p)
  <2>1. /\ survivors' = {dir} /\ synced' = Keep(synced, dir) /\ touched' = Keep(touched, dir)
        /\ whole' = Keep(whole, dir) /\ UNCHANGED <<dir, names>>
      BY <1>6 DEF SyncParent, SyncGone
  <2>2. /\ synced' \in [Incarnation -> SUBSET Entry]
        /\ touched' \in [Incarnation -> SUBSET Entry]
        /\ whole' \in [Incarnation -> SUBSET Written]
      BY <1>0, <2>1, KeepTyped DEF PathTyped
  <2> QED
      BY <1>0, <2>1, <2>2 DEF PathTyped
<1>7. ASSUME NEW k \in Steps, RemoveEntry(p, k) PROVE PathTyped'
  <2>1. touched' \in [Incarnation -> SUBSET Entry]
      BY <1>0, <1>7 DEF RemoveEntry, Touch, PathTyped
  <2> QED
      BY <1>0, <1>7, <2>1 DEF RemoveEntry, PathTyped
<1>8. CASE RemoveRoot(p)
  <2>1. \/ names = {} /\ dir' = 0 /\ survivors' = survivors \union {0}
        \/ UNCHANGED <<dir, survivors>>
      BY <1>8 DEF RemoveRoot
  <2>2. UNCHANGED <<names, synced, touched, whole>>
      BY <1>8 DEF RemoveRoot, entryVars
  <2>3. 0 \in 0 .. MaxCreations
      BY CreationAssumption
  <2>4. dir' \in 0 .. MaxCreations /\ survivors' \subseteq 0 .. MaxCreations
      BY <1>0, <2>1, <2>3 DEF PathTyped
  <2>5. dir' = 0 => names' = {}
      BY <1>0, <2>1, <2>2 DEF PathTyped
  <2> QED
      BY <1>0, <2>2, <2>4, <2>5 DEF PathTyped
<1>9. CASE Repair(p)
  <2>1. pc[p] \in ActStage
      BY <1>9 DEF Repair, Goto
  <2>2. Roots \subseteq Entry /\ Roots \union {"WAL"} \subseteq Written
      BY DEF Entry, Mandatory, Roots, Written
  <2>3. names' \subseteq Entry
      BY <1>0, <1>9, <2>2 DEF Repair, PathTyped
  <2>4. /\ synced' \in [Incarnation -> SUBSET Entry]
        /\ touched' \in [Incarnation -> SUBSET Entry]
      BY <1>0, <1>9, <2>3 DEF Repair, SyncEntries, PathTyped
  <2>5. whole' \in [Incarnation -> SUBSET Written]
      BY <1>0, <1>9, <2>2 DEF Repair, PathTyped
  <2>6. dir # 0
      BY <1>0, <2>1 DEF Incarnation
  <2> QED
      BY <1>0, <1>9, <2>3, <2>4, <2>5, <2>6 DEF Repair, PathTyped
<1> QED
    BY <1>1, <1>2, <1>3, <1>4, <1>5, <1>6, <1>7, <1>8, <1>9
    DEF CreateStep, CleanupStep, OpenStep, TakeLease, ValidateCreated, FinishCreate,
        FailCreation, CheckLock, CleanupFails, FindLock, TryLock, InspectNames,
        ReadAuthority, RefuseCloseOrKill

LEMMA PowerLossTyped ==
  ASSUME TypeOK, PowerLoss
  PROVE  TypeOK'
<1>0. PathTyped /\ ProcTyped
    BY Typed
<1>1. ProcTyped'
    BY <1>0, LeaveTyped DEF PowerLoss, ProcTyped
<1>2. whole' \in [Incarnation -> SUBSET Written]
    BY <1>0, KeepTyped DEF PowerLoss, PathTyped
<1>3. dir' \in 0 .. MaxCreations /\ survivors' = {dir'}
    BY <1>0 DEF PowerLoss, PathTyped
<1>4. touched' \in [Incarnation -> SUBSET Entry]
  <2>1. touched' = Keep(touched, 0)
      BY DEF PowerLoss
  <2> QED
      BY <1>0, <2>1, KeepTyped DEF PathTyped
<1>5. names' \subseteq Entry /\ (dir' = 0 => names' = {})
  <2>1. CASE dir' = 0
      BY <2>1 DEF PowerLoss
  <2>2. CASE dir' # 0
    <3>1. PICK kept \in SUBSET touched[dir'] :
             names' = (synced[dir'] \ touched[dir']) \union kept
        BY <2>2 DEF PowerLoss
    <3>2. dir' \in Incarnation
        BY <1>3, <2>2 DEF Incarnation
    <3> QED
        BY <1>0, <2>2, <3>1, <3>2 DEF PathTyped
  <2> QED
      BY <2>1, <2>2
<1>6. synced' \in [Incarnation -> SUBSET Entry]
  <2>1. /\ Keep(synced, 0) \in [Incarnation -> SUBSET Entry]
        /\ Keep(synced, dir') \in [Incarnation -> SUBSET Entry]
      BY <1>0, KeepTyped DEF PathTyped
  <2>2. \/ synced' = Keep(synced, 0)
        \/ synced' = [Keep(synced, dir') EXCEPT ![dir'] = names']
      BY DEF PowerLoss
  <2> QED
      BY <1>5, <2>1, <2>2
<1>7. PathTyped'
    BY <1>2, <1>3, <1>4, <1>5, <1>6 DEF PathTyped
<1> QED
  <2>1. TypeOK' <=> PathTyped' /\ ProcTyped'
      BY DEF TypeOK, PathTyped, ProcTyped, Stage
  <2> QED
      BY <1>1, <1>7, <2>1


-----------------------------------------------------------------------------
(* A step of one process, for the others.                                   *)

ProcStep(p) ==
  CreateStep(p) \/ CleanupStep(p) \/ OpenStep(p) \/ RefuseCloseOrKill(p)

LEMMA Others ==
  ASSUME TypeOK, NEW p \in Process, ProcStep(p), NEW q \in Process, q # p
  PROVE  /\ pc'[q] = pc[q] /\ own'[q] = own[q] /\ clean'[q] = clean[q]
         /\ Leased(q) => Leased(q)'
<1>0. ProcTyped
    BY Typed
<1>1. CASE CleanupFails(p) \/ SyncGone(p) \/ RefuseCloseOrKill(p)
  <2>1. Leave({p})
      BY <1>1 DEF CleanupFails, SyncGone, RefuseCloseOrKill
  <2>2. pc'[q] = pc[q] /\ own'[q] = own[q] /\ clean'[q] = clean[q]
      BY <2>1, LeaveTyped
  <2>3. \A i \in Incarnation : holder[i] = q => holder'[i] = q
      BY <2>1, LeaveTyped
  <2>4. own[q] # 0 => own[q] \in Incarnation
    <3>1. own[q] \in 0 .. MaxCreations
        BY <1>0 DEF ProcTyped
    <3> QED
        BY <3>1, CreationAssumption DEF Incarnation
  <2> QED
      BY <2>2, <2>3, <2>4 DEF Leased
<1>2. CASE ~(CleanupFails(p) \/ SyncGone(p) \/ RefuseCloseOrKill(p))
  <2>1. pc'[q] = pc[q]
      BY <1>0, <1>2
      DEF ProcStep, CreateStep, CleanupStep, OpenStep, CreateDirectory, TakeLease, CreateEntry, FillEntry,
          ValidateCreated, SyncRoot, SyncParent, FinishCreate, FailCreation, CheckLock,
          RemoveEntry, RemoveRoot, FindLock, TryLock, InspectNames, ReadAuthority, Repair,
          Goto, ProcTyped
  <2>2. own'[q] = own[q]
      BY <1>0, <1>2
      DEF ProcStep, CreateStep, CleanupStep, OpenStep, CreateDirectory, TakeLease, CreateEntry, FillEntry,
          ValidateCreated, SyncRoot, SyncParent, FinishCreate, FailCreation, CheckLock,
          RemoveEntry, RemoveRoot, FindLock, TryLock, InspectNames, ReadAuthority, Repair,
          procVars, ProcTyped
  <2>3. clean'[q] = clean[q]
      BY <1>0, <1>2
      DEF ProcStep, CreateStep, CleanupStep, OpenStep, CreateDirectory, TakeLease, CreateEntry, FillEntry,
          ValidateCreated, SyncRoot, SyncParent, FinishCreate, FailCreation, CheckLock,
          RemoveEntry, RemoveRoot, FindLock, TryLock, InspectNames, ReadAuthority, Repair,
          procVars, ProcTyped
  <2>4. \/ holder' = holder
        \/ holder' = [holder EXCEPT ![own[p]] = p] /\ holder[own[p]] = Nobody
      BY <1>2
      DEF ProcStep, CreateStep, CleanupStep, OpenStep, CreateDirectory, TakeLease, CreateEntry, FillEntry,
          ValidateCreated, SyncRoot, SyncParent, FinishCreate, FailCreation, CheckLock,
          RemoveEntry, RemoveRoot, FindLock, TryLock, InspectNames, ReadAuthority, Repair
  <2>5. own[q] # 0 => own[q] \in Incarnation
    <3>1. own[q] \in 0 .. MaxCreations
        BY <1>0 DEF ProcTyped
    <3> QED
        BY <3>1, CreationAssumption DEF Incarnation
  <2>6. Leased(q) => Leased(q)'
      BY <1>0, <2>2, <2>4, <2>5, CreationAssumption DEF Leased, ProcTyped
  <2> QED
      BY <2>1, <2>2, <2>3, <2>6
<1> QED
    BY <1>1, <1>2

\* Only an actor or a creator that starts moves the path; the end of a cleanup
\* keeps what is at the path.
LEMMA PathMoves ==
  ASSUME TypeOK, NEW p \in Process, ProcStep(p), pc[p] \notin ActStage,
         ~CreateDirectory(p)
  PROVE  /\ UNCHANGED <<dir, names>>
         /\ survivors' = survivors \/ survivors' = {dir}
         /\ \A i \in Incarnation : i = dir =>
              synced'[i] = synced[i] /\ touched'[i] = touched[i] /\ whole'[i] = whole[i]
<1>1. CASE SyncGone(p)
  <2>1. /\ survivors' = {dir} /\ UNCHANGED <<dir, names>>
        /\ synced' = Keep(synced, dir) /\ touched' = Keep(touched, dir)
        /\ whole' = Keep(whole, dir)
      BY <1>1 DEF SyncGone
  <2> QED
      BY <2>1 DEF Keep
<1>2. CASE UNCHANGED pathVars
    BY <1>2 DEF pathVars, entryVars
<1>3. ~(\E k \in Steps : CreateEntry(p, k) \/ FillEntry(p, k) \/ RemoveEntry(p, k))
  <2>1. \A k \in Steps : <<"make", k>> \in ActStage /\ <<"fill", k>> \in ActStage
                           /\ <<"remove", k>> \in ActStage
      BY Numbers, ActStages
  <2> QED
      BY <2>1 DEF CreateEntry, FillEntry, RemoveEntry, Goto
<1>4. ~(SyncRoot(p) \/ SyncParent(p) \/ RemoveRoot(p) \/ Repair(p))
    BY Named, ActStages DEF SyncRoot, SyncParent, RemoveRoot, Repair, Goto
<1> QED
    BY <1>1, <1>2, <1>3, <1>4
    DEF ProcStep, CreateStep, CleanupStep, OpenStep, TakeLease, ValidateCreated,
        FinishCreate, FailCreation, CheckLock, CleanupFails, FindLock, TryLock,
        InspectNames, ReadAuthority, RefuseCloseOrKill

\* What an actor may do to the path itself.
LEMMA DirMoves ==
  ASSUME NEW p \in Process, ProcStep(p)
  PROVE  \/ UNCHANGED <<dir, used>> /\ survivors' \in {survivors, {dir}}
         \/ dir' = 0 /\ UNCHANGED used /\ survivors' = survivors \union {0}
         \/ /\ CreateDirectory(p) /\ dir = 0 /\ dir' = used + 1 /\ used' = used + 1
            /\ survivors' = survivors \union {used + 1}
BY DEF ProcStep, CreateStep, CleanupStep, OpenStep, CreateDirectory, TakeLease, CreateEntry,
       FillEntry, ValidateCreated, SyncRoot, SyncParent, FinishCreate, FailCreation, CheckLock,
       CleanupFails, RemoveEntry, RemoveRoot, SyncGone, FindLock, TryLock, InspectNames,
       ReadAuthority, Repair, RefuseCloseOrKill, pathVars

Watching(q) == Bound(q) /\ Progress(q)

\* Stages and locks of somebody else.
LEMMA WatcherRests ==
  ASSUME NEW q \in Process, pc'[q] = pc[q], own'[q] = own[q], clean'[q] = clean[q],
         Leased(q) => Leased(q)', Bound(q), Progress(q), pc[q] \notin ActStage,
         pc[q] = At("syncGone") /\ clean[q] => dir' # own[q]
  PROVE  Bound(q)' /\ Progress(q)'
<1>1. ~Acting(q)'
    BY DEF Acting, Live, ActStage, Removing
<1>2. pc'[q] \notin Late \ {At("syncGone")} /\ pc'[q] \notin Unlocked
    BY ActStages
<1>3. Bound(q)'
    BY <1>1, <1>2 DEF Bound
<1>4. Progress(q)'
  <2>1. /\ pc'[q] \notin {At("syncRoot"), At("syncParent"), At("registry"), At("live"),
                         At("inspected"), At("repair")}
        /\ pc'[q] # At("registry") /\ pc'[q] # At("repair")
      BY <1>2 DEF Late, At
  <2>2. pc'[q] = At("syncGone") /\ clean'[q] => dir' # own'[q]
      OBVIOUS
  <2> QED
      BY <2>1, <2>2 DEF Progress
<1> QED
    BY <1>3, <1>4

LEMMA WatcherStep ==
  ASSUME IInv, NEW p \in Process, ProcStep(p), NEW q \in Process, q # p
  PROVE  Bound(q)' /\ Progress(q)'
<1>0. /\ TypeOK /\ Bound(q) /\ Progress(q) /\ Bound(p)
      /\ pc'[q] = pc[q] /\ own'[q] = own[q] /\ clean'[q] = clean[q]
      /\ Leased(q) => Leased(q)'
    BY Others DEF IInv
<1>1. CASE pc[p] \in ActStage
  <2>1. pc[q] \notin ActStage
      BY <1>1, ActingStages DEF IInv, OneActor
  <2>2. dir' = dir \/ dir' = 0
      BY <1>1, DirMoves, ActStages DEF CreateDirectory, Goto
  <2>3. pc[q] = At("syncGone") => own[q] # 0
      BY <1>0 DEF Bound, At, Out
  <2>4. pc[q] = At("syncGone") /\ clean[q] => dir' # own[q]
      BY <1>0, <2>2, <2>3 DEF Progress
  <2> QED
      BY <1>0, <2>1, <2>4, WatcherRests
<1>2. CASE CreateDirectory(p)
  <2>1. pc[q] \notin ActStage
    <3>1. dir = 0
        BY <1>2 DEF CreateDirectory
    <3> QED
        BY <1>0, <3>1, Owned DEF Incarnation
  <2>2. dir' = used + 1 /\ own[q] <= used /\ used \in Nat /\ own[q] \in Nat
    <3>1. dir' = used + 1
        BY <1>2 DEF CreateDirectory
    <3>2. own[q] <= used
        BY DEF IInv, Numbered
    <3>3. used \in Nat /\ own[q] \in Nat
      <4>1. used \in 0 .. MaxCreations /\ own[q] \in 0 .. MaxCreations
          BY <1>0, Typed DEF ProcTyped
      <4> QED
          BY <4>1, CreationAssumption
    <3> QED
        BY <3>1, <3>2, <3>3
  <2>3. dir' # own[q]
      BY <2>2
  <2> QED
      BY <1>0, <2>1, <2>3, WatcherRests
<1>3. CASE pc[p] \notin ActStage /\ ~CreateDirectory(p)
  <2>1. /\ UNCHANGED <<dir, names>>
        /\ survivors' = survivors \/ survivors' = {dir}
        /\ \A i \in Incarnation : i = dir =>
             synced'[i] = synced[i] /\ touched'[i] = touched[i] /\ whole'[i] = whole[i]
      BY <1>0, <1>3, PathMoves
  <2>2. CASE pc[q] \notin ActStage
      BY <1>0, <2>1, <2>2, WatcherRests DEF Progress
  <2>3. CASE pc[q] \in ActStage
    <3>1. dir = own[q] /\ dir \in Incarnation
        BY <1>0, <2>3, Owned
    <3>2. Acting(q) /\ Acting(q)'
        BY <1>0, <2>3, ActingStages DEF Acting, Live
    <3>3. Bound(q)'
        BY <1>0, <2>1, <3>2 DEF Bound
    <3>4. /\ synced'[own[q]] = synced[own[q]] /\ touched'[own[q]] = touched[own[q]]
          /\ whole'[own[q]] = whole[own[q]]
        BY <2>1, <3>1
    <3>5. Progress(q)'
        BY <1>0, <2>1, <3>4 DEF Progress
    <3> QED
        BY <3>3, <3>5
  <2> QED
      BY <2>2, <2>3
<1> QED
    BY <1>1, <1>2, <1>3


-----------------------------------------------------------------------------
(* A step of one process, for itself.                                       *)

\* Leaving the operation.
LEMMA LeftRests ==
  ASSUME TypeOK, NEW p \in Process, Leave({p})
  PROVE  Bound(p)' /\ Progress(p)'
<1>1. pc'[p] = Out
    BY LeaveTyped
<1>2. ~Acting(p)'
    BY <1>1, Named, Numbers, Kinds, ActStages DEF Acting, Live, ActStage, Removing
<1>3. pc'[p] \notin Late /\ pc'[p] \notin Locking /\ pc'[p] \notin Unlocked
    BY <1>1, Named, Kinds
<1>4. \A k \in Steps : pc'[p] # <<"fill", k>>
    BY <1>1, Numbers, Kinds
<1> QED
    BY <1>1, <1>2, <1>3, <1>4 DEF Bound, Progress, Late

\* A creator between two steps that Progress does not speak of.
LEMMA ActorGoes ==
  ASSUME NEW p \in Process, Bound(p), Leased(p), pc[p] # Out,
         pc'[p] \notin Unlocked, pc'[p] \notin Late,
         \A k \in Steps : pc'[p] = <<"fill", k>> => CreationOrder[k] \in Written,
         own'[p] = own[p], holder' = holder,
         pc'[p] \in ActStage => dir' = own[p]
  PROVE  Bound(p)' /\ Progress(p)'
<1>1. own'[p] # 0 /\ Leased(p)'
    BY DEF Bound, Leased
<1>2. Acting(p)' => pc'[p] \in ActStage
    BY DEF Acting, Live, ActStage, Removing
<1>3. Bound(p)'
    BY <1>1, <1>2 DEF Bound
<1>4. Progress(p)'
    BY DEF Progress, Late
<1> QED
    BY <1>3, <1>4

LEMMA SelfCreate ==
  ASSUME IInv, NEW p \in Process, CreateStep(p)
  PROVE  Bound(p)' /\ Progress(p)'
<1>0. /\ TypeOK /\ Bound(p) /\ Progress(p) /\ ProcTyped /\ PathTyped
      /\ pc[p] # Out => own[p] \in Incarnation
      /\ pc[p] \in ActStage => dir = own[p] /\ dir \in Incarnation
    BY Typed, Owned DEF IInv
<1>a. 1 \in Steps /\ 2 \in Steps /\ 0 \notin Incarnation
    BY DEF Steps, Incarnation
<1>1. CASE CreateDirectory(p)
  <2>1. /\ pc'[p] = <<"make", 1>> /\ names' = {} /\ dir' = used + 1 /\ own'[p] = used + 1
    <3>1. /\ pc' = [pc EXCEPT ![p] = <<"make", 1>>] /\ own' = [own EXCEPT ![p] = used + 1]
          /\ names' = {} /\ dir' = used + 1
        BY <1>1 DEF CreateDirectory, Goto
    <3>2. pc \in [Process -> Stage] /\ own \in [Process -> 0 .. MaxCreations]
        BY <1>0 DEF ProcTyped
    <3> QED
        BY <3>1, <3>2
  <2>2. used + 1 # 0
    <3>1. used \in 0 .. MaxCreations
        BY <1>0 DEF ProcTyped
    <3> QED
        BY <3>1, CreationAssumption
  <2>3. pc'[p] \notin Late /\ pc'[p] \notin Locking
      BY <1>a, <2>1, Numbers, Kinds
  <2>4. \A k \in Steps : pc'[p] # <<"fill", k>>
      BY <2>1
  <2> QED
      BY <2>1, <2>2, <2>3, <2>4 DEF Bound, Progress, Late
<1>2. CASE TakeLease(p)
  <2>1. /\ pc[p] = At("lease") /\ pc'[p] = <<"make", 2>>
        /\ own'[p] = own[p] /\ UNCHANGED <<dir, names>>
      BY <1>0, <1>2 DEF TakeLease, Goto, ProcTyped, procVars, pathVars, entryVars
  <2>2. own[p] \in Incarnation /\ dir = own[p]
      BY <1>0, <2>1, Named, Kinds, ActStages
  <2>3. holder'[own[p]] = p
      BY <1>0, <1>2, <2>2 DEF TakeLease, ProcTyped
  <2>4. Leased(p)' /\ own'[p] # 0
      BY <1>a, <2>1, <2>2, <2>3 DEF Leased
  <2>5. pc'[p] \notin Late /\ pc'[p] \notin Unlocked
      BY <1>a, <2>1, Numbers, Kinds
  <2>6. \A k \in Steps : pc'[p] # <<"fill", k>>
      BY <2>1
  <2> QED
      BY <2>1, <2>2, <2>4, <2>5, <2>6 DEF Bound, Progress, Late
<1>3. ASSUME NEW k \in Steps, CreateEntry(p, k)
      PROVE  Bound(p)' /\ Progress(p)'
  <2>1. /\ pc[p] = <<"make", k>> /\ own'[p] = own[p] /\ dir' = dir /\ holder' = holder
        /\ names' = names \union {CreationOrder[k]}
        /\ pc'[p] = IF CreationOrder[k] = "LOCK" THEN At("lease")
                    ELSE IF CreationOrder[k] \in Written THEN <<"fill", k>> ELSE After(k)
      BY <1>0, <1>3 DEF CreateEntry, Goto, ProcTyped, procVars
  <2>2. own[p] \in Incarnation /\ dir = own[p] /\ pc[p] # Out
      BY <1>0, <2>1, Numbers, Kinds, ActStages
  <2>3. CASE k = 1
    <3>1. CreationOrder[k] = "LOCK" /\ pc[p] \in Unlocked
        BY <2>1, <2>3, Orders, Numbers
    <3>2. names' \subseteq {"LOCK"} /\ pc'[p] = At("lease")
        BY <1>0, <2>1, <3>1 DEF Bound
    <3>3. pc'[p] \notin Late /\ pc'[p] \notin Locking
        BY <3>2, Named, Kinds
    <3>4. \A j \in Steps : pc'[p] # <<"fill", j>>
        BY <3>2 DEF At
    <3> QED
        BY <1>a, <2>1, <2>2, <3>2, <3>3, <3>4 DEF Bound, Progress, Late
  <2>4. CASE k # 1
    <3>1. CreationOrder[k] # "LOCK" /\ Leased(p)
        BY <1>0, <2>1, <2>4, Orders, Numbers DEF Bound
    <3>2. pc'[p] = IF CreationOrder[k] \in Written THEN <<"fill", k>> ELSE After(k)
        BY <2>1, <3>1
    <3>3. pc'[p] \notin Unlocked /\ pc'[p] \notin Late
        BY <3>2, Numbers, Nexts, Kinds
    <3>4. \A j \in Steps : pc'[p] = <<"fill", j>> => CreationOrder[j] \in Written
        BY <3>2 DEF After, At
    <3> QED
        BY <1>0, <2>1, <2>2, <3>1, <3>3, <3>4, ActorGoes
  <2> QED
      BY <2>3, <2>4
<1>4. ASSUME NEW k \in Steps, FillEntry(p, k)
      PROVE  Bound(p)' /\ Progress(p)'
  <2>1. /\ pc[p] = <<"fill", k>> /\ own'[p] = own[p] /\ dir' = dir /\ holder' = holder
        /\ pc'[p] = After(k)
      BY <1>0, <1>4 DEF FillEntry, Goto, ProcTyped, procVars
  <2>2. dir = own[p] /\ pc[p] # Out /\ Leased(p)
      BY <1>0, <2>1, Numbers, Kinds, ActStages DEF Bound
  <2>3. pc'[p] \notin Unlocked /\ pc'[p] \notin Late
      BY <2>1, Nexts, Kinds
  <2>4. \A j \in Steps : pc'[p] # <<"fill", j>>
      BY <2>1 DEF After, At
  <2> QED
      BY <1>0, <2>1, <2>2, <2>3, <2>4, ActorGoes
<1>5. CASE ValidateCreated(p) \/ SyncRoot(p) \/ SyncParent(p) \/ FinishCreate(p)
  <2>1. /\ own'[p] = own[p] /\ holder' = holder /\ UNCHANGED <<dir, names>>
        /\ pc[p] \in {At("validate"), At("syncRoot"), At("syncParent"), At("registry")}
        /\ pc'[p] \in {At("syncRoot"), At("syncParent"), At("registry"), At("live")}
      BY <1>0, <1>5 DEF ValidateCreated, SyncRoot, SyncParent, FinishCreate, Goto,
         ProcTyped, procVars, pathVars, entryVars
  <2>2. dir = own[p] /\ own[p] \in Incarnation /\ Leased(p)
    <3>1. pc[p] \in ActStage /\ pc[p] \in Locking
        BY <2>1, Named, ActStages
    <3> QED
        BY <1>0, <3>1 DEF Bound
  <2>3. Bound(p)'
    <3>1. Leased(p)' /\ own'[p] # 0
        BY <1>a, <2>1, <2>2 DEF Leased
    <3>2. pc'[p] \notin Unlocked
        BY <2>1, Named, Kinds
    <3>3. \A k \in Steps : pc'[p] # <<"fill", k>>
        BY <2>1 DEF At
    <3> QED
        BY <2>1, <2>2, <3>1, <3>2, <3>3 DEF Bound
  <2>4. CASE ValidateCreated(p)
    <3>1. /\ pc'[p] = At("syncRoot") /\ names' = Entry /\ Written \subseteq whole[own[p]]
          /\ whole' = whole
        BY <1>0, <2>4 DEF ValidateCreated, Goto, ProcTyped, pathVars, entryVars
    <3> QED
        BY <2>1, <2>3, <3>1 DEF Progress, At
  <2>5. CASE SyncRoot(p)
    <3>1. /\ pc'[p] = At("syncParent") /\ names' = Entry /\ Written \subseteq whole[own[p]]
          /\ whole' = whole
        BY <1>0, <2>5 DEF SyncRoot, Goto, ProcTyped, Progress
    <3>2. synced'[dir] = Entry /\ touched'[dir] = {}
        BY <1>0, <2>2, <2>5, <3>1 DEF SyncRoot, SyncEntries, PathTyped
    <3> QED
        BY <2>1, <2>2, <2>3, <3>1, <3>2 DEF Progress, At
  <2>6. CASE SyncParent(p)
    <3>1. /\ pc[p] = At("syncParent") /\ pc'[p] = At("registry") /\ survivors' = {dir}
        BY <1>0, <2>6 DEF SyncParent, Goto, ProcTyped
    <3>2. /\ names = Entry /\ Written \subseteq whole[own[p]]
          /\ synced[own[p]] = Entry /\ touched[own[p]] = {}
        BY <1>0, <3>1 DEF Progress
    <3>3. /\ synced'[dir] = synced[dir] /\ touched'[dir] = touched[dir]
          /\ whole'[dir] = whole[dir]
        BY <2>2, <2>6 DEF SyncParent, Keep
    <3> QED
        BY <2>1, <2>2, <2>3, <3>1, <3>2, <3>3 DEF Progress, At
  <2>7. CASE FinishCreate(p)
    <3>1. /\ pc[p] = At("registry") /\ pc'[p] = At("live") /\ whole' = whole
        BY <1>0, <2>7 DEF FinishCreate, Goto, ProcTyped, pathVars, entryVars
    <3>2. names = Entry /\ Written \subseteq whole[own[p]]
        BY <1>0, <3>1 DEF Progress
    <3> QED
        BY <2>1, <2>2, <2>3, <3>1, <3>2 DEF Progress, At
  <2> QED
      BY <1>5, <2>4, <2>5, <2>6, <2>7
<1> QED
    BY <1>1, <1>2, <1>3, <1>4, <1>5 DEF CreateStep


LEMMA SelfCleanup ==
  ASSUME IInv, NEW p \in Process, CleanupStep(p)
  PROVE  Bound(p)' /\ Progress(p)'
<1>0. /\ TypeOK /\ Bound(p) /\ ProcTyped
      /\ pc[p] # Out => own[p] \in Incarnation
      /\ pc[p] \in ActStage => dir = own[p] /\ dir \in Incarnation
    BY Typed, Owned DEF IInv
<1>a. 1 \in Steps /\ 0 \notin Incarnation
    BY DEF Steps, Incarnation
\* Removal goes on under the lease, or on a directory that has no more than LOCK.
<1>b. ASSUME pc'[p] \in Removing, pc'[p] \notin Locking, pc'[p] \notin Late,
             pc[p] \in ActStage, UNCHANGED <<dir, holder>>, own'[p] = own[p],
             names' \subseteq names
      PROVE  Bound(p)' /\ Progress(p)'
  <2>1. dir = own[p] /\ own'[p] # 0 /\ (Leased(p) \/ names \subseteq {"LOCK"})
      BY <1>0, <1>a, <1>b, ActingStages DEF Bound
  <2>2. Leased(p)' <=> Leased(p)
      BY <1>b DEF Leased
  <2>3. pc'[p] \notin Unlocked /\ \A k \in Steps : pc'[p] # <<"fill", k>>
      BY <1>b, Kinds, Numbers
  <2>4. Bound(p)'
      BY <1>b, <2>1, <2>2, <2>3 DEF Bound
  <2>5. Progress(p)'
      BY <1>b DEF Progress, Late
  <2> QED
      BY <2>4, <2>5
<1>1. CASE FailCreation(p)
  <2>1. /\ pc[p] \in Creating /\ pc'[p] = IF Leased(p) THEN At("check") ELSE <<"remove", 1>>
        /\ UNCHANGED <<dir, holder, names>> /\ own'[p] = own[p]
      BY <1>0, <1>1 DEF FailCreation, ProcTyped, procVars, pathVars, entryVars
  <2>2. pc[p] \in ActStage
      BY <2>1, ActStages
  <2>3. CASE Leased(p)
    <3>1. pc'[p] = At("check") /\ Leased(p)' /\ dir = own[p] /\ own[p] # 0
        BY <1>0, <1>a, <2>1, <2>2, <2>3 DEF Leased
    <3>2. pc'[p] \notin Late /\ pc'[p] \notin Unlocked
        BY <3>1, Named, Kinds
    <3>3. \A k \in Steps : pc'[p] # <<"fill", k>>
        BY <3>1 DEF At
    <3> QED
        BY <2>1, <3>1, <3>2, <3>3 DEF Bound, Progress, Late
  <2>4. CASE ~Leased(p)
      BY <1>a, <1>b, <2>1, <2>2, <2>4, Numbers
  <2> QED
      BY <2>3, <2>4
<1>2. CASE CheckLock(p)
  <2>1. /\ pc[p] = At("check") /\ pc'[p] = <<"remove", 1>>
        /\ UNCHANGED <<dir, holder, names>> /\ own'[p] = own[p]
      BY <1>0, <1>2 DEF CheckLock, Goto, ProcTyped, procVars, pathVars, entryVars
  <2> QED
      BY <1>a, <1>b, <2>1, Numbers, ActStages
<1>3. ASSUME NEW k \in Steps, RemoveEntry(p, k)
      PROVE  Bound(p)' /\ Progress(p)'
  <2>1. /\ pc[p] = <<"remove", k>> /\ pc'[p] = AfterRemoving(k)
        /\ UNCHANGED <<dir, holder>> /\ names' \subseteq names /\ own'[p] = own[p]
      BY <1>0, <1>3 DEF RemoveEntry, Goto, ProcTyped
  <2> QED
      BY <1>b, <2>1, Nexts, ActStages
<1>4. CASE RemoveRoot(p)
  <2>1. /\ pc[p] = At("rmdir") /\ pc'[p] = At("syncGone") /\ own'[p] = own[p]
      BY <1>0, <1>4 DEF RemoveRoot, Goto, ProcTyped
  <2>2. own[p] \in Incarnation
      BY <1>0, <2>1, ActStages
  <2>3. clean'[p] => dir' = 0
      BY <1>0, <1>4 DEF RemoveRoot, ProcTyped
  <2>4. ~Acting(p)'
      BY <2>1, Named, Kinds, ActStages DEF Acting, Live, ActStage, Removing
  <2>5. pc'[p] \notin Locking /\ pc'[p] \notin Unlocked
      BY <2>1, Numbers, Named, Kinds
  <2>6. \A k \in Steps : pc'[p] # <<"fill", k>>
      BY <2>1 DEF At
  <2>7. Bound(p)'
      BY <1>a, <2>1, <2>2, <2>4, <2>5, <2>6 DEF Bound
  <2>8. Progress(p)'
      BY <1>a, <2>1, <2>2, <2>3 DEF Progress, At
  <2> QED
      BY <2>7, <2>8
<1>5. CASE SyncGone(p) \/ CleanupFails(p)
    BY <1>0, <1>5, LeftRests DEF SyncGone, CleanupFails
<1> QED
    BY <1>1, <1>2, <1>3, <1>4, <1>5 DEF CleanupStep

LEMMA SelfOpen ==
  ASSUME IInv, NEW p \in Process, OpenStep(p)
  PROVE  Bound(p)' /\ Progress(p)'
<1>0. /\ TypeOK /\ Bound(p) /\ Progress(p) /\ ProcTyped /\ PathTyped
      /\ pc[p] # Out => own[p] \in Incarnation
      /\ pc[p] \in ActStage => dir = own[p] /\ dir \in Incarnation
    BY Typed, Owned DEF IInv
<1>a. 0 \notin Incarnation
    BY DEF Incarnation
<1>1. CASE FindLock(p)
  <2>1. pc'[p] = At("found") /\ own'[p] = dir /\ dir # 0
      BY <1>0, <1>1 DEF FindLock, Goto, ProcTyped
  <2>2. ~Acting(p)'
      BY <2>1, Named, Kinds, ActStages DEF Acting, Live, ActStage, Removing
  <2>3. pc'[p] \notin Locking /\ pc'[p] \notin Unlocked /\ pc'[p] \notin Late
      BY <2>1, Named, Kinds
  <2>4. \A k \in Steps : pc'[p] # <<"fill", k>>
      BY <2>1 DEF At
  <2> QED
      BY <2>1, <2>2, <2>3, <2>4 DEF Bound, Progress, Late
<1>2. CASE TryLock(p)
  <2>1. pc[p] = At("found") /\ pc'[p] = At("locked") /\ own'[p] = own[p]
      BY <1>0, <1>2 DEF TryLock, Goto, ProcTyped, procVars
  <2>2. own[p] \in Incarnation
      BY <1>0, <2>1, Named, Kinds
  <2>3. holder'[own[p]] = p
      BY <1>0, <1>2, <2>2 DEF TryLock, ProcTyped
  <2>4. Leased(p)' /\ own'[p] # 0
      BY <1>a, <2>1, <2>2, <2>3 DEF Leased
  <2>5. ~Acting(p)'
      BY <2>1, Named, Kinds, ActStages DEF Acting, Live, ActStage, Removing
  <2>6. pc'[p] \notin Unlocked /\ pc'[p] \notin Late
      BY <2>1, Named, Kinds
  <2>7. \A k \in Steps : pc'[p] # <<"fill", k>>
      BY <2>1 DEF At
  <2> QED
      BY <2>4, <2>5, <2>6, <2>7 DEF Bound, Progress, Late
<1>3. CASE InspectNames(p) \/ ReadAuthority(p) \/ Repair(p)
  <2>1. /\ own'[p] = own[p] /\ UNCHANGED <<dir, holder>>
        /\ pc[p] \in {At("locked"), At("inspected"), At("repair")}
        /\ pc'[p] \in {At("inspected"), At("repair"), At("live")}
      BY <1>0, <1>3 DEF InspectNames, ReadAuthority, Repair, Goto, ProcTyped, procVars,
         pathVars, entryVars
  <2>2. Leased(p) /\ own[p] \in Incarnation
      BY <1>0, <2>1, Named, Kinds DEF Bound
  <2>3. dir = own[p]
    <3>1. CASE InspectNames(p)
        BY <3>1 DEF InspectNames, NamespaceComplete
    <3>2. CASE ReadAuthority(p) \/ Repair(p)
        BY <1>0, <3>2, ActStages DEF ReadAuthority, Repair, Goto
    <3> QED
        BY <1>3, <3>1, <3>2
  <2>4. Bound(p)'
    <3>1. Leased(p)' /\ own'[p] # 0
        BY <1>a, <2>1, <2>2 DEF Leased
    <3>2. pc'[p] \notin Unlocked
        BY <2>1, Named, Kinds DEF Unlocked, At
    <3>3. \A k \in Steps : pc'[p] # <<"fill", k>>
        BY <2>1 DEF At
    <3> QED
        BY <2>1, <2>3, <3>1, <3>2, <3>3 DEF Bound
  <2>5. CASE InspectNames(p)
    <3>1. pc'[p] = At("inspected") /\ Mandatory \subseteq names'
        BY <1>0, <2>5 DEF InspectNames, NamespaceComplete, Goto, ProcTyped, pathVars,
           entryVars
    <3> QED
        BY <2>4, <3>1 DEF Progress, At
  <2>6. CASE ReadAuthority(p)
    <3>1. /\ pc[p] = At("inspected") /\ pc'[p] = At("repair")
          /\ UNCHANGED <<names, whole>> /\ "CONTROL" \in whole[dir]
        BY <1>0, <2>6 DEF ReadAuthority, Goto, ProcTyped, pathVars, entryVars
    <3>2. Mandatory \subseteq names
        BY <1>0, <3>1 DEF Progress
    <3> QED
        BY <2>1, <2>3, <2>4, <3>1, <3>2 DEF Progress, At
  <2>7. CASE Repair(p)
    <3>1. /\ pc[p] = At("repair") /\ pc'[p] = At("live")
          /\ names' = names \union Roots
        BY <1>0, <2>7 DEF Repair, Goto, ProcTyped
    <3>2. Mandatory \subseteq names /\ "CONTROL" \in whole[dir]
        BY <1>0, <2>3, <3>1 DEF Progress
    <3>3. names' = Entry
        BY <1>0, <3>1, <3>2 DEF Entry, PathTyped
    <3>4. whole'[dir] = whole[dir] \union Roots \union {"WAL"}
        BY <1>0, <2>2, <2>3, <2>7 DEF Repair, PathTyped
    <3>5. Written \subseteq whole'[dir]
        BY <3>2, <3>4 DEF Written, Entry, Mandatory, Roots
    <3> QED
        BY <2>1, <2>3, <2>4, <3>1, <3>3, <3>5 DEF Progress, At
  <2> QED
      BY <1>3, <2>5, <2>6, <2>7
<1> QED
    BY <1>1, <1>2, <1>3 DEF OpenStep

LEMMA SelfStep ==
  ASSUME IInv, NEW p \in Process, ProcStep(p)
  PROVE  Bound(p)' /\ Progress(p)'
<1>1. CASE RefuseCloseOrKill(p)
    BY <1>1, LeftRests DEF RefuseCloseOrKill, IInv
<1> QED
    BY <1>1, SelfCreate, SelfCleanup, SelfOpen DEF ProcStep


-----------------------------------------------------------------------------
(* What all processes have in common.                                       *)

\* How a step changes what is told.
LEMMA Tells ==
  ASSUME NEW p \in Process, ProcStep(p)
  PROVE  \/ UNCHANGED told
         \/ /\ FinishCreate(p) /\ pc[p] = At("registry")
            /\ told' = [told EXCEPT ![own[p]] = "created"]
         \/ /\ SyncGone(p) /\ pc[p] = At("syncGone")
            /\ told' = [told EXCEPT ![own[p]] = Report(p)]
         \/ /\ CleanupFails(p) /\ pc[p] \in Removing
            /\ told' = [told EXCEPT ![own[p]] = "cleanup required"]
<1>1. CleanupFails(p) => pc[p] \in Removing /\ told' = [told EXCEPT ![own[p]] = "cleanup required"]
    BY Named DEF CleanupFails
<1>2. SyncGone(p) => pc[p] = At("syncGone") /\ told' = [told EXCEPT ![own[p]] = Report(p)]
    BY DEF SyncGone
<1>3. FinishCreate(p) => pc[p] = At("registry") /\ told' = [told EXCEPT ![own[p]] = "created"]
    BY DEF FinishCreate, Goto
<1> QED
    BY <1>1, <1>2, <1>3
    DEF ProcStep, CreateStep, CleanupStep, OpenStep, CreateDirectory, TakeLease, CreateEntry,
       FillEntry, ValidateCreated, SyncRoot, SyncParent, FailCreation, CheckLock,
       RemoveEntry, RemoveRoot, FindLock, TryLock, InspectNames,
       ReadAuthority, Repair, RefuseCloseOrKill

\* Of an incarnation in numbers.
LEMMA Counts ==
  ASSUME TypeOK
  PROVE  /\ used \in Nat /\ dir \in Nat
         /\ \A p \in Process : own[p] \in Nat
         /\ \A i \in Incarnation : i \in Nat /\ i # 0
<1>1. /\ used \in 0 .. MaxCreations /\ dir \in 0 .. MaxCreations
      /\ \A p \in Process : own[p] \in 0 .. MaxCreations
    BY Typed DEF ProcTyped, PathTyped
<1> QED
    BY <1>1, CreationAssumption DEF Incarnation

\* A step of an owner keeps its incarnation, or ends.
LEMMA OwnerKeeps ==
  ASSUME TypeOK, NEW p \in Process, ProcStep(p), Owning(p)'
  PROVE  \/ CreateDirectory(p) /\ own'[p] = used + 1
         \/ Owning(p) /\ own'[p] = own[p]
<1>0. ProcTyped
    BY Typed
<1>1. CASE CleanupFails(p) \/ SyncGone(p) \/ RefuseCloseOrKill(p)
  <2>1. Leave({p})
      BY <1>1 DEF CleanupFails, SyncGone, RefuseCloseOrKill
  <2>2. pc'[p] = Out
      BY <2>1, LeaveTyped
  <2> QED
      BY <2>2, Kinds DEF Owning
<1>2. CASE OpenStep(p)
  <2>1. pc'[p] \in Opening \union {At("live")}
      BY <1>0, <1>2, Named
      DEF OpenStep, FindLock, TryLock, InspectNames, ReadAuthority, Repair, Goto, ProcTyped
  <2> QED
      BY <2>1, Kinds DEF Owning
<1>3. CASE CreateDirectory(p)
    BY <1>0, <1>3 DEF CreateDirectory, ProcTyped
<1>4. CASE /\ CreateStep(p) \/ CleanupStep(p)
           /\ ~CreateDirectory(p)
           /\ ~(CleanupFails(p) \/ SyncGone(p))
  <2>1. own' = own
      BY <1>4 DEF CreateStep, CleanupStep, TakeLease, CreateEntry, FillEntry, ValidateCreated,
         SyncRoot, SyncParent, FinishCreate, FailCreation, CheckLock, RemoveEntry,
         RemoveRoot, procVars
  <2>2. pc[p] \in Creating \union Removing
      BY <1>4, Named, Numbers
      DEF CreateStep, CleanupStep, TakeLease, CreateEntry, FillEntry, ValidateCreated,
         SyncRoot, SyncParent, FinishCreate, FailCreation, CheckLock, RemoveEntry,
         RemoveRoot, Goto
  <2> QED
      BY <2>1, <2>2 DEF Owning
<1> QED
    BY <1>1, <1>2, <1>3, <1>4 DEF ProcStep

LEMMA NumberedStep ==
  ASSUME IInv, NEW p \in Process, ProcStep(p)
  PROVE  Numbered'
<1>0. TypeOK /\ Numbered /\ ProcTyped
    BY Typed DEF IInv
<1>1. used \in Nat /\ used' \in {used, used + 1} /\ used' >= used /\ used' \in Nat
    BY <1>0, DirMoves, Counts
<1>2. dir' \in survivors' /\ survivors' \subseteq 0 .. used'
  <2>1. 0 \in 0 .. used /\ 0 .. used \subseteq 0 .. used + 1 /\ used + 1 \in 0 .. used + 1
      BY <1>1
  <2>2. dir \in survivors /\ survivors \subseteq 0 .. used
      BY <1>0 DEF Numbered
  <2>3. CASE UNCHANGED <<dir, used>> /\ survivors' \in {survivors, {dir}}
      BY <2>2, <2>3
  <2>4. CASE dir' = 0 /\ UNCHANGED used /\ survivors' = survivors \union {0}
      BY <2>1, <2>2, <2>4
  <2>5. CASE /\ dir' = used + 1 /\ used' = used + 1
             /\ survivors' = survivors \union {used + 1}
    <3>1. 0 .. used' = 0 .. used + 1
        BY <2>5
    <3> QED
        BY <2>1, <2>2, <2>5, <3>1
  <2> QED
      BY <2>3, <2>4, <2>5, DirMoves
<1>3. own'[p] <= used'
  <2>1. CASE CreateDirectory(p)
    <3>1. own'[p] = used + 1 /\ used' = used + 1
        BY <1>0, <2>1 DEF CreateDirectory, ProcTyped
    <3> QED
        BY <1>1, <3>1
  <2>2. CASE FindLock(p)
    <3>1. own'[p] = dir /\ dir \in 0 .. used
        BY <1>0, <2>2 DEF FindLock, ProcTyped, Numbered
    <3> QED
        BY <1>1, <3>1
  <2>3. CASE ~CreateDirectory(p) /\ ~FindLock(p)
    <3>1. own'[p] = own[p] \/ own'[p] = 0
      <4>1. CASE CleanupFails(p) \/ SyncGone(p) \/ RefuseCloseOrKill(p)
          BY <1>0, <4>1, LeaveTyped DEF CleanupFails, SyncGone, RefuseCloseOrKill
      <4>2. CASE ~(CleanupFails(p) \/ SyncGone(p) \/ RefuseCloseOrKill(p))
          BY <2>3, <4>2 DEF ProcStep, CreateStep, CleanupStep, OpenStep, TakeLease,
             CreateEntry, FillEntry, ValidateCreated, SyncRoot, SyncParent, FinishCreate,
             FailCreation, CheckLock, RemoveEntry, RemoveRoot, TryLock, InspectNames,
             ReadAuthority, Repair, procVars
      <4> QED
          BY <4>1, <4>2
    <3>2. own[p] <= used /\ own[p] \in Nat
        BY <1>0, Counts DEF Numbered
    <3> QED
        BY <1>1, <3>1, <3>2
  <2> QED
      BY <2>1, <2>2, <2>3
<1>4. ASSUME NEW q \in Process, q # p
      PROVE  own'[q] <= used'
  <2>1. own'[q] = own[q] /\ own[q] <= used /\ own[q] \in Nat
      BY <1>0, <1>4, Others, Counts DEF Numbered
  <2> QED
      BY <1>1, <2>1
<1>5. ASSUME NEW i \in Incarnation, told'[i] # "nothing"
      PROVE  i <= used'
  <2>1. told[i] # "nothing" \/ i = own[p]
      BY <1>0, <1>5, Tells DEF ProcTyped
  <2>2. i <= used /\ i \in Nat
      BY <1>0, <2>1, Counts DEF Numbered
  <2> QED
      BY <1>1, <2>2
<1> QED
    BY <1>2, <1>3, <1>4, <1>5 DEF Numbered

LEMMA CreatorsStep ==
  ASSUME IInv, NEW p \in Process, ProcStep(p)
  PROVE  Creators'
<1>0. TypeOK /\ Numbered /\ Creators /\ ProcTyped
    BY Typed DEF IInv
<1>1. \A q \in Process : q # p => own'[q] = own[q] /\ (Owning(q)' <=> Owning(q))
    BY <1>0, Others DEF Owning
<1>2. \A q \in Process : own[q] # used + 1
  <2> SUFFICES ASSUME NEW q \in Process
               PROVE  own[q] # used + 1
      OBVIOUS
  <2>1. own[q] <= used /\ own[q] \in Nat /\ used \in Nat
      BY <1>0, Counts DEF Numbered
  <2>2. \A m, n \in Nat : m <= n => m # n + 1
      OBVIOUS
  <2> QED
      BY <2>1, <2>2
<1>3. ASSUME NEW q \in Process, q # p, Owning(q)', Owning(p)'
      PROVE  own'[q] # own'[p]
    BY <1>0, <1>1, <1>2, <1>3, OwnerKeeps DEF Creators
<1>4. ASSUME NEW q \in Process, q # p, Owning(q)'
      PROVE  told'[own'[q]] = "nothing"
  <2>1. own'[q] = own[q] /\ Owning(q) /\ told[own[q]] = "nothing"
      BY <1>0, <1>1, <1>4 DEF Creators
  <2>2. told' # told => Owning(p)
      BY Tells, Named DEF Owning
  <2>3. Owning(p) => own[p] # own[q]
      BY <1>0, <1>4, <2>1 DEF Creators
  <2>4. \A i \in Incarnation : told'[i] # told[i] => i = own[p]
      BY <1>0, Tells DEF ProcTyped
  <2>5. own[q] \in Incarnation
      BY <1>0, <2>1, Owned, Kinds DEF Owning, IInv
  <2> QED
      BY <2>1, <2>2, <2>3, <2>4, <2>5
<1>5. ASSUME Owning(p)'
      PROVE  told'[own'[p]] = "nothing"
  <2>1. UNCHANGED told
    <3>1. ~FinishCreate(p)
      <4>1. FinishCreate(p) => pc'[p] = At("live")
          BY <1>0 DEF FinishCreate, Goto, ProcTyped
      <4> QED
          BY <1>5, <4>1, Kinds DEF Owning
    <3>2. ~SyncGone(p) /\ ~CleanupFails(p)
      <4>1. SyncGone(p) \/ CleanupFails(p) => pc'[p] = Out
          BY <1>0, LeaveTyped DEF SyncGone, CleanupFails
      <4> QED
          BY <1>5, <4>1, Kinds DEF Owning
    <3> QED
        BY <3>1, <3>2, Tells
  <2>2. CASE CreateDirectory(p) /\ own'[p] = used + 1
    <3>1. used + 1 \in Incarnation /\ ~(used + 1 <= used)
      <4>1. used \in 0 .. MaxCreations /\ used < MaxCreations
          BY <1>0, <2>2 DEF CreateDirectory, ProcTyped
      <4> QED
          BY <4>1, CreationAssumption DEF Incarnation
    <3> QED
        BY <1>0, <2>1, <2>2, <3>1 DEF Numbered
  <2>3. CASE Owning(p) /\ own'[p] = own[p]
      BY <1>0, <2>1, <2>3 DEF Creators
  <2> QED
      BY <1>0, <1>5, <2>2, <2>3, OwnerKeeps
<1>6. ASSUME NEW q \in Process, NEW r \in Process, Owning(q)', Owning(r)',
             own'[q] = own'[r]
      PROVE  q = r
  <2>1. CASE q = p
      BY <1>3, <1>6, <2>1
  <2>2. CASE r = p
      BY <1>3, <1>6, <2>2
  <2>3. CASE q # p /\ r # p
      BY <1>0, <1>1, <1>6, <2>3 DEF Creators
  <2> QED
      BY <2>1, <2>2, <2>3
<1>7. ASSUME NEW q \in Process, Owning(q)'
      PROVE  told'[own'[q]] = "nothing"
    BY <1>4, <1>5, <1>7
<1> QED
    BY <1>6, <1>7 DEF Creators

\* Who starts to act.
LEMMA ActorComes ==
  ASSUME TypeOK, NEW p \in Process, ProcStep(p), Acting(p)'
  PROVE  Acting(p) \/ CreateDirectory(p) \/ InspectNames(p)
<1>0. ProcTyped
    BY Typed
<1>1. pc'[p] \in ActStage
    BY DEF Acting, Live, ActStage, Removing
<1>2. ~(CleanupFails(p) \/ SyncGone(p) \/ RefuseCloseOrKill(p))
  <2>1. CleanupFails(p) \/ SyncGone(p) \/ RefuseCloseOrKill(p) => pc'[p] = Out
      BY LeaveTyped DEF CleanupFails, SyncGone, RefuseCloseOrKill
  <2> QED
      BY <1>1, <2>1, ActStages
<1>3. ~(FindLock(p) \/ TryLock(p))
  <2>1. FindLock(p) \/ TryLock(p) => pc'[p] \in {At("found"), At("locked")}
      BY <1>0 DEF FindLock, TryLock, Goto, ProcTyped
  <2> QED
      BY <1>1, <2>1, ActStages
<1>4. ASSUME ~CreateDirectory(p), ~InspectNames(p)
      PROVE  pc[p] \in ActStage
  <2>1. \A k \in Steps : <<"make", k>> \in ActStage /\ <<"fill", k>> \in ActStage
      BY Numbers, ActStages
  <2>2. /\ {At("lease"), At("validate"), At("syncRoot"), At("syncParent"), At("registry")}
             \subseteq ActStage
        /\ Creating \subseteq ActStage
      BY Named, ActStages
  <2> QED
      BY <1>2, <1>3, <1>4, <2>1, <2>2, ActStages
      DEF ProcStep, CreateStep, CleanupStep, OpenStep, TakeLease, CreateEntry, FillEntry,
          ValidateCreated, SyncRoot, SyncParent, FinishCreate, FailCreation, CheckLock,
          RemoveEntry, RemoveRoot, ReadAuthority, Repair, Goto
<1> QED
    BY <1>4, ActingStages

LEMMA OneActorStep ==
  ASSUME IInv, NEW p \in Process, ProcStep(p)
  PROVE  OneActor'
<1>0. TypeOK /\ OneActor /\ \A q \in Process : Bound(q)
    BY DEF IInv
<1>1. ASSUME NEW q \in Process, q # p
      PROVE  Acting(q)' <=> Acting(q)
    BY <1>0, <1>1, Others DEF Acting, Live
<1>2. ASSUME NEW q \in Process, Acting(q), CreateDirectory(p)
      PROVE  FALSE
    BY <1>0, <1>2, Owned, ActingStages DEF CreateDirectory, Incarnation
<1>3. ASSUME NEW q \in Process, Acting(q), InspectNames(p)
      PROVE  q = p
  <2>1. dir = own[p] /\ "CONTROL" \in names
      BY <1>3 DEF InspectNames, NamespaceComplete, Mandatory
  <2>2. Leased(p)
      BY <1>0, <1>3, Named DEF InspectNames, Goto, Bound
  <2>3. dir = own[q] /\ Leased(q)
      BY <1>0, <1>3, <2>1 DEF Bound
  <2> QED
      BY <2>1, <2>2, <2>3 DEF Leased
<1>4. ASSUME NEW q \in Process, q # p, Acting(q)', Acting(p)'
      PROVE  FALSE
  <2>1. Acting(q)
      BY <1>1, <1>4
  <2>2. ~Acting(p)
      BY <1>0, <1>4, <2>1 DEF OneActor
  <2> QED
      BY <1>0, <1>2, <1>3, <1>4, <2>1, <2>2, ActorComes
<1>5. ASSUME NEW q \in Process, NEW r \in Process, Acting(q)', Acting(r)'
      PROVE  q = r
  <2>1. CASE q = p \/ r = p
      BY <1>4, <1>5, <2>1
  <2>2. CASE q # p /\ r # p
      BY <1>0, <1>1, <1>5, <2>2 DEF OneActor
  <2> QED
      BY <2>1, <2>2
<1> QED
    BY <1>5 DEF OneActor

\* What was removed for good stays so: new directories have new numbers.
LEMMA FailedStep ==
  ASSUME IInv, NEW p \in Process, ProcStep(p)
  PROVE  FailedIsGone'
<1>0. TypeOK /\ Numbered /\ FailedIsGone /\ ProcTyped /\ Bound(p) /\ Progress(p)
    BY Typed DEF IInv
<1>1. ASSUME NEW i \in Incarnation, told'[i] = "failed and gone",
             told[i] # "failed and gone"
      PROVE  dir' # i /\ i \notin survivors'
  <2>1. i = own[p] /\ SyncGone(p) /\ clean[p]
    <3>1. told' # told /\ i = own[p] /\ told'[own[p]] = "failed and gone"
        BY <1>0, <1>1, Tells DEF ProcTyped
    <3>2. CASE FinishCreate(p)
        BY <1>0, <1>1, <3>1, <3>2 DEF FinishCreate, ProcTyped
    <3>3. CASE CleanupFails(p)
        BY <1>0, <1>1, <3>1, <3>3 DEF CleanupFails, ProcTyped
    <3>4. CASE SyncGone(p)
      <4>1. told'[i] = Report(p)
          BY <1>0, <1>1, <3>1, <3>4 DEF SyncGone, ProcTyped
      <4> QED
          BY <1>1, <3>1, <3>4, <4>1 DEF Report
    <3> QED
        BY <3>1, <3>2, <3>3, <3>4, Tells
  <2>2. dir # own[p] /\ dir' = dir /\ survivors' = {dir}
      BY <1>0, <2>1 DEF SyncGone, Progress
  <2> QED
      BY <2>1, <2>2
<1>2. ASSUME NEW i \in Incarnation, told[i] = "failed and gone"
      PROVE  dir' # i /\ i \notin survivors'
  <2>1. dir # i /\ i \notin survivors /\ i <= used
      BY <1>0, <1>2 DEF FailedIsGone, Numbered
  <2>2. i \in Nat /\ i # 0 /\ used \in Nat
      BY <1>0, Counts
  <2>3. i # used + 1
      BY <2>1, <2>2
  <2> QED
      BY <2>1, <2>2, <2>3, DirMoves
<1> QED
    BY <1>1, <1>2 DEF FailedIsGone

\* What a handle was returned for, nobody removes: a creator or cleaner of the
\* same directory would have returned, and repair completes what is there.
LEMMA CreatedStep ==
  ASSUME IInv, NEW p \in Process, ProcStep(p)
  PROVE  CreatedIsDurable'
<1>0. /\ TypeOK /\ Numbered /\ CreatedIsDurable /\ Creators
      /\ ProcTyped /\ PathTyped /\ Bound(p) /\ Progress(p)
    BY Typed DEF IInv
<1>1. ASSUME NEW i \in Incarnation, told'[i] = "created", told[i] # "created"
      PROVE  survivors' = {i} /\ synced'[i] = Entry /\ touched'[i] = {}
               /\ Written \subseteq whole'[i]
  <2>1. i = own[p] /\ FinishCreate(p)
    <3>1. told' # told /\ i = own[p] /\ told'[own[p]] = "created"
        BY <1>0, <1>1, Tells DEF ProcTyped
    <3>2. CASE SyncGone(p)
        BY <1>0, <1>1, <3>1, <3>2 DEF SyncGone, ProcTyped, Report
    <3>3. CASE CleanupFails(p)
        BY <1>0, <1>1, <3>1, <3>3 DEF CleanupFails, ProcTyped
    <3> QED
        BY <3>1, <3>2, <3>3, Tells
  <2>2. pc[p] = At("registry") /\ UNCHANGED pathVars
      BY <2>1 DEF FinishCreate, Goto
  <2>3. dir = own[p]
      BY <1>0, <2>2, Named, ActStages, Owned
  <2>4. /\ survivors = {dir} /\ synced[own[p]] = Entry /\ touched[own[p]] = {}
        /\ Written \subseteq whole[own[p]]
      BY <1>0, <2>2 DEF Progress
  <2> QED
      BY <2>1, <2>2, <2>3, <2>4 DEF pathVars, entryVars
<1>2. ASSUME NEW i \in Incarnation, told[i] = "created"
      PROVE  survivors' = {i} /\ synced'[i] = Entry /\ touched'[i] = {}
               /\ Written \subseteq whole'[i]
  <2>1. /\ dir = i /\ survivors = {i} /\ synced[i] = Entry /\ touched[i] = {}
        /\ Written \subseteq whole[i]
      BY <1>0, <1>2 DEF CreatedIsDurable, Numbered
  <2>2. ~CreateDirectory(p)
      BY <1>0, <2>1, Counts DEF CreateDirectory
  <2>3. CASE pc[p] \notin ActStage
      BY <1>0, <2>1, <2>2, <2>3, PathMoves
  <2>4. CASE pc[p] \in ActStage
    <3>1. own[p] = i
        BY <1>0, <2>1, <2>4, Owned
    <3>2. pc[p] \notin Creating \union Removing
        BY <1>0, <1>2, <3>1 DEF Creators, Owning
    <3>3. pc[p] \in {At("live"), At("inspected"), At("repair")}
        BY <2>4, <3>2, ActStages
    <3>4. Repair(p) \/ ReadAuthority(p) \/ RefuseCloseOrKill(p)
      <4>1. pc[p] # Out /\ pc[p] # At("found") /\ pc[p] # At("locked")
          BY <2>4, ActStages
      <4>2. ~CreateStep(p) /\ ~CleanupStep(p)
          BY <2>2, <3>2, Named, Numbers
          DEF CreateStep, CleanupStep, TakeLease, CreateEntry, FillEntry, ValidateCreated,
              SyncRoot, SyncParent, FinishCreate, FailCreation, CheckLock, CleanupFails,
              RemoveEntry, RemoveRoot, SyncGone, Goto
      <4> QED
          BY <4>1, <4>2 DEF ProcStep, OpenStep, FindLock, TryLock, InspectNames, Goto
    <3>5. CASE UNCHANGED pathVars
        BY <2>1, <3>5 DEF pathVars, entryVars
    <3>6. CASE Repair(p)
      <4>1. Mandatory \subseteq names
          BY <1>0, <3>6 DEF Repair, Goto, Progress
      <4>2. names' = Entry /\ UNCHANGED survivors
          BY <1>0, <3>6, <4>1 DEF Repair, Entry, PathTyped
      <4>3. synced'[i] = Entry /\ touched'[i] = {}
          BY <1>0, <2>1, <3>6, <4>2 DEF Repair, SyncEntries, PathTyped
      <4>4. Written \subseteq whole'[i]
          BY <1>0, <2>1, <3>6 DEF Repair, PathTyped
      <4> QED
          BY <2>1, <4>2, <4>3, <4>4
    <3> QED
        BY <3>4, <3>5, <3>6 DEF ReadAuthority, RefuseCloseOrKill
  <2> QED
      BY <2>3, <2>4
<1> QED
    BY <1>1, <1>2 DEF CreatedIsDurable


-----------------------------------------------------------------------------
(* Power loss, the start and the whole.                                     *)

LEMMA InitIInv ==
  ASSUME Init
  PROVE  IInv
<1> USE CreationAssumption DEF Init
<1>1. TypeOK
  <2>1. 0 \in 0 .. MaxCreations
      OBVIOUS
  <2> QED
      BY <2>1 DEF TypeOK
<1>2. \A p \in Process : pc[p] = Out /\ own[p] = 0
    OBVIOUS
<1>3. Numbered
  <2>1. 0 \in 0 .. 0 /\ 0 <= 0
      OBVIOUS
  <2> QED
      BY <1>2, <2>1 DEF Numbered
<1>4. \A p \in Process : pc[p] \notin ActStage /\ ~Owning(p)
    BY <1>2, ActStages, Kinds DEF Owning
<1>5. Creators
    BY <1>4 DEF Creators
<1>6. ASSUME NEW p \in Process
      PROVE  Bound(p) /\ Progress(p)
  <2>1. ~Acting(p) /\ pc[p] \notin Late /\ pc[p] \notin Locking /\ pc[p] \notin Unlocked
      BY <1>2, <1>4, ActingStages, Named, Kinds
  <2>2. \A k \in Steps : pc[p] # <<"fill", k>>
      BY <1>2, Numbers, Kinds
  <2> QED
      BY <1>2, <2>1, <2>2 DEF Bound, Progress, Late
<1>7. OneActor /\ CreatedIsDurable /\ FailedIsGone
  <2>1. \A i \in Incarnation : told[i] = "nothing"
      OBVIOUS
  <2> QED
      BY <1>4, <2>1, ActingStages DEF OneActor, CreatedIsDurable, FailedIsGone
<1> QED
    BY <1>1, <1>3, <1>5, <1>6, <1>7 DEF IInv

\* Everybody is gone; what was promised is among what the system kept.
LEMMA PowerLossStep ==
  ASSUME IInv, PowerLoss
  PROVE  IInv'
<1>0. TypeOK /\ Numbered /\ CreatedIsDurable /\ FailedIsGone /\ PathTyped
    BY Typed DEF IInv
<1>1. TypeOK'
    BY <1>0, PowerLossTyped
<1>2. \A p \in Process : pc'[p] = Out /\ own'[p] = 0
    BY <1>0, LeaveTyped DEF PowerLoss
<1>3. dir' \in survivors /\ survivors' = {dir'} /\ UNCHANGED <<used, told>>
    BY DEF PowerLoss
<1>4. Numbered'
  <2>1. \A p \in Process : own'[p] <= used'
      BY <1>0, <1>2, <1>3, Counts
  <2>2. \A i \in Incarnation : told'[i] # "nothing" => i <= used'
      BY <1>0, <1>3 DEF Numbered
  <2>3. survivors' \subseteq 0 .. used'
      BY <1>0, <1>3 DEF Numbered
  <2> QED
      BY <1>3, <2>1, <2>2, <2>3 DEF Numbered
<1>5. \A p \in Process : pc'[p] \notin ActStage /\ ~Owning(p)'
    BY <1>2, ActStages, Kinds DEF Owning
<1>6. Creators'
    BY <1>5 DEF Creators
<1>7. \A p \in Process : ~Acting(p)'
    BY <1>5 DEF Acting, Live, ActStage, Removing
<1>8. ASSUME NEW p \in Process
      PROVE  Bound(p)' /\ Progress(p)'
  <2>1. pc'[p] \notin Late /\ pc'[p] \notin Locking /\ pc'[p] \notin Unlocked
      BY <1>2, Named, Kinds
  <2>2. \A k \in Steps : pc'[p] # <<"fill", k>>
      BY <1>2, Numbers, Kinds
  <2> QED
      BY <1>2, <1>7, <2>1, <2>2 DEF Bound, Progress, Late
<1>9. CreatedIsDurable'
  <2> SUFFICES ASSUME NEW i \in Incarnation, told[i] = "created"
               PROVE  survivors' = {i} /\ synced'[i] = Entry /\ touched'[i] = {}
                        /\ Written \subseteq whole'[i]
      BY <1>3 DEF CreatedIsDurable
  <2>1. /\ survivors = {i} /\ synced[i] = Entry /\ touched[i] = {}
        /\ Written \subseteq whole[i]
      BY <1>0 DEF CreatedIsDurable
  <2>2. dir' = i /\ dir' # 0
      BY <1>0, <1>3, <2>1, Counts
  <2>3. names' = Entry
      BY <2>1, <2>2 DEF PowerLoss
  <2>4. synced' = [Keep(synced, i) EXCEPT ![i] = Entry] /\ touched' = Keep(touched, 0)
      BY <2>2, <2>3 DEF PowerLoss
  <2>5. synced'[i] = Entry
      BY <1>0, <2>4, KeepTyped DEF PathTyped
  <2>6. touched'[i] = {}
      BY <1>0, <2>2, <2>4 DEF Keep
  <2>7. whole'[i] = whole[i]
      BY <2>2 DEF PowerLoss, Keep
  <2> QED
      BY <1>3, <2>1, <2>2, <2>5, <2>6, <2>7
<1>10. FailedIsGone'
    BY <1>0, <1>3 DEF FailedIsGone
<1> QED
    BY <1>1, <1>4, <1>6, <1>7, <1>8, <1>9, <1>10 DEF IInv, OneActor

LEMMA RestStep ==
  ASSUME IInv, UNCHANGED vars
  PROVE  IInv'
<1>1. /\ UNCHANGED <<dir, survivors, names, synced, touched, whole, used, holder, pc, own,
                     clean, told>>
    BY DEF vars, pathVars, entryVars, procVars
<1>2. TypeOK' /\ Numbered' /\ CreatedIsDurable' /\ FailedIsGone'
    BY <1>1 DEF IInv, TypeOK, Numbered, CreatedIsDurable, FailedIsGone
<1>3. Creators'
    BY <1>1 DEF IInv, Creators, Owning
<1>4. \A p \in Process : Acting(p)' <=> Acting(p)
    BY <1>1 DEF Acting, Live
<1>5. OneActor'
    BY <1>4 DEF IInv, OneActor
<1>6. ASSUME NEW p \in Process
      PROVE  Bound(p)' /\ Progress(p)'
    BY <1>1, <1>4 DEF IInv, Bound, Progress, Leased
<1> QED
    BY <1>2, <1>3, <1>5, <1>6 DEF IInv

LEMMA IInvStep ==
  ASSUME IInv, [Next]_vars
  PROVE  IInv'
<1>1. ASSUME NEW p \in Process, ProcStep(p)
      PROVE  IInv'
  <2>1. TypeOK'
    <3>1. TypeOK /\ Bound(p)
        BY DEF IInv
    <3>2. ProcTyped' /\ PathTyped'
        BY <1>1, <3>1, ProcTypedStep, PathTypedStep DEF ProcStep
    <3>3. TypeOK' <=> PathTyped' /\ ProcTyped'
        BY DEF TypeOK, PathTyped, ProcTyped, Stage
    <3> QED
        BY <3>2, <3>3
  <2>2. \A q \in Process : Bound(q)' /\ Progress(q)'
      BY <1>1, WatcherStep, SelfStep
  <2>3. Numbered' /\ Creators' /\ OneActor' /\ CreatedIsDurable' /\ FailedIsGone'
      BY <1>1, NumberedStep, CreatorsStep, OneActorStep, CreatedStep, FailedStep
  <2> QED
      BY <2>1, <2>2, <2>3 DEF IInv
<1> QED
    BY <1>1, PowerLossStep, RestStep DEF Next, ProcStep

\* The inductive invariant holds in every reachable state, whatever the number of
\* processes and of directories ever made at the path.
THEOREM Invariance == Spec => []IInv
<1>1. Init => IInv
    BY InitIInv
<1>2. IInv /\ [Next]_vars => IInv'
    BY IInvStep
<1> QED
    BY <1>1, <1>2, PTL DEF Spec

\* Path, entries, lock holders and processes keep their types.
THEOREM TypeCorrect == Spec => []TypeOK
<1>1. IInv => TypeOK
    BY DEF IInv
<1> QED
    BY <1>1, Invariance, PTL

\* Nobody gets past inspection of a directory that somebody else creates, removes,
\* repairs or uses, whichever LOCK file each of them holds: an opener that found
\* LOCK before the directory was replaced is refused.
THEOREM AlwaysOneActor == Spec => []OneActor
<1>1. IInv => OneActor
    BY DEF IInv
<1> QED
    BY <1>1, Invariance, PTL

\* The directory behind a handle is the one at the path, with every entry, all of
\* them written, until the handle is closed: no cleanup takes it apart.
THEOREM OpenedAlwaysWhole == Spec => []OpenedStaysWhole
<1>1. IInv => OpenedStaysWhole
  <2> SUFFICES ASSUME IInv, NEW p \in Process, Live(p)
               PROVE  dir = own[p] /\ names = Entry /\ Written \subseteq whole[dir]
      BY DEF OpenedStaysWhole
  <2>1. Bound(p) /\ Progress(p) /\ Acting(p)
      BY DEF IInv, Acting
  <2> QED
      BY <2>1 DEF Bound, Progress, Live
<1> QED
    BY <1>1, Invariance, PTL

\* Once Database::create returned a handle, no power loss, at any later moment, and
\* no other process takes the database back.
THEOREM CreatedAlwaysDurable == Spec => []CreatedIsDurable
<1>1. IInv => CreatedIsDurable
    BY DEF IInv
<1> QED
    BY <1>1, Invariance, PTL

\* A failed creation that did not ask for cleanup left nothing at the path, and
\* nothing of it comes back after a power loss.
THEOREM FailedAlwaysGone == Spec => []FailedIsGone
<1>1. IInv => FailedIsGone
    BY DEF IInv
<1> QED
    BY <1>1, Invariance, PTL
=============================================================================
