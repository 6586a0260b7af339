------------------------- MODULE PublicationProofs --------------------------
(***************************************************************************)
(* Proofs about Publication, for any number of attempts, generations and    *)
(* objects, and any number of damaged files.                                *)
(*                                                                          *)
(* The argument.  Whatever happened, every stored root and fence is the     *)
(* registry's record, the record being published, or unreadable             *)
(* (Authority), so recovery can only select one of those two; and both      *)
(* resolve every decided attempt as callers were told (Answers), because a  *)
(* record's history extends the previous one by the new attempt alone       *)
(* (Histories).                                                             *)
(***************************************************************************)
EXTENDS Publication, FiniteSetTheorems, TLAPS

-----------------------------------------------------------------------------
(* The inductive invariant.                                                 *)

\* Records the limits of admission let the engine write.
BoundedRecord ==
  {r \in Record :
     r.issued <= MaxIssued /\ r.gen <= MaxSuccesses /\ r.seq <= r.issued}

BoundedStored == BoundedRecord \union {Unreadable}

Bounded ==
  /\ root \in [Replica -> BoundedStored] /\ droot \in [Replica -> BoundedStored]
  /\ wal \in BoundedStored /\ dwal \in BoundedStored
  /\ mem \in BoundedRecord /\ target \in BoundedRecord
  /\ chosen \in BoundedRecord

\* Stages at which no record is being published or recovered.
Quiescent == {"idle", "admitted"} \union Building \union Cleaning
               \union Reclaiming
Live == Quiescent \union Publishing

MayIssue == active = 0 /\ mem.issued < MaxIssued /\ mem.gen < MaxSuccesses
MayCommit ==
  active = mem.issued /\ mem.seq < mem.issued /\ mem.gen < MaxSuccesses

\* What the owner of the current stage may still do.
Stages ==
  /\ pc \in {"idle", "closed"} \union Recovering \union Reclaiming => active = 0
  /\ pc = "admitted" => MayIssue
  /\ pc \in Building \union Cleaning => MayCommit
  /\ pc = "write" => created # 0
  /\ pc \in Publishing => \/ target = NextIssued /\ MayIssue
                          \/ target = NextCommit /\ MayCommit
  /\ pc \in Quiescent => target = mem

\* A stored copy that says r, unless it is unreadable.
Says(v, r) == v \in {r, Unreadable}

AllSay(r) ==
  /\ \A x \in Replica : Says(root[x], r) /\ Says(droot[x], r)
  /\ Says(wal, r) /\ Says(dwal, r)

EitherSays ==
  /\ \A x \in Replica :
       root[x] \in {mem, target, Unreadable}
         /\ droot[x] \in {mem, target, Unreadable}
  /\ wal \in {mem, target, Unreadable} /\ dwal \in {mem, target, Unreadable}

\* The stages of publish_snapshot after each of its effects.
FenceWritten == Publishing \ {"pFence"}
FenceDurable == FenceWritten \ {"pFenceSync"}
ReplicaAWritten == {"pSyncA", "pNextB", "pRenameB", "pSyncB", "pDone"}
ReplicaADurable == ReplicaAWritten \ {"pSyncA"}

PublicationProgress ==
  /\ pc \in FenceWritten => Says(wal, target)
  /\ pc \in FenceDurable => Says(dwal, target)
  /\ pc \in ReplicaAWritten => Says(root["A"], target)
  /\ pc \in ReplicaADurable => Says(droot["A"], target)
  /\ pc \in {"pSyncB", "pDone"} => Says(root["B"], target)
  /\ pc = "pDone" => Says(droot["B"], target)

\* The stages of repair_namespace after each of its effects.
Repairing == {"rNext", "rNextSync", "rRepair", "rRename"}
RootsRepaired == Recovering \ Repairing
RootsDurable == RootsRepaired \ {"rSync"}
FenceRewritten == RootsDurable \ {"rFence"}
FenceRepaired == FenceRewritten \ {"rFenceSync"}

RecoveryProgress ==
  /\ pc \in Recovering => chosen \in {mem, target}
  /\ pc \in Repairing =>
       repair # Replica /\ \A x \in Replica \ repair : Says(root[x], chosen)
  /\ pc = "rRepair" => next = {}
  /\ pc = "rRename" => next = repair
  /\ pc \in RootsRepaired => \A x \in Replica : Says(root[x], chosen)
  /\ pc \in RootsDurable => \A x \in Replica : Says(droot[x], chosen)
  /\ pc \in FenceRewritten => Says(wal, chosen)
  /\ pc \in FenceRepaired => Says(dwal, chosen)

\* What roots and fence can say at each stage.
Authority ==
  /\ EitherSays
  /\ pc \in Quiescent => AllSay(mem)
  /\ PublicationProgress
  /\ RecoveryProgress

\* A history lists no attempt later than its own.
ListsEarlier ==
  \A s \in 0 .. MaxIssued : \A a \in Attempt : a > s => chain[s][a] = 0

\* The stages at which the active attempt's history object is complete.
Prepared ==
  \/ pc = "build" /\ created = Objects
  \/ pc = "built"
  \/ pc \in Publishing /\ active # 0

\* It then extends the current history by the active attempt alone.
Histories ==
  /\ ListsEarlier
  /\ Prepared => chain[active] = AppendedHistory

\* A decided attempt resolves as decided, an exposed one is remembered.
Resolves(r, a) ==
  /\ Decided(outcome[a]) => outcome[a] = Resolution(r, a)
  /\ outcome[a] = Pending => a <= r.issued

Answers ==
  /\ pc \in Live => \A a \in Attempt :
       outcome[a] = IF a = active THEN Pending ELSE Resolution(mem, a)
  /\ pc \notin Live =>
       \A a \in Attempt : Resolves(mem, a) /\ Resolves(target, a)

IInv == TypeOK /\ Bounded /\ Stages /\ Authority /\ Histories /\ Answers

-----------------------------------------------------------------------------
LEMMA InitIInv == Init => IInv
<1> SUFFICES ASSUME Init PROVE IInv
    OBVIOUS
<1> USE UnreadableAssumption, PublicationAssumption
<1>1. EmptyRecord \in BoundedRecord
    BY DEF EmptyRecord, BoundedRecord, Record
<1>2. TypeOK
  <2>1. chain \in [0 .. MaxIssued -> [Attempt -> 0 .. MaxSuccesses]]
      BY DEF Init, NoAttempts
  <2>2. outcome \in [Attempt -> Outcome]
      BY DEF Init, Unknown, Outcome
  <2>3. EmptyRecord \in Record
      BY DEF EmptyRecord, Record
  <2> QED
      BY <2>1, <2>2, <2>3 DEF Init, TypeOK, StoredRecord, PC, Object
<1>3. Bounded
    BY <1>1 DEF Init, Bounded, BoundedStored
<1>4. Stages
    BY DEF Init, Stages, Recovering, Reclaiming, Building, Cleaning, Publishing
<1>5. Authority
    BY DEF Init, Authority, EitherSays, AllSay, Says, PublicationProgress,
           RecoveryProgress, Recovering, Publishing, FenceWritten, FenceDurable,
           ReplicaAWritten, ReplicaADurable, Repairing, RootsRepaired,
           RootsDurable, FenceRewritten, FenceRepaired
<1>6. Histories
    BY PublicationAssumption
    DEF Init, Histories, ListsEarlier, Prepared, NoAttempts, Publishing
<1>7. Answers
    BY DEF Init, Answers, Live, Quiescent, Resolution, Unknown, EmptyRecord,
           Attempt
<1> QED
    BY <1>2, <1>3, <1>4, <1>5, <1>6, <1>7 DEF IInv

-----------------------------------------------------------------------------
(* The steps of Next, sorted by what they can disturb.                      *)

authorityVars == <<root, droot, next, wal, dwal, mem, target, choice>>

\* Recovery has repaired roots and fence and works in units/.
UnitsRepair == {"rUnits", "rObjects", "rObjectsSync"}

\* Steps that change no root, fence or record, and stay within a phase.
SilentStep ==
  /\ UNCHANGED authorityVars
  /\ \/ pc' = pc
     \/ pc \in Quiescent /\ pc' \in Quiescent
     \/ pc \in UnitsRepair /\ pc' \in UnitsRepair

\* The process gives up, closes or dies, without touching the disk.
StopStep == UNCHANGED authorityVars /\ pc' \in {"down", "closed"}

RecordStep == BeginIssue \/ BeginCommit \/ FinishIssue \/ FinishCommit

RootRepairStep ==
  \/ RemoveStaleNext \/ NoStaleNext \/ SyncStaleNext
  \/ WriteRepair \/ RenameRepair \/ NothingToRepair \/ SyncRoots
  \/ RewriteFence \/ SyncRewrittenFence

StorageStep ==
  \/ TearFence \/ PowerLoss \/ DamageFence \/ WritebackFence
  \/ \E x \in Replica : DamageRoot(x) \/ WritebackRoot(x)

\* Every step is silent, stops the process, or is named here.
LEMMA StepKinds ==
  ASSUME Next
  PROVE  \/ SilentStep \/ StopStep \/ RecordStep \/ PublishStep
         \/ Open \/ RootRepairStep \/ FinishOpen \/ StorageStep
<1> USE DEF SilentStep, StopStep, authorityVars, diskVars, rootVars, walVars,
            unitVars, choice, writerVars, Goto, Quiescent, Building, Cleaning,
            Reclaiming, UnitsRepair, Recovering
<1>1. CASE WriterStep
  <2>1. AdmitWriter \/ AbortUnissued => SilentStep
      BY DEF AdmitWriter, AbortUnissued
  <2>2. CreateObject \/ WriteObject \/ SyncBuilt => SilentStep
      BY DEF CreateObject, WriteObject, SyncBuilt
  <2>3. BeginCleanup \/ RemoveOwned \/ SyncRemoval \/ FinishAbort => SilentStep
      BY DEF BeginCleanup, RemoveOwned, SyncRemoval, FinishAbort
  <2> QED
      BY <1>1, <2>1, <2>2, <2>3 DEF WriterStep, RecordStep
<1>2. CASE ReclaimStep
    BY <1>2 DEF ReclaimStep, BeginReclaim, ReclaimObject, StopReclaim,
                SyncReclaim
<1>3. CASE CloseUnavailable
    BY <1>3 DEF CloseUnavailable, Release
<1>4. CASE RecoverStep
  <2>1. SyncRepairedUnits \/ RemoveUncommitted \/ SyncUncommitted => SilentStep
      BY DEF SyncRepairedUnits, RemoveUncommitted, SyncUncommitted
  <2> QED
      BY <1>4, <2>1 DEF RecoverStep, RootRepairStep
<1>5. CASE ProcessFault
    BY <1>5 DEF ProcessFault, OwnerFails, RecoveryFails, CloseOrKill, Release,
                StorageStep
<1>6. CASE StorageFault
    BY <1>6 DEF StorageFault, StorageStep
<1>7. CASE Writeback
  <2>1. WritebackName => SilentStep
      BY DEF WritebackName
  <2> QED
      BY <1>7, <2>1 DEF Writeback, StorageStep
<1> QED
    BY <1>1, <1>2, <1>3, <1>4, <1>5, <1>6, <1>7 DEF Next

-----------------------------------------------------------------------------
(* Bounded.                                                                 *)

LEMMA BoundedRecords ==
  ASSUME mem \in BoundedRecord
  PROVE  /\ mem.issued < MaxIssued => NextIssued \in BoundedRecord
         /\ mem.gen < MaxSuccesses => NextCommit \in BoundedRecord
<1>1. /\ mem \in Record
      /\ mem.issued <= MaxIssued /\ mem.gen <= MaxSuccesses
      /\ mem.seq <= mem.issued
    BY DEF BoundedRecord
<1>2. /\ mem.issued \in Nat /\ mem.gen \in Nat /\ mem.seq \in Nat
      /\ MaxIssued \in Nat /\ MaxSuccesses \in Nat
    BY <1>1, PublicationAssumption DEF Record
<1>3. NextIssued \in Record /\ NextCommit \in Record
    BY <1>2 DEF NextIssued, NextCommit, Record
<1>4. ASSUME mem.issued < MaxIssued
      PROVE  /\ NextIssued.issued <= MaxIssued
             /\ NextIssued.seq <= NextIssued.issued
    BY <1>1, <1>2, <1>4 DEF NextIssued
<1>5. ASSUME mem.gen < MaxSuccesses
      PROVE  /\ NextCommit.gen <= MaxSuccesses
             /\ NextCommit.seq <= NextCommit.issued
    BY <1>1, <1>2, <1>5 DEF NextCommit
<1> QED
    BY <1>1, <1>3, <1>4, <1>5 DEF BoundedRecord, NextIssued, NextCommit

\* The limits admission checked, at the stages that rely on them.
LEMMA StageLimits ==
  ASSUME Bounded, Stages
  PROVE  /\ BeginIssue => NextIssued \in BoundedRecord
         /\ BeginCommit => NextCommit \in BoundedRecord
BY BoundedRecords DEF Bounded, Stages, MayIssue, MayCommit, BeginIssue,
   BeginCommit, Goto, Building

LEMMA BoundedStep ==
  ASSUME Bounded, Stages, Next
  PROVE  Bounded'
<1> USE DEF Bounded, BoundedStored, diskVars, rootVars, walVars, choice
<1>1. CASE SilentStep \/ StopStep
    BY <1>1 DEF SilentStep, StopStep, authorityVars
<1>2. CASE RecordStep
  <2>1. BeginIssue \/ BeginCommit => Bounded'
      BY StageLimits DEF BeginIssue, BeginCommit
  <2>2. FinishIssue \/ FinishCommit => Bounded'
      BY DEF FinishIssue, FinishCommit
  <2> QED
      BY <1>2, <2>1, <2>2 DEF RecordStep
<1>3. CASE PublishStep
  <2>1. WriteFence \/ SyncFence => Bounded'
      BY DEF WriteFence, SyncFence
  <2>2. ASSUME NEW x \in Replica, NEW from, NEW to,
               WriteRootNext(x, from, to) \/ RenameRoot(x, from, to)
                 \/ SyncRoot(from, to)
        PROVE  Bounded'
      BY <2>2 DEF WriteRootNext, RenameRoot, SyncRoot, SyncDatabaseDirectory
  <2> QED
      BY <1>3, <2>1, <2>2 DEF PublishStep, Replica
<1>4. CASE Open
    BY <1>4, UnreadableAssumption DEF Open, Candidates
<1>5. CASE RootRepairStep
  <2>1. RemoveStaleNext \/ NoStaleNext \/ SyncStaleNext => Bounded'
      BY DEF RemoveStaleNext, NoStaleNext, SyncStaleNext, SyncDatabaseDirectory
  <2>2. WriteRepair \/ RenameRepair \/ NothingToRepair => Bounded'
      BY DEF WriteRepair, RenameRepair, NothingToRepair
  <2>3. SyncRoots \/ RewriteFence \/ SyncRewrittenFence => Bounded'
      BY DEF SyncRoots, RewriteFence, SyncRewrittenFence, SyncDatabaseDirectory
  <2> QED
      BY <1>5, <2>1, <2>2, <2>3 DEF RootRepairStep
<1>6. CASE FinishOpen
    BY <1>6 DEF FinishOpen
<1>7. CASE StorageStep
  <2>1. TearFence \/ PowerLoss \/ DamageFence \/ WritebackFence => Bounded'
      BY DEF TearFence, PowerLoss, DamageFence, WritebackFence
  <2>2. ASSUME NEW x \in Replica, DamageRoot(x) \/ WritebackRoot(x)
        PROVE  Bounded'
      BY <2>2 DEF DamageRoot, WritebackRoot
  <2> QED
      BY <1>7, <2>1, <2>2 DEF StorageStep
<1> QED
    BY <1>1, <1>2, <1>3, <1>4, <1>5, <1>6, <1>7, StepKinds

-----------------------------------------------------------------------------
(* Stages.                                                                  *)

\* A step within or out of the writer's stages keeps what admission granted.
LEMMA StagesStep ==
  ASSUME TypeOK, Bounded, Stages, Next
  PROVE  Stages'
<1> USE DEF Stages, Goto, diskVars, choice, writerVars,
            Recovering, Reclaiming, Building, Cleaning, Publishing, Quiescent
<1>1. CASE WriterStep
  <2>1. AdmitWriter \/ AbortUnissued => Stages'
      BY PublicationAssumption
      DEF AdmitWriter, AbortUnissued, MayIssue, Bounded, BoundedRecord, Record
  <2>2. BeginIssue \/ BeginCommit => Stages'
      BY DEF BeginIssue, BeginCommit, MayIssue, MayCommit, NextIssued, NextCommit
  <2>3. WriteFence \/ SyncFence => Stages'
      BY DEF WriteFence, SyncFence, MayIssue, MayCommit, NextIssued, NextCommit
  <2>4. ASSUME NEW x \in Replica, NEW from \in Publishing, NEW to \in Publishing,
               WriteRootNext(x, from, to) \/ RenameRoot(x, from, to)
                 \/ SyncRoot(from, to)
        PROVE  Stages'
      BY <2>4 DEF WriteRootNext, RenameRoot, SyncRoot, MayIssue, MayCommit,
                  NextIssued, NextCommit
  <2>5. PublishStep => Stages'
      BY <2>3, <2>4 DEF PublishStep, Replica
  <2>6. FinishIssue => Stages'
      BY DEF FinishIssue, Issuance, MayIssue, MayCommit, NextIssued, NextCommit,
             Bounded, BoundedRecord, Record
  <2>7. FinishCommit => Stages'
      BY DEF FinishCommit
  <2>8. CreateObject \/ WriteObject \/ SyncBuilt => Stages'
    <3>1. created + 1 # 0
        BY DEF TypeOK
    <3> QED
        BY <3>1 DEF CreateObject, WriteObject, SyncBuilt, MayCommit
  <2>9. BeginCleanup \/ RemoveOwned \/ SyncRemoval \/ FinishAbort => Stages'
      BY DEF BeginCleanup, RemoveOwned, SyncRemoval, FinishAbort, MayCommit
  <2> QED
      BY <1>1, <2>1, <2>2, <2>5, <2>6, <2>7, <2>8, <2>9 DEF WriterStep
<1>2. CASE ReclaimStep
    BY <1>2 DEF ReclaimStep, BeginReclaim, ReclaimObject, StopReclaim,
                SyncReclaim
<1>3. CASE CloseUnavailable
    BY <1>3 DEF CloseUnavailable, Release
<1>4. CASE Open
    BY <1>4 DEF Open
<1>5. CASE RecoverStep
  <2>1. pc \in Recovering
      BY <1>5 DEF RecoverStep, RemoveStaleNext, NoStaleNext, SyncStaleNext,
         WriteRepair, RenameRepair, NothingToRepair, SyncRoots, RewriteFence,
         SyncRewrittenFence, SyncRepairedUnits, RemoveUncommitted,
         SyncUncommitted, FinishOpen
  <2>2. active' = active
      BY <1>5 DEF RecoverStep, RemoveStaleNext, NoStaleNext, SyncStaleNext,
         WriteRepair, RenameRepair, NothingToRepair, SyncRoots, RewriteFence,
         SyncRewrittenFence, SyncRepairedUnits, RemoveUncommitted,
         SyncUncommitted, FinishOpen
  <2>3. \/ pc' \in Recovering
        \/ pc' = "idle" /\ mem' = target'
      BY <1>5 DEF RecoverStep, RemoveStaleNext, NoStaleNext, SyncStaleNext,
         WriteRepair, RenameRepair, NothingToRepair, SyncRoots, RewriteFence,
         SyncRewrittenFence, SyncRepairedUnits, RemoveUncommitted,
         SyncUncommitted, FinishOpen
  <2> QED
      BY <2>1, <2>2, <2>3
<1>6. CASE ProcessFault
    BY <1>6 DEF ProcessFault, OwnerFails, RecoveryFails, TearFence, CloseOrKill,
                Release
<1>7. CASE StorageFault \/ Writeback
  <2>1. PowerLoss => Stages'
      BY DEF PowerLoss
  <2>2. ASSUME NEW x \in Replica,
               \/ DamageFence \/ WritebackFence \/ WritebackName
               \/ DamageRoot(x) \/ WritebackRoot(x)
        PROVE  Stages'
      BY <2>2 DEF DamageFence, WritebackFence, WritebackName, DamageRoot,
                  WritebackRoot, MayIssue, MayCommit, NextIssued, NextCommit
  <2> QED
      BY <1>7, <2>1, <2>2 DEF StorageFault, Writeback, Replica
<1> QED
    BY <1>1, <1>2, <1>3, <1>4, <1>5, <1>6, <1>7 DEF Next

-----------------------------------------------------------------------------
(* Authority.                                                               *)

\* Within quiescent stages, and once roots and fence are repaired, no step
\* disturbs what they say; a stopped process leaves what it had written.
LEMMA AuthoritySilent ==
  ASSUME Authority, SilentStep \/ StopStep
  PROVE  Authority'
<1> USE DEF Authority, EitherSays, AllSay, Says, authorityVars, choice
<1>1. UNCHANGED authorityVars
    BY DEF SilentStep, StopStep
<1>2. CASE pc' = pc
    BY <1>1, <1>2 DEF PublicationProgress, RecoveryProgress
<1>3. CASE pc \in Quiescent /\ pc' \in Quiescent
    BY <1>1, <1>3 DEF PublicationProgress, RecoveryProgress, Quiescent, Building,
       Cleaning, Reclaiming, Publishing, FenceWritten, FenceDurable,
       ReplicaAWritten, ReplicaADurable, Recovering, Repairing, RootsRepaired,
       RootsDurable, FenceRewritten, FenceRepaired
<1>4. CASE pc \in UnitsRepair /\ pc' \in UnitsRepair
    BY <1>1, <1>4 DEF UnitsRepair, PublicationProgress, RecoveryProgress,
       Quiescent, Building, Cleaning, Reclaiming, Publishing, FenceWritten,
       FenceDurable, ReplicaAWritten, ReplicaADurable, Recovering, Repairing,
       RootsRepaired, RootsDurable, FenceRewritten, FenceRepaired
<1>5. CASE pc' \in {"down", "closed"}
    BY <1>1, <1>5 DEF PublicationProgress, RecoveryProgress, Quiescent, Building,
       Cleaning, Reclaiming, Publishing, FenceWritten, FenceDurable,
       ReplicaAWritten, ReplicaADurable, Recovering, Repairing, RootsRepaired,
       RootsDurable, FenceRewritten, FenceRepaired
<1> QED
    BY <1>2, <1>3, <1>4, <1>5 DEF SilentStep, StopStep

\* A publication starts when everything says the current record, and ends when
\* everything says the published one.
LEMMA AuthorityRecord ==
  ASSUME Authority, RecordStep
  PROVE  Authority'
<1> USE DEF Authority, EitherSays, AllSay, Says, Goto, diskVars, rootVars,
            walVars, choice, Quiescent, Building, Cleaning, Reclaiming,
            Publishing, PublicationProgress, RecoveryProgress, FenceWritten,
            FenceDurable, ReplicaAWritten, ReplicaADurable, Recovering,
            Repairing, RootsRepaired, RootsDurable, FenceRewritten, FenceRepaired
<1>1. BeginIssue \/ BeginCommit => Authority'
    BY DEF BeginIssue, BeginCommit
<1>2. FinishIssue \/ FinishCommit => Authority'
    BY DEF FinishIssue, FinishCommit, Replica
<1> QED
    BY <1>1, <1>2 DEF RecordStep

\* Each effect of publish_snapshot makes one more copy say the new record.
LEMMA AuthorityPublish ==
  ASSUME Bounded, Authority, PublishStep
  PROVE  Authority'
<1> USE DEF Bounded, Authority, EitherSays, AllSay, Says, Goto, rootVars,
            walVars, choice, Quiescent, Building, Cleaning, Reclaiming,
            Publishing, PublicationProgress, RecoveryProgress, FenceWritten,
            FenceDurable, ReplicaAWritten, ReplicaADurable, Recovering,
            Repairing, RootsRepaired, RootsDurable, FenceRewritten,
            FenceRepaired, Replica
<1>1. WriteFence => Authority'
    BY DEF WriteFence
<1>2. SyncFence => Authority'
    BY DEF SyncFence
<1>3. WriteRootNext("A", "pNextA", "pRenameA") => Authority'
    BY DEF WriteRootNext
<1>4. RenameRoot("A", "pRenameA", "pSyncA") => Authority'
    BY DEF RenameRoot
<1>5. SyncRoot("pSyncA", "pNextB") => Authority'
    BY DEF SyncRoot, SyncDatabaseDirectory
<1>6. WriteRootNext("B", "pNextB", "pRenameB") => Authority'
    BY DEF WriteRootNext
<1>7. RenameRoot("B", "pRenameB", "pSyncB") => Authority'
    BY DEF RenameRoot
<1>8. SyncRoot("pSyncB", "pDone") => Authority'
    BY DEF SyncRoot, SyncDatabaseDirectory
<1> QED
    BY <1>1, <1>2, <1>3, <1>4, <1>5, <1>6, <1>7, <1>8 DEF PublishStep

\* Recovery selects a record some root says, and makes every copy say it.
LEMMA AuthorityRecover ==
  ASSUME TypeOK, Bounded, Authority, Open \/ RootRepairStep \/ FinishOpen
  PROVE  Authority'
<1> USE DEF Bounded, Authority, EitherSays, AllSay, Says, Goto, diskVars,
            rootVars, walVars, choice, Quiescent, Building, Cleaning, Reclaiming,
            Publishing, PublicationProgress, RecoveryProgress, FenceWritten,
            FenceDurable, ReplicaAWritten, ReplicaADurable, Recovering,
            Repairing, RootsRepaired, RootsDurable, FenceRewritten,
            FenceRepaired, Replica
<1>1. Open => Authority'
    BY DEF Open, Candidates, Repairs
<1>2. RemoveStaleNext => Authority'
    BY DEF RemoveStaleNext
<1>3. NoStaleNext => Authority'
    BY DEF NoStaleNext
<1>4. SyncStaleNext => Authority'
    BY DEF SyncStaleNext, SyncDatabaseDirectory
<1>5. ASSUME WriteRepair PROVE Authority'
  <2>1. PICK x \in repair : next' = next \union {x}
      BY <1>5 DEF WriteRepair
  <2>2. repair = {x}
      BY <1>5, <2>1 DEF WriteRepair, TypeOK
  <2>3. next' = repair'
      BY <1>5, <2>1, <2>2 DEF WriteRepair
  <2> QED
      BY <1>5, <2>3 DEF WriteRepair
<1>6. ASSUME RenameRepair PROVE Authority'
  <2>1. PICK x \in next : root' = [root EXCEPT ![x] = chosen]
      BY <1>6 DEF RenameRepair
  <2>2. next = repair /\ repair # Replica /\ repair \subseteq Replica
      BY <1>6 DEF RenameRepair, TypeOK
  <2>3. repair = {x}
      BY <2>1, <2>2
  <2>4. \A y \in Replica \ {x} : root[y] \in {chosen, Unreadable}
      BY <1>6, <2>3 DEF RenameRepair
  <2>5. \A y \in Replica : root'[y] \in {chosen, Unreadable}
      BY <2>1, <2>4
  <2> QED
      BY <1>6, <2>5 DEF RenameRepair
<1>7. NothingToRepair => Authority'
    BY DEF NothingToRepair
<1>8. SyncRoots => Authority'
    BY DEF SyncRoots, SyncDatabaseDirectory
<1>9. RewriteFence => Authority'
    BY DEF RewriteFence
<1>10. SyncRewrittenFence => Authority'
    BY DEF SyncRewrittenFence
<1>11. FinishOpen => Authority'
    BY DEF FinishOpen
<1> QED
    BY <1>1, <1>2, <1>3, <1>4, <1>5, <1>6, <1>7, <1>8, <1>9, <1>10, <1>11
    DEF RootRepairStep

\* Power loss and write-back only move copies between the two views; damage
\* only makes them unreadable.
LEMMA AuthorityStorage ==
  ASSUME Bounded, Authority, StorageStep
  PROVE  Authority'
<1> USE DEF Bounded, Authority, EitherSays, AllSay, Says, Goto, rootVars,
            walVars, choice, Replica
<1>1. TearFence \/ PowerLoss => Authority'
    BY DEF TearFence, PowerLoss, Quiescent, Building, Cleaning, Reclaiming,
       Publishing, PublicationProgress, RecoveryProgress, FenceWritten,
       FenceDurable, ReplicaAWritten, ReplicaADurable, Recovering, Repairing,
       RootsRepaired, RootsDurable, FenceRewritten, FenceRepaired
<1>2. DamageFence => Authority'
    BY DEF DamageFence, PublicationProgress, RecoveryProgress
<1>3. WritebackFence => Authority'
    BY DEF WritebackFence, PublicationProgress, RecoveryProgress, Publishing,
       FenceWritten, FenceDurable, Recovering, Repairing, RootsRepaired,
       RootsDurable, FenceRewritten, FenceRepaired
<1>4. ASSUME NEW x \in Replica, DamageRoot(x) PROVE Authority'
    BY <1>4 DEF DamageRoot, PublicationProgress, RecoveryProgress
<1>5. ASSUME NEW x \in Replica, WritebackRoot(x) PROVE Authority'
    BY <1>5 DEF WritebackRoot, PublicationProgress, RecoveryProgress, Publishing,
       FenceWritten, FenceDurable, ReplicaAWritten, ReplicaADurable, Recovering,
       Repairing, RootsRepaired, RootsDurable
<1> QED
    BY <1>1, <1>2, <1>3, <1>4, <1>5 DEF StorageStep

LEMMA AuthorityStep ==
  ASSUME TypeOK, Bounded, Authority, Next
  PROVE  Authority'
BY StepKinds, AuthoritySilent, AuthorityRecord, AuthorityPublish,
   AuthorityRecover, AuthorityStorage

-----------------------------------------------------------------------------
(* Histories and Answers.                                                   *)

LiveStep ==
  /\ pc \in Live /\ pc' \in Live
  /\ UNCHANGED <<mem, active, chain, outcome>>
  /\ Prepared' => Prepared

DeadStep == pc' \notin Live /\ UNCHANGED <<mem, target, chain, outcome>>

\* Every step is one of these, or changes what callers know, or writes an object.
LEMMA AnswerKinds ==
  ASSUME Stages, Next
  PROVE  \/ LiveStep \/ DeadStep \/ WriteObject
         \/ FinishIssue \/ FinishCommit \/ FinishAbort \/ FinishOpen
<1> USE DEF LiveStep, DeadStep, Goto, diskVars, unitVars, Live, Quiescent,
            Building, Cleaning, Reclaiming, Publishing, Prepared
<1>1. CASE WriterStep
  <2>1. AdmitWriter \/ AbortUnissued => LiveStep
      BY DEF AdmitWriter, AbortUnissued, writerVars
  <2>2. BeginIssue \/ BeginCommit => LiveStep
      BY DEF BeginIssue, BeginCommit, writerVars, Stages, MayIssue
  <2>3. WriteFence \/ SyncFence => LiveStep
      BY DEF WriteFence, SyncFence, writerVars
  <2>4. ASSUME NEW x \in Replica, NEW from \in Publishing, NEW to \in Publishing,
               WriteRootNext(x, from, to) \/ RenameRoot(x, from, to)
                 \/ SyncRoot(from, to)
        PROVE  LiveStep
      BY <2>4 DEF WriteRootNext, RenameRoot, SyncRoot, writerVars
  <2>5. PublishStep => LiveStep
      BY <2>3, <2>4 DEF PublishStep, Replica
  <2>6. CreateObject \/ SyncBuilt => LiveStep
      BY DEF CreateObject, SyncBuilt, writerVars
  <2>7. BeginCleanup \/ RemoveOwned \/ SyncRemoval => LiveStep
      BY DEF BeginCleanup, RemoveOwned, SyncRemoval, writerVars
  <2> QED
      BY <1>1, <2>1, <2>2, <2>5, <2>6, <2>7 DEF WriterStep
<1>2. CASE ReclaimStep
    BY <1>2 DEF ReclaimStep, BeginReclaim, ReclaimObject, StopReclaim,
                SyncReclaim, writerVars
<1>3. CASE CloseUnavailable \/ Open
    BY <1>3 DEF CloseUnavailable, Release, Open, Recovering
<1>4. CASE RecoverStep
  <2>1. RemoveStaleNext \/ NoStaleNext \/ SyncStaleNext => DeadStep
      BY DEF RemoveStaleNext, NoStaleNext, SyncStaleNext
  <2>2. WriteRepair \/ RenameRepair \/ NothingToRepair \/ SyncRoots => DeadStep
      BY DEF WriteRepair, RenameRepair, NothingToRepair, SyncRoots
  <2>3. RewriteFence \/ SyncRewrittenFence \/ SyncRepairedUnits => DeadStep
      BY DEF RewriteFence, SyncRewrittenFence, SyncRepairedUnits
  <2>4. RemoveUncommitted \/ SyncUncommitted => DeadStep
      BY DEF RemoveUncommitted, SyncUncommitted
  <2> QED
      BY <1>4, <2>1, <2>2, <2>3, <2>4 DEF RecoverStep
<1>5. CASE ProcessFault
    BY <1>5 DEF ProcessFault, OwnerFails, RecoveryFails, TearFence, CloseOrKill,
                Release
<1>6. CASE PowerLoss
    BY <1>6 DEF PowerLoss
<1>7. ASSUME NEW x \in Replica,
             \/ DamageFence \/ WritebackFence \/ WritebackName
             \/ DamageRoot(x) \/ WritebackRoot(x)
      PROVE  LiveStep \/ DeadStep
    BY <1>7 DEF DamageFence, WritebackFence, WritebackName, DamageRoot,
                WritebackRoot, writerVars
<1> QED
    BY <1>1, <1>2, <1>3, <1>4, <1>5, <1>6, <1>7
    DEF Next, StorageFault, Writeback, Replica

LEMMA HistoriesStep ==
  ASSUME TypeOK, Bounded, Stages, Histories, Next
  PROVE  Histories'
<1> USE DEF Histories, Goto
<1>1. CASE LiveStep
    BY <1>1 DEF LiveStep, ListsEarlier, AppendedHistory
<1>2. CASE DeadStep
    BY <1>2 DEF DeadStep, ListsEarlier, Prepared, Live, Quiescent, Building
<1>3. CASE WriteObject
  <2>1. /\ active \in Attempt /\ mem.seq \in 0 .. MaxIssued
        /\ mem.seq < active
    <3>1. active = mem.issued /\ mem.seq < mem.issued
        BY <1>3 DEF WriteObject, Stages, Building, MayCommit
    <3>2. mem.issued \in Nat /\ mem.seq \in Nat /\ mem.issued <= MaxIssued
        BY DEF Bounded, BoundedRecord, Record
    <3> QED
        BY <3>1, <3>2, PublicationAssumption DEF Attempt
  <2>2. chain' = chain \/ chain' = [chain EXCEPT ![active] = AppendedHistory]
      BY <1>3 DEF WriteObject
  <2>3. \A a \in Attempt : a > active => AppendedHistory[a] = 0
      BY <2>1 DEF AppendedHistory, ListsEarlier, TypeOK, Attempt
  <2>4. ASSUME NEW s \in 0 .. MaxIssued, NEW a \in Attempt, a > s
        PROVE  chain'[s][a] = 0
    <3>1. \/ chain'[s] = chain[s]
          \/ s = active /\ chain'[s] = AppendedHistory
      <4>1. chain \in [0 .. MaxIssued -> [Attempt -> 0 .. MaxSuccesses]]
          BY DEF TypeOK
      <4> QED
          BY <2>2, <2>4, <4>1
    <3> QED
        BY <2>3, <2>4, <3>1 DEF ListsEarlier
  <2>5. ASSUME Prepared' PROVE chain'[active'] = AppendedHistory'
    <3>1. chain' = [chain EXCEPT ![active] = AppendedHistory] /\ active' = active
        BY <1>3, <2>5 DEF WriteObject, Prepared, Publishing, writerVars
    <3>2. chain'[mem.seq] = chain[mem.seq]
        BY <2>1, <3>1 DEF TypeOK, Attempt
    <3>3. AppendedHistory' = AppendedHistory
        BY <1>3, <3>1, <3>2 DEF WriteObject, AppendedHistory, NoAttempts
    <3> QED
        BY <2>1, <3>1, <3>3 DEF TypeOK, Attempt
  <2> QED
      BY <2>4, <2>5 DEF ListsEarlier
<1>4. CASE FinishIssue \/ FinishCommit \/ FinishAbort \/ FinishOpen
    BY <1>4, PublicationAssumption
    DEF FinishIssue, FinishCommit, FinishAbort, FinishOpen, diskVars, unitVars,
        ListsEarlier, Prepared, Publishing
<1> QED
    BY <1>1, <1>2, <1>3, <1>4, AnswerKinds

\* The record of an issuance resolves every earlier attempt as before.
LEMMA IssuanceExtends ==
  ASSUME Bounded, NEW a \in Attempt, a # mem.issued + 1
  PROVE  Resolution(NextIssued, a) = Resolution(mem, a)
BY DEF Resolution, NextIssued, Attempt, Bounded, BoundedRecord, Record

\* The record of a commit adds the active attempt and changes no other answer.
LEMMA CommitExtends ==
  ASSUME TypeOK, Bounded, MayCommit, chain[active] = AppendedHistory,
         NEW a \in Attempt
  PROVE  Resolution(NextCommit, a) =
           IF a = active THEN Durable(mem.gen + 1) ELSE Resolution(mem, a)
<1>1. active = mem.issued /\ mem.issued \in Nat /\ mem.gen \in Nat
    BY DEF MayCommit, Bounded, BoundedRecord, Record
<1>2. chain[mem.seq] \in [Attempt -> 0 .. MaxSuccesses]
  <2>1. mem.seq \in 0 .. MaxIssued
      BY PublicationAssumption DEF Bounded, BoundedRecord, Record
  <2> QED
      BY <2>1 DEF TypeOK
<1>3. AppendedHistory[a] = IF a = active THEN mem.gen + 1 ELSE chain[mem.seq][a]
    BY <1>2 DEF AppendedHistory
<1> QED
    BY <1>1, <1>3 DEF Resolution, NextCommit, Attempt

\* Resolution never reports an attempt as pending.
LEMMA ResolutionDecides ==
  ASSUME NEW r \in Record, NEW a \in Attempt
  PROVE  /\ Resolution(r, a) # Pending
         /\ Decided(Resolution(r, a)) => a <= r.issued
BY DEF Resolution, Unknown, Pending, Aborted, Durable, Decided, Record, Attempt

LEMMA AnswersStep ==
  ASSUME TypeOK, Bounded, Stages, Authority, Histories, Answers, Next
  PROVE  Answers'
<1> USE DEF Goto
<1>0. mem \in Record /\ target \in Record
    BY DEF Bounded, BoundedRecord
<1>1. CASE LiveStep
    BY <1>1 DEF LiveStep, Answers, Resolution
<1>2. CASE DeadStep
  <2>1. SUFFICES ASSUME NEW a \in Attempt
                 PROVE  Resolves(mem, a) /\ Resolves(target, a)
      BY <1>2, <2>1 DEF DeadStep, Answers, Resolves, Resolution
  <2>2. CASE pc \notin Live
      BY <2>1, <2>2 DEF Answers
  <2>3. CASE pc \in Quiescent
    <3>1. outcome[a] = IF a = active THEN Pending ELSE Resolution(mem, a)
        BY <2>1, <2>3 DEF Answers, Live
    <3>2. a = active => a <= mem.issued
        BY <2>1, <2>3, <1>0 DEF Stages, Quiescent, MayIssue, MayCommit, Attempt,
           Record
    <3>3. target = mem
        BY <2>3 DEF Stages
    <3> QED
        BY <1>0, <2>1, <3>1, <3>2, <3>3, ResolutionDecides
        DEF Resolves, Decided, Pending
  <2>4. CASE pc \in Publishing
    <3>1. outcome[a] = IF a = active THEN Pending ELSE Resolution(mem, a)
        BY <2>1, <2>4 DEF Answers, Live
    <3>2. CASE target = NextIssued /\ MayIssue
      <4>1. outcome[a] = Resolution(mem, a)
          BY <2>1, <3>1, <3>2 DEF MayIssue, Attempt
      <4>2. a # mem.issued + 1 => Resolution(target, a) = outcome[a]
          BY <2>1, <3>2, <4>1, IssuanceExtends
      <4>3. a = mem.issued + 1 => ~ Decided(outcome[a])
          BY <1>0, <2>1, <4>1, ResolutionDecides DEF Record
      <4> QED
          BY <1>0, <2>1, <4>1, <4>2, <4>3, ResolutionDecides DEF Resolves
    <3>3. CASE target = NextCommit /\ MayCommit
      <4>1. chain[active] = AppendedHistory
          BY <2>4, <3>3, <1>0 DEF Histories, Prepared, MayCommit, Record
      <4>2. Resolution(target, a) =
              IF a = active THEN Durable(mem.gen + 1) ELSE Resolution(mem, a)
          BY <2>1, <3>3, <4>1, CommitExtends
      <4>3. a = active => a <= mem.issued /\ a <= target.issued
          BY <1>0, <3>3 DEF MayCommit, NextCommit, Record
      <4> QED
          BY <1>0, <2>1, <3>1, <4>2, <4>3, ResolutionDecides
          DEF Resolves, Decided, Pending
    <3> QED
        BY <2>4, <3>2, <3>3 DEF Stages
  <2> QED
      BY <2>2, <2>3, <2>4 DEF Live
<1>3. CASE WriteObject
  <2>1. active # mem.seq /\ active' = active
      BY <1>0, <1>3 DEF WriteObject, writerVars, Stages, Building, MayCommit, Record
  <2>2. chain'[mem.seq] = chain[mem.seq]
      BY <1>3, <2>1 DEF WriteObject
  <2> QED
      BY <1>3, <2>1, <2>2 DEF WriteObject, Answers, Resolution, Live, Quiescent,
         Building
<1>4. CASE FinishIssue
  <2>1. target = NextIssued /\ MayIssue
      BY <1>0, <1>4 DEF FinishIssue, Issuance, Stages, Publishing, NextCommit, Record
  <2>2. pc \in Live /\ pc' \in Live
      BY <1>4 DEF FinishIssue, Live, Publishing, Quiescent, Building
  <2>3. SUFFICES ASSUME NEW a \in Attempt
                 PROVE  outcome'[a] = IF a = active' THEN Pending
                                      ELSE Resolution(mem, a)'
      BY <2>2 DEF Answers
  <2>4. active' = mem.issued + 1 /\ mem' = NextIssued /\ chain' = chain
      BY <1>4, <2>1 DEF FinishIssue, NextIssued, diskVars, unitVars
  <2>5. outcome'[a] = IF a = active' THEN Pending ELSE outcome[a]
      BY <1>4, <2>1, <2>3, <2>4 DEF FinishIssue, TypeOK, NextIssued
  <2>6. outcome[a] = Resolution(mem, a)
      BY <2>1, <2>2, <2>3 DEF Answers, MayIssue, Attempt
  <2>7. Resolution(mem, a)' = Resolution(NextIssued, a)
      BY <2>4 DEF Resolution
  <2> QED
      BY <2>3, <2>4, <2>5, <2>6, <2>7, IssuanceExtends
<1>5. CASE FinishCommit
  <2>1. target = NextCommit /\ MayCommit
      BY <1>0, <1>5 DEF FinishCommit, Commit, Stages, Publishing, NextIssued, Record
  <2>2. pc \in Live /\ pc' \in Live /\ pc \in Publishing
      BY <1>5 DEF FinishCommit, Live, Publishing, Quiescent
  <2>3. SUFFICES ASSUME NEW a \in Attempt
                 PROVE  outcome'[a] = Resolution(mem, a)'
      BY <1>5, <2>2, <2>3 DEF FinishCommit, Answers, Attempt
  <2>4. chain[active] = AppendedHistory
      BY <1>0, <2>1, <2>2 DEF Histories, Prepared, MayCommit, Record
  <2>5. Resolution(mem, a)' = Resolution(NextCommit, a)
      BY <1>5, <2>1 DEF FinishCommit, Resolution, diskVars, unitVars
  <2>6. outcome'[a] = IF a = active THEN Durable(mem.gen + 1) ELSE outcome[a]
      BY <1>5, <2>1, <2>3 DEF FinishCommit, TypeOK, NextCommit, MayCommit
  <2>7. a # active => outcome[a] = Resolution(mem, a)
      BY <2>2, <2>3 DEF Answers
  <2> QED
      BY <2>1, <2>3, <2>4, <2>5, <2>6, <2>7, CommitExtends
<1>6. CASE FinishAbort
  <2>1. pc \in Live /\ pc' \in Live
      BY <1>6 DEF FinishAbort, Live, Quiescent, Cleaning
  <2>2. SUFFICES ASSUME NEW a \in Attempt
                 PROVE  outcome'[a] = Resolution(mem, a)
      BY <1>6, <2>1, <2>2 DEF FinishAbort, Answers, Attempt, Resolution, diskVars,
         unitVars
  <2>3. active = mem.issued /\ mem.seq < mem.issued
      BY <1>6 DEF FinishAbort, Stages, Cleaning, MayCommit
  <2>4. a = active => Resolution(mem, a) = Aborted
    <3>1. mem.seq \in 0 .. MaxIssued
        BY PublicationAssumption DEF Bounded, BoundedRecord, Record
    <3> QED
        BY <1>0, <2>2, <2>3, <3>1 DEF Resolution, Histories, ListsEarlier, Record
  <2>5. outcome'[a] = IF a = active THEN Aborted ELSE outcome[a]
      BY <1>6, <2>2 DEF FinishAbort, TypeOK
  <2>6. a # active => outcome[a] = Resolution(mem, a)
      BY <2>1, <2>2 DEF Answers
  <2> QED
      BY <2>2, <2>4, <2>5, <2>6
<1>7. CASE FinishOpen
  <2>1. active' = 0 /\ pc' \in Live
      BY <1>7 DEF FinishOpen, Stages, Recovering, writerVars, Live, Quiescent
  <2> QED
      BY <1>7, <2>1 DEF FinishOpen, Answers, Resolution, Attempt, diskVars, unitVars
<1> QED
    BY <1>1, <1>2, <1>3, <1>4, <1>5, <1>6, <1>7, AnswerKinds
-----------------------------------------------------------------------------
(* Types.                                                                   *)

\* The part of TypeOK that Bounded does not give.
OtherTypes ==
  /\ next \subseteq Replica /\ dnext \subseteq Replica
  /\ names \subseteq Object /\ dnames \subseteq Object /\ whole \subseteq Object
  /\ chain \in [0 .. MaxIssued -> [Attempt -> 0 .. MaxSuccesses]]
  /\ pc \in PC
  /\ repair \subseteq Replica
  /\ active \in 0 .. MaxIssued /\ created \in 0 .. Objects
  /\ damages \in 0 .. MaxDamage
  /\ outcome \in [Attempt -> Outcome]

LEMMA OutcomeTypes ==
  /\ Unknown \in Outcome /\ Pending \in Outcome /\ Aborted \in Outcome
  /\ \A g \in 0 .. MaxSuccesses : Durable(g) \in Outcome
BY PublicationAssumption
DEF Unknown, Pending, Aborted, Durable, Outcome

LEMMA OtherTypesStep ==
  ASSUME TypeOK, Bounded, Stages, Next
  PROVE  OtherTypes'
<1> USE PublicationAssumption DEF OtherTypes, TypeOK, Goto, diskVars, rootVars,
        walVars, unitVars, choice, writerVars, PC, Publishing, Building,
        Cleaning, Reclaiming, Recovering
<1>1. CASE WriterStep
  <2>1. AdmitWriter \/ AbortUnissued \/ BeginIssue \/ BeginCommit => OtherTypes'
      BY DEF AdmitWriter, AbortUnissued, BeginIssue, BeginCommit
  <2>2. WriteFence \/ SyncFence => OtherTypes'
      BY DEF WriteFence, SyncFence
  <2>3. ASSUME NEW x \in Replica, NEW from \in PC, NEW to \in PC,
               WriteRootNext(x, from, to) \/ RenameRoot(x, from, to)
                 \/ SyncRoot(from, to)
        PROVE  OtherTypes'
      BY <2>3 DEF WriteRootNext, RenameRoot, SyncRoot, SyncDatabaseDirectory
  <2>4. PublishStep => OtherTypes'
      BY <2>2, <2>3 DEF PublishStep, Replica
  <2>5. ASSUME FinishIssue PROVE OtherTypes'
    <3>1. outcome' \in [Attempt -> Outcome]
        BY <2>5, OutcomeTypes DEF FinishIssue
    <3>2. target.issued \in 0 .. MaxIssued
        BY DEF Bounded, BoundedRecord, Record
    <3> QED
        BY <2>5, <3>1, <3>2 DEF FinishIssue
  <2>6. ASSUME FinishCommit PROVE OtherTypes'
    <3>1. target.gen \in 0 .. MaxSuccesses
        BY DEF Bounded, BoundedRecord, Record
    <3>2. outcome' \in [Attempt -> Outcome]
        BY <2>6, <3>1, OutcomeTypes DEF FinishCommit
    <3> QED
        BY <2>6, <3>2 DEF FinishCommit
  <2>7. ASSUME CreateObject PROVE OtherTypes'
    <3>1. active \in Attempt /\ created + 1 \in Ordinal
        BY <2>7 DEF CreateObject, Stages, MayCommit, Bounded, BoundedRecord,
           Record, Attempt, Ordinal
    <3> QED
        BY <2>7, <3>1 DEF CreateObject, Object, Ordinal
  <2>8. ASSUME WriteObject PROVE OtherTypes'
    <3>1. active \in Attempt /\ created \in Ordinal
        BY <2>8 DEF WriteObject, Stages, MayCommit, Bounded, BoundedRecord,
           Record, Attempt, Ordinal
    <3>2. mem.seq \in 0 .. MaxIssued /\ mem.gen + 1 \in 0 .. MaxSuccesses
        BY <2>8 DEF WriteObject, Stages, MayCommit, Bounded, BoundedRecord, Record
    <3>3. AppendedHistory \in [Attempt -> 0 .. MaxSuccesses]
        BY <3>2 DEF AppendedHistory
    <3>4. chain' \in [0 .. MaxIssued -> [Attempt -> 0 .. MaxSuccesses]]
        BY <2>8, <3>3 DEF WriteObject
    <3> QED
        BY <2>8, <3>1, <3>4 DEF WriteObject, Object
  <2>9. SyncBuilt => OtherTypes'
      BY DEF SyncBuilt, SyncUnits
  <2>10. BeginCleanup \/ RemoveOwned \/ SyncRemoval => OtherTypes'
      BY DEF BeginCleanup, RemoveOwned, SyncRemoval, SyncUnits
  <2>11. ASSUME FinishAbort PROVE OtherTypes'
    <3>1. outcome' \in [Attempt -> Outcome]
        BY <2>11, OutcomeTypes DEF FinishAbort
    <3> QED
        BY <2>11, <3>1 DEF FinishAbort
  <2> QED
      BY <1>1, <2>1, <2>4, <2>5, <2>6, <2>7, <2>8, <2>9, <2>10, <2>11
      DEF WriterStep
<1>2. CASE ReclaimStep
    BY <1>2 DEF ReclaimStep, BeginReclaim, ReclaimObject, StopReclaim,
                SyncReclaim, SyncUnits
<1>3. CASE CloseUnavailable \/ Open
    BY <1>3 DEF CloseUnavailable, Release, Open, Repairs
<1>4. CASE RecoverStep
  <2>1. RemoveStaleNext \/ NoStaleNext \/ SyncStaleNext => OtherTypes'
      BY DEF RemoveStaleNext, NoStaleNext, SyncStaleNext, SyncDatabaseDirectory
  <2>2. WriteRepair \/ RenameRepair \/ NothingToRepair \/ SyncRoots => OtherTypes'
      BY DEF WriteRepair, RenameRepair, NothingToRepair, SyncRoots,
         SyncDatabaseDirectory
  <2>3. RewriteFence \/ SyncRewrittenFence \/ SyncRepairedUnits => OtherTypes'
      BY DEF RewriteFence, SyncRewrittenFence, SyncRepairedUnits, SyncUnits
  <2>4. RemoveUncommitted \/ SyncUncommitted => OtherTypes'
      BY DEF RemoveUncommitted, SyncUncommitted, SyncUnits
  <2>5. ASSUME FinishOpen PROVE OtherTypes'
    <3>1. chosen.seq \in 0 .. MaxIssued
        BY DEF Bounded, BoundedRecord, Record
    <3>2. chain[chosen.seq] \in [Attempt -> 0 .. MaxSuccesses]
        BY <3>1
    <3>3. \A a \in Attempt : Resolution(chosen, a) \in Outcome
        BY <3>2, OutcomeTypes DEF Resolution
    <3> QED
        BY <2>5, <3>3 DEF FinishOpen
  <2> QED
      BY <1>4, <2>1, <2>2, <2>3, <2>4, <2>5 DEF RecoverStep
<1>5. CASE ProcessFault
    BY <1>5 DEF ProcessFault, OwnerFails, RecoveryFails, TearFence, CloseOrKill,
                Release
<1>6. CASE PowerLoss
    BY <1>6 DEF PowerLoss
<1>7. ASSUME NEW x \in Replica,
             \/ DamageFence \/ WritebackFence \/ WritebackName
             \/ DamageRoot(x) \/ WritebackRoot(x)
      PROVE  OtherTypes'
    BY <1>7 DEF DamageFence, WritebackFence, WritebackName, DamageRoot,
                WritebackRoot
<1> QED
    BY <1>1, <1>2, <1>3, <1>4, <1>5, <1>6, <1>7
    DEF Next, StorageFault, Writeback, Replica

LEMMA TypeStep ==
  ASSUME TypeOK, Bounded, Stages, Next
  PROVE  TypeOK'
BY OtherTypesStep, BoundedStep
DEF TypeOK, OtherTypes, Bounded, BoundedStored, BoundedRecord, StoredRecord

-----------------------------------------------------------------------------
(* The theorems.                                                            *)

LEMMA IInvStep == IInv /\ [Next]_vars => IInv'
<1> SUFFICES ASSUME IInv, [Next]_vars PROVE IInv'
    OBVIOUS
<1> USE DEF IInv
<1>1. CASE Next
    BY <1>1, TypeStep, BoundedStep, StagesStep, AuthorityStep, HistoriesStep,
       AnswersStep
<1>2. CASE UNCHANGED vars
  <2> USE <1>2 DEF vars, rootVars, walVars, unitVars, choice, writerVars
  <2>1. TypeOK' /\ Bounded'
      BY DEF TypeOK, Bounded
  <2>2. Stages'
      BY DEF Stages, MayIssue, MayCommit, NextIssued, NextCommit
  <2>3. Authority'
      BY DEF Authority, EitherSays, AllSay, Says, PublicationProgress,
             RecoveryProgress
  <2>4. Histories' /\ Answers'
      BY DEF Histories, ListsEarlier, Prepared, AppendedHistory, Answers,
             Resolves, Resolution
  <2> QED
      BY <2>1, <2>2, <2>3, <2>4
<1> QED
    BY <1>1, <1>2

\* The invariant holds in every reachable state, for any size of database.
THEOREM Invariance == Spec => []IInv
BY InitIInv, IInvStep, PTL DEF Spec

\* Types hold, and no record passes the limits that admission checks.
THEOREM TypeCorrect == Spec => []TypeOK
BY Invariance, PTL DEF IInv

\* resolve_commit on a live handle repeats what callers were told, for any
\* number of attempts, failures and damaged files.
THEOREM LiveAnswersAgreeAlways == Spec => []LiveAnswersAgree
<1>1. IInv => LiveAnswersAgree
    BY DEF IInv, Stages, Answers, LiveAnswersAgree, Live, Quiescent, Attempt
<1> QED
    BY Invariance, <1>1, PTL

\* Whatever recovery could select resolves every decided attempt as callers
\* were told: no power loss, failed step or damaged root changes an answer.
THEOREM AuthorizedAnswersAgreeAlways == Spec => []AuthorizedAnswersAgree
<1>1. IInv => AuthorizedAnswersAgree
    BY DEF IInv, Authority, EitherSays, Answers, Resolves, Live, Quiescent,
       Building, Cleaning, Reclaiming, Publishing, AuthorizedAnswersAgree
<1> QED
    BY Invariance, <1>1, PTL

\* A decided outcome is final and an exposed token is never forgotten.
THEOREM OutcomesAreFinal == Spec => OutcomesFinal
<1> DEFINE Final ==
      \A a \in Attempt :
        /\ Decided(outcome[a]) => outcome'[a] = outcome[a]
        /\ outcome[a] = Pending => outcome'[a] = Pending \/ Decided(outcome'[a])
<1>1. IInv /\ [Next]_vars => [Final]_vars
  <2> SUFFICES ASSUME IInv, Next, NEW a \in Attempt
               PROVE  /\ Decided(outcome[a]) => outcome'[a] = outcome[a]
                      /\ outcome[a] = Pending =>
                           outcome'[a] = Pending \/ Decided(outcome'[a])
      OBVIOUS
  <2> USE DEF IInv
  <2>1. CASE LiveStep \/ DeadStep
      BY <2>1 DEF LiveStep, DeadStep
  <2>2. CASE WriteObject
      BY <2>2 DEF WriteObject
  <2>3. CASE FinishIssue
    <3>1. pc \in Live /\ target = NextIssued /\ active = 0
        BY <2>3 DEF FinishIssue, Goto, Live, Publishing, Stages, Issuance, MayIssue,
           NextCommit, Bounded, BoundedRecord, Record
    <3>2. outcome[a] = Resolution(mem, a)
        BY <3>1 DEF Answers, Attempt
    <3>3. a = target.issued => outcome[a] = Unknown
        BY <3>1, <3>2 DEF Resolution, NextIssued, Bounded, BoundedRecord, Record
    <3> QED
        BY <2>3, <3>3 DEF FinishIssue, Unknown, Pending, Decided, TypeOK
  <2>4. CASE FinishCommit
    <3>1. pc \in Live /\ target.seq = active
        BY <2>4 DEF FinishCommit, Goto, Live, Publishing, Stages, Commit, MayCommit,
           NextIssued, NextCommit, Bounded, BoundedRecord, Record
    <3>2. a = target.seq => outcome[a] = Pending
        BY <3>1 DEF Answers
    <3> QED
        BY <2>4, <3>2 DEF FinishCommit, Pending, Durable, Decided, TypeOK
  <2>5. CASE FinishAbort
    <3>1. a = active => outcome[a] = Pending
        BY <2>5 DEF FinishAbort, Goto, Answers, Live, Quiescent, Cleaning
    <3> QED
        BY <2>5, <3>1 DEF FinishAbort, Pending, Aborted, Decided, TypeOK
  <2>6. CASE FinishOpen
    <3>1. Resolves(chosen, a)
        BY <2>6 DEF FinishOpen, Goto, Answers, Live, Quiescent, Building, Cleaning,
           Reclaiming, Publishing, Authority, RecoveryProgress, Recovering
    <3>2. outcome'[a] = Resolution(chosen, a)
        BY <2>6 DEF FinishOpen
    <3>3. a <= chosen.issued => Decided(Resolution(chosen, a))
        BY DEF Resolution, Decided, Aborted, Durable, Bounded, BoundedRecord, Record,
           Attempt
    <3> QED
        BY <3>1, <3>2, <3>3 DEF Resolves
  <2> QED
      BY <2>1, <2>2, <2>3, <2>4, <2>5, <2>6, AnswerKinds
<1> QED
    BY Invariance, <1>1, PTL DEF Spec, OutcomesFinal

-----------------------------------------------------------------------------
(***************************************************************************)
(* Further: nothing that a root selects is lost, an idle database is         *)
(* settled, an undamaged one opens, and the whole keeps the promise of       *)
(* AtomicCommit (at the end, with an argument of its own).                   *)
(*                                                                          *)
(* The argument.  Every object of a record that some root says, visible or   *)
(* durable, is complete and durably named (Stored, in RootsStored), because  *)
(* objects are only removed while all roots say a record that does not need  *)
(* them.  Names belong to attempts that both records committed, or that      *)
(* neither did and that are later than the last committed one (Accounted),   *)
(* so recovery may tell leftovers by their number.  Short of damage roots    *)
(* are readable and change in one direction, behind the fence (Copies), so   *)
(* any mixture of visible and durable copies is selectable.                  *)
(***************************************************************************)

\* The objects of a record are complete, visible and durable.
Stored(r) == Graph(r) \subseteq names \intersect dnames \intersect whole

RootsStored ==
  /\ \A x \in Replica : /\ root[x] # Unreadable => Stored(root[x])
                        /\ droot[x] # Unreadable => Stored(droot[x])
  /\ pc \in Publishing => Stored(target)
  /\ pc \in Recovering => Stored(chosen)

\* The history of a record lists its own attempt, with its generation.
SelfListed ==
  \A r \in {mem, target} : r.seq # 0 => chain[r.seq][r.seq] = r.gen

Lists(r, o) == chain[r.seq][o[1]] # 0

\* Names are those of committed attempts, or of a later, issued one.
Accounted ==
  \A r \in {mem, target} : \A o \in names \union dnames :
    /\ o[1] <= r.issued
    /\ Lists(r, o) \/ o[1] > r.seq

\* A live handle knows what it has in units/.
OwnNames ==
  /\ pc \in Live => \A o \in names : Lists(mem, o) \/ (o[1] = active /\ o[2] <= created)
  /\ pc = "abort" => Owned = {}
  /\ pc = "rObjectsSync" => Uncommitted = {}

\* Stages at which units/ is synchronized.
UnitsSynced ==
  {"idle", "admitted", "built", "abort", "rObjectsSync"} \union Publishing

SyncedUnits ==
  /\ pc \in UnitsSynced => names = dnames
  /\ pc = "build" /\ created = 0 => names = dnames

\* Replacement names of roots.
NextNames ==
  /\ pc \in Quiescent \union {"pFence", "pFenceSync", "pNextA", "pSyncA", "pNextB",
                              "pSyncB", "pDone"} \union RootsRepaired => next = {}
  /\ pc = "pRenameA" => next = {"A"}
  /\ pc = "pRenameB" => next = {"B"}
  /\ pc \in Quiescent \union {"pFence", "pFenceSync", "pNextA", "pNextB", "pDone"}
            \union RootsDurable => dnext = {}

\* Unless a file was damaged: roots are readable, no root goes back, and the
\* fence goes ahead of the first one.
Copies ==
  damages = 0 =>
    /\ \A x \in Replica :
         /\ root[x] \in {mem, target} /\ droot[x] \in {mem, target}
         /\ droot[x] = target => root[x] = target
         /\ root[x] = target => Says(wal, target) /\ Says(dwal, target)
    /\ pc \in Live \union FenceRewritten => wal # Unreadable
    /\ pc \in Live \union FenceRepaired => dwal # Unreadable
    /\ pc \in Repairing => chosen = target \/ repair = {}

\* The published record is the registry's or its successor.
Succession == target = mem \/ Succeeds(target, mem)

DInv ==
  /\ RootsStored /\ SelfListed /\ Accounted /\ OwnNames /\ SyncedUnits
  /\ NextNames /\ Copies /\ Succession

-----------------------------------------------------------------------------
(* Roots, the fence and replacement names.                                  *)

\* The phases of the process, in words.
LEMMA Phases ==
  /\ Quiescent \intersect Publishing = {} /\ Quiescent \intersect Recovering = {}
  /\ Publishing \intersect Recovering = {}
  /\ {"closed", "down"} \intersect (Live \union Recovering) = {}
  /\ RootsRepaired \subseteq Recovering /\ Repairing \subseteq Recovering
  /\ UnitsRepair \subseteq FenceRepaired /\ FenceRepaired \subseteq FenceRewritten
  /\ FenceRewritten \subseteq RootsDurable /\ RootsDurable \subseteq RootsRepaired
  /\ Repairing \intersect RootsRepaired = {}
  /\ "idle" \in Quiescent /\ "build" \in Quiescent /\ "pDone" \in Publishing
BY DEF Quiescent, Building, Cleaning, Reclaiming, Publishing, Recovering, Live,
       RootsRepaired, Repairing, UnitsRepair, FenceRepaired, FenceRewritten, RootsDurable

\* Directory synchronization apart, only the system touches the durable names.
LEMMA DurableNext ==
  ASSUME Next
  PROVE  dnext' = dnext \/ PublishStep \/ RootRepairStep \/ StorageStep
<1> USE DEF diskVars, rootVars
<1>1. CASE WriterStep
    BY <1>1 DEF WriterStep, AdmitWriter, AbortUnissued, BeginIssue, BeginCommit,
       FinishIssue, FinishCommit, CreateObject, WriteObject, SyncBuilt, BeginCleanup,
       RemoveOwned, SyncRemoval, FinishAbort
<1>2. CASE ReclaimStep \/ CloseUnavailable \/ Open \/ ProcessFault
    BY <1>2 DEF ReclaimStep, BeginReclaim, ReclaimObject, StopReclaim, SyncReclaim,
       CloseUnavailable, Open, ProcessFault, OwnerFails, RecoveryFails, CloseOrKill,
       Release, StorageStep
<1>3. CASE RecoverStep
    BY <1>3 DEF RecoverStep, RootRepairStep, SyncRepairedUnits, RemoveUncommitted,
       SyncUncommitted, FinishOpen
<1>4. CASE StorageFault \/ Writeback
    BY <1>4 DEF StorageFault, Writeback, StorageStep, WritebackName
<1> QED
    BY <1>1, <1>2, <1>3, <1>4 DEF Next

NextSettled ==
  Quiescent \union {"pFence", "pFenceSync", "pNextA", "pSyncA", "pNextB", "pSyncB", "pDone"}
    \union RootsRepaired
DurablySettled ==
  Quiescent \union {"pFence", "pFenceSync", "pNextA", "pNextB", "pDone"} \union RootsDurable

LEMMA NextNamesStep ==
  ASSUME IInv, NextNames, Next
  PROVE  NextNames'
<1>0. /\ pc \in NextSettled => next = {}
      /\ pc = "pRenameA" => next = {"A"}
      /\ pc = "pRenameB" => next = {"B"}
      /\ pc \in DurablySettled => dnext = {}
    BY DEF NextNames, NextSettled, DurablySettled
<1>1. SUFFICES /\ pc' \in NextSettled => next' = {}
               /\ pc' = "pRenameA" => next' = {"A"}
               /\ pc' = "pRenameB" => next' = {"B"}
               /\ pc' \in DurablySettled => dnext' = {}
    BY DEF NextNames, NextSettled, DurablySettled
<1> USE DEF NextSettled, DurablySettled, Quiescent, Building, Cleaning, Reclaiming,
            Publishing, Recovering, RootsRepaired, RootsDurable, Repairing, Goto, Replica
<1>2. CASE StorageStep
  <2>1. TearFence \/ PowerLoss => pc' \in {"closed", "down"}
      BY DEF TearFence, PowerLoss
  <2>2. ASSUME NEW x \in Replica, DamageFence \/ WritebackFence \/ DamageRoot(x)
        PROVE  UNCHANGED <<pc, next, dnext>>
      BY <2>2 DEF DamageFence, WritebackFence, DamageRoot, rootVars
  <2>3. ASSUME NEW x \in Replica, WritebackRoot(x)
        PROVE  UNCHANGED <<pc, next>> /\ dnext' \subseteq dnext \union next
      BY <2>3 DEF WritebackRoot
  <2> QED
      BY <1>0, <1>2, <2>1, <2>2, <2>3 DEF StorageStep
<1>3. CASE ~StorageStep /\ (SilentStep \/ StopStep) /\ ~PublishStep /\ ~RootRepairStep
    BY <1>0, <1>3, DurableNext DEF SilentStep, StopStep, authorityVars, UnitsRepair
<1>4. CASE RecordStep
    BY <1>0, <1>4 DEF RecordStep, BeginIssue, BeginCommit, FinishIssue, FinishCommit,
       diskVars, rootVars
<1>5. CASE PublishStep
  <2>1. CASE WriteFence \/ SyncFence
      BY <1>0, <2>1 DEF WriteFence, SyncFence, rootVars
  <2>2. CASE WriteRootNext("A", "pNextA", "pRenameA") \/ WriteRootNext("B", "pNextB", "pRenameB")
      BY <1>0, <2>2 DEF WriteRootNext
  <2>3. CASE RenameRoot("A", "pRenameA", "pSyncA") \/ RenameRoot("B", "pRenameB", "pSyncB")
      BY <1>0, <2>3 DEF RenameRoot
  <2>4. CASE SyncRoot("pSyncA", "pNextB") \/ SyncRoot("pSyncB", "pDone")
      BY <1>0, <2>4 DEF SyncRoot, SyncDatabaseDirectory
  <2> QED
      BY <1>5, <2>1, <2>2, <2>3, <2>4 DEF PublishStep
<1>6. CASE Open
    BY <1>6 DEF Open
<1>7. CASE RootRepairStep
  <2>1. CASE RemoveStaleNext \/ NoStaleNext \/ SyncStaleNext \/ WriteRepair
      BY <2>1 DEF RemoveStaleNext, NoStaleNext, SyncStaleNext, WriteRepair
  <2>2. CASE RenameRepair
    <3>1. next = repair /\ repair # Replica /\ repair \subseteq Replica
        BY <2>2 DEF RenameRepair, IInv, TypeOK, Authority, RecoveryProgress
    <3>2. next' = {}
        BY <2>2, <3>1 DEF RenameRepair
    <3> QED
        BY <2>2, <3>2 DEF RenameRepair
  <2>3. CASE NothingToRepair
    <3>1. next = {}
        BY <2>3 DEF NothingToRepair, IInv, Authority, RecoveryProgress
    <3> QED
        BY <2>3, <3>1 DEF NothingToRepair, diskVars, rootVars
  <2>4. CASE SyncRoots
      BY <1>0, <2>4 DEF SyncRoots, SyncDatabaseDirectory
  <2>5. CASE RewriteFence \/ SyncRewrittenFence
      BY <1>0, <2>5 DEF RewriteFence, SyncRewrittenFence, rootVars
  <2> QED
      BY <1>7, <2>1, <2>2, <2>3, <2>4, <2>5 DEF RootRepairStep
<1>8. CASE FinishOpen
    BY <1>0, <1>8 DEF FinishOpen, diskVars, rootVars
<1> QED
    BY <1>2, <1>3, <1>4, <1>5, <1>6, <1>7, <1>8, StepKinds

LEMMA SuccessionStep ==
  ASSUME IInv, Succession, Next
  PROVE  Succession'
<1>1. mem \in BoundedRecord
    BY DEF IInv, Bounded
<1>2. mem.issued \in Nat /\ mem.gen \in Nat /\ mem.seq \in Nat
    BY <1>1 DEF BoundedRecord, Record
<1>3. CASE UNCHANGED <<mem, target>>
    BY <1>3 DEF Succession
<1>4. CASE BeginIssue \/ BeginCommit
  <2>1. BeginCommit => mem.seq < mem.issued
      BY DEF BeginCommit, Goto, IInv, Stages, MayCommit, Building
  <2>2. Succeeds(NextIssued, mem)
      BY DEF Succeeds, Issuance, NextIssued
  <2>3. BeginCommit => Succeeds(NextCommit, mem)
      BY <2>1 DEF Succeeds, Commit, NextCommit
  <2> QED
      BY <1>4, <2>2, <2>3 DEF BeginIssue, BeginCommit, Succession
<1>5. CASE FinishIssue \/ FinishCommit \/ FinishOpen
    BY <1>5 DEF FinishIssue, FinishCommit, FinishOpen, Succession
<1>6. UNCHANGED <<mem, target>> \/ BeginIssue \/ BeginCommit \/ FinishIssue \/ FinishCommit
        \/ FinishOpen
  <2>1. SilentStep \/ StopStep => UNCHANGED <<mem, target>>
      BY DEF SilentStep, StopStep, authorityVars
  <2>2. PublishStep => UNCHANGED <<mem, target>>
      BY DEF PublishStep, WriteFence, SyncFence, WriteRootNext, RenameRoot, SyncRoot
  <2>3. Open \/ RootRepairStep => UNCHANGED <<mem, target>>
      BY DEF Open, RootRepairStep, RemoveStaleNext, NoStaleNext, SyncStaleNext, WriteRepair,
         RenameRepair, NothingToRepair, SyncRoots, RewriteFence, SyncRewrittenFence
  <2>4. StorageStep => UNCHANGED <<mem, target>>
      BY DEF StorageStep, TearFence, PowerLoss, DamageFence, WritebackFence, DamageRoot,
         WritebackRoot
  <2> QED
      BY <2>1, <2>2, <2>3, <2>4, StepKinds DEF RecordStep
<1> QED
    BY <1>3, <1>4, <1>5, <1>6

LEMMA NoReturn ==
  ASSUME NEW r \in Record, NEW s \in Record
  PROVE  ~(Succeeds(r, s) /\ Succeeds(s, r)) /\ ~Succeeds(r, r)
BY DEF Record, Succeeds, Issuance, Commit

LEMMA DamagesGrow ==
  ASSUME TypeOK, Next, damages' = 0
  PROVE  damages = 0 /\ ~DamageFence /\ \A x \in Replica : ~DamageRoot(x)
<1>1. damages \in Nat
    BY PublicationAssumption DEF TypeOK
<1>2. ~DamageFence /\ \A x \in Replica : ~DamageRoot(x)
    BY <1>1 DEF DamageFence, DamageRoot
<1>3. UNCHANGED damages
  <2>1. CASE WriterStep
      BY <2>1 DEF WriterStep, AdmitWriter, AbortUnissued, BeginIssue, BeginCommit,
         PublishStep, WriteFence, SyncFence, WriteRootNext, RenameRoot, SyncRoot,
         FinishIssue, FinishCommit, CreateObject, WriteObject, SyncBuilt, BeginCleanup,
         RemoveOwned, SyncRemoval, FinishAbort
  <2>2. CASE ReclaimStep \/ CloseUnavailable \/ Open \/ ProcessFault
      BY <2>2 DEF ReclaimStep, BeginReclaim, ReclaimObject, StopReclaim, SyncReclaim,
         CloseUnavailable, Open, ProcessFault, OwnerFails, RecoveryFails, TearFence,
         CloseOrKill, Release
  <2>3. CASE RecoverStep
      BY <2>3 DEF RecoverStep, RemoveStaleNext, NoStaleNext, SyncStaleNext, WriteRepair,
         RenameRepair, NothingToRepair, SyncRoots, RewriteFence, SyncRewrittenFence,
         SyncRepairedUnits, RemoveUncommitted, SyncUncommitted, FinishOpen
  <2>4. CASE PowerLoss \/ Writeback
      BY <2>4 DEF PowerLoss, Writeback, WritebackFence, WritebackName, WritebackRoot
  <2> QED
      BY <1>2, <2>1, <2>2, <2>3, <2>4 DEF Next, StorageFault
<1> QED
    BY <1>2, <1>3

\* The parts of Copies, once no file is damaged.
RootsAdvance ==
  \A x \in Replica :
    /\ root[x] \in {mem, target} /\ droot[x] \in {mem, target}
    /\ droot[x] = target => root[x] = target
    /\ root[x] = target => Says(wal, target) /\ Says(dwal, target)
FenceReadable ==
  /\ pc \in Live \union FenceRewritten => wal # Unreadable
  /\ pc \in Live \union FenceRepaired => dwal # Unreadable
RepairAdvances == pc \in Repairing => chosen = target \/ repair = {}

LEMMA CopiesPublish ==
  ASSUME IInv, RootsAdvance, FenceReadable, PublishStep
  PROVE  RootsAdvance' /\ FenceReadable' /\ RepairAdvances'
<1>0. /\ root \in [Replica -> BoundedStored] /\ droot \in [Replica -> BoundedStored]
      /\ target \in BoundedRecord /\ Unreadable \notin BoundedRecord
      /\ PublicationProgress
    BY UnreadableAssumption DEF IInv, Bounded, BoundedRecord, Authority
<1>1. pc \in Publishing /\ pc' \in Publishing /\ UNCHANGED <<mem, target>>
    BY DEF PublishStep, WriteFence, SyncFence, WriteRootNext, RenameRoot, SyncRoot, Goto,
       Publishing
<1>2. RepairAdvances'
    BY <1>1, Phases DEF RepairAdvances
<1>3. pc \in Live
    BY <1>1 DEF Live
<1>4. CASE WriteFence
  <2>1. wal' = target /\ UNCHANGED <<root, droot, dwal>>
      BY <1>4 DEF WriteFence, rootVars
  <2>2. RootsAdvance'
      BY <1>1, <2>1 DEF RootsAdvance, Says
  <2>3. FenceReadable'
      BY <1>0, <1>3, <2>1 DEF FenceReadable
  <2> QED
      BY <1>2, <2>2, <2>3
<1>5. CASE SyncFence
  <2>1. Says(wal, target)
      BY <1>0, <1>5 DEF SyncFence, Goto, PublicationProgress, FenceWritten, Publishing
  <2>2. dwal' = wal /\ UNCHANGED <<root, droot, wal>>
      BY <1>5 DEF SyncFence, rootVars
  <2>3. RootsAdvance'
      BY <1>1, <2>1, <2>2 DEF RootsAdvance, Says
  <2>4. FenceReadable'
      BY <1>3, <2>2 DEF FenceReadable
  <2> QED
      BY <1>2, <2>3, <2>4
<1>6. ASSUME NEW x \in Replica, NEW from, NEW to, WriteRootNext(x, from, to)
      PROVE  RootsAdvance' /\ FenceReadable'
    BY <1>1, <1>3, <1>6 DEF WriteRootNext, RootsAdvance, FenceReadable, Says, walVars
<1>7. ASSUME NEW x \in Replica, NEW from \in FenceDurable, NEW to, RenameRoot(x, from, to)
      PROVE  RootsAdvance' /\ FenceReadable'
  <2>1. Says(wal, target) /\ Says(dwal, target)
      BY <1>0, <1>7 DEF RenameRoot, Goto, PublicationProgress, FenceDurable
  <2> QED
      BY <1>0, <1>1, <1>3, <1>7, <2>1
      DEF RenameRoot, RootsAdvance, FenceReadable, Says, walVars
<1>8. ASSUME NEW from, NEW to, SyncRoot(from, to)
      PROVE  RootsAdvance' /\ FenceReadable'
    BY <1>1, <1>3, <1>8
    DEF SyncRoot, SyncDatabaseDirectory, RootsAdvance, FenceReadable, Says, walVars
<1>9. {"pRenameA", "pRenameB"} \subseteq FenceDurable /\ {"A", "B"} = Replica
    BY DEF FenceDurable, FenceWritten, Publishing, Replica
<1> QED
    BY <1>2, <1>4, <1>5, <1>6, <1>7, <1>8, <1>9 DEF PublishStep

LEMMA CopiesRecord ==
  ASSUME IInv, RootsAdvance, FenceReadable, RecordStep \/ FinishOpen
  PROVE  RootsAdvance' /\ FenceReadable' /\ RepairAdvances'
<1>0. /\ target \in BoundedRecord /\ mem \in BoundedRecord /\ chosen \in BoundedRecord
      /\ Unreadable \notin BoundedRecord
    BY UnreadableAssumption DEF IInv, Bounded, BoundedRecord
<1>1. pc' \in Live
    BY DEF RecordStep, BeginIssue, BeginCommit, FinishIssue, FinishCommit, FinishOpen, Goto,
       Live, Quiescent, Building, Publishing
<1>2. RepairAdvances'
    BY <1>1, Phases DEF RepairAdvances, Live
<1>3. CASE BeginIssue \/ BeginCommit
  <2>1. pc \in Quiescent /\ target = mem /\ AllSay(mem)
      BY <1>3 DEF BeginIssue, BeginCommit, Goto, Quiescent, Building, IInv, Stages, Authority
  <2>2. UNCHANGED <<root, droot, wal, dwal, mem>>
      BY <1>3 DEF BeginIssue, BeginCommit, diskVars, rootVars, walVars
  <2>3. target' # mem
    <3>1. mem.issued \in Nat /\ mem.gen \in Nat
        BY <1>0 DEF BoundedRecord, Record
    <3>2. target'.issued = mem.issued + 1 \/ target'.gen = mem.gen + 1
        BY <1>3 DEF BeginIssue, BeginCommit, NextIssued, NextCommit
    <3> QED
        BY <3>1, <3>2
  <2>4. RootsAdvance'
      BY <2>1, <2>2, <2>3 DEF RootsAdvance
  <2> QED
      BY <1>2, <2>1, <2>2, <2>4 DEF FenceReadable, Live
<1>4. CASE FinishIssue \/ FinishCommit
  <2>1. /\ pc = "pDone" /\ mem' = target
        /\ UNCHANGED <<root, droot, wal, dwal, target>>
      BY <1>4 DEF FinishIssue, FinishCommit, Goto, diskVars, rootVars, walVars
  <2>2. /\ \A x \in Replica : Says(root[x], target) /\ Says(droot[x], target)
        /\ Says(wal, target) /\ Says(dwal, target)
      BY <2>1 DEF IInv, Authority, PublicationProgress, ReplicaAWritten, ReplicaADurable,
         FenceWritten, FenceDurable, Publishing, Replica
  <2>3. \A x \in Replica : root[x] = target /\ droot[x] = target
      BY <1>0, <2>2 DEF RootsAdvance, Says
  <2> QED
      BY <1>2, <2>1, <2>2, <2>3, Phases DEF RootsAdvance, FenceReadable, Live
<1>5. CASE FinishOpen
  <2>1. /\ pc = "rObjectsSync" /\ mem' = chosen /\ target' = chosen
        /\ UNCHANGED <<root, droot, wal, dwal>>
      BY <1>5 DEF FinishOpen, Goto, diskVars, rootVars, walVars
  <2>2. /\ \A x \in Replica : Says(root[x], chosen) /\ Says(droot[x], chosen)
        /\ Says(wal, chosen) /\ Says(dwal, chosen)
      BY <2>1 DEF IInv, Authority, RecoveryProgress, RootsDurable, RootsRepaired,
         FenceRewritten, FenceRepaired, Repairing, Recovering
  <2>3. \A x \in Replica : root[x] = chosen /\ droot[x] = chosen
      BY <1>0, <2>2 DEF RootsAdvance, Says
  <2>4. pc \in FenceRepaired /\ pc \in FenceRewritten
      BY <2>1, Phases DEF UnitsRepair
  <2> QED
      BY <1>2, <2>1, <2>2, <2>3, <2>4 DEF RootsAdvance, FenceReadable
<1> QED
    BY <1>3, <1>4, <1>5 DEF RecordStep

\* With readable roots, recovery selects the older record only if both say it.
LEMMA OpenAdvances ==
  ASSUME IInv, RootsAdvance, Succession, Open
  PROVE  chosen' = target \/ repair' = {}
<1>1. /\ target \in Record /\ mem \in Record /\ Unreadable \notin Record
    BY UnreadableAssumption DEF IInv, Bounded, BoundedRecord
<1>2. /\ RootsName(root["A"], root["B"], wal, chosen')
      /\ repair' = Repairs(root["A"], root["B"], chosen')
      /\ chosen' \in {mem, target}
    BY DEF Open, Admits, Selects, Candidates, RootsAdvance
<1>3. root["A"] \in {mem, target} /\ root["B"] \in {mem, target}
    BY DEF RootsAdvance, Replica
<1>4. ASSUME chosen' = mem, mem # target
      PROVE  root["A"] = mem /\ root["B"] = mem
  <2>1. ~Succeeds(mem, target) /\ ~Succeeds(mem, mem)
      BY <1>1, <1>4, NoReturn DEF Succession
  <2> QED
      BY <1>1, <1>2, <1>3, <1>4, <2>1 DEF RootsName, Confirmed
<1> QED
    BY <1>2, <1>4 DEF Repairs, Replica

LEMMA CopiesRecover ==
  ASSUME IInv, RootsAdvance, FenceReadable, RepairAdvances, Succession,
         Open \/ RootRepairStep
  PROVE  RootsAdvance' /\ FenceReadable' /\ RepairAdvances'
<1>0. /\ target \in BoundedRecord /\ mem \in BoundedRecord /\ chosen \in BoundedRecord
      /\ Unreadable \notin BoundedRecord /\ root \in [Replica -> BoundedStored]
      /\ RecoveryProgress
    BY UnreadableAssumption DEF IInv, Bounded, BoundedRecord, Authority
<1>1. UNCHANGED <<mem, target>>
    BY DEF Open, RootRepairStep, RemoveStaleNext, NoStaleNext, SyncStaleNext, WriteRepair,
       RenameRepair, NothingToRepair, SyncRoots, RewriteFence, SyncRewrittenFence
<1> USE DEF Goto
<1>2. CASE Open
  <2>1. pc' = "rNext" /\ UNCHANGED <<root, droot, wal, dwal>>
      BY <1>2 DEF Open, diskVars, rootVars, walVars
  <2>2. pc' \notin Live /\ pc' \notin FenceRewritten
      BY <2>1 DEF Live, Quiescent, Building, Cleaning, Reclaiming, Publishing,
         FenceRewritten, RootsDurable, RootsRepaired, Recovering, Repairing
  <2>3. pc' \notin FenceRepaired
      BY <2>2 DEF FenceRepaired
  <2> QED
      BY <1>1, <1>2, <2>1, <2>2, <2>3, OpenAdvances
      DEF RootsAdvance, FenceReadable, RepairAdvances, Says
<1>3. CASE RemoveStaleNext \/ NoStaleNext \/ SyncStaleNext \/ WriteRepair
  <2>1. /\ pc \in Repairing /\ pc' \in Repairing /\ UNCHANGED <<chosen, repair, root, wal, dwal>>
        /\ droot' = droot \/ droot' = root
      BY <1>3 DEF RemoveStaleNext, NoStaleNext, SyncStaleNext, WriteRepair, Repairing,
         diskVars, rootVars, walVars, choice, SyncDatabaseDirectory
  <2>2. pc' \notin Live /\ pc' \notin FenceRewritten /\ pc' \notin FenceRepaired
      BY <2>1, Phases DEF Live
  <2> QED
      BY <1>1, <2>1, <2>2 DEF RootsAdvance, FenceReadable, RepairAdvances, Says
<1>4. CASE RenameRepair
  <2>1. PICK x \in next : root' = [root EXCEPT ![x] = chosen]
      BY <1>4 DEF RenameRepair
  <2>2. next = repair /\ repair # Replica /\ repair \subseteq Replica /\ pc \in Repairing
      BY <1>0, <1>4 DEF RenameRepair, IInv, TypeOK, RecoveryProgress, Repairing
  <2>3. chosen = target
      BY <2>1, <2>2 DEF RepairAdvances
  <2>4. PICK y \in Replica : y \notin repair
      BY <2>2
  <2>5. root[y] = target
      BY <1>0, <2>2, <2>3, <2>4 DEF RecoveryProgress, Says, RootsAdvance
  <2>6. Says(wal, target) /\ Says(dwal, target)
      BY <2>5 DEF RootsAdvance
  <2>7. UNCHANGED <<wal, dwal, droot>> /\ pc' = "rSync"
      BY <1>4 DEF RenameRepair, walVars
  <2>8. \A z \in Replica : root'[z] = target \/ root'[z] = root[z]
      BY <1>0, <2>1, <2>3
  <2>9. RootsAdvance'
      BY <1>1, <2>6, <2>7, <2>8 DEF RootsAdvance, Says
  <2>10. pc' \notin Live /\ pc' \notin FenceRewritten /\ pc' \notin FenceRepaired
           /\ pc' \notin Repairing
      BY <2>7 DEF Live, Quiescent, Building, Cleaning, Reclaiming, Publishing,
         FenceRewritten, FenceRepaired, RootsDurable, RootsRepaired, Recovering, Repairing
  <2> QED
      BY <2>9, <2>10 DEF FenceReadable, RepairAdvances
<1>5. CASE NothingToRepair \/ SyncRoots
  <2>1. /\ pc' \in {"rSync", "rFence"} /\ UNCHANGED <<root, wal, dwal>>
        /\ droot' = droot \/ droot' = root
      BY <1>5 DEF NothingToRepair, SyncRoots, SyncDatabaseDirectory, diskVars, rootVars,
         walVars
  <2>2. pc' \notin Live /\ pc' \notin FenceRewritten /\ pc' \notin FenceRepaired
           /\ pc' \notin Repairing
      BY <2>1 DEF Live, Quiescent, Building, Cleaning, Reclaiming, Publishing,
         FenceRewritten, FenceRepaired, RootsDurable, RootsRepaired, Recovering, Repairing
  <2> QED
      BY <1>1, <2>1, <2>2 DEF RootsAdvance, FenceReadable, RepairAdvances, Says
<1>6. CASE RewriteFence
  <2>1. /\ pc = "rFence" /\ pc' = "rFenceSync" /\ wal' = chosen
        /\ UNCHANGED <<root, droot, dwal>>
      BY <1>6 DEF RewriteFence, rootVars
  <2>2. \A x \in Replica : root[x] = target => chosen = target
      BY <1>0, <2>1 DEF RecoveryProgress, RootsRepaired, Repairing, Recovering, Says
  <2>3. pc' \notin Live /\ pc' \notin FenceRepaired /\ pc' \notin Repairing
      BY <2>1 DEF Live, Quiescent, Building, Cleaning, Reclaiming, Publishing,
         FenceRewritten, FenceRepaired, RootsDurable, RootsRepaired, Recovering, Repairing
  <2> QED
      BY <1>0, <1>1, <2>1, <2>2, <2>3 DEF RootsAdvance, FenceReadable, RepairAdvances, Says
<1>7. CASE SyncRewrittenFence
  <2>1. /\ pc = "rFenceSync" /\ pc' = "rUnits" /\ dwal' = wal
        /\ UNCHANGED <<root, droot, wal>>
      BY <1>7 DEF SyncRewrittenFence, rootVars
  <2>2. pc \in FenceRewritten /\ pc' \notin Repairing
      BY <2>1 DEF FenceRewritten, RootsDurable, RootsRepaired, Recovering, Repairing
  <2> QED
      BY <1>1, <2>1, <2>2 DEF RootsAdvance, FenceReadable, RepairAdvances, Says
<1> QED
    BY <1>2, <1>3, <1>4, <1>5, <1>6, <1>7 DEF RootRepairStep

LEMMA CopiesStorage ==
  ASSUME IInv, RootsAdvance, FenceReadable, RepairAdvances, StorageStep, ~DamageFence,
         \A x \in Replica : ~DamageRoot(x)
  PROVE  RootsAdvance' /\ FenceReadable' /\ RepairAdvances'
<1>0. droot \in [Replica -> BoundedStored]
    BY DEF IInv, Bounded
<1>1. CASE TearFence
  <2>1. /\ UNCHANGED <<root, droot, dwal, mem, target>> /\ wal' = Unreadable
        /\ pc' \in {"down", "closed"}
      BY <1>1 DEF TearFence, Goto, rootVars
  <2> QED
      BY <2>1, Phases DEF RootsAdvance, FenceReadable, RepairAdvances, Says, Live,
         FenceRewritten, FenceRepaired, Repairing, RootsDurable, RootsRepaired, Recovering
<1>2. CASE PowerLoss
  <2>1. /\ UNCHANGED <<droot, mem, target>> /\ root' = droot /\ pc' = "closed"
        /\ wal' \in {dwal, Unreadable} /\ dwal' = wal'
      BY <1>2 DEF PowerLoss
  <2> QED
      BY <2>1, Phases DEF RootsAdvance, FenceReadable, RepairAdvances, Says, Live,
         FenceRewritten, FenceRepaired, Repairing, RootsDurable, RootsRepaired, Recovering
<1>3. CASE WritebackFence
  <2>1. /\ UNCHANGED <<root, droot, wal, mem, target, pc, chosen, repair>> /\ dwal' = wal
      BY <1>3 DEF WritebackFence, rootVars, choice
  <2>2. pc \in Live \union FenceRepaired => wal # Unreadable
      BY Phases DEF FenceReadable
  <2> QED
      BY <2>1, <2>2 DEF RootsAdvance, FenceReadable, RepairAdvances, Says
<1>4. ASSUME NEW x \in Replica, WritebackRoot(x)
      PROVE  RootsAdvance' /\ FenceReadable' /\ RepairAdvances'
  <2>1. UNCHANGED <<root, wal, dwal, mem, target, pc, chosen, repair>>
      BY <1>4 DEF WritebackRoot, walVars, choice
  <2>2. \A y \in Replica : droot'[y] = root[y] \/ droot'[y] = droot[y]
      BY <1>0, <1>4 DEF WritebackRoot
  <2> QED
      BY <2>1, <2>2 DEF RootsAdvance, FenceReadable, RepairAdvances, Says
<1> QED
    BY <1>1, <1>2, <1>3, <1>4 DEF StorageStep

LEMMA CopiesStep ==
  ASSUME IInv, Copies, Succession, Next
  PROVE  Copies'
<1>1. SUFFICES ASSUME damages' = 0
               PROVE  RootsAdvance' /\ FenceReadable' /\ RepairAdvances'
    BY DEF Copies, RootsAdvance, FenceReadable, RepairAdvances, Says
<1>2. damages = 0 /\ ~DamageFence /\ \A x \in Replica : ~DamageRoot(x)
    BY <1>1, DamagesGrow DEF IInv
<1>3. RootsAdvance /\ FenceReadable /\ RepairAdvances
    BY <1>2 DEF Copies, RootsAdvance, FenceReadable, RepairAdvances
<1>4. CASE SilentStep \/ StopStep
  <2>1. UNCHANGED <<root, droot, wal, dwal, mem, target, chosen, repair>>
      BY <1>4 DEF SilentStep, StopStep, authorityVars, choice
  <2>2. /\ pc' \in Repairing => pc' = pc
        /\ pc' \in Live \union FenceRewritten => pc \in Live \union FenceRewritten
        /\ pc' \in Live \union FenceRepaired => pc \in Live \union FenceRepaired
    <3>1. /\ Quiescent \subseteq Live /\ UnitsRepair \subseteq FenceRepaired
          /\ UnitsRepair \subseteq FenceRewritten
          /\ Repairing \intersect (Quiescent \union UnitsRepair \union {"down", "closed"}) = {}
          /\ {"down", "closed"} \intersect (Live \union FenceRewritten \union FenceRepaired) = {}
        BY Phases DEF Live, FenceRewritten, FenceRepaired, Repairing, RootsDurable,
           RootsRepaired, Recovering, Quiescent, Building, Cleaning, Reclaiming, UnitsRepair
    <3> QED
        BY <1>4, <3>1 DEF SilentStep, StopStep
  <2> QED
      BY <1>3, <2>1, <2>2 DEF RootsAdvance, FenceReadable, RepairAdvances, Says
<1> QED
    BY <1>2, <1>3, <1>4, CopiesPublish, CopiesRecord, CopiesRecover, CopiesStorage, StepKinds

-----------------------------------------------------------------------------
(* Objects and their names.                                                 *)

LEMMA Records ==
  ASSUME IInv
  PROVE  /\ \A r \in {mem, target, chosen} :
              /\ r \in BoundedRecord /\ r \in Record
              /\ r.issued \in Nat /\ r.gen \in Nat /\ r.seq \in Nat
              /\ r.seq \in 0 .. MaxIssued /\ r.issued <= MaxIssued /\ r.seq <= r.issued
         /\ Unreadable \notin BoundedRecord
         /\ \A o \in Object : o[1] \in Attempt /\ o[1] \in Nat /\ o[1] # 0 /\ o[2] \in Nat
                                /\ o[2] # 0
<1>1. \A r \in {mem, target, chosen} : r \in BoundedRecord
    BY DEF IInv, Bounded
<1>2. \A r \in BoundedRecord :
        /\ r \in Record /\ r.issued \in Nat /\ r.gen \in Nat /\ r.seq \in Nat
        /\ r.issued <= MaxIssued /\ r.seq <= r.issued
    BY DEF BoundedRecord, Record
<1>3. \A r \in BoundedRecord : r.seq \in 0 .. MaxIssued
    BY <1>2, PublicationAssumption
<1>4. Unreadable \notin BoundedRecord
    BY UnreadableAssumption DEF BoundedRecord
<1>5. \A o \in Object : /\ o[1] \in Attempt /\ o[1] \in Nat /\ o[1] # 0 /\ o[2] \in Nat
                        /\ o[2] # 0
    BY PublicationAssumption DEF Object, Attempt, Ordinal
<1> QED
    BY <1>1, <1>2, <1>3, <1>4, <1>5

\* The steps that touch units/, on either view.
UnitStep ==
  \/ CreateObject \/ WriteObject \/ SyncBuilt \/ RemoveOwned \/ SyncRemoval
  \/ ReclaimObject \/ SyncReclaim \/ SyncRepairedUnits \/ RemoveUncommitted
  \/ SyncUncommitted \/ PowerLoss \/ WritebackName

LEMMA UnitsRest ==
  ASSUME Next
  PROVE  UnitStep \/ UNCHANGED <<names, dnames, whole, chain>>
<1> USE DEF diskVars, unitVars, UnitStep
<1>1. CASE WriterStep
    BY <1>1 DEF WriterStep, AdmitWriter, AbortUnissued, BeginIssue, BeginCommit,
       PublishStep, WriteFence, SyncFence, WriteRootNext, RenameRoot, SyncRoot,
       FinishIssue, FinishCommit, BeginCleanup, FinishAbort
<1>2. CASE ReclaimStep \/ CloseUnavailable \/ Open \/ ProcessFault
    BY <1>2 DEF ReclaimStep, BeginReclaim, StopReclaim, CloseUnavailable, Open,
       ProcessFault, OwnerFails, RecoveryFails, TearFence, CloseOrKill, Release
<1>3. CASE RecoverStep
    BY <1>3 DEF RecoverStep, RemoveStaleNext, NoStaleNext, SyncStaleNext, WriteRepair,
       RenameRepair, NothingToRepair, SyncRoots, RewriteFence, SyncRewrittenFence,
       FinishOpen
<1>4. CASE StorageFault \/ Writeback
    BY <1>4 DEF StorageFault, DamageFence, DamageRoot, Writeback, WritebackFence,
       WritebackRoot
<1> QED
    BY <1>1, <1>2, <1>3, <1>4 DEF Next

\* Which records the step leaves the process with.
LEMMA RecordsMove ==
  ASSUME IInv, Next
  PROVE  \/ BeginIssue \/ BeginCommit
         \/ {mem', target'} \subseteq {mem, target}
<1>1. SilentStep \/ StopStep \/ PublishStep \/ Open \/ RootRepairStep \/ StorageStep
        => UNCHANGED <<mem, target>>
    BY DEF SilentStep, StopStep, authorityVars, PublishStep, WriteFence, SyncFence,
       WriteRootNext, RenameRoot, SyncRoot, Open, RootRepairStep, RemoveStaleNext,
       NoStaleNext, SyncStaleNext, WriteRepair, RenameRepair, NothingToRepair, SyncRoots,
       RewriteFence, SyncRewrittenFence, StorageStep, TearFence, PowerLoss, DamageFence,
       WritebackFence, DamageRoot, WritebackRoot
<1>2. FinishOpen => mem' = chosen /\ target' = chosen /\ chosen \in {mem, target}
    BY DEF FinishOpen, Goto, IInv, Authority, RecoveryProgress, Recovering
<1>3. FinishIssue \/ FinishCommit => mem' = target /\ target' = target
    BY DEF FinishIssue, FinishCommit
<1> QED
    BY <1>1, <1>2, <1>3, StepKinds DEF RecordStep

\* The step that completes a history writes no other.
LEMMA WrittenHistory ==
  ASSUME IInv, WriteObject
  PROVE  /\ target = mem /\ active = mem.issued /\ mem.seq < active /\ active \in Attempt
         /\ UNCHANGED <<mem, target, active, created, names, dnames, root, droot>>
         /\ chain'[mem.seq] = chain[mem.seq]
<1>1. target = mem /\ active = mem.issued /\ mem.seq < active
    BY DEF WriteObject, Goto, IInv, Stages, MayCommit, Building, Quiescent
<1>2. active \in Attempt
    BY <1>1, Records DEF Attempt
<1>3. UNCHANGED <<mem, target, active, created, names, dnames, root, droot>>
    BY DEF WriteObject, writerVars, rootVars
<1>4. chain'[mem.seq] = chain[mem.seq]
  <2>1. mem.seq # active /\ mem.seq \in 0 .. MaxIssued
      BY <1>1, Records
  <2>2. chain \in [0 .. MaxIssued -> [Attempt -> 0 .. MaxSuccesses]]
      BY DEF IInv, TypeOK
  <2> QED
      BY <2>1, <2>2 DEF WriteObject
<1> QED
    BY <1>1, <1>2, <1>3, <1>4

LEMMA ChainRests ==
  ASSUME Next, ~WriteObject
  PROVE  UNCHANGED chain
BY UnitsRest DEF UnitStep, CreateObject, SyncBuilt, RemoveOwned, SyncRemoval, ReclaimObject,
   SyncReclaim, SyncRepairedUnits, RemoveUncommitted, SyncUncommitted, PowerLoss,
   WritebackName

LEMMA SelfListedStep ==
  ASSUME IInv, SelfListed, Next
  PROVE  SelfListed'
<1>1. CASE WriteObject
    BY <1>1, WrittenHistory DEF SelfListed
<1>2. CASE ~WriteObject /\ {mem', target'} \subseteq {mem, target}
    BY <1>2, ChainRests DEF SelfListed
<1>3. CASE BeginIssue
  <2>1. mem' = mem /\ target' = NextIssued /\ UNCHANGED chain
      BY <1>3 DEF BeginIssue, diskVars, unitVars
  <2>2. NextIssued.seq = mem.seq /\ NextIssued.gen = mem.gen
      BY DEF NextIssued
  <2> QED
      BY <2>1, <2>2 DEF SelfListed
<1>4. CASE BeginCommit
  <2>1. mem' = mem /\ target' = NextCommit /\ UNCHANGED chain
      BY <1>4 DEF BeginCommit, diskVars, unitVars
  <2>2. NextCommit.seq # 0 => chain[NextCommit.seq][NextCommit.seq] = NextCommit.gen
      BY <1>4 DEF BeginCommit, ValidGraph
  <2> QED
      BY <2>1, <2>2 DEF SelfListed
<1> QED
    BY <1>1, <1>2, <1>3, <1>4, RecordsMove

\* A prepared commit lists what the current record lists, and its own attempt.
LEMMA CommitLists ==
  ASSUME IInv, BeginCommit, NEW o \in Object
  PROVE  Lists(NextCommit, o) <=> Lists(mem, o) \/ o[1] = active
<1>1. /\ chain[active] = AppendedHistory /\ active = mem.issued
    BY DEF BeginCommit, Goto, IInv, Histories, Prepared, Stages, MayCommit, Building
<1>2. chain[mem.seq] \in [Attempt -> 0 .. MaxSuccesses]
    BY Records DEF IInv, TypeOK
<1>3. AppendedHistory[o[1]] = IF o[1] = active THEN mem.gen + 1 ELSE chain[mem.seq][o[1]]
    BY <1>2, Records DEF AppendedHistory
<1>4. mem.gen + 1 # 0
    BY Records
<1> QED
    BY <1>1, <1>3, <1>4 DEF Lists, NextCommit

\* Only construction adds a name, and it adds the active attempt's.
LEMMA NamesMove ==
  ASSUME IInv, Next
  PROVE  \/ CreateObject /\ dnames' = dnames /\ names' = names \union {<<active, created + 1>>}
         \/ names' \union dnames' \subseteq names \union dnames
BY UnitsRest
   DEF UnitStep, CreateObject, WriteObject, SyncBuilt, RemoveOwned, SyncRemoval,
       ReclaimObject, SyncReclaim, SyncRepairedUnits, RemoveUncommitted, SyncUncommitted,
       PowerLoss, WritebackName, SyncUnits

LEMMA NamesTyped ==
  ASSUME IInv
  PROVE  names \subseteq Object /\ dnames \subseteq Object
BY DEF IInv, TypeOK

LEMMA AccountedStep ==
  ASSUME IInv, Accounted, OwnNames, SyncedUnits, Next
  PROVE  Accounted'
<1>1. CASE WriteObject
    BY <1>1, WrittenHistory DEF Accounted, Lists
<1>2. CASE CreateObject
  <2>1. /\ UNCHANGED <<mem, target, chain, dnames>>
        /\ names' = names \union {<<active, created + 1>>}
      BY <1>2 DEF CreateObject
  <2>2. target = mem /\ active = mem.issued /\ mem.seq < mem.issued
      BY <1>2 DEF CreateObject, Goto, IInv, Stages, MayCommit, Building, Quiescent
  <2>3. ASSUME NEW r \in {mem, target}, NEW o \in {<<active, created + 1>>}
        PROVE  o[1] <= r.issued /\ o[1] > r.seq
      BY <2>2, Records
  <2> QED
      BY <2>1, <2>3 DEF Accounted, Lists
<1>3. CASE /\ ~WriteObject /\ ~CreateObject /\ {mem', target'} \subseteq {mem, target}
    BY <1>3, ChainRests, NamesMove DEF Accounted, Lists
<1>4. CASE BeginIssue
  <2>1. mem' = mem /\ target' = NextIssued /\ UNCHANGED <<names, dnames, chain>>
      BY <1>4 DEF BeginIssue, diskVars, unitVars
  <2>2. NextIssued.seq = mem.seq /\ NextIssued.issued = mem.issued + 1
      BY DEF NextIssued
  <2>3. \A o \in names \union dnames : o[1] <= mem.issued + 1
    <3>1. \A o \in names \union dnames : o[1] <= mem.issued /\ o[1] \in Nat
        BY NamesTyped, Records DEF Accounted
    <3> QED
        BY <3>1, Records
  <2> QED
      BY <2>1, <2>2, <2>3 DEF Accounted, Lists
<1>5. CASE BeginCommit
  <2>1. mem' = mem /\ target' = NextCommit /\ UNCHANGED <<names, dnames, chain>>
      BY <1>5 DEF BeginCommit, diskVars, unitVars
  <2>2. NextCommit.issued = mem.issued
      BY DEF NextCommit
  <2>3. names = dnames /\ \A o \in names : Lists(mem, o) \/ o[1] = active
      BY <1>5 DEF BeginCommit, Goto, SyncedUnits, UnitsSynced, OwnNames, Live, Quiescent,
         Building
  <2>4. \A o \in names \union dnames : Lists(NextCommit, o)
      BY <1>5, <2>3, CommitLists, NamesTyped
  <2> QED
      BY <2>1, <2>2, <2>4 DEF Accounted, Lists
<1> QED
    BY <1>1, <1>2, <1>3, <1>4, <1>5, RecordsMove

\* Only creating an object, and ends, change how many the builder has.
LEMMA CreatedRests ==
  ASSUME Next, pc' \in Live,
         ~(CreateObject \/ FinishIssue \/ FinishCommit \/ FinishAbort)
  PROVE  created' = created
<1> USE DEF writerVars
<1>1. CASE WriterStep
    BY <1>1 DEF WriterStep, AdmitWriter, AbortUnissued, BeginIssue, BeginCommit,
       PublishStep, WriteFence, SyncFence, WriteRootNext, RenameRoot, SyncRoot,
       BeginCleanup, RemoveOwned, SyncRemoval, SyncBuilt, WriteObject
<1>2. CASE ReclaimStep \/ Open
    BY <1>2 DEF ReclaimStep, BeginReclaim, ReclaimObject, StopReclaim, SyncReclaim, Open
<1>3. CASE RecoverStep
    BY <1>3 DEF RecoverStep, RemoveStaleNext, NoStaleNext, SyncStaleNext, WriteRepair,
       RenameRepair, NothingToRepair, SyncRoots, RewriteFence, SyncRewrittenFence,
       SyncRepairedUnits, RemoveUncommitted, SyncUncommitted, FinishOpen
<1>4. CASE Writeback
    BY <1>4 DEF Writeback, WritebackFence, WritebackName, WritebackRoot
<1>5. CASE CloseUnavailable \/ ProcessFault \/ StorageFault
  <2>1. "closed" \notin Live /\ "down" \notin Live
      BY Phases
  <2> QED
      BY <1>5, <2>1 DEF CloseUnavailable, ProcessFault, OwnerFails, RecoveryFails, TearFence,
         CloseOrKill, Release, StorageFault, PowerLoss, DamageFence, DamageRoot, Goto
<1> QED
    BY <1>1, <1>2, <1>3, <1>4, <1>5 DEF Next

\* What a live process has, step by step.
LEMMA OwnLive ==
  ASSUME IInv, Accounted, OwnNames, Next, pc' \in Live, NEW o \in names'
  PROVE  Lists(mem, o)' \/ (o[1] = active' /\ o[2] <= created')
<1>0. o \in Object /\ created \in Nat
  <2>1. names' \subseteq Object
      BY TypeStep DEF IInv, TypeOK
  <2>2. created \in Nat
      BY PublicationAssumption DEF IInv, TypeOK
  <2> QED
      BY <2>1, <2>2
<1>1. CASE WriteObject
  <2>1. pc \in Live
      BY <1>1 DEF WriteObject, Goto, Live, Quiescent, Building
  <2> QED
      BY <1>1, <2>1, WrittenHistory DEF OwnNames, Lists
<1>2. CASE CreateObject
  <2>1. /\ pc \in Live /\ UNCHANGED <<mem, chain, active>> /\ created' = created + 1
        /\ names' = names \union {<<active, created + 1>>}
      BY <1>2 DEF CreateObject, Goto, Live, Quiescent, Building
  <2>2. CASE o \in names
    <3>1. o[2] <= created => o[2] <= created'
        BY <1>0, <2>1, Records
    <3> QED
        BY <2>1, <2>2, <3>1 DEF OwnNames, Lists
  <2>3. CASE o = <<active, created + 1>>
      BY <1>0, <2>1, <2>3
  <2> QED
      BY <2>1, <2>2, <2>3
<1>3. CASE FinishIssue
  <2>1. /\ pc \in Live /\ mem' = target /\ UNCHANGED <<names, chain>>
        /\ target.seq = mem.seq /\ Issuance(target, mem)
      BY <1>3 DEF FinishIssue, Goto, Issuance, diskVars, unitVars, Live, Publishing
  <2>2. active = 0
    <3>1. target.issued = mem.issued + 1
        BY <2>1 DEF Issuance
    <3>2. target # NextCommit
        BY <3>1, Records DEF NextCommit
    <3> QED
        BY <1>3, <3>2 DEF FinishIssue, Goto, IInv, Stages, MayIssue, Publishing
  <2> QED
      BY <1>0, <2>1, <2>2, Records DEF OwnNames, Lists
<1>4. CASE FinishCommit
  <2>1. mem' = target /\ UNCHANGED <<names, chain>> /\ target.seq = target.issued
      BY <1>4 DEF FinishCommit, Commit, diskVars, unitVars
  <2>2. ~(o[1] <= target.issued /\ o[1] > target.seq)
      BY <1>0, <2>1, Records
  <2> QED
      BY <2>1, <2>2 DEF Accounted, Lists
<1>5. CASE FinishAbort
  <2>1. /\ pc = "abort" /\ UNCHANGED <<mem, names, chain>>
      BY <1>5 DEF FinishAbort, Goto, diskVars, unitVars
  <2>2. Owned = {} /\ pc \in Live
      BY <2>1 DEF OwnNames, Live, Quiescent, Cleaning
  <2> QED
      BY <2>1, <2>2 DEF OwnNames, Owned, Lists
<1>6. CASE FinishOpen
  <2>1. /\ pc = "rObjectsSync" /\ mem' = chosen /\ UNCHANGED <<names, chain>>
        /\ chosen \in {mem, target}
      BY <1>6 DEF FinishOpen, Goto, diskVars, unitVars, IInv, Authority, RecoveryProgress,
         Recovering
  <2>2. ~(o[1] > chosen.seq)
      BY <2>1 DEF OwnNames, Uncommitted
  <2> QED
      BY <2>1, <2>2 DEF Accounted, Lists
<1>7. CASE /\ LiveStep
            /\ ~(WriteObject \/ CreateObject \/ FinishIssue \/ FinishCommit \/ FinishAbort)
  <2>1. /\ pc \in Live /\ UNCHANGED <<mem, active, chain>>
      BY <1>7 DEF LiveStep
  <2>2. o \in names
      BY <1>7, UnitsRest DEF UnitStep, SyncBuilt, RemoveOwned, SyncRemoval, ReclaimObject,
         SyncReclaim, SyncRepairedUnits, RemoveUncommitted, SyncUncommitted, PowerLoss,
         WritebackName, LiveStep, Live, Quiescent, Building, Cleaning, Reclaiming, Publishing
  <2>3. created' = created
      BY <1>7, CreatedRests
  <2> QED
      BY <2>1, <2>2, <2>3 DEF OwnNames, Lists
<1>8. CASE DeadStep
    BY <1>8 DEF DeadStep
<1> QED
    BY <1>1, <1>2, <1>3, <1>4, <1>5, <1>6, <1>7, <1>8, AnswerKinds DEF IInv

\* The ways into the stages that follow a barrier on units/.
LEMMA AbortEntered ==
  ASSUME Next, pc' = "abort"
  PROVE  BeginCleanup \/ SyncRemoval \/ UNCHANGED <<pc, names, active, created>>
<1> USE DEF writerVars, unitVars, Goto
<1>1. CASE WriterStep
    BY <1>1 DEF WriterStep, AdmitWriter, AbortUnissued, BeginIssue, BeginCommit,
       PublishStep, WriteFence, SyncFence, WriteRootNext, RenameRoot, SyncRoot,
       FinishIssue, FinishCommit, CreateObject, WriteObject, SyncBuilt, RemoveOwned,
       FinishAbort
<1>2. CASE ReclaimStep \/ CloseUnavailable \/ Open \/ ProcessFault \/ PowerLoss
    BY <1>2 DEF ReclaimStep, BeginReclaim, ReclaimObject, StopReclaim, SyncReclaim,
       CloseUnavailable, Open, ProcessFault, OwnerFails, RecoveryFails, TearFence,
       CloseOrKill, Release, PowerLoss
<1>3. CASE RecoverStep
    BY <1>3 DEF RecoverStep, RemoveStaleNext, NoStaleNext, SyncStaleNext, WriteRepair,
       RenameRepair, NothingToRepair, SyncRoots, RewriteFence, SyncRewrittenFence,
       SyncRepairedUnits, RemoveUncommitted, SyncUncommitted, FinishOpen
<1>4. CASE StorageFault \/ Writeback
    BY <1>2, <1>4 DEF StorageFault, DamageFence, DamageRoot, Writeback, WritebackFence,
       WritebackName, WritebackRoot
<1> QED
    BY <1>1, <1>2, <1>3, <1>4 DEF Next

LEMMA RecoveredEntered ==
  ASSUME Next, pc' = "rObjectsSync"
  PROVE  SyncUncommitted \/ UNCHANGED <<pc, names, chosen>>
<1> USE DEF choice, unitVars, Goto
<1>1. CASE WriterStep
    BY <1>1 DEF WriterStep, AdmitWriter, AbortUnissued, BeginIssue, BeginCommit,
       PublishStep, WriteFence, SyncFence, WriteRootNext, RenameRoot, SyncRoot,
       FinishIssue, FinishCommit, CreateObject, WriteObject, SyncBuilt, BeginCleanup,
       RemoveOwned, SyncRemoval, FinishAbort
<1>2. CASE ReclaimStep \/ CloseUnavailable \/ Open \/ ProcessFault \/ PowerLoss
    BY <1>2 DEF ReclaimStep, BeginReclaim, ReclaimObject, StopReclaim, SyncReclaim,
       CloseUnavailable, Open, ProcessFault, OwnerFails, RecoveryFails, TearFence,
       CloseOrKill, Release, PowerLoss
<1>3. CASE RecoverStep
    BY <1>3 DEF RecoverStep, RemoveStaleNext, NoStaleNext, SyncStaleNext, WriteRepair,
       RenameRepair, NothingToRepair, SyncRoots, RewriteFence, SyncRewrittenFence,
       SyncRepairedUnits, RemoveUncommitted, FinishOpen
<1>4. CASE StorageFault \/ Writeback
    BY <1>2, <1>4 DEF StorageFault, DamageFence, DamageRoot, Writeback, WritebackFence,
       WritebackName, WritebackRoot
<1> QED
    BY <1>1, <1>2, <1>3, <1>4 DEF Next

LEMMA OwnNamesStep ==
  ASSUME IInv, Accounted, OwnNames, Next
  PROVE  OwnNames'
<1>1. pc' \in Live =>
        \A o \in names' : Lists(mem, o)' \/ (o[1] = active' /\ o[2] <= created')
    BY OwnLive
<1>2. ASSUME pc' = "abort"
      PROVE  Owned' = {}
  <2>1. CASE BeginCleanup
    <3>1. created = 0 /\ UNCHANGED <<names, active, created>>
        BY <1>2, <2>1 DEF BeginCleanup, diskVars, unitVars, writerVars
    <3>2. \A o \in names : o[2] \in Nat /\ o[2] # 0
        BY NamesTyped, Records
    <3> QED
        BY <3>1, <3>2 DEF Owned
  <2>2. CASE SyncRemoval
      BY <2>2 DEF SyncRemoval, Owned, writerVars
  <2>3. CASE UNCHANGED <<pc, names, active, created>>
      BY <1>2, <2>3 DEF OwnNames, Owned
  <2> QED
      BY <1>2, <2>1, <2>2, <2>3, AbortEntered
<1>3. ASSUME pc' = "rObjectsSync"
      PROVE  Uncommitted' = {}
  <2>1. CASE SyncUncommitted
      BY <2>1 DEF SyncUncommitted, Uncommitted, choice
  <2>2. CASE UNCHANGED <<pc, names, chosen>>
      BY <1>3, <2>2 DEF OwnNames, Uncommitted
  <2> QED
      BY <1>3, <2>1, <2>2, RecoveredEntered
<1> QED
    BY <1>1, <1>2, <1>3 DEF OwnNames, Lists

Barred == pc \in UnitsSynced \/ (pc = "build" /\ created = 0)

LEMMA SyncedUnitsStep ==
  ASSUME IInv, SyncedUnits, Next
  PROVE  SyncedUnits'
<1>0. Barred => names = dnames
    BY DEF SyncedUnits, Barred
<1>1. SUFFICES ASSUME Barred'
               PROVE  names' = dnames'
    BY DEF SyncedUnits, Barred
<1>2. created \in Nat /\ (pc = "write" => created # 0)
    BY PublicationAssumption DEF IInv, TypeOK, Stages
<1> USE <1>0, <1>1 DEF Barred, UnitsSynced, Publishing, Goto, diskVars, unitVars, writerVars
<1>3. CASE WriterStep
  <2>1. AdmitWriter \/ AbortUnissued \/ BeginIssue \/ BeginCommit => names' = dnames'
      BY DEF AdmitWriter, AbortUnissued, BeginIssue, BeginCommit
  <2>2. WriteFence \/ SyncFence => names' = dnames'
      BY DEF WriteFence, SyncFence
  <2>3. ASSUME NEW x \in Replica, NEW from \in Publishing, NEW to \in Publishing,
               WriteRootNext(x, from, to) \/ RenameRoot(x, from, to) \/ SyncRoot(from, to)
        PROVE  names' = dnames'
      BY <2>3 DEF WriteRootNext, RenameRoot, SyncRoot
  <2>4. PublishStep => names' = dnames'
      BY <2>2, <2>3 DEF PublishStep, Replica
  <2>5. FinishIssue \/ FinishCommit \/ FinishAbort => names' = dnames'
      BY DEF FinishIssue, FinishCommit, FinishAbort
  <2>6. CreateObject \/ WriteObject => names' = dnames'
    <3>1. created + 1 # 0
        BY <1>2
    <3> QED
        BY <1>2, <3>1 DEF CreateObject, WriteObject
  <2>7. SyncBuilt \/ SyncRemoval => names' = dnames'
      BY DEF SyncBuilt, SyncRemoval, SyncUnits
  <2>8. BeginCleanup \/ RemoveOwned => names' = dnames'
      BY <1>2 DEF BeginCleanup, RemoveOwned
  <2> QED
      BY <1>3, <2>1, <2>4, <2>5, <2>6, <2>7, <2>8 DEF WriterStep
<1>4. CASE ReclaimStep
    BY <1>4 DEF ReclaimStep, BeginReclaim, ReclaimObject, StopReclaim, SyncReclaim, SyncUnits
<1>5. CASE CloseUnavailable \/ Open \/ ProcessFault
    BY <1>5 DEF CloseUnavailable, Open, ProcessFault, OwnerFails, RecoveryFails, TearFence,
       CloseOrKill, Release
<1>6. CASE RecoverStep
    BY <1>6 DEF RecoverStep, RemoveStaleNext, NoStaleNext, SyncStaleNext, WriteRepair,
       RenameRepair, NothingToRepair, SyncRoots, RewriteFence, SyncRewrittenFence,
       SyncRepairedUnits, RemoveUncommitted, SyncUncommitted, FinishOpen, SyncUnits
<1>7. CASE StorageFault \/ Writeback
    BY <1>7 DEF StorageFault, PowerLoss, DamageFence, DamageRoot, Writeback,
       WritebackFence, WritebackName, WritebackRoot
<1> QED
    BY <1>3, <1>4, <1>5, <1>6, <1>7 DEF Next

-----------------------------------------------------------------------------
(* What roots select is stored.                                             *)

\* The records whose objects must not be lost.
Held ==
  {r \in {root[x] : x \in Replica} \union {droot[x] : x \in Replica} : r # Unreadable}
    \union {r \in {target} : pc \in Publishing}
    \union {r \in {chosen} : pc \in Recovering}

LEMMA HeldStored == RootsStored <=> \A r \in Held : Stored(r)
BY DEF RootsStored, Held

\* Which records these are: outside publication and repair, one.
LEMMA HeldRecords ==
  ASSUME IInv
  PROVE  /\ Held \subseteq {mem, target}
         /\ pc \in Quiescent => Held \subseteq {mem}
         /\ pc \in RootsDurable => Held \subseteq {chosen}
<1>1. Held \subseteq {mem, target}
    BY DEF Held, IInv, Authority, EitherSays, RecoveryProgress
<1>2. pc \in Quiescent => Held \subseteq {mem}
    BY Phases DEF Held, IInv, Authority, AllSay, Says
<1>3. pc \in RootsDurable => Held \subseteq {chosen}
    BY Phases DEF Held, IInv, Authority, RecoveryProgress, Says
<1> QED
    BY <1>1, <1>2, <1>3

\* A step holds no other record than those held before, or a new target.
LEMMA HeldMove ==
  ASSUME IInv, Next
  PROVE  \/ Held' \subseteq Held
         \/ (BeginIssue \/ BeginCommit) /\ Held' \subseteq Held \union {target'}
<1>0. /\ root \in [Replica -> BoundedStored] /\ droot \in [Replica -> BoundedStored]
      /\ target # Unreadable /\ chosen # Unreadable
    BY Records DEF IInv, Bounded
<1> USE DEF Held
<1>1. CASE SilentStep \/ StopStep
  <2>1. UNCHANGED <<root, droot, target, chosen>>
      BY <1>1 DEF SilentStep, StopStep, authorityVars, choice
  <2>2. /\ pc' \in Publishing => pc \in Publishing
        /\ pc' \in Recovering => pc \in Recovering
    <3>1. UnitsRepair \subseteq Recovering
        BY DEF UnitsRepair, Recovering
    <3>2. {"down", "closed"} \intersect (Publishing \union Recovering) = {}
        BY DEF Publishing, Recovering
    <3> QED
        BY <1>1, <3>1, <3>2, Phases DEF SilentStep, StopStep
  <2> QED
      BY <2>1, <2>2
<1>2. CASE BeginIssue \/ BeginCommit
  <2>1. UNCHANGED <<root, droot, chosen>> /\ pc' = "pFence"
      BY <1>2 DEF BeginIssue, BeginCommit, diskVars, rootVars, choice, Goto
  <2>2. pc' \notin Recovering
      BY <2>1 DEF Recovering
  <2> QED
      BY <1>2, <2>1, <2>2
<1>3. CASE FinishIssue \/ FinishCommit \/ FinishOpen
  <2>1. UNCHANGED <<root, droot>> /\ pc' \in {"build", "idle"}
      BY <1>3 DEF FinishIssue, FinishCommit, FinishOpen, diskVars, rootVars, Goto
  <2>2. pc' \notin Recovering /\ pc' \notin Publishing
      BY <2>1 DEF Recovering, Publishing
  <2> QED
      BY <2>1, <2>2
<1>4. CASE PublishStep
  <2>1. pc \in Publishing /\ pc' \in Publishing /\ UNCHANGED <<target, chosen>>
      BY <1>4 DEF PublishStep, WriteFence, SyncFence, WriteRootNext, RenameRoot, SyncRoot,
         Goto, Publishing, choice
  <2>2. pc' \notin Recovering
      BY <2>1, Phases
  <2>3. target \in Held
      BY <2>1
  <2>4. \A x \in Replica : root'[x] \in {root[x], target} /\ droot'[x] \in {droot[x], root[x]}
    <3>1. WriteFence \/ SyncFence => UNCHANGED <<root, droot>>
        BY DEF WriteFence, SyncFence, rootVars
    <3>2. ASSUME NEW y \in Replica, NEW from, NEW to,
                 WriteRootNext(y, from, to) \/ RenameRoot(y, from, to) \/ SyncRoot(from, to)
          PROVE  \A x \in Replica :
                   root'[x] \in {root[x], target} /\ droot'[x] \in {droot[x], root[x]}
        BY <1>0, <3>2 DEF WriteRootNext, RenameRoot, SyncRoot, SyncDatabaseDirectory
    <3> QED
        BY <1>4, <3>1, <3>2 DEF PublishStep, Replica
  <2> QED
      BY <2>1, <2>2, <2>3, <2>4
<1>5. CASE Open
  <2>1. /\ pc' = "rNext" /\ UNCHANGED <<root, droot, target>> /\ chosen' \in Candidates
      BY <1>5 DEF Open, Goto, diskVars, rootVars
  <2>2. chosen' \in Held
      BY <2>1 DEF Candidates
  <2>3. pc' \notin Publishing
      BY <2>1 DEF Publishing
  <2> QED
      BY <2>1, <2>2, <2>3
<1>6. CASE RootRepairStep
  <2>1. pc \in Recovering /\ pc' \in Recovering /\ UNCHANGED <<target, chosen>>
      BY <1>6 DEF RootRepairStep, RemoveStaleNext, NoStaleNext, SyncStaleNext, WriteRepair,
         RenameRepair, NothingToRepair, SyncRoots, RewriteFence, SyncRewrittenFence,
         Goto, Recovering, choice
  <2>2. pc' \notin Publishing
      BY <2>1, Phases
  <2>3. chosen \in Held
      BY <2>1
  <2>4. \A x \in Replica : root'[x] \in {root[x], chosen} /\ droot'[x] \in {droot[x], root[x]}
    <3>1. CASE RenameRepair
        BY <1>0, <3>1 DEF RenameRepair
    <3>2. CASE ~RenameRepair
      <4>1. root' = root /\ (droot' = droot \/ droot' = root)
          BY <1>6, <3>2 DEF RootRepairStep, RemoveStaleNext, NoStaleNext, SyncStaleNext,
             WriteRepair, NothingToRepair, SyncRoots, RewriteFence, SyncRewrittenFence,
             SyncDatabaseDirectory, diskVars, rootVars
      <4> QED
          BY <4>1
    <3> QED
        BY <3>1, <3>2
  <2> QED
      BY <2>1, <2>2, <2>3, <2>4
<1>7. CASE StorageStep
  <2>1. /\ UNCHANGED <<target, chosen>> /\ (pc' = pc \/ pc' \in {"closed", "down"})
      BY <1>7 DEF StorageStep, TearFence, PowerLoss, DamageFence, WritebackFence, DamageRoot,
         WritebackRoot, Goto, choice
  <2>2. \A x \in Replica : /\ root'[x] \in {root[x], droot[x], Unreadable}
                           /\ droot'[x] \in {root[x], droot[x], Unreadable}
    <3>1. TearFence \/ PowerLoss \/ DamageFence \/ WritebackFence =>
            UNCHANGED droot /\ (root' = root \/ root' = droot)
        BY DEF TearFence, PowerLoss, DamageFence, WritebackFence, rootVars
    <3>2. ASSUME NEW y \in Replica, DamageRoot(y) \/ WritebackRoot(y)
          PROVE  \A x \in Replica : /\ root'[x] \in {root[x], droot[x], Unreadable}
                                    /\ droot'[x] \in {root[x], droot[x], Unreadable}
        BY <1>0, <3>2 DEF DamageRoot, WritebackRoot
    <3> QED
        BY <1>7, <3>1, <3>2 DEF StorageStep
  <2>3. {"down", "closed"} \intersect (Publishing \union Recovering) = {}
      BY DEF Publishing, Recovering
  <2> QED
      BY <2>1, <2>2, <2>3
<1> QED
    BY <1>1, <1>2, <1>3, <1>4, <1>5, <1>6, <1>7, StepKinds DEF RecordStep

\* A record's objects come from its last commit or earlier ones.
LEMMA GraphBounds ==
  ASSUME IInv, NEW r \in {mem, target, chosen}, NEW o \in Graph(r)
  PROVE  o[1] <= r.seq
<1>1. r.seq # 0 /\ r.seq \in 0 .. MaxIssued /\ r.seq \in Nat
    BY Records DEF Graph
<1>2. CASE o \in {History(r.seq), Catalog(r.seq)}
    BY <1>1, <1>2 DEF History, Catalog
<1>3. CASE o \in Object /\ chain[r.seq][o[1]] # 0
  <2>1. o[1] \in Attempt /\ o[1] \in Nat
      BY <1>3, Records
  <2>2. ~(o[1] > r.seq)
      BY <1>1, <1>3, <2>1 DEF IInv, Histories, ListsEarlier
  <2> QED
      BY <1>1, <2>1, <2>2
<1> QED
    BY <1>1, <1>2, <1>3 DEF Graph

\* The objects depend on the history alone.
LEMMA GraphRests ==
  ASSUME NEW r, chain'[r.seq] = chain[r.seq]
  PROVE  Graph(r)' = Graph(r)
BY DEF Graph, History, Catalog

\* What a barrier on units/ does, and a power loss, for objects with durable names.
LEMMA StoredSettles ==
  ASSUME NEW r, Stored(r), chain'[r.seq] = chain[r.seq],
         \/ UNCHANGED names /\ SyncUnits
         \/ PowerLoss
  PROVE  Stored(r)'
<1>1. Graph(r)' = Graph(r)
    BY GraphRests
<1>2. Graph(r) \subseteq names' \intersect dnames' \intersect whole'
    BY DEF Stored, SyncUnits, PowerLoss
<1> QED
    BY <1>1, <1>2 DEF Stored

\* No step loses an object of a held record.
LEMMA HeldKept ==
  ASSUME IInv, RootsStored, Next, NEW r \in Held
  PROVE  Stored(r)'
<1>0. Stored(r) /\ r \in {mem, target}
    BY HeldStored, HeldRecords
<1>1. CASE WriteObject
  <2>1. r = mem /\ chain'[r.seq] = chain[r.seq]
      BY <1>0, <1>1, WrittenHistory
  <2>2. Graph(r)' = Graph(r)
      BY <2>1, GraphRests
  <2>3. UNCHANGED <<names, dnames>> /\ whole \subseteq whole'
      BY <1>1 DEF WriteObject
  <2> QED
      BY <1>0, <2>2, <2>3 DEF Stored
<1>2. chain' = chain => Graph(r)' = Graph(r)
    BY GraphRests
<1>3. CASE CreateObject
    BY <1>0, <1>2, <1>3 DEF CreateObject, Stored, Goto
<1>4. CASE \/ SyncBuilt \/ SyncRemoval \/ SyncReclaim \/ SyncRepairedUnits
           \/ SyncUncommitted \/ PowerLoss
  <2>1. chain' = chain /\ (PowerLoss \/ (UNCHANGED names /\ SyncUnits))
      BY <1>4 DEF SyncBuilt, SyncRemoval, SyncReclaim, SyncRepairedUnits, SyncUncommitted,
         PowerLoss
  <2> QED
      BY <1>0, <2>1, StoredSettles
<1>5. CASE RemoveOwned
  <2>1. r = mem /\ active = mem.issued /\ mem.seq < active
      BY <1>5, HeldRecords DEF RemoveOwned, Quiescent, Cleaning, IInv, Stages, MayCommit
  <2>2. PICK o \in Owned : names' = names \ {o}
      BY <1>5 DEF RemoveOwned
  <2>3. o[1] = active
      BY <2>2 DEF Owned
  <2>4. ~(o[1] <= mem.seq)
      BY <2>1, <2>3, Records
  <2>5. o \notin Graph(r)
      BY <2>1, <2>4, GraphBounds
  <2> QED
      BY <1>0, <1>2, <1>5, <2>2, <2>5 DEF RemoveOwned, Stored
<1>6. CASE ReclaimObject
  <2>1. r = mem
      BY <1>6, HeldRecords DEF ReclaimObject, Quiescent, Reclaiming
  <2>2. PICK o \in Unreachable : names' = names \ {o}
      BY <1>6 DEF ReclaimObject
  <2>3. o \notin Graph(r)
      BY <2>1, <2>2 DEF Unreachable
  <2> QED
      BY <1>0, <1>2, <1>6, <2>2, <2>3 DEF ReclaimObject, Stored
<1>7. CASE RemoveUncommitted
  <2>1. r = chosen
      BY <1>7, HeldRecords
      DEF RemoveUncommitted, RootsDurable, RootsRepaired, Recovering, Repairing
  <2>2. PICK o \in Uncommitted : names' = names \ {o}
      BY <1>7 DEF RemoveUncommitted
  <2>3. ~(o[1] <= chosen.seq)
    <3>1. o \in Object /\ o[1] > chosen.seq
        BY <2>2, NamesTyped DEF Uncommitted
    <3> QED
        BY <3>1, Records
  <2>4. o \notin Graph(r)
      BY <2>1, <2>3, GraphBounds
  <2> QED
      BY <1>0, <1>2, <1>7, <2>2, <2>4 DEF RemoveUncommitted, Stored
<1>8. CASE WritebackName
  <2>1. \/ dnames \subseteq dnames'
        \/ \E o \in dnames \ names : dnames' = dnames \ {o}
      BY <1>8 DEF WritebackName
  <2>2. UNCHANGED <<names, whole, chain>>
      BY <1>8 DEF WritebackName
  <2>3. Graph(r)' = Graph(r)
      BY <2>2, GraphRests
  <2> QED
      BY <1>0, <2>1, <2>2, <2>3 DEF Stored
<1>9. CASE UNCHANGED <<names, dnames, whole, chain>>
    BY <1>0, <1>9, GraphRests DEF Stored
<1> QED
    BY <1>1, <1>3, <1>4, <1>5, <1>6, <1>7, <1>8, <1>9, UnitsRest DEF UnitStep

\* A new target's objects are stored before it is published.
LEMMA TargetStored ==
  ASSUME IInv, RootsStored, SyncedUnits, BeginIssue \/ BeginCommit
  PROVE  Stored(target)'
<1>1. UNCHANGED <<names, dnames, whole, chain>>
    BY DEF BeginIssue, BeginCommit, diskVars, unitVars
<1>2. CASE BeginIssue
  <2>1. root["A"] = mem /\ mem # Unreadable
      BY <1>2, Records
      DEF BeginIssue, Settled, Repairs, Replica
  <2>2. Stored(mem)
      BY <2>1 DEF RootsStored, Replica
  <2>3. target' = NextIssued
      BY <1>2 DEF BeginIssue
  <2>4. NextIssued.seq = mem.seq
      BY DEF NextIssued
  <2>5. Graph(NextIssued) = Graph(mem)
      BY <2>4 DEF Graph, History, Catalog
  <2>6. Graph(target)' = Graph(NextIssued)
      BY <1>1, <2>3 DEF Graph, History, Catalog
  <2> QED
      BY <1>1, <2>2, <2>5, <2>6 DEF Stored
<1>3. CASE BeginCommit
  <2>1. target' = NextCommit /\ Graph(NextCommit) \subseteq names \intersect whole
      BY <1>3 DEF BeginCommit, ValidGraph
  <2>2. names = dnames
      BY <1>3 DEF BeginCommit, Goto, SyncedUnits, UnitsSynced
  <2>3. Graph(target)' = Graph(NextCommit)
      BY <1>1, <2>1 DEF Graph, History, Catalog
  <2> QED
      BY <1>1, <2>1, <2>2, <2>3 DEF Stored
<1> QED
    BY <1>2, <1>3

LEMMA RootsStoredStep ==
  ASSUME IInv, RootsStored, SyncedUnits, Next
  PROVE  RootsStored'
<1>1. \A r \in Held : Stored(r)'
    BY HeldKept
<1>2. BeginIssue \/ BeginCommit => Stored(target)'
    BY TargetStored
<1>3. \A r \in Held' : Stored(r)'
    BY <1>1, <1>2, HeldMove
<1>4. RootsStored' <=> \A r \in Held' : Stored(r)'
    BY DEF RootsStored, Held
<1> QED
    BY <1>3, <1>4

-----------------------------------------------------------------------------
LEMMA InitDInv == Init => DInv
<1> SUFFICES ASSUME Init PROVE DInv
    OBVIOUS
<1> USE UnreadableAssumption DEF Init
<1>1. RootsStored
    BY DEF RootsStored, Stored, Graph, EmptyRecord, Publishing, Recovering
<1>2. SelfListed /\ Accounted
    BY DEF SelfListed, Accounted, EmptyRecord
<1>3. OwnNames /\ SyncedUnits
    BY DEF OwnNames, SyncedUnits
<1>4. NextNames
    BY DEF NextNames
<1>5. Copies
  <2>1. EmptyRecord # Unreadable
      BY DEF EmptyRecord, Record
  <2> QED
      BY <2>1 DEF Copies, Says, Repairing
<1>6. Succession
    BY DEF Succession
<1> QED
    BY <1>1, <1>2, <1>3, <1>4, <1>5, <1>6 DEF DInv

LEMMA DInvStep == IInv /\ DInv /\ [Next]_vars => DInv'
<1> SUFFICES ASSUME IInv, DInv, [Next]_vars PROVE DInv'
    OBVIOUS
<1>1. CASE Next
  <2> USE <1>1 DEF DInv
  <2>1. RootsStored'
      BY RootsStoredStep
  <2>2. SelfListed'
      BY SelfListedStep
  <2>3. Accounted'
      BY AccountedStep
  <2>4. OwnNames'
      BY OwnNamesStep
  <2>5. SyncedUnits'
      BY SyncedUnitsStep
  <2>6. NextNames'
      BY NextNamesStep
  <2>7. Copies' /\ Succession'
      BY CopiesStep, SuccessionStep
  <2> QED
      BY <2>1, <2>2, <2>3, <2>4, <2>5, <2>6, <2>7
<1>2. CASE UNCHANGED vars
  <2> USE <1>2 DEF DInv, vars, rootVars, walVars, unitVars, choice, writerVars
  <2>1. RootsStored'
      BY DEF RootsStored, Stored, Graph, History, Catalog
  <2>2. SelfListed' /\ Accounted'
      BY DEF SelfListed, Accounted, Lists
  <2>3. OwnNames' /\ SyncedUnits'
      BY DEF OwnNames, Owned, Uncommitted, Lists, SyncedUnits
  <2>4. NextNames'
      BY DEF NextNames
  <2>5. Copies' /\ Succession'
      BY DEF Copies, Says, Succession, Succeeds, Issuance, Commit
  <2> QED
      BY <2>1, <2>2, <2>3, <2>4, <2>5
<1> QED
    BY <1>1, <1>2

-----------------------------------------------------------------------------
(* The theorems.                                                            *)

\* Stored objects, names and copies keep their relation in every reachable
\* state, for any size of database.
THEOREM Durability == Spec => [](IInv /\ DInv)
<1>1. Init => IInv /\ DInv
    BY InitIInv, InitDInv
<1>2. (IInv /\ DInv) /\ [Next]_vars => (IInv /\ DInv)'
    BY IInvStep, DInvStep
<1> QED
    BY <1>1, <1>2, PTL DEF Spec

\* Nothing a durable root selects has lost an object: no cleanup, reclamation,
\* recovery or reordered write takes what a power loss could go back to.
THEOREM SelectableAlwaysDurable == Spec => []SelectableIsDurable
<1>1. DInv => SelectableIsDurable
    BY DEF DInv, RootsStored, Stored, SelectableIsDurable
<1> QED
    BY Durability, <1>1, PTL

\* Between operations a live handle's database is settled on both views of the
\* disk, and aborts and recovery have left nothing in units/.
THEOREM IdleAlwaysSettled == Spec => []IdleIsSettled
<1>1. IInv /\ DInv => IdleIsSettled
  <2> SUFFICES ASSUME IInv, DInv, pc = "idle", damages = 0
               PROVE  /\ \A x \in Replica : root[x] = mem /\ droot[x] = mem
                      /\ wal = mem /\ dwal = mem
                      /\ next = {} /\ dnext = {}
                      /\ names = dnames
                      /\ Graph(mem) \subseteq names
                      /\ \A o \in names : chain[mem.seq][o[1]] # 0
      BY DEF IdleIsSettled
  <2>1. pc \in Quiescent /\ pc \in Live /\ target = mem /\ active = 0 /\ AllSay(mem)
      BY DEF Quiescent, Live, IInv, Stages, Authority
  <2>2. \A x \in Replica : root[x] = mem /\ droot[x] = mem
      BY <2>1 DEF DInv, Copies
  <2>3. wal = mem /\ dwal = mem
      BY <2>1 DEF DInv, Copies, AllSay, Says
  <2>4. next = {} /\ dnext = {} /\ names = dnames
      BY <2>1 DEF DInv, NextNames, SyncedUnits, UnitsSynced
  <2>5. Graph(mem) \subseteq names
    <3>1. root["A"] = mem /\ mem # Unreadable
        BY <2>2, Records DEF Replica
    <3> QED
        BY <3>1 DEF DInv, RootsStored, Stored, Replica
  <2>6. ASSUME NEW o \in names
        PROVE  chain[mem.seq][o[1]] # 0
    <3>1. o[1] # 0
        BY NamesTyped, Records
    <3> QED
        BY <2>1, <3>1 DEF DInv, OwnNames, Lists
  <2> QED
      BY <2>2, <2>3, <2>4, <2>5, <2>6
<1> QED
    BY Durability, <1>1, PTL

\* The record the roots agree on, or the newer one they say, is authorized.
LEMMA Authorized ==
  ASSUME IInv, DInv, damages = 0
  PROVE  \E r \in Candidates : r \in {mem, target} /\ Selects(root["A"], root["B"], wal, r)
<1>0. /\ mem \in Record /\ target \in Record /\ mem # Unreadable /\ target # Unreadable
      /\ wal \in {mem, target, Unreadable}
    BY Records DEF IInv, Authority, EitherSays
<1>1. \A x \in Replica : /\ root[x] \in {mem, target}
                         /\ root[x] = target => Says(wal, target)
    BY DEF DInv, Copies
<1>2. target = mem \/ Succeeds(target, mem)
    BY DEF DInv, Succession
<1>3. "A" \in Replica /\ "B" \in Replica
    BY DEF Replica
<1>4. CASE root["A"] = target \/ root["B"] = target
  <2>1. target \in Candidates
      BY <1>0, <1>3, <1>4 DEF Candidates
  <2>2. RootsName(root["A"], root["B"], wal, target)
      BY <1>0, <1>1, <1>2, <1>3, <1>4 DEF RootsName
  <2>3. FenceAllows(wal, target)
      BY <1>1, <1>3, <1>4 DEF FenceAllows, Says
  <2> QED
      BY <1>0, <2>1, <2>2, <2>3 DEF Selects
<1>5. CASE root["A"] = mem /\ root["B"] = mem
  <2>1. mem \in Candidates
      BY <1>0, <1>3, <1>5 DEF Candidates
  <2>2. RootsName(root["A"], root["B"], wal, mem) /\ FenceAllows(wal, mem)
      BY <1>0, <1>2, <1>5 DEF RootsName, FenceAllows
  <2> QED
      BY <1>0, <2>1, <2>2 DEF Selects
<1> QED
    BY <1>1, <1>3, <1>4, <1>5

\* Short of damaged files, no interruption, failure or power loss leaves a
\* directory that open refuses.
THEOREM ReopenAlwaysAdmits == Spec => []ReopenAdmits
<1>1. IInv /\ DInv => ReopenAdmits
  <2> SUFFICES ASSUME IInv, DInv, damages = 0
               PROVE  \E r \in Candidates : Admits(r)
      BY DEF ReopenAdmits
  <2>1. PICK r \in Candidates :
          r \in {mem, target} /\ Selects(root["A"], root["B"], wal, r)
      BY Authorized
  <2>2. \A o \in names : o[1] <= r.issued
      BY <2>1 DEF DInv, Accounted
  <2>3. Graph(r) \subseteq names \intersect whole
      BY <2>1 DEF Candidates, DInv, RootsStored, Stored
  <2>4. r.seq # 0 => chain[r.seq][r.seq] = r.gen
      BY <2>1 DEF DInv, SelfListed
  <2> QED
      BY <2>1, <2>2, <2>3, <2>4 DEF Admits, ValidContents, ValidGraph
<1> QED
    BY Durability, <1>1, PTL
-----------------------------------------------------------------------------
(* The promise: every step of the engine, failures and damage included, maps *)
(* to a step of AtomicCommit or leaves what callers know.                   *)
(*                                                                          *)
(* Callers know what the registry's record answers, but for at most one     *)
(* pending attempt, the last issued (Told); and a record's generation counts *)
(* the attempts it lists (Counted).  A closed directory may hold a second   *)
(* record, which recovery may find to be the one: it then either commits    *)
(* the pending attempt, or aborts it, or shows an attempt nobody was told   *)
(* of as aborted, and these are steps of the promise.                       *)

Listed(r) == {a \in Attempt : chain[r.seq][a] # 0}

\* Generations count the committed attempts.
Counted == \A r \in {mem, target} : Cardinality(Listed(r)) = r.gen

\* Callers know the current record's answers, but for the pending attempt p (or
\* 0), and the other record continues from them.
Tells(p) ==
  /\ p # 0 => mem.seq < p
  /\ \A a \in Attempt : outcome[a] = IF a = p THEN Pending ELSE Resolution(mem, a)
  /\ \/ target = mem
     \/ target = NextIssued /\ p = 0
     \/ /\ target = NextCommit /\ p = mem.issued /\ p # 0
        /\ chain[p] = [chain[mem.seq] EXCEPT ![p] = mem.gen + 1]

Told == \E p \in {0, mem.issued} : Tells(p)

PInv == Counted /\ (pc \notin Live => Told)

-----------------------------------------------------------------------------
(* Counting attempts.                                                       *)

LEMMA AttemptsFinite ==
  /\ IsFiniteSet(Attempt)
  /\ \A S \in SUBSET Attempt : IsFiniteSet(S)
<1>1. IsFiniteSet(Attempt)
    BY PublicationAssumption, FS_Interval DEF Attempt
<1> QED
    BY <1>1, FS_Subset

\* The attempts after the first n.
LEMMA Remaining ==
  ASSUME NEW n \in Nat, n <= MaxIssued
  PROVE  Cardinality({a \in Attempt : n < a}) = MaxIssued - n
<1>0. MaxIssued \in Nat
    BY PublicationAssumption
<1>1. {a \in Attempt : n < a} = (n + 1) .. MaxIssued
    BY <1>0 DEF Attempt
<1>2. Cardinality((n + 1) .. MaxIssued) =
        IF n + 1 > MaxIssued THEN 0 ELSE MaxIssued - (n + 1) + 1
  <2>1. n + 1 \in Int /\ MaxIssued \in Int
      BY <1>0
  <2> QED
      BY <2>1, FS_Interval, Zenon
<1>3. (IF n + 1 > MaxIssued THEN 0 ELSE MaxIssued - (n + 1) + 1) = MaxIssued - n
    BY <1>0
<1> QED
    BY <1>1, <1>2, <1>3, Zenon

LEMMA PromiseCounts ==
  ASSUME NEW S
  PROVE  Promise!Cardinality(S) = Cardinality(S)
BY DEF Promise!Cardinality, Cardinality

\* The promise's terms, in those of the engine.
LEMMA PromiseTerms ==
  /\ Promise!Attempt = Attempt
  /\ Promise!Unknown = Unknown /\ Promise!Pending = Pending /\ Promise!Aborted = Aborted
  /\ \A g : Promise!Durable(g) = Durable(g)
BY DEF Promise!Attempt, Attempt, Promise!Unknown, Unknown, Promise!Pending, Pending,
   Promise!Aborted, Aborted, Promise!Durable, Durable

LEMMA Statuses ==
  /\ Unknown # Pending /\ Unknown # Aborted /\ Pending # Aborted
  /\ Unknown.status # "durable" /\ Pending.status # "durable" /\ Aborted.status # "durable"
  /\ \A g : Durable(g).status = "durable" /\ Durable(g) # Unknown /\ Durable(g) # Pending
BY DEF Unknown, Pending, Aborted, Durable

\* Only attempts up to the record's own are listed.
LEMMA ListedEarlier ==
  ASSUME IInv, NEW r \in {mem, target}, NEW a \in Attempt, chain[r.seq][a] # 0
  PROVE  a <= r.seq /\ a <= r.issued
<1>1. r.seq \in 0 .. MaxIssued /\ r.seq \in Nat /\ r.issued \in Nat /\ r.seq <= r.issued
    BY Records
<1>2. ~(a > r.seq)
    BY <1>1 DEF IInv, Histories, ListsEarlier
<1> QED
    BY <1>1, <1>2 DEF Attempt

LEMMA CountedStep ==
  ASSUME IInv, Counted, Next
  PROVE  Counted'
<1>1. CASE WriteObject
    BY <1>1, WrittenHistory DEF Counted, Listed
<1>2. CASE ~WriteObject /\ {mem', target'} \subseteq {mem, target}
    BY <1>2, ChainRests DEF Counted, Listed
<1>3. CASE BeginIssue
  <2>1. mem' = mem /\ target' = NextIssued /\ UNCHANGED chain
      BY <1>3 DEF BeginIssue, diskVars, unitVars
  <2>2. NextIssued.seq = mem.seq /\ NextIssued.gen = mem.gen
      BY DEF NextIssued
  <2> QED
      BY <2>1, <2>2 DEF Counted, Listed
<1>4. CASE BeginCommit
  <2>1. mem' = mem /\ target' = NextCommit /\ UNCHANGED chain
      BY <1>4 DEF BeginCommit, diskVars, unitVars
  <2>2. /\ chain[active] = AppendedHistory /\ active = mem.issued /\ mem.seq < active
      BY <1>4 DEF BeginCommit, Goto, IInv, Histories, Prepared, Stages, MayCommit, Building
  <2>3. active \in Attempt
      BY <2>2, Records DEF Attempt
  <2>4. Listed(NextCommit) = Listed(mem) \union {active}
    <3>1. chain[mem.seq] \in [Attempt -> 0 .. MaxSuccesses]
        BY Records DEF IInv, TypeOK
    <3>2. \A a \in Attempt :
            AppendedHistory[a] = IF a = active THEN mem.gen + 1 ELSE chain[mem.seq][a]
        BY <3>1 DEF AppendedHistory
    <3>3. mem.gen + 1 # 0
        BY Records
    <3>4. NextCommit.seq = active
        BY <2>2 DEF NextCommit
    <3> QED
        BY <2>2, <2>3, <3>2, <3>3, <3>4 DEF Listed
  <2>5. active \notin Listed(mem)
      BY <2>2, <2>3, ListedEarlier, Records DEF Listed
  <2>6. Cardinality(Listed(NextCommit)) = Cardinality(Listed(mem)) + 1
    <3>1. IsFiniteSet(Listed(mem))
        BY AttemptsFinite DEF Listed
    <3> QED
        BY <2>4, <2>5, <3>1, FS_AddElement
  <2>7. NextCommit.gen = mem.gen + 1
      BY DEF NextCommit
  <2>8. Cardinality(Listed(mem)) = mem.gen
      BY DEF Counted
  <2>9. Listed(mem)' = Listed(mem) /\ Listed(target)' = Listed(NextCommit)
      BY <2>1 DEF Listed
  <2> QED
      BY <2>1, <2>6, <2>7, <2>8, <2>9 DEF Counted
<1> QED
    BY <1>1, <1>2, <1>3, <1>4, RecordsMove

\* What a live handle knows is what callers were told.
LEMMA LiveTold ==
  ASSUME IInv, pc \in Live
  PROVE  Tells(active) /\ active \in {0, mem.issued}
<1>1. \A a \in Attempt : outcome[a] = IF a = active THEN Pending ELSE Resolution(mem, a)
    BY DEF IInv, Answers
<1>2. CASE pc \in Quiescent
  <2>1. target = mem
      BY <1>2 DEF IInv, Stages
  <2>2. active = 0 \/ MayCommit
      BY <1>2 DEF IInv, Stages, Quiescent, MayIssue
  <2> QED
      BY <1>1, <2>1, <2>2 DEF Tells, MayCommit
<1>3. CASE pc \in Publishing
  <2>1. (target = NextIssued /\ MayIssue) \/ (target = NextCommit /\ MayCommit)
      BY <1>3 DEF IInv, Stages
  <2>2. CASE target = NextIssued /\ MayIssue
      BY <1>1, <2>2 DEF Tells, MayIssue
  <2>3. CASE target = NextCommit /\ MayCommit
    <3>1. active # 0
        BY <2>3, Records DEF MayCommit
    <3>2. chain[active] = AppendedHistory
        BY <1>3, <3>1 DEF IInv, Histories, Prepared
    <3> QED
        BY <1>1, <2>3, <3>1, <3>2 DEF Tells, MayCommit, AppendedHistory
  <2> QED
      BY <2>1, <2>2, <2>3
<1> QED
    BY <1>2, <1>3 DEF Live

LEMMA ToldStep ==
  ASSUME IInv, PInv, Next, pc' \notin Live
  PROVE  Told'
<1>1. Told
    BY LiveTold DEF PInv, Told
<1>2. DeadStep
  <2>1. WriteObject \/ FinishIssue \/ FinishCommit \/ FinishAbort \/ FinishOpen =>
          pc' \in Live
      BY DEF WriteObject, FinishIssue, FinishCommit, FinishAbort, FinishOpen, Goto, Live,
         Quiescent, Building
  <2> QED
      BY <2>1, AnswerKinds DEF IInv, LiveStep
<1>3. UNCHANGED <<mem, target, chain, outcome>>
    BY <1>2 DEF DeadStep
<1>4. NextIssued' = NextIssued /\ NextCommit' = NextCommit
    BY <1>3 DEF NextIssued, NextCommit
<1>5. PICK p \in {0, mem.issued} : Tells(p)
    BY <1>1 DEF Told
<1>6. Tells(p)'
    BY <1>3, <1>4, <1>5 DEF Tells, Resolution
<1> QED
    BY <1>3, <1>5, <1>6 DEF Told

LEMMA InitPInv == Init => PInv
<1> SUFFICES ASSUME Init PROVE PInv
    OBVIOUS
<1>1. pc \in Live
    BY DEF Init, Live, Quiescent
<1>2. Listed(EmptyRecord) = {}
  <2>1. chain[0] = NoAttempts /\ EmptyRecord.seq = 0
      BY PublicationAssumption DEF Init, EmptyRecord
  <2>2. \A a \in Attempt : chain[EmptyRecord.seq][a] = 0
      BY <2>1 DEF NoAttempts
  <2> QED
      BY <2>2 DEF Listed
<1>3. Cardinality({}) = 0
    BY FS_EmptySet
<1>4. \A r \in {mem, target} : Cardinality(Listed(r)) = r.gen
  <2>1. mem = EmptyRecord /\ target = EmptyRecord
      BY DEF Init
  <2>2. EmptyRecord.gen = 0
      BY DEF EmptyRecord
  <2> QED
      BY <1>2, <1>3, <2>1, <2>2, Zenon
<1> QED
    BY <1>1, <1>4 DEF PInv, Counted

LEMMA PInvStep == IInv /\ PInv /\ [Next]_vars => PInv'
<1> SUFFICES ASSUME IInv, PInv, [Next]_vars PROVE PInv'
    OBVIOUS
<1>1. CASE Next
    BY <1>1, CountedStep, ToldStep DEF PInv
<1>2. CASE UNCHANGED vars
  <2> USE <1>2 DEF vars, unitVars
  <2>1. Counted'
      BY DEF PInv, Counted, Listed
  <2>2. ASSUME pc' \notin Live
        PROVE  Told'
    <3>1. NextIssued' = NextIssued /\ NextCommit' = NextCommit
        BY DEF NextIssued, NextCommit
    <3>2. PICK p \in {0, mem.issued} : Tells(p)
        BY <2>2 DEF PInv, Told
    <3>3. Tells(p)'
        BY <3>1, <3>2 DEF Tells, Resolution
    <3> QED
        BY <3>2, <3>3 DEF Told
  <2> QED
      BY <2>1, <2>2 DEF PInv
<1> QED
    BY <1>1, <1>2

-----------------------------------------------------------------------------
(* The refinement.                                                          *)

\* What the promise reads off outcome, when callers were told of pending p.
LEMMA Known ==
  ASSUME IInv, Counted, NEW p \in {0, mem.issued}, Tells(p)
  PROVE  /\ p = 0 => Promise!With(Pending) = {}
         /\ p # 0 => p \in Attempt /\ outcome[p] = Pending /\ Resolution(mem, p) = Aborted
         /\ Promise!FirstUnknown = mem.issued + 1
         /\ Promise!NextGeneration = mem.gen + 1
<1>0. /\ mem.issued \in Nat /\ mem.seq \in Nat /\ mem.seq <= mem.issued
      /\ mem.issued <= MaxIssued /\ mem.gen \in Nat /\ MaxIssued \in Nat
    BY Records, PublicationAssumption
<1>1. \A a \in Attempt : outcome[a] = IF a = p THEN Pending ELSE Resolution(mem, a)
    BY DEF Tells
<1>2. p # 0 => mem.seq < p
    BY DEF Tells
<1>3. ASSUME NEW a \in Attempt
      PROVE  /\ a \in Nat /\ a # 0
             /\ mem.issued < a <=> outcome[a] = Unknown
             /\ a # p => outcome[a] # Pending
             /\ chain[mem.seq][a] # 0 <=> outcome[a].status = "durable"
  <2>1. a \in Nat /\ a # 0
      BY <1>0 DEF Attempt
  <2>2. chain[mem.seq][a] # 0 => a <= mem.seq
      BY ListedEarlier
  <2> QED
      BY <1>0, <1>1, <1>2, <2>1, <2>2, Statuses DEF Resolution
<1>4. p = 0 => Promise!With(Pending) = {}
    BY <1>3, PromiseTerms DEF Promise!With
<1>5. ASSUME p # 0
      PROVE  p \in Attempt /\ outcome[p] = Pending /\ Resolution(mem, p) = Aborted
  <2>1. p = mem.issued /\ p \in Attempt
      BY <1>0, <1>5 DEF Attempt
  <2>2. ~(chain[mem.seq][p] # 0)
      BY <1>0, <1>2, <1>5, <2>1, ListedEarlier
  <2> QED
      BY <1>0, <1>1, <2>1, <2>2 DEF Resolution
<1>6. Promise!FirstUnknown = mem.issued + 1
  <2>1. Promise!With(Unknown) = {a \in Attempt : mem.issued < a}
      BY <1>3, PromiseTerms DEF Promise!With
  <2>2. Promise!FirstUnknown = MaxIssued - Cardinality(Promise!With(Unknown)) + 1
      BY PromiseCounts, PromiseTerms DEF Promise!FirstUnknown
  <2>3. Cardinality(Promise!With(Unknown)) = MaxIssued - mem.issued
      BY <1>0, <2>1, Remaining
  <2> QED
      BY <1>0, <2>2, <2>3
<1>7. Promise!NextGeneration = mem.gen + 1
  <2>1. Promise!Committed = Listed(mem)
      BY <1>3, PromiseTerms DEF Promise!Committed, Listed
  <2>2. Promise!NextGeneration = Cardinality(Promise!Committed) + 1
      BY PromiseCounts DEF Promise!NextGeneration
  <2> QED
      BY <2>1, <2>2 DEF Counted
<1> QED
    BY <1>4, <1>5, <1>6, <1>7

\* Exposing a token is the promise's Issue.
LEMMA IssueKept ==
  ASSUME IInv, Counted, FinishIssue
  PROVE  Promise!Issue
<1>1. /\ pc \in Publishing /\ pc \in Live /\ target.issued = mem.issued + 1
      /\ outcome' = [outcome EXCEPT ![target.issued] = Pending]
    BY DEF FinishIssue, Issuance, Goto, Live, Publishing
<1>2. active = 0
  <2>1. target # NextCommit
      BY <1>1, Records DEF NextCommit
  <2> QED
      BY <1>1, <2>1 DEF IInv, Stages, MayIssue
<1>3. Promise!With(Pending) = {} /\ Promise!FirstUnknown = mem.issued + 1
    BY <1>1, <1>2, LiveTold, Known
<1>4. mem.issued + 1 \in Attempt
    BY <1>1, Records, PublicationAssumption DEF Attempt
<1> QED
    BY <1>1, <1>3, <1>4, PromiseTerms DEF Promise!Issue

\* A receipt is the promise's Commit.
LEMMA CommitKept ==
  ASSUME IInv, Counted, FinishCommit
  PROVE  \E a \in Attempt : Promise!Commit(a)
<1>1. /\ pc \in Publishing /\ pc \in Live /\ Commit(target, mem)
      /\ outcome' = [outcome EXCEPT ![target.seq] = Durable(target.gen)]
    BY DEF FinishCommit, Goto, Live, Publishing
<1>2. target.gen = mem.gen + 1 /\ target.seq = mem.issued
    BY <1>1 DEF Commit
<1>3. active = mem.issued /\ active # 0
  <2>1. target # NextIssued
      BY <1>2, Records DEF NextIssued
  <2>2. MayCommit
      BY <1>1, <2>1 DEF IInv, Stages
  <2> QED
      BY <2>2, Records DEF MayCommit
<1>4. /\ active \in Attempt /\ outcome[active] = Pending
      /\ Promise!NextGeneration = mem.gen + 1
    BY <1>1, <1>3, LiveTold, Known
<1>5. mem.gen + 1 <= MaxSuccesses
    BY <1>2, Records DEF BoundedRecord
<1> QED
    BY <1>1, <1>2, <1>3, <1>4, <1>5, PromiseTerms DEF Promise!Commit

\* An answered abort is the promise's Abort.
LEMMA AbortKept ==
  ASSUME IInv, Counted, FinishAbort
  PROVE  \E a \in Attempt : Promise!Abort(a)
<1>1. /\ pc \in Cleaning /\ pc \in Live
      /\ outcome' = [outcome EXCEPT ![active] = Aborted]
    BY DEF FinishAbort, Goto, Live, Quiescent, Cleaning
<1>2. active = mem.issued /\ active # 0
    BY <1>1, Records DEF IInv, Stages, MayCommit
<1>3. active \in Attempt /\ outcome[active] = Pending
    BY <1>1, <1>2, LiveTold, Known
<1> QED
    BY <1>1, <1>3, PromiseTerms DEF Promise!Abort

\* Recovery decides what was left open: it finds the record callers know, and
\* answers a pending attempt as aborted; or an issuance nobody was told of; or
\* the commit of the pending attempt.
LEMMA OpenKept ==
  ASSUME IInv, PInv, FinishOpen
  PROVE  Promise!Next \/ UNCHANGED outcome
<1>0. /\ pc = "rObjectsSync" /\ chosen \in {mem, target}
      /\ outcome' = [a \in Attempt |-> Resolution(chosen, a)]
      /\ outcome \in [Attempt -> Outcome]
    BY DEF FinishOpen, Goto, IInv, TypeOK, Authority, RecoveryProgress, Recovering
<1>1. pc \notin Live
    BY <1>0 DEF Live, Quiescent, Building, Cleaning, Reclaiming, Publishing
<1>2. PICK p \in {0, mem.issued} : Tells(p)
    BY <1>1 DEF PInv, Told
<1>3. \A a \in Attempt : outcome[a] = IF a = p THEN Pending ELSE Resolution(mem, a)
    BY <1>2 DEF Tells
<1>4. /\ p = 0 => Promise!With(Pending) = {}
      /\ p # 0 => p \in Attempt /\ outcome[p] = Pending /\ Resolution(mem, p) = Aborted
      /\ Promise!FirstUnknown = mem.issued + 1
      /\ Promise!NextGeneration = mem.gen + 1
    BY <1>2, Known DEF PInv
<1>5. CASE chosen = mem
  <2>1. CASE p = 0
    <3>1. \A a \in Attempt : a # p
        BY <2>1, PublicationAssumption DEF Attempt
    <3>2. \A a \in Attempt : outcome[a] = Resolution(mem, a)
        BY <1>3, <3>1
    <3>3. outcome' = outcome
        BY <1>0, <1>5, <3>2
    <3> QED
        BY <3>3
  <2>2. CASE p # 0
    <3>1. outcome' = [outcome EXCEPT ![p] = Aborted]
        BY <1>0, <1>3, <1>4, <1>5, <2>2
    <3>2. Promise!Abort(p)
        BY <1>4, <2>2, <3>1, PromiseTerms DEF Promise!Abort
    <3> QED
        BY <1>4, <2>2, <3>2, PromiseTerms DEF Promise!Next
  <2> QED
      BY <2>1, <2>2
<1>6. CASE chosen = target /\ target = NextIssued /\ p = 0
  <2>1. mem.issued + 1 \in Attempt
    <3>1. NextIssued.issued = mem.issued + 1 /\ NextIssued.issued <= MaxIssued
        BY <1>6, Records DEF NextIssued
    <3> QED
        BY <3>1, Records, PublicationAssumption DEF Attempt
  <2>2. \A a \in Attempt : a # p /\
          Resolution(NextIssued, a) =
            IF a = mem.issued + 1 THEN Aborted ELSE Resolution(mem, a)
    <3> SUFFICES ASSUME NEW a \in Attempt
                 PROVE  /\ a # p
                        /\ Resolution(NextIssued, a) =
                             IF a = mem.issued + 1 THEN Aborted ELSE Resolution(mem, a)
        OBVIOUS
    <3>1. a # p
        BY <1>6, PublicationAssumption DEF Attempt
    <3>2. a # mem.issued + 1 => Resolution(NextIssued, a) = Resolution(mem, a)
        BY IssuanceExtends DEF IInv
    <3>3. Resolution(NextIssued, mem.issued + 1) = Aborted
      <4>1. ~(chain[mem.seq][mem.issued + 1] # 0)
        <5>1. ~(mem.issued + 1 <= mem.issued)
            BY Records
        <5> QED
            BY <2>1, <5>1, ListedEarlier
      <4>2. NextIssued.issued = mem.issued + 1 /\ NextIssued.seq = mem.seq
          BY DEF NextIssued
      <4>3. ~(mem.issued + 1 < mem.issued + 1)
          BY Records
      <4> QED
          BY <4>1, <4>2, <4>3 DEF Resolution
    <3> QED
        BY <3>1, <3>2, <3>3
  <2>3. outcome' = [outcome EXCEPT ![mem.issued + 1] = Aborted]
      BY <1>0, <1>3, <1>6, <2>1, <2>2
  <2> QED
      BY <1>4, <1>6, <2>1, <2>3, PromiseTerms DEF Promise!Next, Promise!Consume
<1>7. CASE /\ chosen = target /\ target = NextCommit /\ p = mem.issued /\ p # 0
           /\ chain[p] = [chain[mem.seq] EXCEPT ![p] = mem.gen + 1]
  <2>1. p # 0 /\ p \in Attempt /\ mem.gen + 1 <= MaxSuccesses
    <3>1. NextCommit \in BoundedRecord /\ NextCommit.gen = mem.gen + 1
        BY <1>7, Records DEF NextCommit
    <3> QED
        BY <1>4, <1>7, <3>1 DEF BoundedRecord
  <2>2. chain[mem.seq] \in [Attempt -> 0 .. MaxSuccesses]
      BY Records DEF IInv, TypeOK
  <2>3. \A a \in Attempt :
          Resolution(NextCommit, a) = IF a = p THEN Durable(mem.gen + 1) ELSE Resolution(mem, a)
    <3> SUFFICES ASSUME NEW a \in Attempt
                 PROVE  Resolution(NextCommit, a) =
                          IF a = p THEN Durable(mem.gen + 1) ELSE Resolution(mem, a)
        OBVIOUS
    <3>1. NextCommit.issued = mem.issued /\ NextCommit.seq = p
        BY <1>7 DEF NextCommit
    <3>2. chain[p][a] = IF a = p THEN mem.gen + 1 ELSE chain[mem.seq][a]
        BY <1>7, <2>2
    <3>3. mem.gen + 1 # 0 /\ ~(mem.issued < mem.issued)
        BY Records
    <3> QED
        BY <1>7, <3>1, <3>2, <3>3 DEF Resolution
  <2>4. outcome' = [outcome EXCEPT ![p] = Durable(mem.gen + 1)]
    <3>1. chosen = NextCommit
        BY <1>7
    <3>2. \A a \in Attempt :
            Resolution(chosen, a) = IF a = p THEN Durable(mem.gen + 1) ELSE outcome[a]
        BY <1>3, <2>3, <3>1
    <3> QED
        BY <1>0, <2>1, <3>2
  <2>5. Promise!Commit(p)
      BY <1>4, <2>1, <2>4, PromiseTerms DEF Promise!Commit
  <2> QED
      BY <2>1, <2>5, PromiseTerms DEF Promise!Next
<1> QED
    BY <1>0, <1>2, <1>5, <1>6, <1>7 DEF Tells

\* Every step is a step of the promise, or tells callers nothing.
LEMMA PromiseStep ==
  ASSUME IInv, PInv, [Next]_vars
  PROVE  [Promise!Next]_outcome
<1>1. CASE LiveStep \/ DeadStep \/ WriteObject \/ UNCHANGED vars
    BY <1>1 DEF LiveStep, DeadStep, WriteObject, vars
<1>2. CASE FinishIssue \/ FinishCommit \/ FinishAbort
    BY <1>2, IssueKept, CommitKept, AbortKept, PromiseTerms DEF PInv, Promise!Next
<1>3. CASE FinishOpen
    BY <1>3, OpenKept
<1> QED
    BY <1>1, <1>2, <1>3, AnswerKinds DEF IInv

LEMMA PromiseInit == Init => Promise!Init
BY PromiseTerms DEF Init, Promise!Init

\* The engine implements the promise of AtomicCommit, for any number of attempts,
\* generations, objects, crashes and damaged files: attempts end once, in order,
\* and durable ones are numbered without a gap.
THEOREM PromiseImplemented == Spec => ImplementsPromise
<1>1. Init => IInv /\ PInv
    BY InitIInv, InitPInv
<1>2. (IInv /\ PInv) /\ [Next]_vars => (IInv /\ PInv)'
    BY IInvStep, PInvStep
<1>3. (IInv /\ PInv) /\ [Next]_vars => [Promise!Next]_outcome
    BY PromiseStep
<1> QED
    BY <1>1, <1>2, <1>3, PromiseInit, PTL DEF Spec, ImplementsPromise, Promise!Spec
=============================================================================
