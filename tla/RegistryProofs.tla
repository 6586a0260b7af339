---------------------------- MODULE RegistryProofs ----------------------------
(***************************************************************************)
(* Proofs about Registry, for any set of threads and any number of slots,   *)
(* pins, attempts and generations.                                          *)
(*                                                                          *)
(* The argument.  Every pin is counted (Pins), so the slot an owner was     *)
(* given stays unpinned and a pinned slot keeps its view.  At most one      *)
(* owner works at a time (Owners), and what the files authorize is the      *)
(* current record or the one that owner just published (Files); so          *)
(* reclamation, which is an owner too, deletes while no record can become   *)
(* current but the one it keeps (Kept).  A resolver's view is decided for   *)
(* every attempt but the one active when it was taken (Decided), which is   *)
(* why its answer stays true however late it is given.                      *)
(***************************************************************************)
EXTENDS Registry, FiniteSetTheorems, TLAPS

-----------------------------------------------------------------------------
(* The inductive invariant.                                                 *)

\* Stages of an admitted writer, before its slot is installed.
Unissued == {"admitted", "issuing"}
Issuing == {"issueWait", "issueLocked"}
Building == {"building"}
Committed == {"commitWait", "commitLocked"}
Aborting == {"abortWait", "abortLocked"}
Writing == Unissued \union Issuing \union Building \union Committed \union Aborting

\* Stages of an admitted reclamation.
Reclaiming == {"maintaining", "deleting", "finishWait", "finishLocked"}

Owning == Writing \union Reclaiming

\* The mutex is held by the one thread that is at a locked stage.
Mutex == \A t \in Thread : lock = t <=> pc[t] \in Locked

\* One admitted owner at a time, which the registry knows, and none once the
\* registry is unavailable.
Owners ==
  /\ \A t, u \in Thread : pc[t] \in Owning /\ pc[u] \in Owning => t = u
  /\ \A t \in Thread : pc[t] \in Owning => ~unavailable
  /\ \A t \in Thread : pc[t] \in Reclaiming => active = Maintenance
  /\ \A t \in Thread : pc[t] \in Writing =>
       /\ active.kind = "writer" /\ active.slot = view[t].slot
       /\ active.attempt = view[t].attempt
  /\ \A t \in Thread : pc[t] = "storeGeneration" => active = NoOwner
  /\ unavailable => active # NoOwner
  /\ active.kind = "writer" => active.slot \in Slot \ {current}

\* The threads that pin a slot.
Readers(s) == {t \in Thread : pc[t] = "reading" /\ view[t].slot = s}
Resolvers(s) == {t \in Thread : pc[t] = "finding" /\ view[t].slot = s}

\* Every pin is one thread's.
Pins ==
  \A s \in Slot :
    /\ IsFiniteSet(Readers(s)) /\ dataPins[s] = Cardinality(Readers(s))
    /\ IsFiniteSet(Resolvers(s)) /\ resolutionPins[s] = Cardinality(Resolvers(s))

\* The record an admitted writer works from, and the attempt it was given.
Recorded(t) ==
  /\ pc[t] \in Writing =>
       /\ view[t].rec = slots[current] /\ view[t].rec.gen < MaxSuccesses
  /\ pc[t] \in Unissued \union Issuing =>
       view[t].attempt = 0 /\ view[t].rec.issued < MaxIssued
  /\ pc[t] \in Building \union Committed =>
       view[t].attempt # 0 /\ view[t].attempt = view[t].rec.issued
  /\ pc[t] \in Aborting =>
       view[t].attempt = 0 \/ view[t].attempt = view[t].rec.issued
  /\ pc[t] = "storeGeneration" =>
       /\ slots[current] = Committing(t)
       /\ view[t].attempt # 0 /\ view[t].attempt = view[t].rec.issued
  /\ pc[t] \in {"findLocked", "finding"} => view[t].attempt # 0

Records == \A t \in Thread : Recorded(t)

\* What the files authorize: the current record, unless an owner has published
\* the next one and not settled, or failed.
Files ==
  /\ \A t \in Thread : pc[t] \in Issuing => disk = Issued(t)
  /\ \A t \in Thread : pc[t] \in Committed => disk = Committing(t)
  /\ ~unavailable =>
       \/ disk = slots[current]
       \/ \E t \in Thread : pc[t] \in Issuing \union Committed
  /\ disk.issued >= slots[current].issued /\ disk.gen >= slots[current].gen
  /\ disk.gen # 0 => disk.gen \in catalogs \intersect histories

\* The attempt an owner works on committed only if the owner published it.
Attempted(t) ==
  /\ pc[t] \in Building \union Aborting =>
       (view[t].attempt # 0 => committed[view[t].attempt] = 0)
  /\ pc[t] \in Committed \union {"storeGeneration"} =>
       committed[view[t].attempt] = Committing(t).gen

\* The attempts that committed, and when.
Commits ==
  /\ \A a \in Attempt : committed[a] # 0 =>
       /\ a <= slots[current].issued /\ committed[a] <= disk.gen
       /\ committed[a] <= slots[current].gen \/ a = active.attempt
  /\ \A t \in Thread : Attempted(t)

Viewing(t) == Reading(t) \/ Finding(t)

\* Views are earlier states of the registry, whose slots they pin.
Views ==
  \A t \in Thread : Viewing(t) =>
    /\ view[t].slot \in Slot
    /\ view[t].rec.gen = slots[view[t].slot].gen
    /\ view[t].rec.issued <= slots[current].issued
    /\ view[t].rec.gen <= slots[current].gen

\* What reclamation must keep, it keeps.
Kept ==
  \A t \in Thread : pc[t] = "deleting" =>
    /\ slots[current].gen \in keep.data \intersect keep.history
    /\ \A u \in Thread : Reading(u) => view[u].rec.gen \in keep.data
    /\ \A u \in Thread : Finding(u) => view[u].rec.gen \in keep.history

\* A resolver's view decides every attempt it covers but the active one: it is
\* listed there or will never be.
Decides(t, a) ==
  /\ committed[a] = 0 \/ committed[a] <= view[t].rec.gen
  /\ \A u \in Thread : pc[u] \in Building => view[u].attempt # a

Decided ==
  \A t \in Thread : Finding(t) =>
    \A a \in Attempt :
      a <= view[t].rec.issued /\ a # view[t].active => Decides(t, a)

\* Final answers are about issued attempts, and nobody can still change them.
Answered ==
  \A a \in Attempt :
    /\ told[a] # "nothing" => a <= slots[current].issued
    /\ told[a] = "aborted" =>
         /\ committed[a] = 0
         /\ \A t \in Thread : pc[t] \in Building => view[t].attempt # a
    /\ told[a] = "durable" => committed[a] # 0 /\ committed[a] <= slots[current].gen

\* The unlocked copy of the generation lags only inside the critical section
\* that installs a commit.
Generations ==
  (\A t \in Thread : pc[t] # "storeGeneration") => slots[current].gen <= generation

IInv ==
  /\ TypeOK /\ Mutex /\ Owners /\ Pins /\ Records /\ Files /\ Commits
  /\ Views /\ PinnedFilesExist /\ Kept /\ Decided /\ Answered
  /\ Generations /\ GenerationNotBehind /\ WriterSlotUnpinned

-----------------------------------------------------------------------------
(* The steps of Next, by what they touch.                                   *)

\* Steps that move between stages, taking or leaving the mutex, and prepare or
\* drop the view of a thread that pins nothing.
MutexStep(t) ==
  \/ BeginSnapshot(t) \/ BeginWriter(t) \/ BeginReclaim(t)
  \/ Settle(t) \/ RefuseOwner(t)
  \/ AbandonUnissued(t) \/ EnterIssue(t) \/ AppendMeetsBusyRegistry(t)
  \/ CleanedUp(t)
  \/ RefusePin(t) \/ \E a \in Attempt : BeginResolve(t, a)

PinStep(t) == PinData(t) \/ PinHistory(t)
UnpinStep(t) == DropSnapshot(t) \/ Answer(t) \/ SearchFails(t)
OwnerStep(t) ==
  \/ AdmitWriter(t) \/ AdmitMaintenance(t) \/ FinishIssue(t)
  \/ InstallCommit(t) \/ StoreGeneration(t) \/ FinishAbort(t) \/ FinishReclaim(t)
PublishStep(t) == PublishIssue(t) \/ PublishCommit(t)
FailStep(t) ==
  \/ DeclareMeetsBusyRegistry(t) \/ PublishIssueFails(t) \/ WriterFails(t)
  \/ ReclaimFails(t)
KeepStep(t) ==
  \/ CaptureViews(t) \/ DeleteCatalog(t) \/ DeleteHistory(t) \/ ReclaimEnds(t)

LEMMA StepKinds ==
  ASSUME Next
  PROVE  \/ \E t \in Thread :
              \/ MutexStep(t) \/ PinStep(t) \/ UnpinStep(t) \/ OwnerStep(t)
              \/ PublishStep(t) \/ FailStep(t) \/ KeepStep(t)
         \/ Reopen
BY DEF Next, LockedStep, ReaderStep, WriterStep, ReclaimStep, MutexStep, PinStep,
       UnpinStep, OwnerStep, PublishStep, FailStep, KeepStep

\* The other threads keep their stage and view.
OthersRest(t) ==
  \A u \in Thread \ {t} : pc'[u] = pc[u] /\ view'[u] = view[u]

\* t neither becomes nor stops being an owner or in the midst of a commit.
NoOwnerMoves(t) ==
  /\ pc[t] \notin Owning /\ pc'[t] \notin Owning
  /\ pc[t] # "storeGeneration" /\ pc'[t] # "storeGeneration"

LEMMA MutexEffect ==
  ASSUME TypeOK, NEW t \in Thread, MutexStep(t)
  PROVE  /\ OthersRest(t)
         /\ pc[t] \in Owning => view'[t] = view[t]
         /\ pc[t] \in Writing <=> pc'[t] \in Writing
         /\ pc[t] \in Reclaiming <=> pc'[t] \in Reclaiming
         /\ pc[t] \in Committed <=> pc'[t] \in Committed
         /\ pc[t] \in Issuing <=> pc'[t] \in Issuing
         /\ pc'[t] \in Unissued => pc[t] \in Unissued
         /\ pc'[t] \in Building => pc[t] \in Building
         /\ pc'[t] \in Aborting => pc[t] \in Unissued \union Building \union Aborting
         /\ pc'[t] # "deleting" /\ pc[t] # "storeGeneration"
         /\ pc'[t] # "storeGeneration"
         /\ pc'[t] = "findLocked" => view'[t].attempt # 0
         /\ ~Viewing(t) /\ ~Viewing(t)'
         /\ UNCHANGED <<stateVars, pinVars, unavailable, generation, keep,
                        fileVars, told>>
<1> USE DEF MutexStep, BeginSnapshot, BeginWriter, BeginReclaim, Enter, Settle,
            Acquire, RefuseOwner, AbandonUnissued, EnterIssue,
            AppendMeetsBusyRegistry, CleanedUp, RefusePin, BeginResolve, Goto
<1>1. OthersRest(t)
    BY DEF TypeOK, OthersRest
<1>2. pc[t] \in Owning => view'[t] = view[t]
    BY DEF TypeOK, Owning, Writing, Unissued, Issuing, Building, Committed,
           Aborting, Reclaiming
<1>3. /\ pc[t] \in Writing <=> pc'[t] \in Writing
      /\ pc[t] \in Committed <=> pc'[t] \in Committed
      /\ pc[t] \in Issuing <=> pc'[t] \in Issuing
      /\ pc'[t] \in Unissued => pc[t] \in Unissued
      /\ pc'[t] \in Building => pc[t] \in Building
      /\ pc'[t] \in Aborting => pc[t] \in Unissued \union Building \union Aborting
    BY DEF TypeOK, Writing, Unissued, Issuing, Building, Committed, Aborting
<1>4. /\ pc[t] \in Reclaiming <=> pc'[t] \in Reclaiming
      /\ pc'[t] # "deleting" /\ pc[t] # "storeGeneration"
      /\ pc'[t] # "storeGeneration"
      /\ ~Viewing(t) /\ ~Viewing(t)'
    BY DEF TypeOK, Reclaiming, Viewing, Reading, Finding
<1>5. pc'[t] = "findLocked" => view'[t].attempt # 0
    BY DEF TypeOK, Attempt, NoView
<1>6. UNCHANGED <<stateVars, pinVars, unavailable, generation, keep, fileVars,
                  told>>
    OBVIOUS
<1> QED
    BY <1>1, <1>2, <1>3, <1>4, <1>5, <1>6

LEMMA PinEffect ==
  ASSUME TypeOK, NEW t \in Thread, PinStep(t) \/ UnpinStep(t)
  PROVE  /\ OthersRest(t) /\ NoOwnerMoves(t)
         /\ UNCHANGED <<stateVars, unavailable, generation, keep, fileVars>>
<1> USE DEF PinStep, PinData, PinHistory, UnpinStep, DropSnapshot, Answer,
            SearchFails, Goto
<1>1. OthersRest(t)
    BY DEF TypeOK, OthersRest
<1>2. NoOwnerMoves(t)
    BY DEF TypeOK, NoOwnerMoves, Owning, Writing, Unissued, Issuing, Building,
           Committed, Aborting, Reclaiming
<1>3. UNCHANGED <<stateVars, unavailable, generation, keep, fileVars>>
    OBVIOUS
<1> QED
    BY <1>1, <1>2, <1>3

LEMMA OwnerEffect ==
  ASSUME TypeOK, NEW t \in Thread,
         OwnerStep(t) \/ PublishStep(t) \/ FailStep(t) \/ KeepStep(t)
  PROVE  /\ OthersRest(t)
         /\ ~Viewing(t) /\ ~Viewing(t)'
         /\ UNCHANGED pinVars
<1> USE DEF OwnerStep, AdmitWriter, AdmitMaintenance, FinishIssue, InstallCommit,
            StoreGeneration, FinishAbort, FinishReclaim, PublishStep,
            PublishIssue, PublishCommit, FailStep, DeclareMeetsBusyRegistry,
            PublishIssueFails, WriterFails, ReclaimFails, Disable, KeepStep,
            CaptureViews, DeleteCatalog, DeleteHistory, ReclaimEnds, Goto
<1>1. OthersRest(t)
    BY DEF TypeOK, OthersRest
<1>2. ~Viewing(t) /\ ~Viewing(t)'
    BY DEF TypeOK, Viewing, Reading, Finding
<1>3. UNCHANGED pinVars
    OBVIOUS
<1> QED
    BY <1>1, <1>2, <1>3

LEMMA MutexInvariant ==
  ASSUME TypeOK, Mutex, Next
  PROVE  Mutex'
<1> USE RegistryAssumption DEF TypeOK, Mutex, Goto, Locked
<1>1. ASSUME NEW t \in Thread, MutexStep(t) PROVE Mutex'
    BY <1>1 DEF MutexStep, BeginSnapshot, BeginWriter, BeginReclaim, Enter,
                Settle, Acquire, RefuseOwner, AbandonUnissued, EnterIssue,
                AppendMeetsBusyRegistry, CleanedUp, RefusePin, BeginResolve
<1>2. ASSUME NEW t \in Thread, PinStep(t) PROVE Mutex'
    BY <1>2 DEF PinStep, PinData, PinHistory
<1>3. ASSUME NEW t \in Thread, UnpinStep(t) PROVE Mutex'
    BY <1>3 DEF UnpinStep, DropSnapshot, Answer, SearchFails
<1>4. ASSUME NEW t \in Thread, OwnerStep(t) PROVE Mutex'
    BY <1>4 DEF OwnerStep, AdmitWriter, AdmitMaintenance, FinishIssue,
                InstallCommit, StoreGeneration, FinishAbort, FinishReclaim
<1>5. ASSUME NEW t \in Thread, PublishStep(t) PROVE Mutex'
    BY <1>5 DEF PublishStep, PublishIssue, PublishCommit, InstallFiles
<1>6. ASSUME NEW t \in Thread, FailStep(t) PROVE Mutex'
    BY <1>6 DEF FailStep, DeclareMeetsBusyRegistry, PublishIssueFails,
                WriterFails, ReclaimFails, InstallFiles, Disable
<1>7. ASSUME NEW t \in Thread, KeepStep(t) PROVE Mutex'
    BY <1>7 DEF KeepStep, CaptureViews, DeleteCatalog, DeleteHistory,
                ReclaimEnds
<1>8. CASE Reopen
    BY <1>8 DEF Reopen
<1> QED
    BY <1>1, <1>2, <1>3, <1>4, <1>5, <1>6, <1>7, <1>8, StepKinds

-----------------------------------------------------------------------------
(* Types.                                                                   *)

\* The records an owner may publish stay within the limits of admission.
LEMMA NextRecords ==
  ASSUME TypeOK, Records, NEW t \in Thread
  PROVE  /\ pc[t] \in Unissued \union Issuing =>
              Issued(t) \in Record /\ Issued(t).issued \in Attempt
         /\ pc[t] \in Writing =>
              Committing(t) \in Record /\ Committing(t).gen \in Generation \ {0}
<1> USE RegistryAssumption
<1>1. view[t] \in View /\ view[t].rec \in Record
    BY DEF TypeOK, View
<1>2. ASSUME pc[t] \in Unissued \union Issuing
      PROVE  Issued(t) \in Record /\ Issued(t).issued \in Attempt
  <2>1. view[t].rec.issued + 1 \in Attempt
      BY <1>1, <1>2 DEF Records, Recorded, Record, Attempt
  <2> QED
      BY <1>1, <2>1 DEF Record, Issued, Attempt
<1>3. ASSUME pc[t] \in Writing
      PROVE  Committing(t) \in Record /\ Committing(t).gen \in Generation \ {0}
  <2>1. view[t].rec.gen + 1 \in Generation \ {0}
      BY <1>1, <1>3 DEF Records, Recorded, Record, Generation
  <2> QED
      BY <1>1, <2>1 DEF Record, Committing, Generation
<1> QED
    BY <1>2, <1>3

\* What a thread captures has its type.
LEMMA Captured ==
  ASSUME NEW v \in View
  PROVE  /\ \A a \in 0 .. MaxIssued : [v EXCEPT !.attempt = a] \in View
         /\ \A r \in Record, a \in 0 .. MaxIssued :
              [v EXCEPT !.rec = r, !.attempt = a] \in View
         /\ \A s \in 0 .. Slots, r \in Record :
              [v EXCEPT !.slot = s, !.rec = r] \in View
         /\ \A s \in 0 .. Slots, r \in Record, a \in 0 .. MaxIssued :
              [v EXCEPT !.slot = s, !.rec = r, !.active = a] \in View
BY DEF View

LEMMA ViewTypes ==
  ASSUME TypeOK, Records, Next
  PROVE  view' \in [Thread -> View]
<1> USE RegistryAssumption
<1>1. NoView \in View
    BY DEF NoView, View, Record, Generation
<1>2. ASSUME NEW t \in Thread,
             MutexStep(t) \/ UnpinStep(t) \/ PublishStep(t) \/ FailStep(t)
               \/ KeepStep(t)
      PROVE  view' \in [Thread -> View]
  <2>1. CASE \E a \in Attempt : BeginResolve(t, a)
    <3>1. PICK a \in Attempt : BeginResolve(t, a)
        BY <2>1
    <3>2. a \in 0 .. MaxIssued
        BY DEF Attempt
    <3>3. [NoView EXCEPT !.attempt = a] \in View
        BY <1>1, <3>2, Captured, Zenon
    <3>4. \E v \in View : view' = [view EXCEPT ![t] = v]
        BY <3>1, <3>3, Zenon DEF BeginResolve
    <3> QED
        BY <3>4 DEF TypeOK
  <2>2. CASE ~\E a \in Attempt : BeginResolve(t, a)
      BY <1>1, <1>2, <2>2
      DEF MutexStep, BeginSnapshot, BeginWriter, BeginReclaim, Enter, Settle,
          Acquire, RefuseOwner, AbandonUnissued, EnterIssue,
          AppendMeetsBusyRegistry, CleanedUp, RefusePin, UnpinStep,
          DropSnapshot, Answer, SearchFails, PublishStep, PublishIssue,
          PublishCommit, FailStep, DeclareMeetsBusyRegistry, PublishIssueFails,
          WriterFails, ReclaimFails, Disable, KeepStep, CaptureViews,
          DeleteCatalog, DeleteHistory, ReclaimEnds, TypeOK
  <2> QED
      BY <2>1, <2>2
<1>3. ASSUME NEW t \in Thread, PinStep(t) \/ OwnerStep(t)
      PROVE  view' \in [Thread -> View]
  <2>1. current \in 0 .. Slots /\ slots[current] \in Record
      BY DEF TypeOK, Slot
  <2>2. CASE PinData(t)
    <3>1. [NoView EXCEPT !.slot = current, !.rec = slots[current]] \in View
        BY <1>1, <2>1, Captured, Zenon
    <3>2. \E v \in View : view' = [view EXCEPT ![t] = v]
        BY <2>2, <3>1, Zenon DEF PinData
    <3> QED
        BY <3>2 DEF TypeOK
  <2>3. CASE PinHistory(t)
    <3>1. view[t] \in View /\ CaptureActive \in 0 .. MaxIssued
        BY DEF TypeOK, CaptureActive
    <3>2. [view[t] EXCEPT !.slot = current, !.rec = slots[current],
                          !.active = CaptureActive] \in View
        BY <2>1, <3>1, Captured
    <3> QED
        BY <2>3, <3>2 DEF PinHistory, TypeOK
  <2>4. CASE AdmitWriter(t)
    <3>1. PICK s \in Spare :
            view' = [view EXCEPT ![t] = [NoView EXCEPT !.slot = s,
                                                       !.rec = slots[current]]]
        BY <2>4 DEF AdmitWriter
    <3>2. s \in 0 .. Slots
        BY DEF Spare, Slot
    <3>3. [NoView EXCEPT !.slot = s, !.rec = slots[current]] \in View
        BY <1>1, <2>1, <3>2, Captured, Zenon
    <3>4. \E v \in View : view' = [view EXCEPT ![t] = v]
        BY <3>1, <3>3, Zenon
    <3> QED
        BY <3>4 DEF TypeOK
  <2>5. CASE FinishIssue(t)
    <3>1. Issued(t) \in Record /\ Issued(t).issued \in 0 .. MaxIssued
        BY <2>5, NextRecords DEF FinishIssue, Goto, Issuing, TypeOK, Attempt
    <3>2. [view[t] EXCEPT !.rec = Issued(t), !.attempt = Issued(t).issued] \in View
        BY <3>1, Captured DEF TypeOK
    <3> QED
        BY <2>5, <3>2 DEF FinishIssue, TypeOK
  <2>6. CASE \/ AdmitMaintenance(t) \/ InstallCommit(t) \/ StoreGeneration(t)
             \/ FinishAbort(t) \/ FinishReclaim(t)
      BY <1>1, <2>6 DEF AdmitMaintenance, InstallCommit, StoreGeneration,
                        FinishAbort, FinishReclaim, TypeOK
  <2> QED
      BY <1>3, <2>2, <2>3, <2>4, <2>5, <2>6 DEF PinStep, OwnerStep
<1>4. CASE Reopen
    BY <1>4 DEF Reopen, TypeOK
<1> QED
    BY <1>2, <1>3, <1>4, StepKinds

LEMMA StageTypes ==
  ASSUME TypeOK, Mutex, Next
  PROVE  lock' \in Thread \union {Free} /\ pc' \in [Thread -> PC]
<1> USE DEF TypeOK, Goto, PC, Locked
<1>1. ASSUME NEW t \in Thread, MutexStep(t)
      PROVE  lock' \in Thread \union {Free} /\ pc' \in [Thread -> PC]
    BY <1>1 DEF MutexStep, BeginSnapshot, BeginWriter, BeginReclaim, Enter,
                Settle, Acquire, RefuseOwner, AbandonUnissued, EnterIssue,
                AppendMeetsBusyRegistry, CleanedUp, RefusePin, BeginResolve
<1>2. ASSUME NEW t \in Thread, PinStep(t) \/ UnpinStep(t)
      PROVE  lock' \in Thread \union {Free} /\ pc' \in [Thread -> PC]
    BY <1>2 DEF PinStep, PinData, PinHistory, UnpinStep, DropSnapshot, Answer,
                SearchFails
<1>3. ASSUME NEW t \in Thread, OwnerStep(t)
      PROVE  lock' \in Thread \union {Free} /\ pc' \in [Thread -> PC]
    BY <1>3 DEF OwnerStep, AdmitWriter, AdmitMaintenance, FinishIssue,
                InstallCommit, StoreGeneration, FinishAbort, FinishReclaim
<1>4. ASSUME NEW t \in Thread, PublishStep(t) \/ FailStep(t) \/ KeepStep(t)
      PROVE  lock' \in Thread \union {Free} /\ pc' \in [Thread -> PC]
    BY <1>4 DEF PublishStep, PublishIssue, PublishCommit, FailStep,
                DeclareMeetsBusyRegistry, PublishIssueFails, WriterFails,
                ReclaimFails, Disable, KeepStep, CaptureViews, DeleteCatalog,
                DeleteHistory, ReclaimEnds
<1>5. CASE Reopen
    BY <1>5 DEF Reopen
<1> QED
    BY <1>1, <1>2, <1>3, <1>4, <1>5, StepKinds

\* A thread's pin is counted in its slot.
LEMMA PinCounted ==
  ASSUME TypeOK, Pins, Views, NEW t \in Thread
  PROVE  /\ Reading(t) => dataPins[view[t].slot] \in 1 .. MaxPins
         /\ Finding(t) => resolutionPins[view[t].slot] \in 1 .. MaxPins
<1>1. ASSUME Reading(t)
      PROVE  dataPins[view[t].slot] \in 1 .. MaxPins
  <2>1. view[t].slot \in Slot
      BY <1>1 DEF Views, Viewing
  <2>2. t \in Readers(view[t].slot)
      BY <1>1 DEF Readers, Reading
  <2>3. Cardinality(Readers(view[t].slot)) # 0
      BY <2>1, <2>2, FS_EmptySet DEF Pins
  <2> QED
      BY <2>1, <2>3, RegistryAssumption DEF Pins, TypeOK
<1>2. ASSUME Finding(t)
      PROVE  resolutionPins[view[t].slot] \in 1 .. MaxPins
  <2>1. view[t].slot \in Slot
      BY <1>2 DEF Views, Viewing
  <2>2. t \in Resolvers(view[t].slot)
      BY <1>2 DEF Resolvers, Finding
  <2>3. Cardinality(Resolvers(view[t].slot)) # 0
      BY <2>1, <2>2, FS_EmptySet DEF Pins
  <2> QED
      BY <2>1, <2>3, RegistryAssumption DEF Pins, TypeOK
<1> QED
    BY <1>1, <1>2

LEMMA PinTypes ==
  ASSUME TypeOK, Pins, Views, Next
  PROVE  /\ dataPins' \in [Slot -> 0 .. MaxPins]
         /\ resolutionPins' \in [Slot -> 0 .. MaxPins]
<1> USE RegistryAssumption
<1>1. ASSUME NEW t \in Thread, PinData(t)
      PROVE  dataPins' \in [Slot -> 0 .. MaxPins] /\ UNCHANGED resolutionPins
  <2>1. dataPins[current] + 1 \in 0 .. MaxPins
      BY <1>1 DEF PinData, TypeOK
  <2> QED
      BY <1>1, <2>1 DEF PinData, TypeOK
<1>2. ASSUME NEW t \in Thread, PinHistory(t)
      PROVE  resolutionPins' \in [Slot -> 0 .. MaxPins] /\ UNCHANGED dataPins
  <2>1. resolutionPins[current] + 1 \in 0 .. MaxPins
      BY <1>2 DEF PinHistory, TypeOK
  <2> QED
      BY <1>2, <2>1 DEF PinHistory, TypeOK
<1>3. ASSUME NEW t \in Thread, DropSnapshot(t)
      PROVE  dataPins' \in [Slot -> 0 .. MaxPins] /\ UNCHANGED resolutionPins
  <2>1. dataPins[view[t].slot] - 1 \in 0 .. MaxPins
      BY <1>3, PinCounted DEF DropSnapshot, Goto, Reading
  <2> QED
      BY <1>3, <2>1 DEF DropSnapshot, TypeOK
<1>4. ASSUME NEW t \in Thread, Answer(t) \/ SearchFails(t)
      PROVE  resolutionPins' \in [Slot -> 0 .. MaxPins] /\ UNCHANGED dataPins
  <2>1. resolutionPins[view[t].slot] - 1 \in 0 .. MaxPins
      BY <1>4, PinCounted DEF Answer, SearchFails, Goto, Finding
  <2> QED
      BY <1>4, <2>1 DEF Answer, SearchFails, TypeOK
<1>5. CASE Reopen
    BY <1>5 DEF Reopen
<1>6. ASSUME NEW t \in Thread,
             MutexStep(t) \/ OwnerStep(t) \/ PublishStep(t) \/ FailStep(t) \/ KeepStep(t)
      PROVE  UNCHANGED <<dataPins, resolutionPins>>
    BY <1>6, MutexEffect, OwnerEffect DEF pinVars
<1> QED
    BY <1>1, <1>2, <1>3, <1>4, <1>5, <1>6, StepKinds DEF PinStep, UnpinStep, TypeOK

LEMMA RegistryTypes ==
  ASSUME TypeOK, Owners, Records, Next
  PROVE  /\ current' \in Slot /\ slots' \in [Slot -> Record]
         /\ active' \in [kind : {"none", "writer", "maintenance"},
                         slot : 0 .. Slots, attempt : 0 .. MaxIssued]
         /\ unavailable' \in BOOLEAN /\ generation' \in Generation
<1> DEFINE Goal == /\ current' \in Slot /\ slots' \in [Slot -> Record]
                   /\ active' \in [kind : {"none", "writer", "maintenance"},
                                   slot : 0 .. Slots, attempt : 0 .. MaxIssued]
                   /\ unavailable' \in BOOLEAN /\ generation' \in Generation
<1> USE RegistryAssumption
<1>1. ASSUME NEW t \in Thread, MutexStep(t) \/ PinStep(t) \/ UnpinStep(t)
      PROVE  Goal
    BY <1>1, MutexEffect, PinEffect DEF stateVars, TypeOK
<1>2. ASSUME NEW t \in Thread, PublishStep(t) \/ FailStep(t) \/ KeepStep(t)
      PROVE  Goal
    BY <1>2 DEF PublishStep, PublishIssue, PublishCommit, FailStep,
                DeclareMeetsBusyRegistry, PublishIssueFails, WriterFails,
                ReclaimFails, Disable, KeepStep, CaptureViews, DeleteCatalog,
                DeleteHistory, ReclaimEnds, stateVars, TypeOK
<1>3. ASSUME NEW t \in Thread, OwnerStep(t)
      PROVE  Goal
  <2>1. CASE AdmitWriter(t)
    <3>1. PICK s \in Slot : active' = WriterAt(s)
        BY <2>1 DEF AdmitWriter, Spare
    <3> QED
        BY <2>1, <3>1 DEF AdmitWriter, WriterAt, Slot, TypeOK
  <2>2. CASE AdmitMaintenance(t)
      BY <2>2 DEF AdmitMaintenance, Maintenance, TypeOK
  <2>3. CASE FinishIssue(t)
    <3>1. Issued(t) \in Record /\ Issued(t).issued \in 0 .. MaxIssued
        BY <2>3, NextRecords DEF FinishIssue, Goto, Issuing, Attempt
    <3> QED
        BY <2>3, <3>1 DEF FinishIssue, TypeOK
  <2>4. CASE InstallCommit(t)
    <3>1. Committing(t) \in Record /\ active.slot \in Slot
        BY <2>4, NextRecords DEF InstallCommit, Goto, Writing, Committed, Owners
    <3> QED
        BY <2>4, <3>1 DEF InstallCommit, NoOwner, TypeOK
  <2>5. CASE StoreGeneration(t)
    <3>1. Committing(t).gen \in Generation
        BY <2>5 DEF StoreGeneration, Goto, Records, Recorded, TypeOK, Record
    <3> QED
        BY <2>5, <3>1 DEF StoreGeneration, stateVars, TypeOK
  <2>6. CASE FinishAbort(t) \/ FinishReclaim(t)
      BY <2>6 DEF FinishAbort, FinishReclaim, NoOwner, TypeOK
  <2> QED
      BY <1>3, <2>1, <2>2, <2>3, <2>4, <2>5, <2>6 DEF OwnerStep
<1>4. CASE Reopen
  <2>1. disk \in Record /\ disk.gen \in Generation /\ 1 \in Slot
      BY DEF TypeOK, Record, Slot
  <2>2. NoOwner \in [kind : {"none", "writer", "maintenance"}, slot : 0 .. Slots,
                     attempt : 0 .. MaxIssued]
      BY DEF NoOwner
  <2> QED
      BY <1>4, <2>1, <2>2 DEF Reopen
<1> QED
    BY <1>1, <1>2, <1>3, <1>4, StepKinds

LEMMA FileTypes ==
  ASSUME TypeOK, Records, Next
  PROVE  /\ keep'.data \subseteq Generation /\ keep'.history \subseteq Generation
         /\ disk' \in Record /\ committed' \in [Attempt -> Generation]
         /\ catalogs' \subseteq Generation /\ histories' \subseteq Generation
<1> DEFINE Goal ==
      /\ keep'.data \subseteq Generation /\ keep'.history \subseteq Generation
      /\ disk' \in Record /\ committed' \in [Attempt -> Generation]
      /\ catalogs' \subseteq Generation /\ histories' \subseteq Generation
<1>1. ASSUME NEW t \in Thread, MutexStep(t) \/ PinStep(t) \/ UnpinStep(t)
      PROVE  Goal
    BY <1>1, MutexEffect, PinEffect DEF fileVars, TypeOK
<1>2. ASSUME NEW t \in Thread, InstallFiles(t), pc[t] = "building"
      PROVE  /\ disk' \in Record /\ committed' \in [Attempt -> Generation]
             /\ catalogs' \subseteq Generation /\ histories' \subseteq Generation
  <2>1. Committing(t) \in Record /\ Committing(t).gen \in Generation
      BY <1>2, NextRecords DEF Writing, Building
  <2> QED
      BY <1>2, <2>1 DEF InstallFiles, TypeOK
<1>3. ASSUME NEW t \in Thread, PublishStep(t) \/ FailStep(t)
      PROVE  Goal
  <2>1. CASE PublishIssue(t) \/ PublishIssueFails(t)
    <3>1. Issued(t) \in Record
        BY <2>1, NextRecords DEF PublishIssue, PublishIssueFails, Goto, Unissued
    <3> QED
        BY <2>1, <3>1 DEF PublishIssue, PublishIssueFails, Disable, NothingKept,
                          TypeOK
  <2>2. CASE PublishCommit(t)
      BY <1>2, <2>2 DEF PublishCommit, Goto, TypeOK
  <2>3. CASE WriterFails(t)
      BY <1>2, <2>3 DEF WriterFails, Disable, NothingKept, fileVars, TypeOK
  <2>4. CASE DeclareMeetsBusyRegistry(t) \/ ReclaimFails(t)
      BY <2>4 DEF DeclareMeetsBusyRegistry, ReclaimFails, Disable, NothingKept,
                  fileVars, TypeOK
  <2> QED
      BY <1>3, <2>1, <2>2, <2>3, <2>4 DEF PublishStep, FailStep
<1>4. ASSUME NEW t \in Thread, KeepStep(t)
      PROVE  Goal
  <2>1. ReachableData \subseteq Generation /\ ReachableHistory \subseteq Generation
      BY DEF ReachableData, ReachableHistory, TypeOK, Record
  <2> QED
      BY <1>4, <2>1 DEF KeepStep, CaptureViews, DeleteCatalog, DeleteHistory,
                        ReclaimEnds, NothingKept, fileVars, TypeOK
<1>5. ASSUME NEW t \in Thread, OwnerStep(t)
      PROVE  Goal
    BY <1>5 DEF OwnerStep, AdmitWriter, AdmitMaintenance, FinishIssue,
                InstallCommit, StoreGeneration, FinishAbort, FinishReclaim,
                fileVars, TypeOK
<1>6. CASE Reopen
    BY <1>6 DEF Reopen, fileVars, TypeOK
<1> QED
    BY <1>1, <1>3, <1>4, <1>5, <1>6, StepKinds

LEMMA AnswerTypes ==
  ASSUME TypeOK, Records, Next
  PROVE  told' \in [Attempt -> {"nothing", "aborted", "durable"}]
<1>1. ASSUME NEW t \in Thread, Answer(t) \/ StoreGeneration(t) \/ FinishAbort(t)
      PROVE  told' \in [Attempt -> {"nothing", "aborted", "durable"}]
    BY <1>1 DEF Answer, StoreGeneration, FinishAbort, TypeOK
<1>2. ASSUME Next, \A t \in Thread : ~(Answer(t) \/ StoreGeneration(t) \/ FinishAbort(t))
      PROVE  told' = told
    BY <1>2, StepKinds
    DEF MutexStep, BeginSnapshot, BeginWriter, BeginReclaim, Enter, Settle,
        Acquire, RefuseOwner, AbandonUnissued, EnterIssue,
        AppendMeetsBusyRegistry, CleanedUp, RefusePin, BeginResolve, PinStep,
        PinData, PinHistory, UnpinStep, DropSnapshot, SearchFails, OwnerStep,
        AdmitWriter, AdmitMaintenance, FinishIssue, InstallCommit,
        FinishReclaim, PublishStep, PublishIssue, PublishCommit, FailStep,
        DeclareMeetsBusyRegistry, PublishIssueFails, WriterFails, ReclaimFails,
        Disable, KeepStep, CaptureViews, DeleteCatalog, DeleteHistory,
        ReclaimEnds, Reopen
<1> QED
    BY <1>1, <1>2 DEF TypeOK

LEMMA TypeStep ==
  ASSUME TypeOK, Mutex, Owners, Pins, Records, Views, Next
  PROVE  TypeOK'
BY StageTypes, ViewTypes, PinTypes, RegistryTypes, FileTypes, AnswerTypes DEF TypeOK

-----------------------------------------------------------------------------
(* Owners.                                                                  *)

\* Somebody owns the registry only if it knows.
LEMMA Unowned ==
  ASSUME Owners, active = NoOwner
  PROVE  \A u \in Thread : pc[u] \notin Owning
BY DEF Owners, Owning, NoOwner, Maintenance

LEMMA OwnersStep ==
  ASSUME TypeOK, Mutex, Owners, WriterSlotUnpinned, Next
  PROVE  Owners'
<1>1. ASSUME NEW t \in Thread, MutexStep(t) PROVE Owners'
    BY <1>1, MutexEffect DEF Owners, Owning, OthersRest, stateVars
<1>2. ASSUME NEW t \in Thread, PinStep(t) \/ UnpinStep(t) PROVE Owners'
    BY <1>2, PinEffect DEF Owners, Owning, OthersRest, NoOwnerMoves, stateVars
<1>3. ASSUME NEW t \in Thread, OwnerStep(t) PROVE Owners'
  <2>0. OthersRest(t)
      BY <1>3, OwnerEffect
  <2> USE DEF Goto, OthersRest
  <2>1. CASE AdmitWriter(t)
    <3>1. /\ \A u \in Thread : pc[u] \notin Owning
          /\ \A u \in Thread \ {t} : pc'[u] \notin Owning
          /\ ~unavailable
        BY <2>0, <2>1, Unowned DEF AdmitWriter, Owners
    <3>2. \A u \in Thread : pc'[u] # "storeGeneration"
        BY <2>0, <2>1 DEF AdmitWriter, Mutex, Locked, TypeOK
    <3>3. /\ pc'[t] \in Owning \ Reclaiming
          /\ \E s \in Slot \ {current} :
               active' = WriterAt(s) /\ view'[t].slot = s /\ view'[t].attempt = 0
        BY <2>1 DEF AdmitWriter, Spare, NoView, Owning, Writing, Unissued,
                    Reclaiming, TypeOK
    <3> QED
        BY <2>1, <3>1, <3>2, <3>3 DEF AdmitWriter, Owners, WriterAt, NoOwner, Owning
  <2>2. CASE AdmitMaintenance(t)
    <3>1. /\ \A u \in Thread : pc[u] \notin Owning
          /\ \A u \in Thread \ {t} : pc'[u] \notin Owning
          /\ ~unavailable
        BY <2>0, <2>2, Unowned DEF AdmitMaintenance, Owners
    <3>2. \A u \in Thread : pc'[u] # "storeGeneration"
        BY <2>0, <2>2 DEF AdmitMaintenance, Mutex, Locked, TypeOK
    <3>3. pc'[t] \in Owning \ Writing
        BY <2>2 DEF AdmitMaintenance, Owning, Writing, Unissued, Issuing, Building,
                    Committed, Aborting, Reclaiming, TypeOK
    <3> QED
        BY <2>2, <3>1, <3>2, <3>3 DEF AdmitMaintenance, Owners, Maintenance, NoOwner,
                                      Owning
  <2>3. CASE FinishIssue(t)
    <3>1. pc[t] \in Writing /\ pc'[t] \in Writing \ Reclaiming
        BY <2>3 DEF FinishIssue, Writing, Issuing, Building, Reclaiming, TypeOK
    <3>2. \A u \in Thread : pc'[u] # "storeGeneration"
        BY <2>0, <2>3 DEF FinishIssue, Mutex, Locked, TypeOK
    <3>3. /\ active'.kind = active.kind /\ active'.slot = active.slot
          /\ active'.attempt = Issued(t).issued
          /\ view'[t].slot = view[t].slot /\ view'[t].attempt = Issued(t).issued
        BY <2>3 DEF FinishIssue, TypeOK, View
    <3> QED
        BY <2>0, <2>3, <3>1, <3>2, <3>3 DEF FinishIssue, Owners, Owning, NoOwner
  <2>4. CASE InstallCommit(t)
    <3>1. pc[t] \in Owning /\ pc'[t] \notin Owning
        BY <2>4 DEF InstallCommit, Owning, Writing, Unissued, Issuing, Building,
                    Committed, Aborting, Reclaiming, TypeOK
    <3>2. \A u \in Thread : pc'[u] \notin Owning
        BY <2>0, <3>1 DEF Owners
    <3> QED
        BY <2>4, <3>1, <3>2 DEF InstallCommit, Owners, Owning, NoOwner
  <2>5. CASE StoreGeneration(t)
    <3>1. pc'[t] \notin Owning /\ pc'[t] # "storeGeneration"
        BY <2>5 DEF StoreGeneration, Owning, Writing, Unissued, Issuing, Building,
                    Committed, Aborting, Reclaiming, TypeOK
    <3> QED
        BY <2>0, <2>5, <3>1 DEF StoreGeneration, Owners, Owning, stateVars
  <2>6. CASE FinishAbort(t) \/ FinishReclaim(t)
    <3>1. /\ pc[t] \in Owning /\ pc'[t] \notin Owning
          /\ pc'[t] # "storeGeneration"
        BY <2>6 DEF FinishAbort, FinishReclaim, Owning, Writing, Unissued, Issuing,
                    Building, Committed, Aborting, Reclaiming, TypeOK
    <3>2. \A u \in Thread : pc'[u] \notin Owning
        BY <2>0, <3>1 DEF Owners
    <3> QED
        BY <2>6, <3>1, <3>2 DEF FinishAbort, FinishReclaim, Owners, Owning, NoOwner
  <2> QED
      BY <1>3, <2>1, <2>2, <2>3, <2>4, <2>5, <2>6 DEF OwnerStep
<1>4. ASSUME NEW t \in Thread, PublishStep(t) \/ KeepStep(t) PROVE Owners'
    BY <1>4, OwnerEffect
    DEF PublishStep, PublishIssue, PublishCommit, KeepStep, CaptureViews,
        DeleteCatalog, DeleteHistory, ReclaimEnds, Goto, Owners, OthersRest,
        Owning, Writing, Unissued, Issuing, Building, Committed, Aborting,
        Reclaiming, stateVars, TypeOK
<1>5. ASSUME NEW t \in Thread, FailStep(t) PROVE Owners'
  <2>1. /\ pc[t] \in Owning /\ pc'[t] = "idle" /\ OthersRest(t)
        /\ UNCHANGED stateVars
      BY <1>5, OwnerEffect
      DEF FailStep, DeclareMeetsBusyRegistry, PublishIssueFails, WriterFails,
          ReclaimFails, Disable, Owning, Writing, Unissued, Building, Reclaiming,
          TypeOK
  <2>2. pc'[t] \notin Owning
      BY <2>1 DEF Owning, Writing, Unissued, Issuing, Building, Committed,
                  Aborting, Reclaiming
  <2>3. \A u \in Thread : pc'[u] \notin Owning
      BY <2>1, <2>2 DEF Owners, OthersRest
  <2>4. active # NoOwner
      BY <2>1, Unowned
  <2> QED
      BY <2>1, <2>3, <2>4 DEF Owners, Owning, OthersRest, stateVars
<1>6. CASE Reopen
    BY <1>6 DEF Reopen, Owners, Owning, Writing, Unissued, Issuing, Building,
                Committed, Aborting, Reclaiming, NoOwner
<1> QED
    BY <1>1, <1>2, <1>3, <1>4, <1>5, <1>6, StepKinds

-----------------------------------------------------------------------------
(* Pins.                                                                    *)

\* A step of a thread that pins nothing, before or after, pins nothing.
LEMMA SamePins ==
  ASSUME Pins, NEW t \in Thread, OthersRest(t), ~Viewing(t), ~Viewing(t)',
         UNCHANGED pinVars
  PROVE  Pins'
<1>1. \A s \in Slot : Readers(s)' = Readers(s) /\ Resolvers(s)' = Resolvers(s)
    BY DEF Readers, Resolvers, OthersRest, Viewing, Reading, Finding
<1> QED
    BY <1>1 DEF Pins, pinVars

LEMMA PinsStep ==
  ASSUME TypeOK, Pins, Views, Next
  PROVE  Pins'
<1>1. ASSUME NEW t \in Thread,
             MutexStep(t) \/ OwnerStep(t) \/ PublishStep(t) \/ FailStep(t) \/ KeepStep(t)
      PROVE  Pins'
    BY <1>1, MutexEffect, OwnerEffect, SamePins
<1>2. ASSUME NEW t \in Thread, PinData(t) PROVE Pins'
  <2>1. \A s \in Slot :
          /\ Resolvers(s)' = Resolvers(s)
          /\ Readers(s)' = IF s = current THEN Readers(s) \union {t} ELSE Readers(s)
      BY <1>2 DEF PinData, Goto, Readers, Resolvers, TypeOK, View
  <2>2. t \notin Readers(current)
      BY <1>2 DEF PinData, Goto, Readers
  <2>3. /\ dataPins' = [dataPins EXCEPT ![current] = @ + 1]
        /\ resolutionPins' = resolutionPins
      BY <1>2 DEF PinData
  <2>4. IsFiniteSet(Readers(current)) /\ dataPins[current] = Cardinality(Readers(current))
      BY DEF Pins, TypeOK
  <2>5. /\ IsFiniteSet(Readers(current) \union {t})
        /\ Cardinality(Readers(current) \union {t}) = dataPins[current] + 1
      BY <2>2, <2>4, FS_AddElement
  <2> QED
      BY <2>1, <2>3, <2>5 DEF Pins, TypeOK
<1>3. ASSUME NEW t \in Thread, PinHistory(t) PROVE Pins'
  <2>1. \A s \in Slot :
          /\ Readers(s)' = Readers(s)
          /\ Resolvers(s)' = IF s = current THEN Resolvers(s) \union {t} ELSE Resolvers(s)
      BY <1>3 DEF PinHistory, Goto, Readers, Resolvers, TypeOK, View
  <2>2. t \notin Resolvers(current)
      BY <1>3 DEF PinHistory, Goto, Resolvers
  <2>3. /\ resolutionPins' = [resolutionPins EXCEPT ![current] = @ + 1]
        /\ dataPins' = dataPins
      BY <1>3 DEF PinHistory
  <2>4. IsFiniteSet(Resolvers(current)) /\ resolutionPins[current] = Cardinality(Resolvers(current))
      BY DEF Pins, TypeOK
  <2>5. /\ IsFiniteSet(Resolvers(current) \union {t})
        /\ Cardinality(Resolvers(current) \union {t}) = resolutionPins[current] + 1
      BY <2>2, <2>4, FS_AddElement
  <2> QED
      BY <2>1, <2>3, <2>5 DEF Pins, TypeOK
<1>4. ASSUME NEW t \in Thread, DropSnapshot(t) PROVE Pins'
  <2>1. \A s \in Slot :
          /\ Resolvers(s)' = Resolvers(s)
          /\ Readers(s)' = IF s = view[t].slot THEN Readers(s) \ {t} ELSE Readers(s)
      BY <1>4 DEF DropSnapshot, Goto, Readers, Resolvers, TypeOK, View
  <2>2. view[t].slot \in Slot /\ t \in Readers(view[t].slot)
      BY <1>4 DEF DropSnapshot, Goto, Readers, Views, Viewing, Reading
  <2>3. /\ dataPins' = [dataPins EXCEPT ![view[t].slot] = @ - 1]
        /\ resolutionPins' = resolutionPins
      BY <1>4 DEF DropSnapshot
  <2> QED
      BY <2>1, <2>2, <2>3, FS_RemoveElement DEF Pins, TypeOK
<1>5. ASSUME NEW t \in Thread, Answer(t) \/ SearchFails(t) PROVE Pins'
  <2>1. \A s \in Slot :
          /\ Readers(s)' = Readers(s)
          /\ Resolvers(s)' = IF s = view[t].slot THEN Resolvers(s) \ {t}
                             ELSE Resolvers(s)
      BY <1>5 DEF Answer, SearchFails, Goto, Readers, Resolvers, TypeOK, View
  <2>2. view[t].slot \in Slot /\ t \in Resolvers(view[t].slot)
      BY <1>5 DEF Answer, SearchFails, Goto, Resolvers, Views, Viewing, Finding
  <2>3. /\ resolutionPins' = [resolutionPins EXCEPT ![view[t].slot] = @ - 1]
        /\ dataPins' = dataPins
      BY <1>5 DEF Answer, SearchFails
  <2> QED
      BY <2>1, <2>2, <2>3, FS_RemoveElement DEF Pins, TypeOK
<1>6. CASE Reopen
  <2>1. \A s \in Slot : Readers(s)' = {} /\ Resolvers(s)' = {}
      BY <1>6 DEF Reopen, Readers, Resolvers
  <2> QED
      BY <1>6, <2>1, FS_EmptySet DEF Reopen, Pins
<1> QED
    BY <1>1, <1>2, <1>3, <1>4, <1>5, <1>6, StepKinds DEF PinStep, UnpinStep

\* A slot without pins is nobody's view.
LEMMA Unpinned ==
  ASSUME TypeOK, Pins, NEW s \in Slot, dataPins[s] = 0, resolutionPins[s] = 0
  PROVE  \A t \in Thread : Viewing(t) => view[t].slot # s
<1>1. Readers(s) = {} /\ Resolvers(s) = {}
    BY FS_EmptySet DEF Pins
<1> QED
    BY <1>1 DEF Readers, Resolvers, Viewing, Reading, Finding

LEMMA WriterSlotStep ==
  ASSUME TypeOK, Owners, Pins, Views, WriterSlotUnpinned, Next
  PROVE  WriterSlotUnpinned'
<1>1. ASSUME NEW t \in Thread, MutexStep(t) PROVE WriterSlotUnpinned'
    BY <1>1, MutexEffect DEF WriterSlotUnpinned, stateVars, pinVars
<1>2. ASSUME NEW t \in Thread, PinStep(t) PROVE WriterSlotUnpinned'
    BY <1>2 DEF PinStep, PinData, PinHistory, Owners, WriterSlotUnpinned, stateVars,
                TypeOK
<1>3. ASSUME NEW t \in Thread, UnpinStep(t) PROVE WriterSlotUnpinned'
    BY <1>3, PinCounted
    DEF UnpinStep, DropSnapshot, Answer, SearchFails, Goto, Reading, Finding,
        Owners, WriterSlotUnpinned, stateVars, TypeOK
<1>4. ASSUME NEW t \in Thread, OwnerStep(t) PROVE WriterSlotUnpinned'
  <2>1. CASE AdmitWriter(t)
      BY <2>1 DEF AdmitWriter, Spare, WriterAt, WriterSlotUnpinned, pinVars
  <2>2. CASE FinishIssue(t)
      BY <2>2 DEF FinishIssue, WriterSlotUnpinned, pinVars, TypeOK
  <2>3. CASE StoreGeneration(t)
      BY <2>3 DEF StoreGeneration, WriterSlotUnpinned, stateVars, pinVars
  <2>4. CASE \/ AdmitMaintenance(t) \/ InstallCommit(t) \/ FinishAbort(t)
             \/ FinishReclaim(t)
      BY <2>4 DEF AdmitMaintenance, InstallCommit, FinishAbort, FinishReclaim,
                  NoOwner, Maintenance, WriterSlotUnpinned
  <2> QED
      BY <1>4, <2>1, <2>2, <2>3, <2>4 DEF OwnerStep
<1>5. ASSUME NEW t \in Thread, PublishStep(t) \/ FailStep(t) \/ KeepStep(t)
      PROVE  WriterSlotUnpinned'
    BY <1>5 DEF PublishStep, PublishIssue, PublishCommit, FailStep,
                DeclareMeetsBusyRegistry, PublishIssueFails, WriterFails,
                ReclaimFails, Disable, KeepStep, CaptureViews, DeleteCatalog,
                DeleteHistory, ReclaimEnds, WriterSlotUnpinned, stateVars, pinVars
<1>6. CASE Reopen
    BY <1>6 DEF Reopen, NoOwner, WriterSlotUnpinned
<1> QED
    BY <1>1, <1>2, <1>3, <1>4, <1>5, <1>6, StepKinds

-----------------------------------------------------------------------------
(* Records and files.                                                       *)

\* The fields a step of the owner reads are numbers.
LEMMA Numbers ==
  ASSUME TypeOK
  PROVE  /\ slots[current].issued \in 0 .. MaxIssued
         /\ slots[current].gen \in 0 .. MaxSuccesses
         /\ disk.issued \in 0 .. MaxIssued /\ disk.gen \in 0 .. MaxSuccesses
         /\ active.attempt \in 0 .. MaxIssued
         /\ \A t \in Thread :
              /\ view[t].rec.issued \in 0 .. MaxIssued
              /\ view[t].rec.gen \in 0 .. MaxSuccesses
              /\ view[t].attempt \in 0 .. MaxIssued
              /\ view[t].active \in 0 .. MaxIssued
              /\ Issued(t).issued = view[t].rec.issued + 1
              /\ Issued(t).gen = view[t].rec.gen
              /\ Committing(t).issued = view[t].rec.issued
              /\ Committing(t).gen = view[t].rec.gen + 1
BY DEF TypeOK, View, Record, Generation, Issued, Committing

\* Where owners stand after their steps, and what they see.
LEMMA OwnerMoves ==
  ASSUME TypeOK, NEW t \in Thread
  PROVE  /\ AdmitWriter(t) =>
              /\ pc'[t] = "admitted" /\ view'[t].rec = slots[current]
              /\ view'[t].attempt = 0
         /\ FinishIssue(t) =>
              /\ pc[t] = "issueLocked" /\ pc'[t] = "building"
              /\ view'[t].rec = Issued(t) /\ view'[t].attempt = Issued(t).issued
              /\ slots'[current] = Issued(t)
              /\ \A s \in Slot \ {current} : slots'[s] = slots[s]
              /\ active'.attempt = Issued(t).issued
         /\ InstallCommit(t) =>
              /\ pc[t] = "commitLocked" /\ pc'[t] = "storeGeneration"
              /\ view'[t] = view[t]
         /\ StoreGeneration(t) => pc[t] = "storeGeneration" /\ pc'[t] = "idle"
         /\ FinishAbort(t) => pc[t] = "abortLocked" /\ pc'[t] = "idle"
         /\ AdmitMaintenance(t) => pc'[t] = "maintaining"
         /\ FinishReclaim(t) => pc[t] = "finishLocked" /\ pc'[t] = "idle"
<1> USE DEF TypeOK, Goto
<1>1. ASSUME AdmitWriter(t)
      PROVE  /\ pc'[t] = "admitted" /\ view'[t].rec = slots[current]
             /\ view'[t].attempt = 0
    BY <1>1 DEF AdmitWriter, NoView
<1>2. ASSUME FinishIssue(t)
      PROVE  /\ pc[t] = "issueLocked" /\ pc'[t] = "building"
             /\ view'[t].rec = Issued(t) /\ view'[t].attempt = Issued(t).issued
             /\ slots'[current] = Issued(t)
             /\ \A s \in Slot \ {current} : slots'[s] = slots[s]
             /\ active'.attempt = Issued(t).issued
    BY <1>2 DEF FinishIssue, View
<1> QED
    BY <1>1, <1>2 DEF InstallCommit, StoreGeneration, FinishAbort, AdmitMaintenance,
                      FinishReclaim

\* At most one thread is at a locked stage, and it is no owner's rival.
LEMMA Alone ==
  ASSUME TypeOK, Mutex, Owners, NEW t \in Thread, NEW u \in Thread, u # t
  PROVE  /\ pc[t] \in Locked => pc[u] \notin Locked
         /\ pc[t] \in Owning => pc[u] \notin Owning
BY DEF Mutex, Owners

\* The stages of an owner's step, for the definitions that list them.
LEMMA OwnerStages ==
  /\ "admitted" \in Unissued /\ "issuing" \in Unissued
  /\ "issueWait" \in Issuing /\ "issueLocked" \in Issuing /\ "issueLocked" \in Locked
  /\ "building" \in Building
  /\ "commitWait" \in Committed
  /\ "commitLocked" \in Committed /\ "commitLocked" \in Locked
  /\ "storeGeneration" \in Locked /\ "abortLocked" \in Locked
  /\ "abortLocked" \in Aborting
  /\ "maintaining" \in Reclaiming /\ "deleting" \in Reclaiming
  /\ "finishWait" \in Reclaiming /\ "finishLocked" \in Reclaiming
BY DEF Unissued, Issuing, Building, Committed, Aborting, Reclaiming, Locked

\* No stage is of two kinds.
LEMMA StagesDiffer ==
  \A x : /\ x \in Unissued => x \notin Issuing \union Building \union Committed \union Aborting
         /\ x \in Issuing => x \notin Building \union Committed \union Aborting
         /\ x \in Building => x \notin Committed \union Aborting
         /\ x \in Committed => x \notin Aborting
         /\ x \in Reclaiming => x \notin Writing
         /\ x \in {"idle", "storeGeneration", "findLocked", "finding", "reading"}
              => x \notin Owning
BY DEF Unissued, Issuing, Building, Committed, Aborting, Reclaiming, Writing, Owning

LEMMA RecordsStep ==
  ASSUME TypeOK, Mutex, Owners, Records, Next
  PROVE  Records'
<1>1. ASSUME NEW t \in Thread, OthersRest(t), UNCHANGED <<current, slots>>,
             Recorded(t)'
      PROVE  Records'
    BY <1>1 DEF Records, Recorded, OthersRest, Committing
<1>2. ASSUME NEW t \in Thread, OthersRest(t), pc[t] \in Locked \intersect Owning,
             Recorded(t)'
      PROVE  Records'
  <2>1. ASSUME NEW u \in Thread, u # t
        PROVE  Recorded(u)'
    <3>1. pc'[u] = pc[u] /\ view'[u] = view[u]
        BY <1>2, <2>1 DEF OthersRest
    <3>2. pc[u] \notin Owning /\ pc[u] # "storeGeneration"
        BY <1>2, <2>1, Alone, OwnerStages
    <3> QED
        BY <3>1, <3>2 DEF Records, Recorded, Owning, Writing
  <2> QED
      BY <1>2, <2>1 DEF Records
<1>3. ASSUME NEW t \in Thread, MutexStep(t) PROVE Records'
  <2>1. Recorded(t)'
      BY <1>3, MutexEffect, StagesDiffer
      DEF Records, Recorded, Writing, Owning, stateVars, Viewing, Finding
  <2> QED
      BY <1>1, <1>3, <2>1, MutexEffect DEF stateVars
<1>4. ASSUME NEW t \in Thread, PinStep(t) \/ UnpinStep(t) PROVE Records'
  <2>1. pc'[t] \in {"reading", "finding", "idle"}
      BY <1>4 DEF PinStep, PinData, PinHistory, UnpinStep, DropSnapshot, Answer,
                  SearchFails, Goto, TypeOK
  <2>2. ASSUME PinHistory(t)
        PROVE  pc[t] = "findLocked" /\ view'[t].attempt = view[t].attempt
    <3>1. pc[t] = "findLocked"
        BY <2>2 DEF PinHistory, Goto, TypeOK
    <3>2. view'[t].attempt = view[t].attempt
        BY <2>2 DEF PinHistory, TypeOK, View
    <3> QED
        BY <3>1, <3>2
  <2>3. pc'[t] = "finding" => pc[t] = "findLocked" /\ view'[t].attempt = view[t].attempt
      BY <1>4, <2>2 DEF PinStep, PinData, UnpinStep, DropSnapshot, Answer,
                        SearchFails, Goto, TypeOK
  <2>4. Recorded(t)'
      BY <2>1, <2>3, StagesDiffer DEF Records, Recorded, Writing, Owning
  <2> QED
      BY <1>1, <1>4, <2>4, PinEffect DEF stateVars
<1>5. ASSUME NEW t \in Thread, AdmitWriter(t) PROVE Records'
  <2>1. /\ pc'[t] = "admitted" /\ view'[t].attempt = 0
        /\ view'[t].rec = slots[current]
        /\ UNCHANGED <<current, slots>>
      BY <1>5, OwnerMoves DEF AdmitWriter
  <2>2. slots[current].issued < MaxIssued /\ slots[current].gen < MaxSuccesses
      BY <1>5, Numbers, RegistryAssumption DEF AdmitWriter
  <2>3. /\ pc'[t] \in Unissued
        /\ pc'[t] \notin Building \union Committed \union Aborting
        /\ pc'[t] \notin {"storeGeneration", "findLocked", "finding"}
      BY <2>1, OwnerStages, StagesDiffer
  <2>4. Recorded(t)'
      BY <2>1, <2>2, <2>3 DEF Recorded
  <2> QED
      BY <1>1, <1>5, <2>1, <2>4, OwnerEffect DEF OwnerStep
<1>6. ASSUME NEW t \in Thread, FinishIssue(t) PROVE Records'
  <2>1. /\ view[t].rec.gen < MaxSuccesses
        /\ pc'[t] = "building" /\ view'[t].rec = Issued(t)
        /\ view'[t].attempt = Issued(t).issued
        /\ slots'[current] = Issued(t) /\ current' = current
      BY <1>6, OwnerMoves, OwnerStages DEF FinishIssue, Records, Recorded, Writing
  <2>2. /\ Issued(t).gen < MaxSuccesses
        /\ Issued(t).issued # 0
      BY <2>1, Numbers
  <2>3. /\ pc'[t] \in Building
        /\ pc'[t] \notin Unissued \union Issuing \union Aborting
        /\ pc'[t] \notin {"storeGeneration", "findLocked", "finding"}
      BY <2>1, OwnerStages, StagesDiffer
  <2>4. Recorded(t)'
      BY <2>1, <2>2, <2>3 DEF Recorded
  <2> QED
      BY <1>2, <1>6, <2>4, OwnerEffect, OwnerMoves, OwnerStages
      DEF OwnerStep, Owning, Writing
<1>7. ASSUME NEW t \in Thread, InstallCommit(t) PROVE Records'
  <2>1. slots'[current'] = Committing(t)
      BY <1>7, OwnerMoves, OwnerStages
      DEF InstallCommit, Owners, Owning, Writing, TypeOK
  <2>2. Recorded(t)'
      BY <1>7, <2>1, OwnerMoves, OwnerStages, StagesDiffer
      DEF Records, Recorded, Writing, Owning, Committing
  <2> QED
      BY <1>2, <1>7, <2>2, OwnerEffect, OwnerMoves, OwnerStages
      DEF OwnerStep, Owning, Writing
<1>8. ASSUME NEW t \in Thread,
             \/ StoreGeneration(t) \/ FinishAbort(t)
             \/ AdmitMaintenance(t) \/ FinishReclaim(t)
      PROVE  Records'
  <2>1. pc'[t] \in {"idle", "maintaining"}
      BY <1>8, OwnerMoves
  <2>2. Recorded(t)'
      BY <2>1, OwnerStages, StagesDiffer DEF Recorded, Writing, Owning
  <2> QED
      BY <1>1, <1>8, <2>2, OwnerEffect
      DEF OwnerStep, StoreGeneration, FinishAbort, AdmitMaintenance,
          FinishReclaim, stateVars
<1>9. ASSUME NEW t \in Thread, PublishStep(t) \/ FailStep(t) \/ KeepStep(t)
      PROVE  Records'
  <2>1. /\ UNCHANGED <<current, slots>>
        /\ \/ pc'[t] \in {"idle", "deleting", "finishWait"}
           \/ /\ view'[t] = view[t]
              /\ \/ pc[t] = "issuing" /\ pc'[t] = "issueWait"
                 \/ pc[t] = "building" /\ pc'[t] = "commitWait"
      BY <1>9 DEF PublishStep, PublishIssue, PublishCommit, FailStep,
                  DeclareMeetsBusyRegistry, PublishIssueFails, WriterFails,
                  ReclaimFails, Disable, KeepStep, CaptureViews, DeleteCatalog,
                  DeleteHistory, ReclaimEnds, Goto, stateVars, TypeOK
  <2>2. Recorded(t)'
      BY <2>1, OwnerStages, StagesDiffer DEF Records, Recorded, Writing, Owning
  <2> QED
      BY <1>1, <1>9, <2>1, <2>2, OwnerEffect
<1>10. CASE Reopen
    BY <1>10, StagesDiffer DEF Reopen, Records, Recorded, Owning, Writing
<1> QED
    BY <1>3, <1>4, <1>5, <1>6, <1>7, <1>8, <1>9, <1>10, StepKinds DEF OwnerStep


-----------------------------------------------------------------------------
(* Views.                                                                   *)

\* Only the two settling steps of a writer change the slots.
LEMMA SlotsKept ==
  ASSUME TypeOK, NEW t \in Thread, ~FinishIssue(t), ~InstallCommit(t),
         \/ MutexStep(t) \/ PinStep(t) \/ UnpinStep(t) \/ OwnerStep(t)
         \/ PublishStep(t) \/ FailStep(t) \/ KeepStep(t)
  PROVE  UNCHANGED <<current, slots>>
<1>1. CASE MutexStep(t) \/ PinStep(t) \/ UnpinStep(t)
    BY <1>1, MutexEffect, PinEffect DEF stateVars
<1>2. CASE OwnerStep(t)
    BY <1>2 DEF OwnerStep, AdmitWriter, AdmitMaintenance, StoreGeneration,
                FinishAbort, FinishReclaim, stateVars
<1>3. CASE PublishStep(t) \/ FailStep(t) \/ KeepStep(t)
    BY <1>3 DEF PublishStep, PublishIssue, PublishCommit, FailStep,
                DeclareMeetsBusyRegistry, PublishIssueFails, WriterFails,
                ReclaimFails, Disable, KeepStep, CaptureViews, DeleteCatalog,
                DeleteHistory, ReclaimEnds, stateVars
<1> QED
    BY <1>1, <1>2, <1>3

\* What a pin captures, and that dropping it leaves nothing pinned.
LEMMA PinMoves ==
  ASSUME TypeOK, NEW t \in Thread
  PROVE  /\ PinStep(t) => view'[t].slot = current /\ view'[t].rec = slots[current]
         /\ PinData(t) => pc[t] = "snapLocked" /\ pc'[t] = "reading"
         /\ PinHistory(t) =>
              /\ pc[t] = "findLocked" /\ pc'[t] = "finding"
              /\ view'[t].attempt = view[t].attempt
              /\ view'[t].active = active.attempt
         /\ UnpinStep(t) => pc'[t] = "idle"
<1> USE DEF TypeOK, Goto
<1>1. ASSUME PinData(t)
      PROVE  /\ view'[t].slot = current /\ view'[t].rec = slots[current]
             /\ pc[t] = "snapLocked" /\ pc'[t] = "reading"
    BY <1>1 DEF PinData, NoView
<1>2. ASSUME PinHistory(t)
      PROVE  /\ view'[t].slot = current /\ view'[t].rec = slots[current]
             /\ pc[t] = "findLocked" /\ pc'[t] = "finding"
             /\ view'[t].attempt = view[t].attempt
             /\ view'[t].active = active.attempt
    BY <1>2 DEF PinHistory, View, CaptureActive
<1> QED
    BY <1>1, <1>2 DEF PinStep, UnpinStep, DropSnapshot, Answer, SearchFails

\* What a writer's settling steps do to the slots.
LEMMA Settling ==
  ASSUME TypeOK, Owners, Records, NEW t \in Thread
  PROVE  /\ FinishIssue(t) =>
              /\ current' = current
              /\ slots'[current].issued = slots[current].issued + 1
              /\ \A s \in Slot : slots'[s].gen = slots[s].gen
         /\ InstallCommit(t) =>
              /\ current' = active.slot /\ active.slot \in Slot \ {current}
              /\ active.kind = "writer"
              /\ slots'[current'].issued = slots[current].issued
              /\ slots'[current'].gen = slots[current].gen + 1
              /\ \A s \in Slot \ {active.slot} : slots'[s] = slots[s]
<1>1. ASSUME FinishIssue(t)
      PROVE  /\ current' = current
             /\ slots'[current].issued = slots[current].issued + 1
             /\ \A s \in Slot : slots'[s].gen = slots[s].gen
  <2>1. /\ slots'[current] = Issued(t) /\ current' = current
        /\ \A s \in Slot \ {current} : slots'[s] = slots[s]
        /\ view[t].rec = slots[current]
      BY <1>1, OwnerMoves, OwnerStages DEF FinishIssue, Records, Recorded, Writing
  <2> QED
      BY <2>1, Numbers
<1>2. ASSUME InstallCommit(t)
      PROVE  /\ current' = active.slot /\ active.slot \in Slot \ {current}
             /\ active.kind = "writer"
             /\ slots'[current'].issued = slots[current].issued
             /\ slots'[current'].gen = slots[current].gen + 1
             /\ \A s \in Slot \ {active.slot} : slots'[s] = slots[s]
  <2>1. pc[t] \in Writing
      BY <1>2, OwnerMoves, OwnerStages DEF Writing
  <2>2. active.kind = "writer" /\ active.slot \in Slot \ {current}
      BY <2>1 DEF Owners
  <2>3. view[t].rec = slots[current]
      BY <2>1 DEF Records, Recorded
  <2>4. /\ current' = active.slot /\ slots'[active.slot] = Committing(t)
        /\ \A s \in Slot \ {active.slot} : slots'[s] = slots[s]
      BY <1>2, <2>2 DEF InstallCommit, TypeOK
  <2> QED
      BY <2>2, <2>3, <2>4, Numbers
<1> QED
    BY <1>1, <1>2

LEMMA ViewsStep ==
  ASSUME TypeOK, Owners, Pins, Records, Views, WriterSlotUnpinned, Next
  PROVE  Views'
<1>1. ASSUME NEW t \in Thread, UNCHANGED <<current, slots>>, OthersRest(t),
             ~Viewing(t)' \/ PinStep(t)
      PROVE  Views'
  <2>1. ASSUME NEW u \in Thread, u # t, Viewing(u)'
        PROVE  Viewing(u) /\ view'[u] = view[u]
      BY <1>1, <2>1 DEF OthersRest, Viewing, Reading, Finding
  <2>2. PinStep(t) => view'[t].slot = current /\ view'[t].rec = slots[current]
      BY PinMoves
  <2> QED
      BY <1>1, <2>1, <2>2, Numbers DEF Views, TypeOK
<1>2. ASSUME NEW t \in Thread, OthersRest(t), ~Viewing(t)'
      PROVE  \A u \in Thread : Viewing(u)' => Viewing(u) /\ view'[u] = view[u]
    BY <1>2 DEF OthersRest, Viewing, Reading, Finding
<1>3. ASSUME NEW t \in Thread, MutexStep(t) PROVE Views'
    BY <1>1, <1>3, MutexEffect DEF stateVars
<1>4. ASSUME NEW t \in Thread, PinStep(t) \/ UnpinStep(t) PROVE Views'
  <2>1. UnpinStep(t) => ~Viewing(t)'
      BY PinMoves DEF Viewing, Reading, Finding
  <2> QED
      BY <1>1, <1>4, <2>1, PinEffect DEF stateVars
<1>5. ASSUME NEW t \in Thread, FinishIssue(t) PROVE Views'
  <2>1. \A u \in Thread : Viewing(u)' => Viewing(u) /\ view'[u] = view[u]
      BY <1>2, <1>5, OwnerEffect DEF OwnerStep
  <2>2. /\ current' = current /\ \A s \in Slot : slots'[s].gen = slots[s].gen
        /\ slots'[current].issued = slots[current].issued + 1
      BY <1>5, Settling
  <2> QED
      BY <2>1, <2>2, Numbers DEF Views, TypeOK
<1>6. ASSUME NEW t \in Thread, InstallCommit(t) PROVE Views'
  <2>1. \A u \in Thread : Viewing(u)' => Viewing(u) /\ view'[u] = view[u]
      BY <1>2, <1>6, OwnerEffect DEF OwnerStep
  <2>2. /\ active.kind = "writer" /\ active.slot \in Slot
        /\ slots'[current'].issued = slots[current].issued
        /\ slots'[current'].gen = slots[current].gen + 1
        /\ \A s \in Slot \ {active.slot} : slots'[s] = slots[s]
      BY <1>6, Settling
  <2>3. \A u \in Thread : Viewing(u) => view[u].slot # active.slot
      BY <2>2, Unpinned DEF WriterSlotUnpinned
  <2> QED
      BY <2>1, <2>2, <2>3, Numbers DEF Views, TypeOK
<1>7. ASSUME NEW t \in Thread,
             OwnerStep(t) \/ PublishStep(t) \/ FailStep(t) \/ KeepStep(t),
             ~FinishIssue(t), ~InstallCommit(t)
      PROVE  Views'
    BY <1>1, <1>7, SlotsKept, OwnerEffect
<1>8. CASE Reopen
    BY <1>8 DEF Reopen, Views, Viewing, Reading, Finding
<1> QED
    BY <1>3, <1>4, <1>5, <1>6, <1>7, <1>8, StepKinds

-----------------------------------------------------------------------------
(* Files.                                                                   *)

\* An owner that moves has no rival, before or after.
LEMMA NoRival ==
  ASSUME Owners, NEW t \in Thread, pc[t] \in Owning, OthersRest(t)
  PROVE  \A u \in Thread \ {t} : pc[u] \notin Owning /\ pc'[u] \notin Owning
BY DEF Owners, OthersRest

\* The owner's stages around its publications.
LEMMA OwnerSteps ==
  ASSUME TypeOK, NEW t \in Thread
  PROVE  /\ PublishIssue(t) =>
              /\ pc[t] = "issuing" /\ pc'[t] = "issueWait" /\ view'[t] = view[t]
              /\ disk' = Issued(t)
              /\ UNCHANGED <<stateVars, unavailable, committed, catalogs, histories,
                             keep, told, generation>>
         /\ PublishCommit(t) =>
              /\ pc[t] = "building" /\ pc'[t] = "commitWait" /\ view'[t] = view[t]
              /\ InstallFiles(t)
              /\ UNCHANGED <<stateVars, unavailable, keep, told, generation>>
         /\ FailStep(t) =>
              /\ pc[t] \in Owning /\ pc'[t] = "idle" /\ unavailable' = TRUE
              /\ UNCHANGED <<stateVars, generation, told>>
              /\ \/ UNCHANGED fileVars
                 \/ /\ pc[t] = "issuing" /\ disk' = Issued(t)
                    /\ UNCHANGED <<committed, catalogs, histories>>
                 \/ pc[t] = "building" /\ InstallFiles(t)
         /\ KeepStep(t) =>
              /\ pc[t] \in Reclaiming /\ pc'[t] \in {"deleting", "finishWait"}
              /\ UNCHANGED <<stateVars, unavailable, disk, committed, told, generation>>
<1> USE DEF TypeOK, Goto
<1>1. FailStep(t) =>
        /\ pc[t] \in Owning /\ pc'[t] = "idle" /\ unavailable' = TRUE
        /\ UNCHANGED <<stateVars, generation, told>>
        /\ \/ UNCHANGED fileVars
           \/ /\ pc[t] = "issuing" /\ disk' = Issued(t)
              /\ UNCHANGED <<committed, catalogs, histories>>
           \/ pc[t] = "building" /\ InstallFiles(t)
    BY OwnerStages
    DEF FailStep, DeclareMeetsBusyRegistry, PublishIssueFails, WriterFails,
        ReclaimFails, Disable, fileVars, Owning, Writing
<1>2. KeepStep(t) =>
        /\ pc[t] \in Reclaiming /\ pc'[t] \in {"deleting", "finishWait"}
        /\ UNCHANGED <<stateVars, unavailable, disk, committed, told, generation>>
    BY OwnerStages
    DEF KeepStep, CaptureViews, DeleteCatalog, DeleteHistory, ReclaimEnds, fileVars
<1> QED
    BY <1>1, <1>2 DEF PublishIssue, PublishCommit

\* An owner's step that publishes nothing and settles nothing.
LEMMA FilesRest ==
  ASSUME TypeOK, Files, NEW t \in Thread, OthersRest(t),
         UNCHANGED <<current, slots, disk, catalogs, histories, unavailable>>,
         pc[t] \in Issuing <=> pc'[t] \in Issuing,
         pc[t] \in Committed <=> pc'[t] \in Committed,
         pc'[t] \in Issuing \union Committed => view'[t] = view[t]
  PROVE  Files'
<1>1. \A u \in Thread : /\ pc[u] \in Issuing <=> pc'[u] \in Issuing
                        /\ pc[u] \in Committed <=> pc'[u] \in Committed
                        /\ pc'[u] \in Issuing \union Committed => view'[u] = view[u]
    BY DEF OthersRest
<1> QED
    BY <1>1 DEF Files, Issued, Committing

\* The owner may publish a record whose files exist.
LEMMA FilesPublished ==
  ASSUME TypeOK, Owners, Records, PinnedFilesExist, NEW t \in Thread
  PROVE  /\ pc[t] = "issuing" /\ disk' = Issued(t)
              /\ UNCHANGED <<stateVars, committed, catalogs, histories>> =>
              /\ disk'.issued = slots[current].issued + 1
              /\ disk'.gen = slots[current].gen
              /\ disk'.gen # 0 => disk'.gen \in catalogs' \intersect histories'
         /\ pc[t] = "building" /\ InstallFiles(t) =>
              /\ disk'.issued = slots[current].issued
              /\ disk'.gen = slots[current].gen + 1
              /\ disk'.gen \in catalogs' \intersect histories'
<1>1. ASSUME pc[t] = "issuing", disk' = Issued(t),
             UNCHANGED <<stateVars, committed, catalogs, histories>>
      PROVE  /\ disk'.issued = slots[current].issued + 1
             /\ disk'.gen = slots[current].gen
             /\ disk'.gen # 0 => disk'.gen \in catalogs' \intersect histories'
  <2>1. view[t].rec = slots[current]
      BY <1>1, OwnerStages DEF Records, Recorded, Writing
  <2>2. disk'.issued = slots[current].issued + 1 /\ disk'.gen = slots[current].gen
      BY <1>1, <2>1, Numbers
  <2> QED
      BY <1>1, <2>2 DEF PinnedFilesExist
<1>2. ASSUME pc[t] = "building", InstallFiles(t)
      PROVE  /\ disk'.issued = slots[current].issued
             /\ disk'.gen = slots[current].gen + 1
             /\ disk'.gen \in catalogs' \intersect histories'
  <2>1. view[t].rec = slots[current]
      BY <1>2, OwnerStages DEF Records, Recorded, Writing
  <2>2. disk'.issued = slots[current].issued /\ disk'.gen = slots[current].gen + 1
      BY <1>2, <2>1, Numbers DEF InstallFiles
  <2> QED
      BY <1>2, <2>2 DEF InstallFiles
<1> QED
    BY <1>1, <1>2

LEMMA FilesStep ==
  ASSUME TypeOK, Mutex, Owners, Records, Files, PinnedFilesExist, Kept, Next
  PROVE  Files'
<1>1. ASSUME NEW t \in Thread, MutexStep(t) PROVE Files'
  <2>1. pc'[t] \in Issuing \union Committed => view'[t] = view[t]
      BY <1>1, MutexEffect DEF Owning, Writing
  <2> QED
      BY <1>1, <2>1, MutexEffect, FilesRest DEF stateVars, fileVars
<1>2. ASSUME NEW t \in Thread, PinStep(t) \/ UnpinStep(t) PROVE Files'
  <2>1. /\ pc[t] \notin Issuing \union Committed
        /\ pc'[t] \notin Issuing \union Committed
      BY <1>2, PinEffect DEF NoOwnerMoves, Owning, Writing
  <2> QED
      BY <1>2, <2>1, PinEffect, FilesRest DEF stateVars, fileVars
<1>3. ASSUME NEW t \in Thread,
             \/ AdmitWriter(t) \/ AdmitMaintenance(t) \/ StoreGeneration(t)
             \/ FinishAbort(t) \/ FinishReclaim(t)
      PROVE  Files'
  <2>1. /\ pc[t] \notin Issuing \union Committed
        /\ pc'[t] \notin Issuing \union Committed
      BY <1>3 DEF AdmitWriter, AdmitMaintenance, StoreGeneration, FinishAbort,
                  FinishReclaim, Goto, Issuing, Committed, TypeOK
  <2>2. UNCHANGED <<current, slots, disk, catalogs, histories, unavailable>>
      BY <1>3 DEF AdmitWriter, AdmitMaintenance, StoreGeneration, FinishAbort,
                  FinishReclaim, stateVars, fileVars
  <2> QED
      BY <1>3, <2>1, <2>2, OwnerEffect, FilesRest DEF OwnerStep
<1>4. ASSUME NEW t \in Thread, FinishIssue(t) \/ InstallCommit(t) PROVE Files'
  <2>1. /\ pc[t] \in Owning /\ OthersRest(t)
        /\ pc'[t] \notin Issuing \union Committed
      BY <1>4, OwnerMoves, OwnerStages, OwnerEffect, StagesDiffer
      DEF OwnerStep, Owning, Writing
  <2>2. \A u \in Thread : pc'[u] \notin Issuing \union Committed
      BY <2>1, NoRival DEF Owning, Writing
  <2>3. UNCHANGED <<disk, catalogs, histories>>
      BY <1>4 DEF FinishIssue, InstallCommit, fileVars
  <2>4. slots'[current'] = disk
    <3>1. CASE FinishIssue(t)
      <4>1. disk = Issued(t)
          BY <3>1, OwnerMoves, OwnerStages DEF Files
      <4> QED
          BY <3>1, <4>1, OwnerMoves DEF FinishIssue
    <3>2. CASE InstallCommit(t)
      <4>1. disk = Committing(t)
          BY <3>2, OwnerMoves, OwnerStages DEF Files
      <4>2. active.slot \in Slot
          BY <3>2, Settling
      <4> QED
          BY <3>2, <4>1, <4>2 DEF InstallCommit, TypeOK
    <3> QED
        BY <1>4, <3>1, <3>2
  <2> QED
      BY <2>2, <2>3, <2>4, Numbers DEF Files
<1>5. ASSUME NEW t \in Thread, PublishIssue(t) PROVE Files'
  <2>1. pc[t] = "issuing" /\ pc'[t] = "issueWait" /\ view'[t] = view[t]
        /\ disk' = Issued(t) /\ UNCHANGED <<stateVars, committed, catalogs, histories>>
      BY <1>5, OwnerSteps
  <2>2. pc[t] \in Owning /\ pc'[t] \in Issuing /\ pc'[t] \notin Committed
      BY <2>1, OwnerStages, StagesDiffer DEF Owning, Writing
  <2>3. \A u \in Thread \ {t} : pc'[u] \notin Issuing \union Committed
      BY <1>5, <2>2, NoRival, OwnerEffect DEF PublishStep, Owning, Writing
  <2>4. Issued(t)' = Issued(t)
      BY <2>1 DEF Issued
  <2>5. /\ disk'.issued = slots[current].issued + 1 /\ disk'.gen = slots[current].gen
        /\ disk'.gen # 0 => disk'.gen \in catalogs' \intersect histories'
      BY <2>1, FilesPublished
  <2> QED
      BY <2>1, <2>2, <2>3, <2>4, <2>5, Numbers DEF Files, stateVars
<1>6. ASSUME NEW t \in Thread, PublishCommit(t) PROVE Files'
  <2>1. pc[t] = "building" /\ pc'[t] = "commitWait" /\ view'[t] = view[t]
        /\ InstallFiles(t) /\ UNCHANGED stateVars
      BY <1>6, OwnerSteps
  <2>2. pc[t] \in Owning /\ pc'[t] \in Committed /\ pc'[t] \notin Issuing
      BY <2>1, OwnerStages, StagesDiffer DEF Owning, Writing
  <2>3. \A u \in Thread \ {t} : pc'[u] \notin Issuing \union Committed
      BY <1>6, <2>2, NoRival, OwnerEffect DEF PublishStep, Owning, Writing
  <2>4. Committing(t)' = Committing(t) /\ disk' = Committing(t)
      BY <2>1 DEF Committing, InstallFiles
  <2>5. /\ disk'.issued = slots[current].issued /\ disk'.gen = slots[current].gen + 1
        /\ disk'.gen \in catalogs' \intersect histories'
      BY <2>1, FilesPublished
  <2> QED
      BY <2>1, <2>2, <2>3, <2>4, <2>5, Numbers DEF Files, stateVars
<1>7. ASSUME NEW t \in Thread, FailStep(t) PROVE Files'
  <2>1. /\ pc[t] \in Owning /\ pc'[t] = "idle" /\ unavailable'
        /\ UNCHANGED stateVars
        /\ \/ UNCHANGED fileVars
           \/ /\ pc[t] = "issuing" /\ disk' = Issued(t)
              /\ UNCHANGED <<committed, catalogs, histories>>
           \/ pc[t] = "building" /\ InstallFiles(t)
      BY <1>7, OwnerSteps
  <2>2. \A u \in Thread : pc'[u] \notin Issuing \union Committed
      BY <1>7, <2>1, NoRival, OwnerEffect, StagesDiffer DEF Owning, Writing
  <2>3. /\ disk'.issued >= slots[current].issued /\ disk'.gen >= slots[current].gen
        /\ disk'.gen # 0 => disk'.gen \in catalogs' \intersect histories'
    <3>1. CASE UNCHANGED fileVars
        BY <3>1 DEF Files, fileVars
    <3>2. CASE ~UNCHANGED fileVars
        BY <2>1, <3>2, FilesPublished, Numbers
    <3> QED
        BY <3>1, <3>2
  <2> QED
      BY <2>1, <2>2, <2>3 DEF Files, stateVars
<1>8. ASSUME NEW t \in Thread, KeepStep(t) PROVE Files'
  <2>1. /\ pc[t] \in Reclaiming /\ pc'[t] \in {"deleting", "finishWait"}
        /\ UNCHANGED <<stateVars, unavailable, disk>> /\ OthersRest(t)
      BY <1>8, OwnerSteps, OwnerEffect
  <2>2. \A u \in Thread : /\ pc[u] \notin Issuing \union Committed
                          /\ pc'[u] \notin Issuing \union Committed
      BY <2>1, NoRival, OwnerStages, StagesDiffer DEF Owning, Writing
  <2>3. disk = slots[current]
      BY <2>1, <2>2 DEF Files, Owners, Owning
  <2>4. disk.gen # 0 => disk.gen \in catalogs' \intersect histories'
    <3>1. CASE DeleteCatalog(t) \/ DeleteHistory(t)
      <4>1. disk.gen \in keep.data \intersect keep.history
          BY <2>3, <3>1 DEF Kept, DeleteCatalog, DeleteHistory
      <4> QED
          BY <3>1, <4>1 DEF Files, DeleteCatalog, DeleteHistory
    <3>2. CASE CaptureViews(t) \/ ReclaimEnds(t)
        BY <3>2 DEF Files, CaptureViews, ReclaimEnds, fileVars
    <3> QED
        BY <1>8, <3>1, <3>2 DEF KeepStep
  <2> QED
      BY <2>1, <2>2, <2>3, <2>4, Numbers DEF Files, stateVars
<1>9. CASE Reopen
  <2>1. \A u \in Thread : pc'[u] \notin Issuing \union Committed
      BY <1>9, StagesDiffer DEF Reopen, Owning, Writing
  <2>2. slots'[current'] = disk /\ UNCHANGED fileVars
      BY <1>9, RegistryAssumption DEF Reopen, Slot
  <2> QED
      BY <2>1, <2>2, Numbers DEF Files, fileVars
<1> QED
    BY <1>1, <1>2, <1>3, <1>4, <1>5, <1>6, <1>7, <1>8, <1>9, StepKinds
    DEF OwnerStep, PublishStep

-----------------------------------------------------------------------------
(* Commits.                                                                 *)

\* While somebody owns the registry nobody is about to store a generation.
LEMMA NoInstaller ==
  ASSUME Owners, NEW t \in Thread, pc[t] \in Owning
  PROVE  \A u \in Thread : pc[u] # "storeGeneration"
BY Unowned DEF Owners

\* A step that leaves the records and the commits alone.
LEMMA CommitsRest ==
  ASSUME Commits, NEW t \in Thread, OthersRest(t), Attempted(t)',
         UNCHANGED <<current, slots, disk, committed>>,
         \A a \in Attempt :
           a = active.attempt /\ committed[a] # 0 => a = active'.attempt
  PROVE  Commits'
<1>1. ASSUME NEW u \in Thread, u # t PROVE Attempted(u)'
    BY <1>1 DEF Commits, Attempted, OthersRest, Committing
<1> QED
    BY <1>1 DEF Commits

\* An owner that installs its files commits an attempt that had not committed.
LEMMA CommitsInstall ==
  ASSUME TypeOK, Owners, Records, Commits, NEW t \in Thread, pc[t] = "building",
         InstallFiles(t)
  PROVE  /\ view[t].attempt \in Attempt /\ view[t].attempt = active.attempt
         /\ committed[view[t].attempt] = 0
         /\ committed'[view[t].attempt] = Committing(t).gen
         /\ \A a \in Attempt \ {view[t].attempt} : committed'[a] = committed[a]
         /\ view[t].attempt = slots[current].issued
         /\ Committing(t).gen = slots[current].gen + 1
         /\ disk' = Committing(t)
<1>1. /\ view[t].attempt # 0 /\ view[t].attempt = view[t].rec.issued
      /\ view[t].rec = slots[current]
    BY OwnerStages DEF Records, Recorded, Writing
<1>2. view[t].attempt \in Attempt
    BY <1>1, Numbers DEF Attempt
<1>3. view[t].attempt = active.attempt
    BY OwnerStages DEF Owners, Writing
<1>4. committed[view[t].attempt] = 0
    BY <1>1, OwnerStages DEF Commits, Attempted
<1>5. /\ committed' = [committed EXCEPT ![view[t].attempt] = Committing(t).gen]
      /\ disk' = Committing(t)
    BY DEF InstallFiles
<1> QED
    BY <1>1, <1>2, <1>3, <1>4, <1>5, Numbers DEF TypeOK

\* Its commit is the only one that is not yet in the current record.
LEMMA CommitsInstalled ==
  ASSUME TypeOK, Owners, Records, Commits, NEW t \in Thread, pc[t] = "building",
         InstallFiles(t), UNCHANGED stateVars
  PROVE  \A a \in Attempt : committed'[a] # 0 =>
           /\ a <= slots'[current'].issued /\ committed'[a] <= disk'.gen
           /\ committed'[a] <= slots'[current'].gen \/ a = active'.attempt
<1> TAKE a \in Attempt
<1>1. CASE a = view[t].attempt
    BY <1>1, CommitsInstall, Numbers DEF stateVars
<1>2. CASE a # view[t].attempt
    BY <1>2, CommitsInstall, Numbers DEF stateVars, Commits, TypeOK, Generation
<1> QED
    BY <1>1, <1>2

\* An owner whose attempt has no number yet saw every commit.
LEMMA CommitsUnnumbered ==
  ASSUME TypeOK, Owners, Records, Commits, NEW t \in Thread,
         pc[t] \in Unissued \union Issuing
  PROVE  \A a \in Attempt : committed[a] # 0 =>
           a <= slots[current].issued /\ committed[a] <= slots[current].gen
<1>1. view[t].attempt = 0 /\ active.attempt = 0
    BY DEF Records, Recorded, Owners, Writing
<1> QED
    BY <1>1 DEF Commits, Attempt

LEMMA CommitsStep ==
  ASSUME TypeOK, Mutex, Owners, Records, Files, Commits, Next
  PROVE  Commits'
<1>1. ASSUME NEW t \in Thread, MutexStep(t) PROVE Commits'
  <2>1. pc'[t] \in Building \union Aborting =>
          /\ view'[t] = view[t]
          /\ view[t].attempt = 0 \/ pc[t] \in Building \union Aborting
      BY <1>1, MutexEffect, StagesDiffer DEF Records, Recorded, Owning, Writing
  <2>2. pc'[t] \in Committed \union {"storeGeneration"} =>
          pc[t] \in Committed /\ view'[t] = view[t]
      BY <1>1, MutexEffect DEF Owning, Writing
  <2>3. committed' = committed
      BY <1>1, MutexEffect DEF fileVars
  <2>4. Attempted(t)'
      BY <2>1, <2>2, <2>3 DEF Commits, Attempted, Committing
  <2> QED
      BY <1>1, <2>4, MutexEffect, CommitsRest DEF stateVars, fileVars
<1>2. ASSUME NEW t \in Thread, PinStep(t) \/ UnpinStep(t) PROVE Commits'
  <2>1. Attempted(t)'
      BY <1>2, PinEffect DEF NoOwnerMoves, Owning, Writing, Attempted
  <2> QED
      BY <1>2, <2>1, PinEffect, CommitsRest DEF stateVars, fileVars
<1>3. ASSUME NEW t \in Thread, AdmitWriter(t) \/ AdmitMaintenance(t) PROVE Commits'
  <2>0. active = NoOwner /\ UNCHANGED <<current, slots, fileVars>>
      BY <1>3 DEF AdmitWriter, AdmitMaintenance
  <2>1. /\ pc'[t] \in {"admitted", "maintaining"}
        /\ active.attempt = 0 /\ UNCHANGED <<current, slots, fileVars>>
      BY <1>3, <2>0, OwnerMoves DEF NoOwner
  <2>2. Attempted(t)'
      BY <2>1 DEF Attempted, Building, Aborting, Committed
  <2> QED
      BY <1>3, <2>1, <2>2, OwnerEffect, CommitsRest DEF OwnerStep, fileVars, Attempt
<1>4. ASSUME NEW t \in Thread, StoreGeneration(t) \/ FinishReclaim(t) PROVE Commits'
  <2>1. /\ pc'[t] = "idle" /\ UNCHANGED <<current, slots, fileVars>>
        /\ active' = active \/ active = Maintenance
      BY <1>4, OwnerMoves, OwnerStages
      DEF StoreGeneration, FinishReclaim, Owners, stateVars
  <2>2. Attempted(t)'
      BY <2>1, StagesDiffer DEF Attempted, Owning, Writing
  <2> QED
      BY <1>4, <2>1, <2>2, OwnerEffect, CommitsRest
      DEF OwnerStep, fileVars, Attempt, Maintenance
<1>5. ASSUME NEW t \in Thread, FinishAbort(t) PROVE Commits'
  <2>1. /\ pc'[t] = "idle" /\ UNCHANGED <<current, slots, fileVars>>
        /\ pc[t] \in Aborting
      BY <1>5, OwnerMoves, OwnerStages DEF FinishAbort
  <2>2. Attempted(t)'
      BY <2>1, StagesDiffer DEF Attempted, Owning, Writing
  <2>3. active.attempt # 0 => committed[active.attempt] = 0
      BY <2>1 DEF Commits, Attempted, Owners, Writing
  <2> QED
      BY <1>5, <2>1, <2>2, <2>3, OwnerEffect, CommitsRest
      DEF OwnerStep, fileVars, Attempt
<1>6. ASSUME NEW t \in Thread, FinishIssue(t) PROVE Commits'
  <2>1. /\ pc[t] \in Issuing /\ pc[t] \in Owning /\ OthersRest(t)
        /\ UNCHANGED <<disk, committed>>
      BY <1>6, OwnerMoves, OwnerStages, OwnerEffect
      DEF OwnerStep, Owning, Writing, FinishIssue, fileVars
  <2>2. \A a \in Attempt : committed[a] # 0 =>
           a <= slots[current].issued /\ committed[a] <= slots[current].gen
      BY <2>1, CommitsUnnumbered
  <2>3. /\ current' = current /\ slots'[current].gen = slots[current].gen
        /\ slots'[current].issued = slots[current].issued + 1
      BY <1>6, Settling DEF TypeOK
  <2>4. ASSUME NEW u \in Thread PROVE Attempted(u)'
    <3>1. CASE u # t
        BY <2>1, <3>1, NoRival, NoInstaller DEF Attempted, OthersRest, Owning, Writing
    <3>2. CASE u = t
      <4>1. /\ pc'[t] = "building" /\ view'[t].attempt = slots[current].issued + 1
        <5>1. view[t].rec = slots[current]
            BY <2>1 DEF Records, Recorded, Writing
        <5> QED
            BY <1>6, <5>1, OwnerMoves, Numbers
      <4>2. view'[t].attempt \in Attempt
          BY <1>6, <2>1, OwnerMoves, NextRecords
      <4>3. committed[view'[t].attempt] = 0
          BY <2>2, <4>1, <4>2, Numbers
      <4>4. pc'[t] \notin Committed \union {"storeGeneration"}
          BY <4>1, OwnerStages, StagesDiffer
      <4> QED
          BY <2>1, <3>2, <4>3, <4>4 DEF Attempted
    <3> QED
        BY <3>1, <3>2
  <2> QED
      BY <2>1, <2>2, <2>3, <2>4, Numbers DEF Commits, TypeOK, Generation, Attempt
<1>7. ASSUME NEW t \in Thread, InstallCommit(t) PROVE Commits'
  <2>1. /\ pc[t] \in Committed /\ pc[t] \in Owning /\ OthersRest(t)
        /\ UNCHANGED <<disk, committed>>
        /\ pc'[t] = "storeGeneration" /\ view'[t] = view[t]
      BY <1>7, OwnerMoves, OwnerStages, OwnerEffect
      DEF OwnerStep, Owning, Writing, InstallCommit, fileVars
  <2>2. /\ committed[view[t].attempt] = Committing(t).gen
        /\ view[t].attempt = active.attempt /\ view[t].rec = slots[current]
      BY <2>1 DEF Commits, Attempted, Owners, Records, Recorded, Writing
  <2>3. /\ slots'[current'].issued = slots[current].issued
        /\ slots'[current'].gen = slots[current].gen + 1
      BY <1>7, Settling
  <2>4. ASSUME NEW a \in Attempt, committed[a] # 0
        PROVE  /\ a <= slots'[current'].issued /\ committed[a] <= disk.gen
               /\ committed[a] <= slots'[current'].gen
    <3>1. CASE a = active.attempt
        BY <2>2, <2>3, <2>4, <3>1, Numbers DEF Commits
    <3>2. CASE a # active.attempt
        BY <2>3, <2>4, <3>2, Numbers DEF Commits, TypeOK, Generation
    <3> QED
        BY <3>1, <3>2
  <2>5. ASSUME NEW u \in Thread PROVE Attempted(u)'
    <3>1. CASE u # t
        BY <2>1, <3>1, NoRival, NoInstaller DEF Attempted, OthersRest, Owning, Writing
    <3>2. CASE u = t
        BY <2>1, <2>2, <3>2, StagesDiffer DEF Attempted, Committing, Owning, Writing
    <3> QED
        BY <3>1, <3>2
  <2> QED
      BY <2>1, <2>4, <2>5 DEF Commits
<1>8. ASSUME NEW t \in Thread, PublishStep(t) \/ FailStep(t) PROVE Commits'
  <2>1. /\ pc[t] \in Owning /\ OthersRest(t) /\ UNCHANGED stateVars
        /\ \/ UNCHANGED fileVars
           \/ /\ pc[t] = "issuing" /\ disk' = Issued(t)
              /\ UNCHANGED <<committed, catalogs, histories>>
           \/ pc[t] = "building" /\ InstallFiles(t)
        /\ \/ pc'[t] = "idle"
           \/ pc[t] = "issuing" /\ pc'[t] = "issueWait"
           \/ /\ pc[t] = "building" /\ pc'[t] = "commitWait"
              /\ InstallFiles(t) /\ view'[t] = view[t]
      BY <1>8, OwnerEffect, OwnerSteps, OwnerStages DEF PublishStep, Owning, Writing
  <2>2. \A a \in Attempt : committed'[a] # 0 =>
           /\ a <= slots'[current'].issued /\ committed'[a] <= disk'.gen
           /\ committed'[a] <= slots'[current'].gen \/ a = active'.attempt
    <3>1. CASE UNCHANGED fileVars
        BY <2>1, <3>1 DEF Commits, stateVars, fileVars
    <3>2. CASE pc[t] = "issuing" /\ disk' = Issued(t)
                 /\ UNCHANGED <<committed, catalogs, histories>>
      <4>1. view[t].rec = slots[current]
          BY <3>2, OwnerStages DEF Records, Recorded, Writing
      <4>2. disk'.gen = slots[current].gen
          BY <3>2, <4>1, Numbers
      <4> QED
          BY <2>1, <3>2, <4>2, CommitsUnnumbered, OwnerStages DEF stateVars
    <3>3. CASE pc[t] = "building" /\ InstallFiles(t)
        BY <2>1, <3>3, CommitsInstalled
    <3> QED
        BY <2>1, <3>1, <3>2, <3>3
  <2>3. ASSUME NEW u \in Thread PROVE Attempted(u)'
    <3>1. CASE u # t
        BY <2>1, <3>1, NoRival, NoInstaller DEF Attempted, OthersRest, Owning, Writing
    <3>2. CASE u = t /\ pc'[t] \in {"idle", "issueWait"}
        BY <3>2, OwnerStages, StagesDiffer DEF Attempted, Owning, Writing
    <3>3. CASE u = t /\ pc'[t] \notin {"idle", "issueWait"}
      <4>1. /\ pc[t] = "building" /\ pc'[t] = "commitWait"
            /\ InstallFiles(t) /\ view'[t] = view[t]
          BY <2>1, <3>3
      <4>2. committed'[view[t].attempt] = Committing(t).gen
          BY <4>1, CommitsInstall
      <4> QED
          BY <3>3, <4>1, <4>2, OwnerStages, StagesDiffer DEF Attempted, Committing
    <3> QED
        BY <3>1, <3>2, <3>3
  <2> QED
      BY <2>2, <2>3 DEF Commits
<1>9. ASSUME NEW t \in Thread, KeepStep(t) PROVE Commits'
  <2>1. /\ pc'[t] \in Reclaiming /\ UNCHANGED <<stateVars, disk, committed>>
        /\ OthersRest(t)
      BY <1>9, OwnerSteps, OwnerStages, OwnerEffect
  <2>2. Attempted(t)'
      BY <2>1, StagesDiffer DEF Attempted, Owning, Writing
  <2> QED
      BY <2>1, <2>2, CommitsRest DEF stateVars
<1>10. CASE Reopen
  <2>1. /\ slots'[current'] = disk /\ UNCHANGED <<disk, committed>>
        /\ \A u \in Thread : pc'[u] = "idle"
      BY <1>10, RegistryAssumption DEF Reopen, Slot, fileVars
  <2>2. \A u \in Thread : Attempted(u)'
      BY <2>1, StagesDiffer DEF Attempted, Owning, Writing
  <2> QED
      BY <2>1, <2>2, Numbers DEF Commits, Files, Attempt
<1> QED
    BY <1>1, <1>2, <1>3, <1>4, <1>5, <1>6, <1>7, <1>8, <1>9, <1>10, StepKinds
    DEF OwnerStep

-----------------------------------------------------------------------------
(* Pinned files.                                                            *)

\* A step that deletes nothing and keeps the current record.
LEMMA PinnedFilesRest ==
  ASSUME TypeOK, PinnedFilesExist, NEW t \in Thread, OthersRest(t),
         ~Viewing(t)' \/ PinStep(t),
         current' = current, slots'[current].gen = slots[current].gen,
         catalogs \subseteq catalogs', histories \subseteq histories'
  PROVE  PinnedFilesExist'
<1>1. ASSUME NEW u \in Thread, u # t
      PROVE  /\ Reading(u)' => Reading(u) /\ view'[u] = view[u]
             /\ Finding(u)' => Finding(u) /\ view'[u] = view[u]
    BY <1>1 DEF OthersRest, Reading, Finding
<1>2. Viewing(t)' => view'[t].rec = slots[current]
    BY PinMoves
<1> QED
    BY <1>1, <1>2 DEF PinnedFilesExist, Viewing

LEMMA PinnedFilesStep ==
  ASSUME TypeOK, Mutex, Owners, Records, Files, PinnedFilesExist, Kept, Next
  PROVE  PinnedFilesExist'
<1>1. ASSUME NEW t \in Thread, MutexStep(t) PROVE PinnedFilesExist'
    BY <1>1, MutexEffect, PinnedFilesRest DEF stateVars, fileVars
<1>2. ASSUME NEW t \in Thread, PinStep(t) \/ UnpinStep(t) PROVE PinnedFilesExist'
  <2>1. UnpinStep(t) => ~Viewing(t)'
      BY PinMoves DEF Viewing, Reading, Finding
  <2> QED
      BY <1>2, <2>1, PinEffect, PinnedFilesRest DEF stateVars, fileVars
<1>3. ASSUME NEW t \in Thread, OwnerStep(t), ~InstallCommit(t)
      PROVE  PinnedFilesExist'
  <2>1. current' = current /\ slots'[current].gen = slots[current].gen
    <3>1. CASE FinishIssue(t)
        BY <3>1, Settling DEF TypeOK
    <3>2. CASE ~FinishIssue(t)
        BY <1>3, <3>2, SlotsKept
    <3> QED
        BY <3>1, <3>2
  <2>2. UNCHANGED fileVars
      BY <1>3 DEF OwnerStep, AdmitWriter, AdmitMaintenance, FinishIssue,
                  StoreGeneration, FinishAbort, FinishReclaim
  <2> QED
      BY <1>3, <2>1, <2>2, OwnerEffect, PinnedFilesRest DEF fileVars
<1>4. ASSUME NEW t \in Thread, InstallCommit(t) PROVE PinnedFilesExist'
  <2>1. slots'[current'] = disk /\ UNCHANGED fileVars
    <3>1. disk = Committing(t)
        BY <1>4, OwnerMoves, OwnerStages DEF Files
    <3>2. active.slot \in Slot
        BY <1>4, Settling
    <3> QED
        BY <1>4, <3>1, <3>2 DEF InstallCommit, TypeOK
  <2>2. ASSUME NEW u \in Thread
        PROVE  /\ Reading(u)' => Reading(u) /\ view'[u] = view[u]
               /\ Finding(u)' => Finding(u) /\ view'[u] = view[u]
      BY <1>4, OwnerEffect DEF OwnerStep, OthersRest, Viewing, Reading, Finding
  <2> QED
      BY <2>1, <2>2 DEF PinnedFilesExist, Files, fileVars
<1>5. ASSUME NEW t \in Thread, PublishStep(t) \/ FailStep(t) PROVE PinnedFilesExist'
  <2>1. UNCHANGED stateVars /\ catalogs \subseteq catalogs' /\ histories \subseteq histories'
      BY <1>5, OwnerSteps DEF PublishStep, InstallFiles, fileVars
  <2> QED
      BY <1>5, <2>1, OwnerEffect, PinnedFilesRest DEF stateVars
<1>6. ASSUME NEW t \in Thread, KeepStep(t) PROVE PinnedFilesExist'
  <2>1. UNCHANGED stateVars
      BY <1>6, OwnerSteps
  <2>2. CASE CaptureViews(t) \/ ReclaimEnds(t)
      BY <1>6, <2>1, <2>2, OwnerEffect, PinnedFilesRest
      DEF stateVars, fileVars, CaptureViews, ReclaimEnds
  <2>3. CASE DeleteCatalog(t) \/ DeleteHistory(t)
    <3>1. /\ pc[t] = "deleting" /\ UNCHANGED <<pc, view>>
          /\ \A g \in keep.data : g \in catalogs => g \in catalogs'
          /\ \A g \in keep.history : g \in histories => g \in histories'
        BY <2>3 DEF DeleteCatalog, DeleteHistory
    <3>2. /\ slots[current].gen \in keep.data \intersect keep.history
          /\ \A u \in Thread : Reading(u) => view[u].rec.gen \in keep.data
          /\ \A u \in Thread : Finding(u) => view[u].rec.gen \in keep.history
        BY <3>1 DEF Kept
    <3> QED
        BY <2>1, <3>1, <3>2 DEF PinnedFilesExist, Reading, Finding, stateVars
  <2> QED
      BY <1>6, <2>2, <2>3 DEF KeepStep
<1>7. CASE Reopen
  <2>1. /\ slots'[current'] = disk /\ UNCHANGED fileVars
        /\ \A u \in Thread : pc'[u] = "idle"
      BY <1>7, RegistryAssumption DEF Reopen, Slot
  <2> QED
      BY <2>1 DEF PinnedFilesExist, Files, fileVars, Reading, Finding
<1> QED
    BY <1>1, <1>2, <1>3, <1>4, <1>5, <1>6, <1>7, StepKinds DEF OwnerStep

\* Next to another owner's step, or with no owner, nothing is being deleted.
LEMMA KeptIdle ==
  ASSUME Owners, NEW t \in Thread, OthersRest(t), pc'[t] # "deleting",
         pc[t] \in Owning \/ active = NoOwner
  PROVE  Kept'
<1>1. \A u \in Thread : pc'[u] # "deleting"
    BY NoRival, Unowned, OwnerStages DEF OthersRest, Owning
<1> QED
    BY <1>1 DEF Kept

LEMMA KeptStep ==
  ASSUME TypeOK, Mutex, Owners, Pins, Views, Kept, Next
  PROVE  Kept'
<1>1. ASSUME NEW t \in Thread, MutexStep(t) PROVE Kept'
  <2>1. \A u \in Thread :
          /\ Reading(u)' => Reading(u) /\ view'[u] = view[u]
          /\ Finding(u)' => Finding(u) /\ view'[u] = view[u]
          /\ pc'[u] = "deleting" => pc[u] = "deleting"
      BY <1>1, MutexEffect DEF OthersRest, Viewing, Reading, Finding
  <2>2. UNCHANGED stateVars /\ UNCHANGED keep
      BY <1>1, MutexEffect
  <2> QED
      BY <2>1, <2>2 DEF Kept, stateVars
<1>2. ASSUME NEW t \in Thread, PinStep(t) \/ UnpinStep(t) PROVE Kept'
  <2>1. OthersRest(t) /\ UNCHANGED stateVars /\ UNCHANGED keep
      BY <1>2, PinEffect
  <2>2. \A u \in Thread \ {t} :
          /\ Reading(u)' => Reading(u) /\ view'[u] = view[u]
          /\ Finding(u)' => Finding(u) /\ view'[u] = view[u]
          /\ pc'[u] = "deleting" => pc[u] = "deleting"
      BY <2>1 DEF OthersRest, Reading, Finding
  <2>3. /\ Viewing(t)' => view'[t].rec = slots[current]
        /\ pc'[t] # "deleting"
      BY <1>2, PinMoves DEF Viewing, Reading, Finding, PinStep
  <2> QED
      BY <2>1, <2>2, <2>3 DEF Kept, Viewing, stateVars
<1>3. ASSUME NEW t \in Thread, OwnerStep(t) PROVE Kept'
  <2>1. OthersRest(t) /\ pc'[t] # "deleting"
      BY <1>3, OwnerEffect, OwnerMoves DEF OwnerStep
  <2>2. CASE FinishIssue(t) \/ InstallCommit(t) \/ FinishAbort(t) \/ FinishReclaim(t)
    <3>1. pc[t] \in Owning
        BY <2>2, OwnerMoves, OwnerStages DEF Owning, Writing
    <3> QED
        BY <2>1, <3>1, KeptIdle
  <2>3. CASE AdmitWriter(t) \/ AdmitMaintenance(t) \/ StoreGeneration(t)
    <3>1. active = NoOwner
        BY <2>3, OwnerMoves DEF AdmitWriter, AdmitMaintenance, Owners
    <3> QED
        BY <2>1, <3>1, KeptIdle
  <2> QED
      BY <1>3, <2>2, <2>3 DEF OwnerStep
<1>4. ASSUME NEW t \in Thread, PublishStep(t) \/ FailStep(t) PROVE Kept'
  <2>1. pc[t] \in Owning /\ OthersRest(t) /\ pc'[t] # "deleting"
      BY <1>4, OwnerEffect, OwnerSteps, OwnerStages DEF PublishStep, Owning, Writing
  <2> QED
      BY <2>1, KeptIdle
<1>5. ASSUME NEW t \in Thread, KeepStep(t) PROVE Kept'
  <2>1. /\ pc[t] \in Owning /\ OthersRest(t) /\ UNCHANGED stateVars
        /\ ~Viewing(t) /\ ~Viewing(t)'
      BY <1>5, OwnerEffect, OwnerSteps DEF Owning
  <2>2. \A u \in Thread :
          /\ Reading(u)' => Reading(u) /\ view'[u] = view[u]
          /\ Finding(u)' => Finding(u) /\ view'[u] = view[u]
      BY <2>1 DEF OthersRest, Viewing, Reading, Finding
  <2>3. CASE CaptureViews(t)
    <3>1. keep' = [data |-> ReachableData, history |-> ReachableHistory]
        BY <2>3 DEF CaptureViews
    <3>2. slots[current].gen \in ReachableData \intersect ReachableHistory
        BY DEF ReachableData, ReachableHistory, TypeOK
    <3>3. ASSUME NEW u \in Thread, Reading(u)
          PROVE  view[u].rec.gen \in ReachableData
      <4>1. /\ view[u].slot \in Slot /\ view[u].rec.gen = slots[view[u].slot].gen
            /\ dataPins[view[u].slot] # 0
          BY <3>3, PinCounted DEF Views, Viewing
      <4> QED
          BY <4>1 DEF ReachableData
    <3>4. ASSUME NEW u \in Thread, Finding(u)
          PROVE  view[u].rec.gen \in ReachableHistory
      <4>1. /\ view[u].slot \in Slot /\ view[u].rec.gen = slots[view[u].slot].gen
            /\ resolutionPins[view[u].slot] # 0
          BY <3>4, PinCounted DEF Views, Viewing
      <4> QED
          BY <4>1 DEF ReachableHistory
    <3> QED
        BY <2>1, <2>2, <3>1, <3>2, <3>3, <3>4 DEF Kept, stateVars
  <2>4. CASE DeleteCatalog(t) \/ DeleteHistory(t)
      BY <2>1, <2>4 DEF DeleteCatalog, DeleteHistory, Kept, Reading, Finding, stateVars
  <2>5. CASE ReclaimEnds(t)
    <3>1. pc'[t] # "deleting"
        BY <2>5 DEF ReclaimEnds, TypeOK
    <3> QED
        BY <2>1, <3>1, KeptIdle
  <2> QED
      BY <1>5, <2>3, <2>4, <2>5 DEF KeepStep
<1>6. CASE Reopen
    BY <1>6 DEF Reopen, Kept
<1> QED
    BY <1>1, <1>2, <1>3, <1>4, <1>5, <1>6, StepKinds

-----------------------------------------------------------------------------
(* Answers.                                                                 *)

\* A step that commits nothing and starts no attempt.
LEMMA DecidedRest ==
  ASSUME Decided, NEW t \in Thread, OthersRest(t), ~Viewing(t)',
         committed' = committed,
         pc'[t] \in Building => pc[t] \in Building /\ view'[t] = view[t]
  PROVE  Decided'
<1>1. \A u \in Thread : /\ Finding(u)' => Finding(u) /\ view'[u] = view[u]
                        /\ pc'[u] \in Building => pc[u] \in Building /\ view'[u] = view[u]
    BY DEF OthersRest, Viewing, Finding
<1> QED
    BY <1>1 DEF Decided, Decides

LEMMA DecidedStep ==
  ASSUME TypeOK, Owners, Records, Commits, Views, Decided, Next
  PROVE  Decided'
<1>1. ASSUME NEW t \in Thread, MutexStep(t) PROVE Decided'
    BY <1>1, MutexEffect, DecidedRest DEF fileVars, Owning, Writing
<1>2. ASSUME NEW t \in Thread, PinHistory(t) PROVE Decided'
  <2>1. /\ OthersRest(t) /\ committed' = committed
        /\ view'[t].rec = slots[current] /\ view'[t].active = active.attempt
        /\ \A u \in Thread : pc'[u] \in Building => pc[u] \in Building /\ view'[u] = view[u]
    <3>1. pc'[t] \notin Building
        BY <1>2, PinMoves, StagesDiffer DEF Owning, Writing
    <3> QED
        BY <1>2, <3>1, PinEffect, PinMoves DEF PinStep, fileVars, OthersRest
  <2>2. ASSUME NEW a \in Attempt, a # active.attempt
        PROVE  Decides(t, a)'
    <3>1. committed[a] = 0 \/ committed[a] <= slots[current].gen
        BY <2>2 DEF Commits
    <3>2. \A u \in Thread : pc[u] \in Building => view[u].attempt = active.attempt
        BY DEF Owners, Writing
    <3> QED
        BY <2>1, <2>2, <3>1, <3>2 DEF Decides
  <2>3. \A u \in Thread \ {t} : Finding(u)' => Finding(u) /\ view'[u] = view[u]
      BY <2>1 DEF OthersRest, Finding
  <2> QED
      BY <2>1, <2>2, <2>3 DEF Decided, Decides
<1>3. ASSUME NEW t \in Thread, PinData(t) PROVE Decided'
  <2>1. pc'[t] \notin Building /\ ~Finding(t)'
      BY <1>3, PinMoves, StagesDiffer DEF Owning, Writing, Finding
  <2>2. \A u \in Thread : /\ Finding(u)' => Finding(u) /\ view'[u] = view[u]
                          /\ pc'[u] \in Building => pc[u] \in Building /\ view'[u] = view[u]
      BY <1>3, <2>1, PinEffect DEF PinStep, OthersRest, Finding
  <2> QED
      BY <1>3, <2>2, PinEffect DEF PinStep, fileVars, Decided, Decides
<1>4. ASSUME NEW t \in Thread, UnpinStep(t) PROVE Decided'
  <2>1. pc'[t] \notin Building /\ ~Viewing(t)'
      BY <1>4, PinMoves, StagesDiffer DEF Owning, Writing, Viewing, Reading, Finding
  <2> QED
      BY <1>4, <2>1, PinEffect, DecidedRest DEF fileVars
<1>5. ASSUME NEW t \in Thread, OwnerStep(t), ~FinishIssue(t) PROVE Decided'
  <2>1. pc'[t] \notin Building
      BY <1>5, OwnerMoves, OwnerStages, StagesDiffer DEF OwnerStep, Owning, Writing
  <2>2. committed' = committed
      BY <1>5 DEF OwnerStep, AdmitWriter, AdmitMaintenance, InstallCommit,
                  StoreGeneration, FinishAbort, FinishReclaim, fileVars
  <2> QED
      BY <1>5, <2>1, <2>2, OwnerEffect, DecidedRest
<1>6. ASSUME NEW t \in Thread, FinishIssue(t) PROVE Decided'
  <2>1. /\ OthersRest(t) /\ ~Viewing(t)' /\ committed' = committed
        /\ view'[t].attempt = Issued(t).issued /\ view[t].rec = slots[current]
      BY <1>6, OwnerEffect, OwnerMoves, OwnerStages
      DEF OwnerStep, FinishIssue, fileVars, Records, Recorded, Writing
  <2>2. view'[t].attempt = slots[current].issued + 1
      BY <2>1, Numbers
  <2>3. \A u \in Thread : Finding(u)' =>
          Finding(u) /\ view'[u] = view[u] /\ view[u].rec.issued < view'[t].attempt
      BY <2>1, <2>2, Numbers DEF OthersRest, Viewing, Finding, Views
  <2>4. \A u \in Thread \ {t} : pc'[u] = pc[u] /\ view'[u] = view[u]
      BY <2>1 DEF OthersRest
  <2>5. ASSUME NEW u \in Thread, Finding(u)', NEW a \in Attempt,
               a <= view'[u].rec.issued, a # view'[u].active
        PROVE  Decides(u, a)'
    <3>1. Decides(u, a) /\ a # view'[t].attempt
        BY <2>3, <2>5, <2>2, Numbers DEF Decided, Attempt
    <3> QED
        BY <2>1, <2>3, <2>4, <2>5, <3>1 DEF Decides
  <2> QED
      BY <2>5 DEF Decided
<1>7. ASSUME NEW t \in Thread, PublishStep(t) \/ FailStep(t) PROVE Decided'
  <2>1. /\ OthersRest(t) /\ ~Viewing(t)' /\ pc'[t] \notin Building
        /\ \/ committed' = committed
           \/ pc[t] = "building" /\ InstallFiles(t)
      BY <1>7, OwnerEffect, OwnerSteps, OwnerStages, StagesDiffer
      DEF PublishStep, fileVars, Owning, Writing
  <2>2. CASE committed' = committed
      BY <2>1, <2>2, DecidedRest
  <2>3. CASE pc[t] = "building" /\ InstallFiles(t)
    <3>1. \A u \in Thread : /\ Finding(u)' => Finding(u) /\ view'[u] = view[u]
                            /\ pc'[u] \in Building => pc[u] \in Building /\ view'[u] = view[u]
        BY <2>1 DEF OthersRest, Viewing, Finding
    <3>2. \A a \in Attempt \ {view[t].attempt} : committed'[a] = committed[a]
        BY <2>3, CommitsInstall
    <3>3. pc[t] \in Building
        BY <2>3, OwnerStages
    <3> QED
        BY <3>1, <3>2, <3>3 DEF Decided, Decides
  <2> QED
      BY <2>1, <2>2, <2>3
<1>8. ASSUME NEW t \in Thread, KeepStep(t) PROVE Decided'
  <2>1. pc'[t] \notin Building
      BY <1>8, OwnerSteps, OwnerStages, StagesDiffer DEF Owning, Writing
  <2> QED
      BY <1>8, <2>1, OwnerSteps, OwnerEffect, DecidedRest
<1>9. CASE Reopen
    BY <1>9 DEF Reopen, Decided, Finding
<1> QED
    BY <1>1, <1>2, <1>3, <1>4, <1>5, <1>6, <1>7, <1>8, <1>9, StepKinds DEF PinStep

\* A step that answers nobody, commits nothing and starts no attempt.
LEMMA AnsweredRest ==
  ASSUME TypeOK, TypeOK', Answered, NEW t \in Thread, OthersRest(t),
         committed' = committed, told' = told,
         slots'[current'].issued >= slots[current].issued,
         slots'[current'].gen >= slots[current].gen,
         pc'[t] \in Building => pc[t] \in Building /\ view'[t] = view[t]
  PROVE  Answered'
<1>1. \A u \in Thread : pc'[u] \in Building => pc[u] \in Building /\ view'[u] = view[u]
    BY DEF OthersRest
<1>2. /\ slots[current].gen \in Nat /\ slots'[current'].gen \in Nat
      /\ slots[current].issued \in Nat /\ slots'[current'].issued \in Nat
    BY RegistryAssumption DEF TypeOK, Record, Generation
<1>3. ASSUME NEW a \in Attempt
      PROVE  /\ told[a] # "nothing" => a <= slots'[current'].issued
             /\ told[a] = "durable" => committed[a] <= slots'[current'].gen
  <2>1. a \in Nat /\ committed[a] \in Nat
      BY RegistryAssumption DEF Attempt, TypeOK, Generation
  <2>2. /\ told[a] # "nothing" => a <= slots[current].issued
        /\ told[a] = "durable" => committed[a] <= slots[current].gen
      BY DEF Answered
  <2> QED
      BY <1>2, <2>1, <2>2
<1> QED
    BY <1>1, <1>3 DEF Answered

LEMMA AnsweredStep ==
  ASSUME TypeOK, TypeOK', Mutex, Owners, Records, Files, Commits, Views, Decided,
         Answered, Next
  PROVE  Answered'
<1>1. ASSUME NEW t \in Thread, MutexStep(t) PROVE Answered'
    BY <1>1, MutexEffect, AnsweredRest, Numbers
    DEF stateVars, fileVars, Owning, Writing
<1>2. ASSUME NEW t \in Thread, PinStep(t) \/ DropSnapshot(t) \/ SearchFails(t)
      PROVE  Answered'
  <2>1. pc'[t] \notin Building
      BY <1>2, PinEffect DEF UnpinStep, NoOwnerMoves, Owning, Writing
  <2>2. told' = told
      BY <1>2 DEF PinStep, PinData, PinHistory, DropSnapshot, SearchFails
  <2> QED
      BY <1>2, <2>1, <2>2, PinEffect, AnsweredRest, Numbers
      DEF UnpinStep, stateVars, fileVars
<1>3. ASSUME NEW t \in Thread, Answer(t) PROVE Answered'
  <2>1. /\ UNCHANGED <<stateVars, fileVars>> /\ OthersRest(t)
        /\ pc'[t] \notin Building
      BY <1>3, PinEffect DEF UnpinStep, NoOwnerMoves, Owning, Writing
  <2>2. \A u \in Thread : pc'[u] \in Building => pc[u] \in Building /\ view'[u] = view[u]
      BY <2>1 DEF OthersRest
  <2>3. CASE ~Decidable(t)
      BY <1>3, <2>1, <2>2, <2>3 DEF Answer, Answered, stateVars, fileVars
  <2>4. CASE Decidable(t)
    <3> DEFINE b == view[t].attempt
    <3>1. Finding(t) /\ b # 0 /\ b \in Attempt
        BY <1>3, Numbers DEF Answer, Goto, Finding, Records, Recorded, Attempt
    <3>2. /\ b <= view[t].rec.issued /\ b # view[t].active
        BY <2>4 DEF Decidable
    <3>3. Decides(t, b)
        BY <3>1, <3>2 DEF Decided
    <3>4. /\ view[t].rec.issued <= slots[current].issued
          /\ view[t].rec.gen <= slots[current].gen
        BY <3>1 DEF Views, Viewing
    <3>5. b <= slots[current].issued
        BY <3>1, <3>2, <3>4, Numbers
    <3>6. /\ told' = [told EXCEPT ![b] = IF Lists(view[t].rec, b) THEN "durable"
                                         ELSE "aborted"]
        BY <1>3, <2>4 DEF Answer
    <3>7. /\ told'[b] = "durable" => committed[b] # 0 /\ committed[b] <= slots[current].gen
          /\ told'[b] = "aborted" => committed[b] = 0
      <4>1. committed[b] \in Generation
          BY <3>1 DEF TypeOK
      <4> QED
          BY <3>1, <3>3, <3>4, <3>6, <4>1, Numbers
          DEF TypeOK, Lists, Decides, Generation
    <3>8. \A u \in Thread : pc[u] \in Building => view[u].attempt # b
        BY <3>3 DEF Decides
    <3>9. \A a \in Attempt \ {b} : told'[a] = told[a]
        BY <3>6 DEF TypeOK
    <3> QED
        BY <2>1, <2>2, <3>5, <3>7, <3>8, <3>9 DEF Answered, stateVars, fileVars
  <2> QED
      BY <2>3, <2>4
<1>4. ASSUME NEW t \in Thread, AdmitWriter(t) \/ AdmitMaintenance(t) \/ FinishReclaim(t)
                                 \/ InstallCommit(t)
      PROVE  Answered'
  <2>1. pc'[t] \notin Building
      BY <1>4, OwnerMoves, OwnerStages, StagesDiffer DEF Owning, Writing
  <2>2. committed' = committed /\ told' = told
      BY <1>4 DEF AdmitWriter, AdmitMaintenance, FinishReclaim, InstallCommit, fileVars
  <2>3. /\ slots'[current'].issued >= slots[current].issued
        /\ slots'[current'].gen >= slots[current].gen
    <3>1. CASE InstallCommit(t)
        BY <3>1, Settling, Numbers
    <3>2. CASE ~InstallCommit(t)
      <4>1. UNCHANGED <<current, slots>>
          BY <1>4, <3>2 DEF AdmitWriter, AdmitMaintenance, FinishReclaim
      <4> QED
          BY <4>1, Numbers
    <3> QED
        BY <3>1, <3>2
  <2> QED
      BY <1>4, <2>1, <2>2, <2>3, OwnerEffect, AnsweredRest DEF OwnerStep
<1>5. ASSUME NEW t \in Thread, FinishIssue(t) PROVE Answered'
  <2>1. /\ OthersRest(t) /\ UNCHANGED <<committed, told>>
        /\ view'[t].attempt = Issued(t).issued /\ view[t].rec = slots[current]
        /\ current' = current
      BY <1>5, OwnerEffect, OwnerMoves, OwnerStages
      DEF OwnerStep, FinishIssue, fileVars, Records, Recorded, Writing
  <2>2. /\ view'[t].attempt = slots[current].issued + 1
        /\ slots'[current].issued = slots[current].issued + 1
        /\ slots'[current].gen = slots[current].gen
      BY <1>5, <2>1, Settling, Numbers DEF TypeOK
  <2>3. \A u \in Thread : pc'[u] \in Building =>
          \/ pc[u] \in Building /\ view'[u] = view[u]
          \/ view'[u].attempt = slots[current].issued + 1
      BY <2>1, <2>2 DEF OthersRest
  <2>4. ASSUME NEW a \in Attempt, told[a] # "nothing"
        PROVE  a <= slots'[current].issued /\ a # slots[current].issued + 1
    <3>1. a <= slots[current].issued
        BY <2>4 DEF Answered
    <3> QED
        BY <2>2, <3>1, Numbers DEF Attempt
  <2> QED
      BY <2>1, <2>2, <2>3, <2>4 DEF Answered
<1>6. ASSUME NEW t \in Thread, StoreGeneration(t) PROVE Answered'
  <2> DEFINE b == view[t].attempt
  <2>1. /\ OthersRest(t) /\ UNCHANGED <<stateVars, committed>>
        /\ told' = [told EXCEPT ![b] = "durable"] /\ pc[t] = "storeGeneration"
        /\ pc'[t] \notin Building
      BY <1>6, OwnerEffect, OwnerMoves, StagesDiffer
      DEF OwnerStep, StoreGeneration, fileVars, Owning, Writing
  <2>2. /\ slots[current] = Committing(t) /\ b # 0 /\ b = view[t].rec.issued
        /\ committed[b] = Committing(t).gen
      BY <2>1 DEF Records, Recorded, Commits, Attempted
  <2>3. /\ b \in Attempt /\ b <= slots[current].issued
        /\ committed[b] # 0 /\ committed[b] <= slots[current].gen
      BY <2>2, Numbers DEF Attempt
  <2>4. \A u \in Thread : pc'[u] \in Building => pc[u] \in Building /\ view'[u] = view[u]
      BY <2>1 DEF OthersRest
  <2>5. told'[b] = "durable" /\ \A a \in Attempt \ {b} : told'[a] = told[a]
      BY <2>1, <2>3 DEF TypeOK
  <2> QED
      BY <2>1, <2>3, <2>4, <2>5 DEF Answered, stateVars
<1>7. ASSUME NEW t \in Thread, FinishAbort(t) PROVE Answered'
  <2> DEFINE b == view[t].attempt
  <2>1. /\ OthersRest(t) /\ UNCHANGED <<current, slots, committed>>
        /\ pc[t] \in Aborting /\ pc[t] \in Owning
        /\ pc'[t] \notin Building
      BY <1>7, OwnerEffect, OwnerMoves, OwnerStages, StagesDiffer
      DEF OwnerStep, FinishAbort, fileVars, Owning, Writing
  <2>2. \A u \in Thread : pc'[u] \notin Building
      BY <2>1, NoRival DEF Owning, Writing
  <2>3. CASE b = 0
      BY <1>7, <2>1, <2>2, <2>3 DEF FinishAbort, Answered
  <2>4. CASE b # 0
    <3>1. /\ told' = [told EXCEPT ![b] = "aborted"]
          /\ committed[b] = 0 /\ b = slots[current].issued
        BY <1>7, <2>1, <2>4
        DEF FinishAbort, Commits, Attempted, Records, Recorded, Writing
    <3>2. b \in Attempt /\ b <= slots[current].issued
        BY <2>4, <3>1, Numbers DEF Attempt
    <3>3. told'[b] = "aborted" /\ \A a \in Attempt \ {b} : told'[a] = told[a]
        BY <3>1, <3>2 DEF TypeOK
    <3> QED
        BY <2>1, <2>2, <3>1, <3>2, <3>3 DEF Answered
  <2> QED
      BY <2>3, <2>4
<1>8. ASSUME NEW t \in Thread, PublishStep(t) \/ FailStep(t) PROVE Answered'
  <2>1. /\ OthersRest(t) /\ pc'[t] \notin Building
        /\ UNCHANGED stateVars /\ told' = told
        /\ \/ committed' = committed
           \/ pc[t] = "building" /\ InstallFiles(t)
      BY <1>8, OwnerEffect, OwnerSteps, OwnerStages, StagesDiffer
      DEF PublishStep, fileVars, Owning, Writing
  <2>2. CASE committed' = committed
      BY <2>1, <2>2, AnsweredRest, Numbers DEF stateVars
  <2>3. CASE pc[t] = "building" /\ InstallFiles(t)
    <3>1. \A u \in Thread : pc'[u] \in Building => pc[u] \in Building /\ view'[u] = view[u]
        BY <2>1 DEF OthersRest
    <3>2. /\ \A a \in Attempt \ {view[t].attempt} : committed'[a] = committed[a]
          /\ committed[view[t].attempt] = 0
        BY <2>3, CommitsInstall
    <3>3. told[view[t].attempt] \notin {"aborted", "durable"}
        BY <2>3, <3>2, CommitsInstall, OwnerStages DEF Answered
    <3> QED
        BY <2>1, <3>1, <3>2, <3>3 DEF Answered, stateVars
  <2> QED
      BY <2>1, <2>2, <2>3
<1>9. ASSUME NEW t \in Thread, KeepStep(t) PROVE Answered'
  <2>1. pc'[t] \notin Building
      BY <1>9, OwnerSteps, OwnerStages, StagesDiffer DEF Owning, Writing
  <2>2. OthersRest(t) /\ UNCHANGED <<current, slots, committed, told>>
      BY <1>9, OwnerSteps, OwnerEffect DEF stateVars
  <2>3. /\ slots'[current'].issued >= slots[current].issued
        /\ slots'[current'].gen >= slots[current].gen
      BY <2>2, Numbers
  <2> QED
      BY <2>1, <2>2, <2>3, AnsweredRest
<1>10. CASE Reopen
  <2>1. /\ slots'[current'] = disk /\ UNCHANGED <<committed, told>>
        /\ \A u \in Thread : pc'[u] \notin Building
    <3>1. \A u \in Thread : pc'[u] = "idle"
        BY <1>10 DEF Reopen
    <3> QED
        BY <1>10, <3>1, StagesDiffer, RegistryAssumption
        DEF Reopen, Slot, fileVars, Owning, Writing
  <2>2. /\ slots'[current'].issued >= slots[current].issued
        /\ slots'[current'].gen >= slots[current].gen
      BY <2>1 DEF Files
  <2>3. ASSUME NEW a \in Attempt
        PROVE  /\ told[a] # "nothing" => a <= slots'[current'].issued
               /\ told[a] = "durable" => committed[a] <= slots'[current'].gen
    <3>1. a \in Nat /\ committed[a] \in Nat
        BY RegistryAssumption DEF Attempt, TypeOK, Generation
    <3>2. /\ told[a] # "nothing" => a <= slots[current].issued
          /\ told[a] = "durable" => committed[a] <= slots[current].gen
        BY DEF Answered
    <3> QED
        BY <2>1, <2>2, <3>1, <3>2, Numbers
  <2> QED
      BY <2>1, <2>3 DEF Answered
<1> QED
    BY <1>1, <1>2, <1>3, <1>4, <1>5, <1>6, <1>7, <1>8, <1>9, <1>10, StepKinds
    DEF UnpinStep, OwnerStep

-----------------------------------------------------------------------------
(* The unlocked generation.                                                 *)

LEMMA GenerationsStep ==
  ASSUME TypeOK, TypeOK', Mutex, Owners, Records, Views, Generations,
         GenerationNotBehind, Next
  PROVE  Generations' /\ GenerationNotBehind'
<1>1. ASSUME NEW t \in Thread, OthersRest(t), ~Viewing(t)',
             pc[t] # "storeGeneration",
             slots'[current'].gen = slots[current].gen, generation' = generation
      PROVE  Generations' /\ GenerationNotBehind'
  <2>1. \A u \in Thread : /\ pc[u] = "storeGeneration" => pc'[u] = "storeGeneration"
                          /\ Reading(u)' => Reading(u) /\ view'[u] = view[u]
      BY <1>1 DEF OthersRest, Viewing, Reading
  <2> QED
      BY <1>1, <2>1 DEF Generations, GenerationNotBehind
<1>2. ASSUME NEW t \in Thread, MutexStep(t) PROVE Generations' /\ GenerationNotBehind'
    BY <1>1, <1>2, MutexEffect DEF stateVars
<1>3. ASSUME NEW t \in Thread, PinHistory(t) \/ UnpinStep(t)
      PROVE  Generations' /\ GenerationNotBehind'
  <2>1. ~Reading(t)' /\ OthersRest(t) /\ UNCHANGED <<stateVars, generation>>
        /\ pc[t] # "storeGeneration"
      BY <1>3, PinMoves, PinEffect DEF Reading, PinStep, NoOwnerMoves
  <2>2. \A u \in Thread : /\ pc[u] = "storeGeneration" => pc'[u] = "storeGeneration"
                          /\ Reading(u)' => Reading(u) /\ view'[u] = view[u]
      BY <2>1 DEF OthersRest, Reading
  <2> QED
      BY <2>1, <2>2 DEF Generations, GenerationNotBehind, stateVars
<1>4. ASSUME NEW t \in Thread, PinData(t) PROVE Generations' /\ GenerationNotBehind'
  <2>1. /\ pc[t] = "snapLocked" /\ view'[t].rec = slots[current] /\ OthersRest(t)
        /\ UNCHANGED <<stateVars, generation>>
      BY <1>4, PinMoves, PinEffect DEF PinStep
  <2>2. \A u \in Thread : pc[u] # "storeGeneration"
      BY <2>1 DEF Mutex, Locked
  <2>3. slots[current].gen <= generation
      BY <2>2 DEF Generations
  <2>4. \A u \in Thread \ {t} : Reading(u)' => Reading(u) /\ view'[u] = view[u]
      BY <2>1 DEF OthersRest, Reading
  <2> QED
      BY <2>1, <2>3, <2>4 DEF Generations, GenerationNotBehind, stateVars
<1>5. ASSUME NEW t \in Thread, OwnerStep(t), ~InstallCommit(t), ~StoreGeneration(t)
      PROVE  Generations' /\ GenerationNotBehind'
  <2>1. /\ pc[t] # "storeGeneration" /\ generation' = generation
      BY <1>5 DEF OwnerStep, AdmitWriter, AdmitMaintenance, FinishIssue,
                  FinishAbort, FinishReclaim, Goto
  <2>2. slots'[current'].gen = slots[current].gen
    <3>1. CASE FinishIssue(t)
        BY <3>1, Settling DEF TypeOK
    <3>2. CASE ~FinishIssue(t)
        BY <1>5, <3>2, SlotsKept
    <3> QED
        BY <3>1, <3>2
  <2> QED
      BY <1>1, <1>5, <2>1, <2>2, OwnerEffect
<1>6. ASSUME NEW t \in Thread, InstallCommit(t)
      PROVE  Generations' /\ GenerationNotBehind'
  <2>1. /\ pc'[t] = "storeGeneration" /\ ~Viewing(t)' /\ OthersRest(t)
        /\ generation' = generation
      BY <1>6, OwnerMoves, OwnerEffect DEF OwnerStep, InstallCommit
  <2>2. \A u \in Thread : Reading(u)' => Reading(u) /\ view'[u] = view[u]
      BY <2>1 DEF OthersRest, Viewing, Reading
  <2> QED
      BY <2>1, <2>2 DEF Generations, GenerationNotBehind
<1>7. ASSUME NEW t \in Thread, StoreGeneration(t)
      PROVE  Generations' /\ GenerationNotBehind'
  <2>1. /\ pc[t] = "storeGeneration" /\ ~Viewing(t)' /\ OthersRest(t)
        /\ generation' = Committing(t).gen /\ UNCHANGED stateVars
      BY <1>7, OwnerMoves, OwnerEffect DEF OwnerStep, StoreGeneration
  <2>2. generation' = slots[current].gen
      BY <2>1 DEF Records, Recorded
  <2>3. \A u \in Thread : Reading(u)' => Reading(u) /\ view'[u] = view[u]
      BY <2>1 DEF OthersRest, Viewing, Reading
  <2> QED
      BY <2>1, <2>2, <2>3, Numbers
      DEF Generations, GenerationNotBehind, Views, Viewing, stateVars
<1>8. ASSUME NEW t \in Thread, PublishStep(t) \/ FailStep(t) \/ KeepStep(t)
      PROVE  Generations' /\ GenerationNotBehind'
  <2>1. UNCHANGED <<stateVars, generation>> /\ pc[t] # "storeGeneration"
      BY <1>8, OwnerSteps, StagesDiffer DEF PublishStep, Owning
  <2> QED
      BY <1>1, <1>8, <2>1, OwnerEffect DEF stateVars
<1>9. CASE Reopen
  <2>1. slots'[current'].gen = disk.gen /\ generation' = disk.gen
      BY <1>9, RegistryAssumption DEF Reopen, Slot
  <2> QED
      BY <1>9, <2>1, Numbers DEF Reopen, Generations, GenerationNotBehind, Reading
<1> QED
    BY <1>2, <1>3, <1>4, <1>5, <1>6, <1>7, <1>8, <1>9, StepKinds DEF PinStep

-----------------------------------------------------------------------------
(* The invariant.                                                           *)

LEMMA InitIInv ==
  Init => IInv
<1> SUFFICES ASSUME Init PROVE IInv
    OBVIOUS
<1> USE RegistryAssumption DEF Init
<1>1. TypeOK
  <2>1. /\ [issued |-> 0, gen |-> 0] \in Record /\ 1 \in Slot
        /\ 0 \in Generation /\ 0 \in 0 .. MaxPins
      BY DEF Slot, Record, Generation
  <2>2. NoView \in View /\ "idle" \in PC
      BY DEF NoView, View, Record, Generation, PC
  <2>3. NoOwner \in [kind : {"none", "writer", "maintenance"}, slot : 0 .. Slots,
                     attempt : 0 .. MaxIssued]
      BY DEF NoOwner
  <2> QED
      BY <2>1, <2>2, <2>3 DEF TypeOK, NothingKept
<1>2. \A t \in Thread : /\ pc[t] = "idle" /\ pc[t] \notin Owning /\ pc[t] \notin Locked
                        /\ ~Viewing(t)
    BY StagesDiffer DEF Locked, Viewing, Reading, Finding
<1>3. Mutex
    BY <1>2 DEF Mutex
<1>4. Owners
    BY <1>2 DEF Owners, Owning, NoOwner
<1>5. Pins
  <2>1. \A s \in Slot : Readers(s) = {} /\ Resolvers(s) = {}
      BY DEF Readers, Resolvers
  <2> QED
      BY <2>1, FS_EmptySet DEF Pins
<1>6. Records
    BY <1>2 DEF Records, Recorded, Owning, Writing
<1>7. slots[current] = disk /\ disk.gen = 0
    BY DEF Slot
<1>8. Files
    BY <1>2, <1>7 DEF Files, Owning, Writing
<1>9. Commits
    BY <1>2 DEF Commits, Attempted, Owning, Writing
<1>10. Views /\ PinnedFilesExist /\ Kept /\ Decided
    BY <1>2, <1>7 DEF Views, PinnedFilesExist, Kept, Decided, Viewing
<1>11. Answered
    BY DEF Answered
<1>12. Generations /\ GenerationNotBehind /\ WriterSlotUnpinned
    BY <1>2, <1>7 DEF Generations, GenerationNotBehind, WriterSlotUnpinned, Viewing,
                      NoOwner
<1> QED
    BY <1>1, <1>3, <1>4, <1>5, <1>6, <1>8, <1>9, <1>10, <1>11, <1>12 DEF IInv

LEMMA IInvRest ==
  IInv /\ UNCHANGED vars => IInv'
<1> SUFFICES ASSUME IInv, UNCHANGED vars PROVE IInv'
    OBVIOUS
<1> USE DEF vars, stateVars, pinVars, fileVars
<1>1. TypeOK' /\ Mutex' /\ Owners' /\ Generations'
    BY DEF IInv, TypeOK, Mutex, Owners, Generations
<1>2. Pins'
    BY DEF IInv, Pins, Readers, Resolvers
<1>3. Records' /\ Commits'
    BY DEF IInv, Records, Recorded, Commits, Attempted, Committing
<1>4. Files'
    BY DEF IInv, Files, Issued, Committing
<1>5. Views' /\ PinnedFilesExist' /\ Kept' /\ GenerationNotBehind' /\ WriterSlotUnpinned'
    BY DEF IInv, Views, Viewing, Reading, Finding, PinnedFilesExist, Kept,
           GenerationNotBehind, WriterSlotUnpinned
<1>6. Decided' /\ Answered'
    BY DEF IInv, Decided, Decides, Answered, Finding
<1> QED
    BY <1>1, <1>2, <1>3, <1>4, <1>5, <1>6 DEF IInv

LEMMA IInvStep ==
  IInv /\ [Next]_vars => IInv'
<1>1. ASSUME IInv, Next PROVE IInv'
  <2>1. TypeOK' /\ Mutex' /\ Owners'
      BY <1>1, TypeStep, MutexInvariant, OwnersStep DEF IInv
  <2>2. Pins' /\ Records' /\ Files' /\ Commits' /\ Views'
      BY <1>1, PinsStep, RecordsStep, FilesStep, CommitsStep, ViewsStep DEF IInv
  <2>3. PinnedFilesExist' /\ Kept' /\ WriterSlotUnpinned'
      BY <1>1, PinnedFilesStep, KeptStep, WriterSlotStep DEF IInv
  <2>4. Decided' /\ Answered'
      BY <1>1, <2>1, DecidedStep, AnsweredStep DEF IInv
  <2>5. Generations' /\ GenerationNotBehind'
      BY <1>1, <2>1, GenerationsStep DEF IInv
  <2> QED
      BY <2>1, <2>2, <2>3, <2>4, <2>5 DEF IInv
<1> QED
    BY <1>1, IInvRest

\* The invariant holds in every reachable state, for any number of threads,
\* slots, pins, attempts and generations.
THEOREM Invariance == Spec => []IInv
BY InitIInv, IInvStep, PTL DEF Spec

\* The registry's fields, the threads' captures and the files keep their types:
\* no pin count or limit is ever passed (Registry::increment, commit_prepared).
THEOREM TypeCorrect == Spec => []TypeOK
BY Invariance, PTL DEF IInv

\* Reclamation (reclaim.rs, Reachable) never removes the files of a view that is
\* pinned, whenever it captured what is reachable and whoever pins meanwhile.
THEOREM PinnedFilesExistAlways == Spec => []PinnedFilesExist
BY Invariance, PTL DEF IInv

\* A slot that is pinned is not reused, so a view stays what it was.
THEOREM PinnedSlotsKeepTheirViewAlways == Spec => []PinnedSlotsKeepTheirView
<1>1. IInv => PinnedSlotsKeepTheirView
    BY DEF IInv, Views, Viewing, PinnedSlotsKeepTheirView
<1> QED
    BY Invariance, <1>1, PTL

\* commit_prepared's assertion: nobody pins the slot a writer was given, from
\* its admission to its commit.
THEOREM WriterSlotUnpinnedAlways == Spec => []WriterSlotUnpinned
BY Invariance, PTL DEF IInv

\* Database::generation is never behind a snapshot somebody holds.
THEOREM GenerationNotBehindAlways == Spec => []GenerationNotBehind
BY Invariance, PTL DEF IInv

\* resolve_catalog, a writer's receipt and an abort agree with the files,
\* whoever answered and however late.
THEOREM AnswersAreTrueAlways == Spec => []AnswersAreTrue
<1>1. IInv => AnswersAreTrue
    BY DEF IInv, Answered, AnswersAreTrue
<1> QED
    BY Invariance, <1>1, PTL

\* A new snapshot shows every commit whose receipt was returned, and nothing the
\* files do not authorize.
THEOREM SnapshotsAreAlwaysFresh == Spec => SnapshotsAreFresh
<1> DEFINE Fresh ==
      \A t \in Thread : ~Reading(t) /\ Reading(t)' =>
        /\ view'[t].rec.gen <= disk.gen
        /\ \A a \in Attempt : told[a] = "durable" => Lists(view'[t].rec, a)
<1>1. ASSUME IInv, Next, NEW t \in Thread, ~Reading(t), Reading(t)'
      PROVE  view'[t].rec = slots[current]
  <2>1. CASE Reopen
      BY <1>1, <2>1 DEF Reopen, Reading
  <2>2. PICK u \in Thread :
          \/ MutexStep(u) \/ PinStep(u) \/ UnpinStep(u) \/ OwnerStep(u)
          \/ PublishStep(u) \/ FailStep(u) \/ KeepStep(u)
        \/ Reopen
      BY <1>1, StepKinds
  <2>3. CASE ~Reopen
    <3>1. OthersRest(u)
        BY <1>1, <2>2, <2>3, MutexEffect, PinEffect, OwnerEffect DEF IInv
    <3>2. u = t
        BY <1>1, <3>1 DEF OthersRest, Reading
    <3>3. PinStep(t)
        BY <1>1, <2>2, <2>3, <3>2, MutexEffect, OwnerEffect, PinMoves
        DEF IInv, Viewing, Reading
    <3> QED
        BY <1>1, <3>3, PinMoves DEF IInv
  <2> QED
      BY <2>1, <2>3
<1>2. IInv /\ [Next]_vars => [Fresh]_vars
  <2> SUFFICES ASSUME IInv, Next, NEW t \in Thread, ~Reading(t), Reading(t)'
               PROVE  /\ view'[t].rec.gen <= disk.gen
                      /\ \A a \in Attempt : told[a] = "durable" => Lists(view'[t].rec, a)
      OBVIOUS
  <2>1. view'[t].rec = slots[current]
      BY <1>1
  <2>2. slots[current].gen <= disk.gen
      BY Numbers DEF IInv, Files
  <2> QED
      BY <2>1, <2>2 DEF IInv, Answered, Lists
<1> QED
    BY Invariance, <1>2, PTL DEF Spec, SnapshotsAreFresh
=============================================================================
