------------------------------ MODULE Registry ------------------------------
(***************************************************************************)
(* The snapshot registry of one open handle (src/src/storage/snapshot.rs)   *)
(* with the threads that share it: readers pin a view and read its files,   *)
(* resolvers pin a history and search it, one owner at a time writes or     *)
(* reclaims.  File work happens outside the mutex, so every thread may run  *)
(* between the steps of another one.                                        *)
(*                                                                          *)
(* Publication is one step here; module Publication shows what it is made   *)
(* of.  The objects of generation g are two files: its catalog graph, which *)
(* readers of g need, and its history, which resolvers need.                *)
(***************************************************************************)
EXTENDS Naturals, FiniteSets

CONSTANTS
  Thread,
  Free,           \* the mutex has no holder
  Slots,          \* snapshot.rs SLOTS
  MaxPins,        \* snapshot.rs MAX_PINS
  MaxIssued,      \* stands for u64::MAX
  MaxSuccesses    \* format::MAX_SUCCESSES

ASSUME RegistryAssumption ==
  /\ Free \notin Thread
  /\ Slots \in Nat \ {0, 1}
  /\ MaxPins \in Nat \ {0}
  /\ MaxIssued \in Nat /\ MaxSuccesses \in Nat

Slot == 1 .. Slots
Attempt == 1 .. MaxIssued
Generation == 0 .. MaxSuccesses
Record == [issued : 0 .. MaxIssued, gen : Generation]

VARIABLES
  lock,           \* holder of Registry::state, or Free
  current,        \* State::current
  slots,          \* State::slots
  active,         \* State::active
  dataPins, resolutionPins,
  unavailable,    \* Registry::unavailable
  generation,     \* Registry::generation, read without the mutex
  pc,             \* what each thread is doing
  view,           \* the record, slot and attempt a thread works with
  keep,           \* Reachable::views of the running reclamation
  disk,           \* the record the files authorize
  committed,      \* generation each attempt committed on disk, 0 if none
  catalogs, histories,   \* generations whose files exist
  told            \* history: final outcomes callers were told

stateVars == <<current, slots, active>>
pinVars == <<dataPins, resolutionPins>>
fileVars == <<disk, committed, catalogs, histories>>
vars == <<lock, stateVars, pinVars, unavailable, generation, pc, view, keep,
          fileVars, told>>

NoOwner == [kind |-> "none", slot |-> 0, attempt |-> 0]
Maintenance == [kind |-> "maintenance", slot |-> 0, attempt |-> 0]
WriterAt(s) == [kind |-> "writer", slot |-> s, attempt |-> 0]

\* What a thread captured: a slot, its record, the attempt sought or owned,
\* and the active attempt at that moment (ResolutionView, Writer).
NoView == [slot |-> 0, rec |-> [issued |-> 0, gen |-> 0], attempt |-> 0,
           active |-> 0]

NothingKept == [data |-> {}, history |-> {}]

Init ==
  /\ lock = Free
  /\ current = 1
  /\ slots = [s \in Slot |-> [issued |-> 0, gen |-> 0]]
  /\ active = NoOwner
  /\ dataPins = [s \in Slot |-> 0] /\ resolutionPins = [s \in Slot |-> 0]
  /\ unavailable = FALSE
  /\ generation = 0
  /\ pc = [t \in Thread |-> "idle"]
  /\ view = [t \in Thread |-> NoView]
  /\ keep = NothingKept
  /\ disk = [issued |-> 0, gen |-> 0]
  /\ committed = [a \in Attempt |-> 0]
  /\ catalogs = {} /\ histories = {}
  /\ told = [a \in Attempt |-> "nothing"]

Goto(t, from, to) == pc[t] = from /\ pc' = [pc EXCEPT ![t] = to]

-----------------------------------------------------------------------------
(* The mutex.  An operation that is refused because the registry is busy or *)
(* unavailable before it changed anything is a step that changes nothing.   *)

\* Registry::enter: never waits.
Enter(t, from, to) ==
  /\ Goto(t, from, to)
  /\ ~unavailable /\ lock = Free
  /\ lock' = t
  /\ UNCHANGED <<stateVars, pinVars, unavailable, generation, view, keep,
                 fileVars, told>>

\* finish_owned_write: waits for the mutex.
Acquire(t, from, to) ==
  /\ Goto(t, from, to)
  /\ lock = Free /\ ~unavailable
  /\ lock' = t
  /\ UNCHANGED <<stateVars, pinVars, unavailable, generation, view, keep,
                 fileVars, told>>

\* Database::fail_catalog, or the drop of an unfinished owner.
Disable(t) ==
  /\ pc' = [pc EXCEPT ![t] = "idle"]
  /\ view' = [view EXCEPT ![t] = NoView]
  /\ unavailable' = TRUE
  /\ keep' = NothingKept
  /\ UNCHANGED <<stateVars, pinVars, generation, told>>

-----------------------------------------------------------------------------
(* Readers.                                                                 *)

BeginSnapshot(t) == Enter(t, "idle", "snapLocked")

\* Registry::increment succeeds below MAX_PINS; it may also lose every attempt.
PinData(t) ==
  /\ Goto(t, "snapLocked", "reading")
  /\ dataPins[current] < MaxPins
  /\ dataPins' = [dataPins EXCEPT ![current] = @ + 1]
  /\ view' = [view EXCEPT ![t] = [NoView EXCEPT !.slot = current,
                                                !.rec = slots[current]]]
  /\ lock' = Free
  /\ UNCHANGED <<stateVars, resolutionPins, unavailable, generation, keep,
                 fileVars, told>>

\* Mutant: a refused pin marks the registry unavailable.
RefusePinDisables(t) ==
  /\ pc[t] \in {"snapLocked", "findLocked"}
  /\ Disable(t)
  /\ lock' = Free
  /\ UNCHANGED fileVars

RefusePin(t) ==
  /\ pc[t] \in {"snapLocked", "findLocked"}
  /\ pc' = [pc EXCEPT ![t] = "idle"]
  /\ view' = [view EXCEPT ![t] = NoView]
  /\ lock' = Free
  /\ UNCHANGED <<stateVars, pinVars, unavailable, generation, keep, fileVars,
                 told>>

DropSnapshot(t) ==
  /\ Goto(t, "reading", "idle")
  /\ dataPins' = [dataPins EXCEPT ![view[t].slot] = @ - 1]
  /\ view' = [view EXCEPT ![t] = NoView]
  /\ UNCHANGED <<lock, stateVars, resolutionPins, unavailable, generation,
                 keep, fileVars, told>>

-----------------------------------------------------------------------------
(* Resolvers: resolve_catalog.                                              *)

BeginResolve(t, a) ==
  /\ Goto(t, "idle", "findLocked")
  /\ ~unavailable /\ lock = Free
  /\ lock' = t
  /\ view' = [view EXCEPT ![t] = [NoView EXCEPT !.attempt = a]]
  /\ UNCHANGED <<stateVars, pinVars, unavailable, generation, keep, fileVars,
                 told>>

\* The record and the active attempt are captured under one lock.
CaptureActive == active.attempt

PinHistory(t) ==
  /\ Goto(t, "findLocked", "finding")
  /\ resolutionPins[current] < MaxPins
  /\ resolutionPins' = [resolutionPins EXCEPT ![current] = @ + 1]
  /\ view' = [view EXCEPT ![t] = [@ EXCEPT !.slot = current,
                                           !.rec = slots[current],
                                           !.active = CaptureActive]]
  /\ lock' = Free
  /\ UNCHANGED <<stateVars, dataPins, unavailable, generation, keep, fileVars,
                 told>>

\* Mutant: the active attempt is read after the search, not with the record.
DecidableLate(t) ==
  /\ view[t].attempt <= view[t].rec.issued
  /\ view[t].attempt # active.attempt

\* Neither NotFound (not issued in this view) nor Contention (still active).
Decidable(t) ==
  /\ view[t].attempt <= view[t].rec.issued
  /\ view[t].attempt # view[t].active

\* history::find in the pinned history, whose file must be there.
Lists(rec, a) == committed[a] # 0 /\ committed[a] <= rec.gen

Answer(t) ==
  /\ Goto(t, "finding", "idle")
  /\ resolutionPins' = [resolutionPins EXCEPT ![view[t].slot] = @ - 1]
  /\ told' = IF Decidable(t)
             THEN [told EXCEPT ![view[t].attempt] =
                     IF Lists(view[t].rec, view[t].attempt)
                     THEN "durable" ELSE "aborted"]
             ELSE told
  /\ view' = [view EXCEPT ![t] = NoView]
  /\ UNCHANGED <<lock, stateVars, dataPins, unavailable, generation, keep,
                 fileVars>>

\* The search fails, or finds no memory: no answer, and the pin is dropped.
SearchFails(t) ==
  /\ Goto(t, "finding", "idle")
  /\ resolutionPins' = [resolutionPins EXCEPT ![view[t].slot] = @ - 1]
  /\ view' = [view EXCEPT ![t] = NoView]
  /\ UNCHANGED <<lock, stateVars, dataPins, unavailable, generation, keep,
                 fileVars, told>>

-----------------------------------------------------------------------------
(* The writer.                                                              *)

BeginWriter(t) == Enter(t, "idle", "writerLocked")

\* Mutant: slots that only a resolver pins may be reused.
SpareIgnoringResolvers == {s \in Slot : s # current /\ dataPins[s] = 0}

\* Mutant: slots that only a reader pins may be reused.
SpareIgnoringReaders == {s \in Slot : s # current /\ resolutionPins[s] = 0}

Spare == {s \in Slot : /\ s # current
                       /\ dataPins[s] = 0 /\ resolutionPins[s] = 0}

AdmitWriter(t) ==
  /\ Goto(t, "writerLocked", "admitted")
  /\ active = NoOwner
  /\ slots[current].issued # MaxIssued /\ slots[current].gen # MaxSuccesses
  /\ \E s \in Spare :
       /\ \A r \in Spare : s <= r
       /\ active' = WriterAt(s)
       /\ view' = [view EXCEPT ![t] = [NoView EXCEPT !.slot = s,
                                                     !.rec = slots[current]]]
  /\ lock' = Free
  /\ UNCHANGED <<current, slots, pinVars, unavailable, generation, keep,
                 fileVars, told>>

RefuseOwner(t) ==
  /\ pc[t] \in {"writerLocked", "maintainLocked"}
  /\ \/ active # NoOwner
     \/ /\ pc[t] = "writerLocked"
        /\ \/ slots[current].issued = MaxIssued
           \/ slots[current].gen = MaxSuccesses
           \/ Spare = {}
  /\ pc' = [pc EXCEPT ![t] = "idle"]
  /\ lock' = Free
  /\ UNCHANGED <<stateVars, pinVars, unavailable, generation, view, keep,
                 fileVars, told>>

\* A refusal before issuance, from reserve_construction or earlier.
AbandonUnissued(t) ==
  /\ Goto(t, "admitted", "abortWait")
  /\ UNCHANGED <<lock, stateVars, pinVars, unavailable, generation, view, keep,
                 fileVars, told>>

\* Writer::issue asks the registry once more without waiting.
EnterIssue(t) ==
  /\ Goto(t, "admitted", "issuing")
  /\ lock = Free /\ ~unavailable
  /\ UNCHANGED <<lock, stateVars, pinVars, unavailable, generation, view, keep,
                 fileVars, told>>

\* admit_append releases a writer that met a busy registry...
AppendMeetsBusyRegistry(t) ==
  /\ Goto(t, "admitted", "abortWait")
  /\ lock # Free
  /\ UNCHANGED <<lock, stateVars, pinVars, unavailable, generation, view, keep,
                 fileVars, told>>

\* ... create_table returns the error, which drops the unfinished writer.
DeclareMeetsBusyRegistry(t) ==
  /\ pc[t] = "admitted"
  /\ lock # Free
  /\ Disable(t)
  /\ UNCHANGED <<lock, fileVars>>

Issued(t) == [view[t].rec EXCEPT !.issued = @ + 1]

PublishIssue(t) ==
  /\ Goto(t, "issuing", "issueWait")
  /\ disk' = Issued(t)
  /\ UNCHANGED <<lock, stateVars, pinVars, unavailable, generation, view, keep,
                 committed, catalogs, histories, told>>

\* A failed publication leaves either record authorized.
PublishIssueFails(t) ==
  /\ pc[t] = "issuing"
  /\ Disable(t)
  /\ disk' \in {disk, Issued(t)}
  /\ UNCHANGED <<lock, committed, catalogs, histories>>

FinishIssue(t) ==
  /\ Goto(t, "issueLocked", "building")
  /\ slots' = [slots EXCEPT ![current] = Issued(t)]
  /\ active' = [active EXCEPT !.attempt = Issued(t).issued]
  /\ view' = [view EXCEPT ![t] = [@ EXCEPT !.rec = Issued(t),
                                           !.attempt = Issued(t).issued]]
  /\ lock' = Free
  /\ UNCHANGED <<current, pinVars, unavailable, generation, keep, fileVars,
                 told>>

Committing(t) == [view[t].rec EXCEPT !.gen = @ + 1]

InstallFiles(t) ==
  /\ disk' = Committing(t)
  /\ committed' = [committed EXCEPT ![view[t].attempt] = Committing(t).gen]
  /\ catalogs' = catalogs \union {Committing(t).gen}
  /\ histories' = histories \union {Committing(t).gen}

PublishCommit(t) ==
  /\ Goto(t, "building", "commitWait")
  /\ InstallFiles(t)
  /\ UNCHANGED <<lock, stateVars, pinVars, unavailable, generation, view, keep,
                 told>>

\* Namespace check, validation or publication failed, before or after the
\* first replacement; or the append was dropped; or its cleanup failed.
WriterFails(t) ==
  /\ pc[t] = "building"
  /\ Disable(t)
  /\ InstallFiles(t) \/ UNCHANGED fileVars
  /\ UNCHANGED lock

\* Mutant: the new slot is filled but not made current.
InstallCommitUnseen(t) ==
  /\ Goto(t, "commitLocked", "storeGeneration")
  /\ slots' = [slots EXCEPT ![active.slot] = Committing(t)]
  /\ active' = NoOwner
  /\ UNCHANGED <<lock, current, pinVars, unavailable, generation, view, keep,
                 fileVars, told>>

InstallCommit(t) ==
  /\ Goto(t, "commitLocked", "storeGeneration")
  /\ slots' = [slots EXCEPT ![active.slot] = Committing(t)]
  /\ current' = active.slot
  /\ active' = NoOwner
  /\ UNCHANGED <<lock, pinVars, unavailable, generation, view, keep, fileVars,
                 told>>

\* Mutant: the generation is left for a later writer to store.
StoreGenerationSkipped(t) ==
  /\ Goto(t, "storeGeneration", "idle")
  /\ lock' = Free
  /\ told' = [told EXCEPT ![view[t].attempt] = "durable"]
  /\ view' = [view EXCEPT ![t] = NoView]
  /\ UNCHANGED <<stateVars, pinVars, unavailable, generation, keep, fileVars>>

\* The last step under the mutex; the caller then gets its receipt.
StoreGeneration(t) ==
  /\ Goto(t, "storeGeneration", "idle")
  /\ generation' = Committing(t).gen
  /\ lock' = Free
  /\ told' = [told EXCEPT ![view[t].attempt] = "durable"]
  /\ view' = [view EXCEPT ![t] = NoView]
  /\ UNCHANGED <<stateVars, pinVars, unavailable, keep, fileVars>>

\* The builder removed and synchronized its objects.
CleanedUp(t) ==
  /\ Goto(t, "building", "abortWait")
  /\ UNCHANGED <<lock, stateVars, pinVars, unavailable, generation, view, keep,
                 fileVars, told>>

\* abort_unbuilt; an attempt that was never issued has no number to report.
FinishAbort(t) ==
  /\ Goto(t, "abortLocked", "idle")
  /\ active' = NoOwner
  /\ told' = IF view[t].attempt = 0 THEN told
             ELSE [told EXCEPT ![view[t].attempt] = "aborted"]
  /\ view' = [view EXCEPT ![t] = NoView]
  /\ lock' = Free
  /\ UNCHANGED <<current, slots, pinVars, unavailable, generation, keep,
                 fileVars>>

-----------------------------------------------------------------------------
(* Reclamation.                                                             *)

BeginReclaim(t) == Enter(t, "idle", "maintainLocked")

AdmitMaintenance(t) ==
  /\ Goto(t, "maintainLocked", "maintaining")
  /\ active = NoOwner
  /\ active' = Maintenance
  /\ lock' = Free
  /\ UNCHANGED <<current, slots, pinVars, unavailable, generation, view, keep,
                 fileVars, told>>

\* Mutant: only the current view is protected.
ReachableCurrent == {slots[current].gen}

\* Reachable::open: current is protected even when nothing pins it.
ReachableData == {slots[s].gen : s \in {s \in Slot : s = current \/ dataPins[s] # 0}}

ReachableHistory ==
  {slots[s].gen : s \in {s \in Slot : s = current \/ resolutionPins[s] # 0}}

\* Reachable::open enters the registry without waiting: when it is busy the
\* reclamation ends with Contention (ReclaimEnds).
CaptureViews(t) ==
  /\ Goto(t, "maintaining", "deleting")
  /\ lock = Free
  /\ keep' = [data |-> ReachableData, history |-> ReachableHistory]
  /\ UNCHANGED <<lock, stateVars, pinVars, unavailable, generation, view,
                 fileVars, told>>

DeleteCatalog(t) ==
  /\ pc[t] = "deleting"
  /\ \E g \in catalogs \ keep.data : catalogs' = catalogs \ {g}
  /\ UNCHANGED <<lock, stateVars, pinVars, unavailable, generation, pc, view,
                 keep, disk, committed, histories, told>>

DeleteHistory(t) ==
  /\ pc[t] = "deleting"
  /\ \E g \in histories \ keep.history : histories' = histories \ {g}
  /\ UNCHANGED <<lock, stateVars, pinVars, unavailable, generation, pc, view,
                 keep, disk, committed, catalogs, told>>

\* Done, cancelled, refused or failed, with the directory synchronized.
ReclaimEnds(t) ==
  /\ pc[t] \in {"maintaining", "deleting"}
  /\ pc' = [pc EXCEPT ![t] = "finishWait"]
  /\ keep' = NothingKept
  /\ UNCHANGED <<lock, stateVars, pinVars, unavailable, generation, view,
                 fileVars, told>>

\* The barrier failed, or scratch could not settle its names.
ReclaimFails(t) ==
  /\ pc[t] \in {"maintaining", "deleting"}
  /\ Disable(t)
  /\ UNCHANGED <<lock, fileVars>>

FinishReclaim(t) ==
  /\ Goto(t, "finishLocked", "idle")
  /\ active' = NoOwner
  /\ lock' = Free
  /\ UNCHANGED <<current, slots, pinVars, unavailable, generation, view, keep,
                 fileVars, told>>

-----------------------------------------------------------------------------
\* Every borrow of the handle has ended: it is closed, and open allocates a
\* registry from what recovery selected.
Reopen ==
  /\ \A t \in Thread : pc[t] = "idle"
  /\ unavailable
  /\ slots' = [s \in Slot |-> disk] /\ current' = 1 /\ active' = NoOwner
  /\ dataPins' = [s \in Slot |-> 0] /\ resolutionPins' = [s \in Slot |-> 0]
  /\ unavailable' = FALSE
  /\ generation' = disk.gen
  /\ UNCHANGED <<lock, pc, view, keep, fileVars, told>>

Locked == {"snapLocked", "findLocked", "writerLocked", "issueLocked",
           "commitLocked", "storeGeneration", "abortLocked", "maintainLocked",
           "finishLocked"}

\* Steps of a thread that holds the mutex.
LockedStep(t) ==
  \/ PinData(t) \/ PinHistory(t) \/ RefusePin(t)
  \/ AdmitWriter(t) \/ AdmitMaintenance(t) \/ RefuseOwner(t)
  \/ FinishIssue(t) \/ InstallCommit(t) \/ StoreGeneration(t)
  \/ FinishAbort(t) \/ FinishReclaim(t)

\* An owner waits for the mutex to settle its transition.
Settle(t) ==
  \/ Acquire(t, "issueWait", "issueLocked")
  \/ Acquire(t, "commitWait", "commitLocked")
  \/ Acquire(t, "abortWait", "abortLocked")
  \/ Acquire(t, "finishWait", "finishLocked")

ReaderStep(t) ==
  \/ BeginSnapshot(t) \/ DropSnapshot(t)
  \/ Answer(t) \/ SearchFails(t)
  \/ \E a \in Attempt : BeginResolve(t, a)

WriterStep(t) ==
  \/ BeginWriter(t) \/ AbandonUnissued(t)
  \/ EnterIssue(t) \/ AppendMeetsBusyRegistry(t) \/ DeclareMeetsBusyRegistry(t)
  \/ PublishIssue(t) \/ PublishIssueFails(t)
  \/ PublishCommit(t) \/ WriterFails(t) \/ CleanedUp(t)

ReclaimStep(t) ==
  \/ BeginReclaim(t) \/ CaptureViews(t)
  \/ DeleteCatalog(t) \/ DeleteHistory(t)
  \/ ReclaimEnds(t) \/ ReclaimFails(t)

Next ==
  \/ \E t \in Thread : LockedStep(t) \/ Settle(t) \/ ReaderStep(t)
                         \/ WriterStep(t) \/ ReclaimStep(t)
  \/ Reopen

Spec == Init /\ [][Next]_vars

\* Holders do bounded work without I/O; a waiting owner relies on the host's
\* mutex to let it in sooner or later (comment at snapshot.rs:154).
Fairness == \A t \in Thread : WF_vars(LockedStep(t)) /\ SF_vars(Settle(t))

FairSpec == Spec /\ Fairness

-----------------------------------------------------------------------------
(* Properties.                                                              *)

PC == Locked \union
  {"idle", "reading", "finding", "admitted", "issuing", "issueWait", "building",
   "commitWait", "abortWait", "maintaining", "deleting", "finishWait"}

View == [slot : 0 .. Slots, rec : Record, attempt : 0 .. MaxIssued,
         active : 0 .. MaxIssued]

\* The registry's fields, the threads' captures and the files keep their types.
TypeOK ==
  /\ lock \in Thread \union {Free}
  /\ current \in Slot /\ slots \in [Slot -> Record]
  /\ active \in [kind : {"none", "writer", "maintenance"}, slot : 0 .. Slots,
                 attempt : 0 .. MaxIssued]
  /\ dataPins \in [Slot -> 0 .. MaxPins]
  /\ resolutionPins \in [Slot -> 0 .. MaxPins]
  /\ unavailable \in BOOLEAN
  /\ generation \in Generation
  /\ pc \in [Thread -> PC] /\ view \in [Thread -> View]
  /\ keep.data \subseteq Generation /\ keep.history \subseteq Generation
  /\ disk \in Record /\ committed \in [Attempt -> Generation]
  /\ catalogs \subseteq Generation /\ histories \subseteq Generation
  /\ told \in [Attempt -> {"nothing", "aborted", "durable"}]

Reading(t) == pc[t] = "reading"
Finding(t) == pc[t] = "finding"

\* Reclamation never removes what a live reader or resolver still needs, nor
\* what new ones would be given.
PinnedFilesExist ==
  /\ \A t \in Thread :
       /\ Reading(t) /\ view[t].rec.gen # 0 => view[t].rec.gen \in catalogs
       /\ Finding(t) /\ view[t].rec.gen # 0 => view[t].rec.gen \in histories
  /\ slots[current].gen # 0 =>
       slots[current].gen \in catalogs \intersect histories

\* The slot behind a pin is not recycled: it still holds the pinned generation.
PinnedSlotsKeepTheirView ==
  \A t \in Thread :
    Reading(t) \/ Finding(t) => slots[view[t].slot].gen = view[t].rec.gen

\* commit_prepared asserts that nothing pins the writer's slot; it is not the
\* current one either.
WriterSlotUnpinned ==
  active.kind = "writer" =>
    /\ active.slot # current
    /\ dataPins[active.slot] = 0 /\ resolutionPins[active.slot] = 0

\* Whoever answered and whenever, a caller told "aborted" never sees the
\* attempt commit later, and one told "durable" has a committed attempt.
AnswersAreTrue ==
  \A a \in Attempt : /\ told[a] = "aborted" => committed[a] = 0
                     /\ told[a] = "durable" => committed[a] # 0

\* A new snapshot shows every commit whose receipt was returned, and nothing
\* the files do not authorize.
SnapshotsAreFresh ==
  [][\A t \in Thread : ~Reading(t) /\ Reading(t)' =>
       /\ view'[t].rec.gen <= disk.gen
       /\ \A a \in Attempt : told[a] = "durable" => Lists(view'[t].rec, a)]_vars

\* Database::generation, read without the mutex, is never behind a snapshot.
GenerationNotBehind ==
  \A t \in Thread : Reading(t) => view[t].rec.gen <= generation

\* An owner that reached its last transition completes it, however many
\* readers keep taking the mutex, and lets the next owner in.
OwnersSettle ==
  \A t \in Thread :
    pc[t] \in {"issueWait", "commitWait", "abortWait", "finishWait"}
      ~> pc[t] \in {"building", "idle"}

\* snapshot.rs:154: an admitted writer or maintenance owner must settle its
\* transition even if a reader briefly holds the mutex.  So a handle becomes
\* unavailable through a failed or abandoned operation only: one that reached
\* the files, never one a reader turned away.
ReadersNeverDisable ==
  [][unavailable' /\ ~unavailable =>
       \E t \in Thread : /\ pc[t] \in {"issuing", "building", "maintaining", "deleting"}
                         /\ pc'[t] = "idle"]_vars
=============================================================================
