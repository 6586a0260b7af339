---------------------------- MODULE Publication -----------------------------
(***************************************************************************)
(* One database directory, the process that owns its lease, and the power   *)
(* supply.  The state has two views of the disk: what the process sees and  *)
(* what survives a power loss.  The process runs one writer at a time       *)
(* through issuance, construction, publication or abort, reclaims objects,  *)
(* and recovers the directory on open; any step may fail, the process may   *)
(* be killed, the power may go, and a root or the fence may be damaged.     *)
(*                                                                          *)
(* Assumptions on storage, those of src/dev/src/check/model.rs: renaming    *)
(* replaces a root atomically, synchronizing a directory persists its       *)
(* names, synchronizing a file persists its contents.  Before that, the     *)
(* system may write any change back at any time, or never.                  *)
(***************************************************************************)
EXTENDS SnapshotFormat, FiniteSets

CONSTANTS
  MaxIssued,      \* stands for u64::MAX, where admission refuses a writer
  MaxSuccesses,   \* format::MAX_SUCCESSES
  Objects,        \* objects one attempt builds; the last two: catalog, history
  MaxDamage       \* bound: how many files may be damaged

ASSUME PublicationAssumption ==
  /\ MaxIssued \in Nat \ {0}
  /\ MaxSuccesses \in Nat \ {0}
  /\ Objects \in Nat /\ Objects >= 2
  /\ MaxDamage \in Nat

Attempt == 1 .. MaxIssued
Ordinal == 1 .. Objects
Object == Attempt \X Ordinal      \* catalog::ObjectId: <<attempt, ordinal>>

VARIABLES
  root, droot,    \* contents of ROOT.A and ROOT.B: visible, durable
  next, dnext,    \* which ROOT.x.next names exist: visible, durable
  wal, dwal,      \* contents of WAL: visible, durable
  names, dnames,  \* object names in units/: visible, durable
  whole,          \* objects whose contents are complete and synchronized
  chain,          \* chain[s][a]: generation of attempt a in the history object
                  \* of attempt s, 0 when a is not listed
  pc,             \* what the process is doing
  mem,            \* the registry's current record
  target,         \* the record being published, or last published
  chosen,         \* the record recovery selected
  repair,         \* the replica it found stale or damaged
  active,         \* the attempt the admitted writer was issued, or 0
  created,        \* ordinals 1..created are owned by the writer's builder
  damages,        \* files damaged so far
  outcome         \* history: what callers know of each attempt

rootVars == <<root, droot, next, dnext>>
walVars == <<wal, dwal>>
unitVars == <<names, dnames, whole, chain>>
diskVars == <<rootVars, walVars, unitVars>>
choice == <<chosen, repair>>
writerVars == <<active, created>>
vars == <<rootVars, walVars, unitVars, pc, mem, target, choice, writerVars,
          damages, outcome>>

-----------------------------------------------------------------------------
(* What callers know of an attempt: nothing, that its token was issued, or  *)
(* its final outcome with the generation it committed.                      *)

Unknown == [status |-> "unknown", gen |-> 0]
Pending == [status |-> "pending", gen |-> 0]
Aborted == [status |-> "aborted", gen |-> 0]
Durable(g) == [status |-> "durable", gen |-> g]

Decided(o) == o.status \in {"aborted", "durable"}

Outcome == [status : {"unknown", "pending", "aborted", "durable"},
            gen : 0 .. MaxSuccesses]

\* Mutant: the ordinal is taken before it is counted.
ResolutionFromZero(r, a) ==
  IF r.issued < a THEN Unknown
  ELSE IF chain[r.seq][a] = 0 THEN Aborted
  ELSE Durable(chain[r.seq][a] - 1)

\* history::find over the history object the record names.
Resolution(r, a) ==
  IF r.issued < a THEN Unknown
  ELSE IF chain[r.seq][a] = 0 THEN Aborted
  ELSE Durable(chain[r.seq][a])

-----------------------------------------------------------------------------
(* The graph a record selects, and what validation requires of it.          *)

History(s) == <<s, Objects>>
Catalog(s) == <<s, Objects - 1>>

\* Catalog and history of the last commit; every committed attempt's data.
Graph(r) ==
  IF r.seq = 0 THEN {}
  ELSE {History(r.seq), Catalog(r.seq)} \union
       {o \in Object : o[2] < Objects - 1 /\ chain[r.seq][o[1]] # 0}

ValidGraph(r) ==
  /\ Graph(r) \subseteq names \intersect whole
  /\ r.seq # 0 => chain[r.seq][r.seq] = r.gen

\* Mutant: objects of an attempt that did not commit are taken for foreign.
ValidContentsCommitted(r) ==
  /\ \A o \in names : o[1] <= r.seq
  /\ ValidGraph(r)

\* validate_namespace_contents: no object beyond the issued prefix, and a
\* complete graph.
ValidContents(r) ==
  /\ \A o \in names : o[1] <= r.issued
  /\ ValidGraph(r)

Admits(r) == Selects(root["A"], root["B"], wal, r) /\ ValidContents(r)

\* check_catalog_namespace and require_settled_namespace: shared inspection
\* finds exactly the expected record and nothing left to repair.
Settled(r) ==
  /\ Admits(r)
  /\ Repairs(root["A"], root["B"], r) = {}
  /\ next = {}
  /\ wal = r

-----------------------------------------------------------------------------
Recovering == {"rNext", "rNextSync", "rRepair", "rRename", "rSync", "rFence",
               "rFenceSync", "rUnits", "rObjects", "rObjectsSync"}
Publishing == {"pFence", "pFenceSync", "pNextA", "pRenameA", "pSyncA",
               "pNextB", "pRenameB", "pSyncB", "pDone"}
Building == {"build", "write", "buildSync", "built"}
Cleaning == {"cleanup", "cleanupSync", "abort"}
Reclaiming == {"reclaim", "reclaimSync"}

\* "down": the registry is unavailable, the handle can only be closed.
PC == {"closed", "idle", "admitted", "down"} \union Recovering \union
      Publishing \union Building \union Cleaning \union Reclaiming

NoAttempts == [a \in Attempt |-> 0]

\* A newly created database: validate_created_namespace admitted the empty
\* state and finish_create synchronized it.
Init ==
  /\ root = [x \in Replica |-> EmptyRecord] /\ droot = root
  /\ next = {} /\ dnext = {}
  /\ wal = EmptyRecord /\ dwal = EmptyRecord
  /\ names = {} /\ dnames = {} /\ whole = {}
  /\ chain = [s \in 0 .. MaxIssued |-> NoAttempts]
  /\ pc = "idle"
  /\ mem = EmptyRecord /\ target = EmptyRecord
  /\ chosen = EmptyRecord /\ repair = {}
  /\ active = 0 /\ created = 0
  /\ damages = 0
  /\ outcome = [a \in Attempt |-> Unknown]

Goto(from, to) == pc = from /\ pc' = to

-----------------------------------------------------------------------------
(* Writer admission and issuance.                                           *)

\* Mutant: admission forgets that the success limit may be reached.
AdmitWriterPastLimit ==
  /\ Goto("idle", "admitted")
  /\ mem.issued # MaxIssued
  /\ UNCHANGED <<diskVars, mem, target, choice, writerVars, damages, outcome>>

AdmitWriter ==
  /\ Goto("idle", "admitted")
  /\ mem.issued # MaxIssued /\ mem.gen # MaxSuccesses
  /\ UNCHANGED <<diskVars, mem, target, choice, writerVars, damages, outcome>>

\* A refusal during preparation releases the writer before issuance.
AbortUnissued ==
  /\ Goto("admitted", "idle")
  /\ UNCHANGED <<diskVars, mem, target, choice, writerVars, damages, outcome>>

NextIssued == [issued |-> mem.issued + 1, gen |-> mem.gen, seq |-> mem.seq]
NextCommit ==
  [issued |-> mem.issued, gen |-> mem.gen + 1, seq |-> mem.issued]

BeginIssue ==
  /\ Goto("admitted", "pFence")
  /\ Settled(mem)
  /\ target' = NextIssued
  /\ UNCHANGED <<diskVars, mem, choice, writerVars, damages, outcome>>

\* The builder handed its files over; the namespace is checked again, and the
\* whole prepared graph validated, before the roots change.
BeginCommit ==
  /\ Goto("built", "pFence")
  /\ Settled(mem)
  /\ ValidGraph(NextCommit)
  /\ target' = NextCommit
  /\ UNCHANGED <<diskVars, mem, choice, writerVars, damages, outcome>>

-----------------------------------------------------------------------------
(* publish_snapshot: fence, then ROOT.A, then ROOT.B.                       *)

SyncDatabaseDirectory == droot' = root /\ dnext' = next

\* Mutant: publication keeps the previous fence.
WriteFenceSkipped ==
  /\ Goto("pFence", "pFenceSync")
  /\ UNCHANGED <<diskVars, mem, target, choice, writerVars, damages, outcome>>

WriteFence ==
  /\ Goto("pFence", "pFenceSync")
  /\ wal' = target
  /\ UNCHANGED <<rootVars, dwal, unitVars, mem, target, choice, writerVars,
                 damages, outcome>>

SyncFence ==
  /\ Goto("pFenceSync", "pNextA")
  /\ dwal' = wal
  /\ UNCHANGED <<rootVars, wal, unitVars, mem, target, choice, writerVars,
                 damages, outcome>>

\* create_new refuses an existing name; the file is verified and synchronized.
WriteRootNext(x, from, to) ==
  /\ Goto(from, to)
  /\ x \notin next
  /\ next' = next \union {x}
  /\ UNCHANGED <<root, droot, dnext, walVars, unitVars, mem, target, choice,
                 writerVars, damages, outcome>>

RenameRoot(x, from, to) ==
  /\ Goto(from, to)
  /\ x \in next
  /\ root' = [root EXCEPT ![x] = target]
  /\ next' = next \ {x}
  /\ UNCHANGED <<droot, dnext, walVars, unitVars, mem, target, choice,
                 writerVars, damages, outcome>>

\* Mutant: a rename is taken to be durable by itself.
SyncRootForgotten(from, to) ==
  /\ Goto(from, to)
  /\ UNCHANGED <<diskVars, mem, target, choice, writerVars, damages, outcome>>

SyncRoot(from, to) ==
  /\ Goto(from, to)
  /\ SyncDatabaseDirectory
  /\ UNCHANGED <<root, next, walVars, unitVars, mem, target, choice,
                 writerVars, damages, outcome>>

PublishStep ==
  \/ WriteFence
  \/ SyncFence
  \/ WriteRootNext("A", "pNextA", "pRenameA")
  \/ RenameRoot("A", "pRenameA", "pSyncA")
  \/ SyncRoot("pSyncA", "pNextB")
  \/ WriteRootNext("B", "pNextB", "pRenameB")
  \/ RenameRoot("B", "pRenameB", "pSyncB")
  \/ SyncRoot("pSyncB", "pDone")

\* The end of Writer::issue: the token is exposed.
FinishIssue ==
  /\ Goto("pDone", "build")
  /\ Issuance(target, mem)
  /\ mem' = target
  /\ active' = target.issued /\ created' = 0
  /\ outcome' = [outcome EXCEPT ![target.issued] = Pending]
  /\ UNCHANGED <<diskVars, target, choice, damages>>

\* The end of Writer::commit_prepared: the caller gets its receipt.
FinishCommit ==
  /\ Goto("pDone", "idle")
  /\ Commit(target, mem)
  /\ mem' = target
  /\ active' = 0 /\ created' = 0
  /\ outcome' = [outcome EXCEPT ![target.seq] = Durable(target.gen)]
  /\ UNCHANGED <<diskVars, target, choice, damages>>

-----------------------------------------------------------------------------
(* Construction of one attempt's objects, and its removal.                  *)

CreateObject ==
  /\ Goto("build", "write")
  /\ created < Objects
  /\ <<active, created + 1>> \notin names
  /\ created' = created + 1
  /\ names' = names \union {<<active, created + 1>>}
  /\ UNCHANGED <<rootVars, walVars, dnames, whole, chain, mem, target, choice,
                 active, damages, outcome>>

\* Mutant: the new history object starts an empty list.
AppendedHistoryAlone == [NoAttempts EXCEPT ![active] = mem.gen + 1]

\* history::append copies the prior list and adds the issued attempt.
AppendedHistory == [chain[mem.seq] EXCEPT ![active] = mem.gen + 1]

\* The last object of an attempt is its history.
WriteObject ==
  /\ Goto("write", "build")
  /\ whole' = whole \union {<<active, created>>}
  /\ chain' = IF created = Objects
              THEN [chain EXCEPT ![active] = AppendedHistory]
              ELSE chain
  /\ UNCHANGED <<rootVars, walVars, names, dnames, mem, target, choice,
                 writerVars, damages, outcome>>

SyncUnits == dnames' = names /\ whole' = whole \intersect names

\* Mutant: the builder hands its objects over before their names are durable.
SyncBuiltSkipped ==
  /\ Goto("build", "built")
  /\ created = Objects
  /\ UNCHANGED <<diskVars, mem, target, choice, writerVars, damages, outcome>>

SyncBuilt ==
  /\ Goto("build", "built")
  /\ created = Objects
  /\ SyncUnits
  /\ UNCHANGED <<rootVars, walVars, names, chain, mem, target, choice,
                 writerVars, damages, outcome>>

\* The caller aborts, or a write or construction step failed.
BeginCleanup ==
  /\ pc \in {"build", "write"}
  /\ pc' = IF created = 0 THEN "abort" ELSE "cleanup"
  /\ UNCHANGED <<diskVars, mem, target, choice, writerVars, damages, outcome>>

\* The builder's own names, in ascending ordinal order.
Owned == {o \in names : o[1] = active /\ o[2] <= created}

RemoveOwned ==
  /\ pc = "cleanup"
  /\ \E o \in Owned :
       /\ \A p \in Owned : o[2] <= p[2]
       /\ names' = names \ {o}
  /\ UNCHANGED <<rootVars, walVars, dnames, whole, chain, pc, mem, target,
                 choice, writerVars, damages, outcome>>

SyncRemoval ==
  /\ Goto("cleanup", "abort")
  /\ Owned = {}
  /\ SyncUnits
  /\ UNCHANGED <<rootVars, walVars, names, chain, mem, target, choice,
                 writerVars, damages, outcome>>

\* abort_unbuilt: only now may the caller read the attempt as aborted.
FinishAbort ==
  /\ Goto("abort", "idle")
  /\ active' = 0 /\ created' = 0
  /\ outcome' = [outcome EXCEPT ![active] = Aborted]
  /\ UNCHANGED <<diskVars, mem, target, choice, damages>>

-----------------------------------------------------------------------------
(* Reclamation with no reader: everything outside the current graph goes.   *)

Unreachable == names \ Graph(mem)

BeginReclaim ==
  /\ Goto("idle", "reclaim")
  /\ Settled(mem)
  /\ UNCHANGED <<diskVars, mem, target, choice, writerVars, damages, outcome>>

ReclaimObject ==
  /\ pc = "reclaim"
  /\ \E o \in Unreachable : names' = names \ {o}
  /\ UNCHANGED <<rootVars, walVars, dnames, whole, chain, pc, mem, target,
                 choice, writerVars, damages, outcome>>

\* Finished, cancelled, or stopped by an error: what was unlinked is synced.
\* With nothing unlinked the code leaves the barrier out: it would persist nothing
\* that matters.
StopReclaim ==
  /\ Goto("reclaim", "reclaimSync")
  /\ UNCHANGED <<diskVars, mem, target, choice, writerVars, damages, outcome>>

SyncReclaim ==
  /\ Goto("reclaimSync", "idle")
  /\ SyncUnits
  /\ UNCHANGED <<rootVars, walVars, names, chain, mem, target, choice,
                 writerVars, damages, outcome>>

-----------------------------------------------------------------------------
(* Recovery on open.                                                        *)

Candidates == {root[x] : x \in Replica} \ {Unreadable}

Open ==
  /\ Goto("closed", "rNext")
  /\ chosen' \in {r \in Candidates : Admits(r)}
  /\ repair' = Repairs(root["A"], root["B"], chosen')
  /\ UNCHANGED <<diskVars, mem, target, writerVars, damages, outcome>>

\* reconcile_roots: stale replacement names go first, A before B.
RemoveStaleNext ==
  /\ pc \in {"rNext", "rNextSync"} /\ pc' = "rNextSync"
  /\ \E x \in next : /\ x = "B" => "A" \notin next
                     /\ next' = next \ {x}
  /\ UNCHANGED <<root, droot, dnext, walVars, unitVars, mem, target, choice,
                 writerVars, damages, outcome>>

NoStaleNext ==
  /\ Goto("rNext", "rRepair")
  /\ next = {}
  /\ UNCHANGED <<diskVars, mem, target, choice, writerVars, damages, outcome>>

SyncStaleNext ==
  /\ Goto("rNextSync", "rRepair")
  /\ next = {}
  /\ SyncDatabaseDirectory
  /\ UNCHANGED <<root, next, walVars, unitVars, mem, target, choice,
                 writerVars, damages, outcome>>

\* repair_root: what open found stale, whatever was damaged since.
WriteRepair ==
  /\ Goto("rRepair", "rRename")
  /\ \E x \in repair : next' = next \union {x}
  /\ UNCHANGED <<root, droot, dnext, walVars, unitVars, mem, target, choice,
                 writerVars, damages, outcome>>

\* repair_root synchronizes the directory, as SyncRoots does right after it.
RenameRepair ==
  /\ Goto("rRename", "rSync")
  /\ \E x \in next : /\ root' = [root EXCEPT ![x] = chosen]
                     /\ next' = next \ {x}
  /\ UNCHANGED <<droot, dnext, walVars, unitVars, mem, target, choice,
                 writerVars, damages, outcome>>

NothingToRepair ==
  /\ Goto("rRepair", "rSync")
  /\ repair = {}
  /\ UNCHANGED <<diskVars, mem, target, choice, writerVars, damages, outcome>>

\* Mutant: the directory is not synchronized when both roots agree.
SyncRootsSkipped ==
  /\ Goto("rSync", "rFence")
  /\ UNCHANGED <<diskVars, mem, target, choice, writerVars, damages, outcome>>

\* Equal roots may still be volatile: the directory is always synchronized.
SyncRoots ==
  /\ Goto("rSync", "rFence")
  /\ SyncDatabaseDirectory
  /\ UNCHANGED <<root, next, walVars, unitVars, mem, target, choice,
                 writerVars, damages, outcome>>

RewriteFence ==
  /\ Goto("rFence", "rFenceSync")
  /\ wal' = chosen
  /\ UNCHANGED <<rootVars, dwal, unitVars, mem, target, choice, writerVars,
                 damages, outcome>>

SyncRewrittenFence ==
  /\ Goto("rFenceSync", "rUnits")
  /\ dwal' = wal
  /\ UNCHANGED <<rootVars, wal, unitVars, mem, target, choice, writerVars,
                 damages, outcome>>

SyncRepairedUnits ==
  /\ Goto("rUnits", "rObjects")
  /\ SyncUnits
  /\ UNCHANGED <<rootVars, walVars, names, chain, mem, target, choice,
                 writerVars, damages, outcome>>

\* Mutant: only attempts after the issued prefix are removed.
UncommittedBeyondIssued == {o \in names : o[1] > chosen.issued}

\* uncommitted_names: attempts after the last committed one.
Uncommitted == {o \in names : o[1] > chosen.seq}

RemoveUncommitted ==
  /\ pc = "rObjects"
  /\ \E o \in Uncommitted : names' = names \ {o}
  /\ UNCHANGED <<rootVars, walVars, dnames, whole, chain, pc, mem, target,
                 choice, writerVars, damages, outcome>>

SyncUncommitted ==
  /\ Goto("rObjects", "rObjectsSync")
  /\ Uncommitted = {}
  /\ SyncUnits
  /\ UNCHANGED <<rootVars, walVars, names, chain, mem, target, choice,
                 writerVars, damages, outcome>>

\* Registry::allocate: the handle exists, and every attempt can be resolved.
FinishOpen ==
  /\ Goto("rObjectsSync", "idle")
  /\ mem' = chosen /\ target' = chosen
  /\ outcome' = [a \in Attempt |-> Resolution(chosen, a)]
  /\ UNCHANGED <<diskVars, choice, writerVars, damages>>

RecoverStep ==
  \/ RemoveStaleNext \/ NoStaleNext \/ SyncStaleNext
  \/ WriteRepair \/ RenameRepair \/ NothingToRepair \/ SyncRoots
  \/ RewriteFence \/ SyncRewrittenFence
  \/ SyncRepairedUnits \/ RemoveUncommitted \/ SyncUncommitted
  \/ FinishOpen

-----------------------------------------------------------------------------
(* Failures.  An operation that changed the disk and then reported an error *)
(* is that operation's step followed by the failure of the next one.        *)

\* I/O errors, cancellation before the first rename, a failed check, a failed
\* cleanup, or a writer or maintenance owner dropped unfinished: the registry
\* becomes unavailable and nothing more is decided.
OwnerFails ==
  /\ pc \in Publishing \union Building \union Cleaning
              \union {"admitted", "reclaimSync"}
  /\ pc' = "down"
  /\ UNCHANGED <<diskVars, mem, target, choice, writerVars, damages, outcome>>

RecoveryFails ==
  /\ pc \in Recovering
  /\ pc' = "closed"
  /\ UNCHANGED <<diskVars, mem, target, choice, writerVars, damages, outcome>>

\* WAL is rewritten in place, so an interrupted write leaves it unreadable.
TearFence ==
  /\ \/ Goto("pFence", "down")
     \/ Goto("rFence", "closed")
  /\ wal' = Unreadable
  /\ UNCHANGED <<rootVars, dwal, unitVars, mem, target, choice, writerVars,
                 damages, outcome>>

\* The handle is closed or dropped, or the process dies: the lease is released.
Release ==
  /\ pc' = "closed"
  /\ active' = 0 /\ created' = 0
  /\ UNCHANGED <<diskVars, mem, target, choice, damages, outcome>>

CloseUnavailable == pc = "down" /\ Release

CloseOrKill == pc \notin {"closed", "down"} /\ Release

\* Only the durable view survives; an unsynchronized fence may be torn.
PowerLoss ==
  /\ pc' = "closed"
  /\ active' = 0 /\ created' = 0
  /\ root' = droot /\ next' = dnext /\ names' = dnames
  /\ wal' \in {dwal} \union (IF wal = dwal THEN {} ELSE {Unreadable})
  /\ dwal' = wal'
  /\ whole' = whole \intersect dnames
  /\ UNCHANGED <<droot, dnext, dnames, chain, mem, target, choice, damages,
                 outcome>>

\* The system writes a change back before it is asked to.
WritebackRoot(x) ==
  /\ <<root[x], x \in next>> # <<droot[x], x \in dnext>>
  /\ droot' = [droot EXCEPT ![x] = root[x]]
  /\ dnext' = (dnext \ {x}) \union (next \intersect {x})
  /\ UNCHANGED <<root, next, walVars, unitVars, pc, mem, target, choice,
                 writerVars, damages, outcome>>

WritebackFence ==
  /\ dwal # wal
  /\ dwal' = wal
  /\ UNCHANGED <<rootVars, wal, unitVars, pc, mem, target, choice, writerVars,
                 damages, outcome>>

WritebackName ==
  /\ \/ \E o \in names \ dnames : dnames' = dnames \union {o}
     \/ \E o \in dnames \ names : dnames' = dnames \ {o}
  /\ UNCHANGED <<rootVars, walVars, names, whole, chain, pc, mem, target,
                 choice, writerVars, damages, outcome>>

\* A stored root or fence decays; a durable older copy may be hit as well.
DamageRoot(x) ==
  /\ damages < MaxDamage
  /\ damages' = damages + 1
  /\ root' = [root EXCEPT ![x] = Unreadable]
  /\ \E d \in {droot[x], Unreadable} : droot' = [droot EXCEPT ![x] = d]
  /\ UNCHANGED <<next, dnext, walVars, unitVars, pc, mem, target, choice,
                 writerVars, outcome>>

DamageFence ==
  /\ damages < MaxDamage
  /\ damages' = damages + 1
  /\ wal' = Unreadable
  /\ dwal' \in {dwal, Unreadable}
  /\ UNCHANGED <<rootVars, unitVars, pc, mem, target, choice, writerVars,
                 outcome>>

-----------------------------------------------------------------------------
WriterStep ==
  \/ AdmitWriter \/ AbortUnissued \/ BeginIssue \/ BeginCommit
  \/ PublishStep \/ FinishIssue \/ FinishCommit
  \/ CreateObject \/ WriteObject \/ SyncBuilt
  \/ BeginCleanup \/ RemoveOwned \/ SyncRemoval \/ FinishAbort

ReclaimStep == BeginReclaim \/ ReclaimObject \/ StopReclaim \/ SyncReclaim

ProcessFault == OwnerFails \/ RecoveryFails \/ TearFence \/ CloseOrKill

StorageFault ==
  \/ PowerLoss
  \/ DamageFence
  \/ \E x \in Replica : DamageRoot(x)

Writeback ==
  \/ WritebackFence \/ WritebackName
  \/ \E x \in Replica : WritebackRoot(x)

Next ==
  \/ WriterStep \/ ReclaimStep
  \/ CloseUnavailable \/ Open \/ RecoverStep
  \/ ProcessFault \/ StorageFault \/ Writeback

Spec == Init /\ [][Next]_vars

\* A caller that finds the handle closed or unavailable opens it again, and
\* recovery, a loop over a finite directory, runs to its end.
Fairness ==
  /\ WF_vars(Open)
  /\ WF_vars(RecoverStep)
  /\ WF_vars(CloseUnavailable)

FairSpec == Spec /\ Fairness

-----------------------------------------------------------------------------
(* Properties.                                                              *)

StoredRecord == Record \union {Unreadable}

\* Every variable keeps its type (the fields of registry::State, WalRecord,
\* the namespace and the builders).
TypeOK ==
  /\ root \in [Replica -> StoredRecord] /\ droot \in [Replica -> StoredRecord]
  /\ next \subseteq Replica /\ dnext \subseteq Replica
  /\ wal \in StoredRecord /\ dwal \in StoredRecord
  /\ names \subseteq Object /\ dnames \subseteq Object /\ whole \subseteq Object
  /\ chain \in [0 .. MaxIssued -> [Attempt -> 0 .. MaxSuccesses]]
  /\ pc \in PC
  /\ mem \in Record /\ target \in Record /\ chosen \in Record
  /\ repair \subseteq Replica
  /\ active \in 0 .. MaxIssued /\ created \in 0 .. Objects
  /\ damages \in 0 .. MaxDamage
  /\ outcome \in [Attempt -> Outcome]

\* Reopening always finds authority: short of damaged files, no interruption,
\* failure or power loss anywhere in issuance, construction, publication,
\* abort, reclamation or recovery leaves a directory that open refuses.
ReopenAdmits ==
  pc = "closed" /\ damages = 0 => \E r \in Candidates : Admits(r)

\* Between operations a live handle's record is what both views of both roots
\* and the fence say, no replacement name is left, and every stored object
\* belongs to a committed attempt: aborts and recovery leak nothing.
IdleIsSettled ==
  pc = "idle" /\ damages = 0 =>
    /\ \A x \in Replica : root[x] = mem /\ droot[x] = mem
    /\ wal = mem /\ dwal = mem
    /\ next = {} /\ dnext = {}
    /\ names = dnames
    /\ Graph(mem) \subseteq names
    /\ \A o \in names : chain[mem.seq][o[1]] # 0

\* While a root copy or its durable version still holds a record the fence
\* could authorize, the objects it selects are durable: nothing recovery may
\* select has lost part of its graph, to cleanup, reclamation or reordering.
SelectableIsDurable ==
  \A x \in Replica :
    LET r == droot[x] IN
    r # Unreadable => Graph(r) \subseteq dnames \intersect whole

\* resolve_commit on a live handle repeats what callers were told.
LiveAnswersAgree ==
  pc = "idle" => \A a \in Attempt : outcome[a] = Resolution(mem, a)

\* Whatever recovery could select resolves every decided attempt as callers were
\* told, so that no crash between two renames, stale root or damage loses or
\* invents a commit (select_snapshot, history::find).
AuthorizedAnswersAgree ==
  \A x \in Replica : \A a \in Attempt :
    LET r == root[x] IN
    pc = "closed" /\ r # Unreadable /\ Decided(outcome[a]) =>
      outcome[a] = Resolution(r, a)

\* A decided outcome is final across failures, power loss, damage and reopen,
\* and an exposed token is never forgotten or issued again.
OutcomesFinal ==
  [][\A a \in Attempt :
       /\ Decided(outcome[a]) => outcome'[a] = outcome[a]
       /\ outcome[a] = Pending => outcome'[a] = Pending \/ Decided(outcome'[a])]_vars

\* The engine implements the promise of AtomicCommit: whatever fails, attempts
\* end once, in order, and durable ones are numbered without a gap.
Promise == INSTANCE AtomicCommit WITH
  outcome <- outcome, MaxIssued <- MaxIssued, MaxSuccesses <- MaxSuccesses
ImplementsPromise == Promise!Spec

\* When faults stop, the database becomes usable again, whatever happened short
\* of a damaged file.
Quiet == ~(ProcessFault \/ StorageFault)
Usable == pc \notin Recovering \union {"closed", "down"}
RecoversWhenQuiet == <>[][Quiet]_vars => []<>(Usable \/ damages > 0)
=============================================================================
