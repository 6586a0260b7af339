----------------------------- MODULE LegacyLoad -----------------------------
(***************************************************************************)
(* The one lineitem load of a legacy database (src/src/storage/legacy.rs,   *)
(* its unit, staging and input parts) with the recovery that opens the      *)
(* database, precedes a load and rolls one back (src/src/storage/           *)
(* recovery.rs).  Another program may rewrite the input at any time; a      *)
(* write may store other bytes than it was given; any step may fail or be   *)
(* cancelled; the process may die; the power may go.                        *)
(*                                                                          *)
(* Publication of one record is taken as module Publication shows it to be: *)
(* nothing changes before the first rename, from there both the old and the *)
(* new record may survive until the directory is synchronized, and an open  *)
(* makes durable the record it selects.  A name that was created or removed *)
(* since its directory was synchronized may be at any of its values after a *)
(* power loss; sets of survivors hold them.                                 *)
(***************************************************************************)
EXTENDS SnapshotFormat, Sequences, FiniteSets

CONSTANTS
  MaxIssued,      \* bound: attempts issued
  Columns,        \* staging files (7 in the code)
  Rows            \* rows of each version of the input, first to last

ASSUME LegacyLoadAssumption ==
  /\ MaxIssued \in Nat \ {0}
  /\ Columns \in Nat \ {0}
  /\ Rows \in Seq(Nat) /\ Rows # <<>>

Attempt == 1 .. MaxIssued
Version == DOMAIN Rows

\* Names are numbered in the order recovery lists them (PRIVATE_RECOVERY_NAMES).
Column == 1 .. Columns               \* quantity.stage and so on, in private/
UnitNext == Columns + 1              \* UNIT.next, in private/
UnitFinal == Columns + 2             \* UNIT, in units/
Private == Column \union {UnitNext}
Name == Private \union {UnitFinal}

VARIABLES
  version,        \* of the input; every rewriting changes the file's identity
  root,           \* the record the roots hold
  rootSurvivors,  \* records they may hold after a power loss
  entry,          \* the attempt that made the file of each name, or 0
  survivors,      \* what each name may be after a power loss
  staged,         \* rows in the staging files or their buffers, as read back
  unit,           \* rows of each attempt's unit file, as read back
  whole,          \* attempts whose unit file is complete and synchronized
  pc,
  why,            \* what recovery was called for
  state,          \* DatabaseState
  reserved,       \* bytes charged to temporary space
  identity,       \* of the input, recorded by inspect_input
  read,           \* rows of this pass, by the version read
  first,          \* rows of the first pass
  outcome         \* history: what callers know of each attempt

diskVars == <<root, rootSurvivors, entry, survivors, staged, unit, whole>>
loadVars == <<identity, read, first>>
vars == <<version, diskVars, pc, why, state, reserved, loadVars, outcome>>

\* A legacy database commits once.
Promise == INSTANCE AtomicCommit WITH MaxSuccesses <- 1

Garbled == 0     \* a row that does not read back as it was written

\* Sizes, in rows; a unit has metadata besides.  layout.temporary_peak_bytes:
\* staged columns stay while their unit is assembled.
UnitBytes(rows) == rows + 1
TemporaryPeak(rows) == rows + UnitBytes(rows)

Goto(from, to) == pc = from /\ pc' = to

Init ==
  /\ version = 1
  /\ root = EmptyRecord /\ rootSurvivors = {EmptyRecord}
  /\ entry = [n \in Name |-> 0]
  /\ survivors = [n \in Name |-> {0}]
  /\ staged = <<>>
  /\ unit = [a \in Attempt |-> <<>>]
  /\ whole = {}
  /\ pc = "ready" /\ why = "open" /\ state = "Empty"
  /\ reserved = 0
  /\ identity = 1 /\ read = <<>> /\ first = <<>>
  /\ outcome = [a \in Attempt |-> Promise!Unknown]

-----------------------------------------------------------------------------
(* The directory.                                                           *)

PutEntry(n, a) ==
  /\ entry' = [entry EXCEPT ![n] = a]
  /\ survivors' = [survivors EXCEPT ![n] = @ \union {a}]

\* A synchronization of the directory that holds the names ns.
Settle(ns) ==
  survivors' = [n \in Name |-> IF n \in ns THEN {entry[n]} ELSE survivors[n]]

\* Mutant: a directory is taken to be durable.
SyncDirectoryForgotten(from, to, ns) ==
  /\ Goto(from, to)
  /\ UNCHANGED <<version, diskVars, why, state, reserved, loadVars, outcome>>

SyncDirectory(from, to, ns) ==
  /\ Goto(from, to)
  /\ Settle(ns)
  /\ UNCHANGED <<version, root, rootSurvivors, entry, staged, unit, whole, why, state,
                 reserved, loadVars, outcome>>

Resolution(r, a) ==
  IF r.issued < a THEN Promise!Unknown
  ELSE IF r.seq = a THEN Promise!Durable(1)
  ELSE Promise!Aborted

-----------------------------------------------------------------------------
(* Recovery (recover_namespace), on open, before a load and after one.      *)

\* validate_namespace_contents: with an empty root every loader name is garbage;
\* a data root wants its staged, unit, whole, and nothing else.
ValidContents ==
  root.seq # 0 =>
    /\ entry[UnitFinal] = root.seq /\ root.seq \in whole
    /\ \A n \in Private : entry[n] = 0

StartRecovery(from, reason) ==
  /\ Goto(from, "rRoots")
  /\ ValidContents
  /\ why' = reason

Open ==
  /\ StartRecovery("closed", "open")
  /\ UNCHANGED <<version, diskVars, state, reserved, loadVars, outcome>>

\* reconcile_roots
RecoverRoots ==
  /\ Goto("rRoots", IF root.seq = 0 THEN "rRemove" ELSE "rUnits")
  /\ rootSurvivors' = {root}
  /\ UNCHANGED <<version, root, entry, survivors, staged, unit, whole, why, state,
                 reserved, loadVars, outcome>>

Recovering == {"rRoots", "rRemove", "rUnits", "rPrivate", "rDone"}

Present(ns) == {n \in ns : entry[n] # 0}

\* recover_empty_mutations: UNIT first, then private names in their fixed order.
RecoverName ==
  /\ pc = "rRemove"
  /\ \E n \in Present(Name) :
       /\ n # UnitFinal => entry[UnitFinal] = 0 /\ \A m \in Present(Name) : n <= m
       /\ PutEntry(n, 0)
  /\ UNCHANGED <<version, root, rootSurvivors, staged, unit, whole, pc, why, state,
                 reserved, loadVars, outcome>>

\* repair_namespace synchronizes both directories last, whatever it removed.
RecoverNamesDone ==
  /\ Goto("rRemove", "rUnits")
  /\ Present(Name) = {}
  /\ UNCHANGED <<version, diskVars, why, state, reserved, loadVars, outcome>>

DropLocals ==
  identity' = 1 /\ read' = <<>> /\ first' = <<>>

\* Database::open returns a handle, and any attempt can be resolved.
OpenDone ==
  /\ why = "open" /\ Goto("rDone", "ready")
  /\ state' = IF root.seq = 0 THEN "Empty" ELSE "Loaded"
  /\ outcome' = [a \in Attempt |-> Resolution(root, a)]
  /\ UNCHANGED <<version, diskVars, why, reserved, loadVars>>

RecoveredBeforeLoad ==
  /\ why = "load" /\ Goto("rDone", "inspect")
  /\ root.seq = 0
  /\ state' = "Empty"
  /\ UNCHANGED <<version, diskVars, why, reserved, loadVars, outcome>>

\* The load's own error is returned: it certainly did not commit.
RolledBack ==
  /\ why = "rollback" /\ Goto("rDone", "ready")
  /\ root.seq = 0
  /\ state' = "Empty" /\ reserved' = 0
  /\ outcome' = [outcome EXCEPT ![root.issued] = Promise!Aborted]
  /\ DropLocals
  /\ UNCHANGED <<version, diskVars, why>>

\* The handle, if there is one, is left in ReopenRequired; after a failed
\* rollback (CleanupRequired) it keeps its charge.
RecoveryFails ==
  /\ pc \in Recovering
  /\ pc' = IF why = "open" THEN "closed" ELSE "ready"
  /\ DropLocals
  /\ UNCHANGED <<version, diskVars, why, state, reserved, outcome>>

RecoverStep ==
  \/ Open \/ RecoverRoots \/ RecoverName \/ RecoverNamesDone
  \/ SyncDirectory("rUnits", "rPrivate", {UnitFinal})
  \/ SyncDirectory("rPrivate", "rDone", Private)
  \/ OpenDone \/ RecoveredBeforeLoad \/ RolledBack

-----------------------------------------------------------------------------
(* The load: admission, the first pass, and the reservation.                *)

\* load_lineitem: the handle is marked before recovery changes any file.
BeginLoad ==
  /\ state = "Empty" /\ reserved = 0
  /\ StartRecovery("ready", "load")
  /\ state' = "ReopenRequired"
  /\ UNCHANGED <<version, diskVars, reserved, loadVars, outcome>>

InspectInput ==
  /\ Goto("inspect", "open1")
  /\ identity' = version
  /\ UNCHANGED <<version, diskVars, why, state, reserved, read, first, outcome>>

\* scan_pass opens the file and compares the open file's identity.
OpenPass(from, to) ==
  /\ Goto(from, to)
  /\ version = identity
  /\ read' = <<>>
  /\ UNCHANGED <<version, diskVars, why, state, reserved, identity, first, outcome>>

\* Mutant: the second pass stages whatever it reads.
StagedUnchecked(pass) == TRUE

\* Staging::append refuses a row beyond the first pass's count.
Staged(pass) == pass = "scan2" => Len(read) < Len(first)

ReadRow(pass) ==
  /\ pc = pass
  /\ Len(read) < Rows[version]
  /\ Staged(pass)
  /\ read' = Append(read, version)
  /\ staged' \in IF pass = "scan2"
                 THEN {Append(staged, version), Append(staged, Garbled)}
                 ELSE {staged}
  /\ UNCHANGED <<version, root, rootSurvivors, entry, survivors, unit, whole, pc,
                 why, state, reserved, identity, first, outcome>>

\* End of file, and the file is still the one inspected.
EndOfInput == Len(read) >= Rows[version] /\ version = identity

EndFirstPass ==
  /\ Goto("scan1", "reserve")
  /\ EndOfInput
  /\ first' = read
  /\ UNCHANGED <<version, diskVars, why, state, reserved, identity, read, outcome>>

\* TemporaryAuthority::reserve, with the attempt that will be issued.
Reserve ==
  /\ Goto("reserve", "issue")
  /\ root.issued < MaxIssued
  /\ reserved' = TemporaryPeak(Len(first))
  /\ state' = "ReopenRequired"
  /\ UNCHANGED <<version, diskVars, why, loadVars, outcome>>

-----------------------------------------------------------------------------
(* publish_snapshot, for the attempt number and for the data.               *)

NextIssued == [root EXCEPT !.issued = root.issued + 1]
NextData == [issued |-> root.issued, gen |-> 1, seq |-> root.issued]

\* The first rename: both records may survive.
RenameRoot(from, to, record) ==
  /\ Goto(from, to)
  /\ Succeeds(record, root)
  /\ root' = record
  /\ rootSurvivors' = rootSurvivors \union {record}
  /\ UNCHANGED <<version, entry, survivors, staged, unit, whole, why, state, reserved,
                 loadVars, outcome>>

\* Mutant: a rename is taken to be durable by itself.
SyncRootForgotten(from, to) ==
  /\ Goto(from, to)
  /\ UNCHANGED <<version, diskVars, why, state, reserved, loadVars, outcome>>

SyncRoot(from, to) ==
  /\ Goto(from, to)
  /\ rootSurvivors' = {root}
  /\ UNCHANGED <<version, root, entry, survivors, staged, unit, whole, why, state,
                 reserved, loadVars, outcome>>

Issue == RenameRoot("issue", "issueSync", NextIssued)

\* The second root copy is replaced; the attempt has a token.
Issued ==
  /\ Goto("issued", "create")
  /\ outcome' = [outcome EXCEPT ![root.issued] = Promise!Pending]
  /\ UNCHANGED <<version, diskVars, why, state, reserved, loadVars>>

\* Both copies hold the data record: the caller gets Ok.
Loaded ==
  /\ Goto("published", "ready")
  /\ state' = "Loaded" /\ reserved' = 0
  /\ outcome' = [outcome EXCEPT ![root.seq] = Promise!Durable(1)]
  /\ DropLocals
  /\ UNCHANGED <<version, diskVars, why>>

-----------------------------------------------------------------------------
(* Construction (build_private_unit) and the move into units/ (publish_unit).*)

\* create_new of a file the attempt makes.
Create(n) ==
  /\ entry[n] = 0
  /\ PutEntry(n, root.issued)

\* Staging::new creates the columns' files one after the other.
CreateStaging ==
  /\ pc = "create"
  /\ \E c \in Column :
       /\ \A b \in Column : b < c => entry[b] # 0
       /\ Create(c)
       /\ pc' = IF c = Columns THEN "open2" ELSE "create"
  /\ staged' = <<>>
  /\ UNCHANGED <<version, root, rootSurvivors, unit, whole, why, state, reserved,
                 loadVars, outcome>>

\* The passes agree, and UNIT.next is created.
CreatePrivateUnit ==
  /\ Goto("scan2", "assemble")
  /\ EndOfInput /\ read = first
  /\ Create(UnitNext)
  /\ UNCHANGED <<version, root, rootSurvivors, staged, unit, whole, why, state,
                 reserved, loadVars, outcome>>

\* Blocks are copied from the staging files; any of them may be stored wrong.
Assembled ==
  /\ unit' \in {[unit EXCEPT ![root.issued] = rows] :
                rows \in {staged} \union {[staged EXCEPT ![i] = Garbled] :
                                        i \in DOMAIN staged}}
  /\ UNCHANGED <<version, root, rootSurvivors, entry, survivors, staged, whole,
                 why, state, reserved, loadVars, outcome>>

\* Mutant: blocks get new checksums, and those of staging are not compared.
AssembleUnitUnchecked == Goto("assemble", "verify") /\ Assembled

\* assemble_unit compares what it copied with the checksums staging kept.
AssembleUnit == Goto("assemble", "verify") /\ staged = read /\ Assembled

\* verify_unit reads the file back against the checksums of what was copied.
VerifyUnit ==
  /\ Goto("verify", "assembled")
  /\ unit[root.issued] = staged
  /\ UNCHANGED <<version, diskVars, why, state, reserved, loadVars, outcome>>

\* Mutant: the unit's contents are left to the system.
SyncUnitForgotten ==
  /\ Goto("assembled", "unstage")
  /\ UNCHANGED <<version, diskVars, why, state, reserved, loadVars, outcome>>

SyncUnit ==
  /\ Goto("assembled", "unstage")
  /\ whole' = whole \union {root.issued}
  /\ UNCHANGED <<version, root, rootSurvivors, entry, survivors, staged, unit,
                 why, state, reserved, loadVars, outcome>>

RemoveStaging ==
  /\ pc = "unstage"
  /\ \E c \in Present(Column) :
       /\ \A b \in Present(Column) : c <= b
       /\ PutEntry(c, 0)
       /\ pc' = IF Present(Column) = {c} THEN "syncUnstaged" ELSE "unstage"
  /\ UNCHANGED <<version, root, rootSurvivors, staged, unit, whole, why, state, reserved,
                 loadVars, outcome>>

\* check_after_build looks the input's name up again.
CheckAfterBuild ==
  /\ Goto("recheck", "link")
  /\ version = identity
  /\ UNCHANGED <<version, diskVars, why, state, reserved, loadVars, outcome>>

LinkUnit ==
  /\ Goto("link", "syncLinked")
  /\ Create(UnitFinal)
  /\ UNCHANGED <<version, root, rootSurvivors, staged, unit, whole, why, state, reserved,
                 loadVars, outcome>>

RemovePrivateUnit ==
  /\ Goto("unlink", "syncUnlinked")
  /\ PutEntry(UnitNext, 0)
  /\ UNCHANGED <<version, root, rootSurvivors, staged, unit, whole, why, state, reserved,
                 loadVars, outcome>>

LoadStep ==
  \/ BeginLoad \/ InspectInput
  \/ OpenPass("open1", "scan1") \/ ReadRow("scan1") \/ EndFirstPass
  \/ Reserve \/ Issue \/ SyncRoot("issueSync", "issued") \/ Issued
  \/ CreateStaging
  \/ OpenPass("open2", "scan2") \/ ReadRow("scan2")
  \/ CreatePrivateUnit \/ AssembleUnit \/ VerifyUnit \/ SyncUnit \/ RemoveStaging
  \/ SyncDirectory("syncUnstaged", "recheck", Private)
  \/ CheckAfterBuild \/ LinkUnit
  \/ SyncDirectory("syncLinked", "unlink", {UnitFinal})
  \/ RemovePrivateUnit
  \/ SyncDirectory("syncUnlinked", "publish", Private)
  \/ RenameRoot("publish", "publishSync", NextData)
  \/ SyncRoot("publishSync", "published") \/ Loaded

-----------------------------------------------------------------------------
(* Failures: an error, a cancellation, or a check that did not pass.        *)

Return ==
  /\ pc' = "ready"
  /\ DropLocals
  /\ UNCHANGED <<version, diskVars, why, outcome>>

\* Before the reservation nothing was changed.
RefuseLoad ==
  /\ pc \in {"inspect", "open1", "scan1", "reserve"}
  /\ Return
  /\ UNCHANGED <<state, reserved>>

\* RecoveryRequired: only the attempt number may have changed.
IssuanceFails ==
  /\ pc \in {"issue", "issueSync", "issued"}
  /\ reserved' = 0
  /\ Return
  /\ UNCHANGED state

Building ==
  {"create", "open2", "scan2", "assemble", "verify", "assembled", "unstage",
   "syncUnstaged", "recheck", "link", "syncLinked", "unlink", "syncUnlinked", "publish"}

\* A partly written unit keeps its name; the roots were not touched.
BuildFails ==
  /\ \E step \in Building : StartRecovery(step, "rollback")
  /\ UNCHANGED <<version, diskVars, state, reserved, loadVars, outcome>>

\* Mutant: every failed load gives its space back.
CommitAmbiguousReleased ==
  /\ pc \in {"publish", "publishSync", "published"}
  /\ reserved' = 0
  /\ Return
  /\ UNCHANGED state

\* From the rename on, its own failure included, the outcome is not known.
CommitAmbiguous ==
  /\ pc \in {"publish", "publishSync", "published"}
  /\ Return
  /\ UNCHANGED <<state, reserved>>

\* The handle is closed or dropped, or the process dies.
CloseOrKill ==
  /\ pc # "closed" /\ pc' = "closed"
  /\ reserved' = 0 /\ state' = "ReopenRequired"
  /\ DropLocals
  /\ UNCHANGED <<version, diskVars, why, outcome>>

\* A unit file that was not synchronized may have lost contents.
PowerLoss ==
  /\ pc' = "closed"
  /\ reserved' = 0 /\ state' = "ReopenRequired"
  /\ DropLocals
  /\ root' \in rootSurvivors /\ rootSurvivors' = {root'}
  /\ entry' \in {e \in [Name -> 0 .. MaxIssued] : \A n \in Name : e[n] \in survivors[n]}
  /\ survivors' = [n \in Name |-> {entry'[n]}]
  /\ UNCHANGED <<version, staged, unit, whole, why, outcome>>

\* Another program rewrites or replaces the input.
RewriteInput ==
  /\ version < Len(Rows)
  /\ version' = version + 1
  /\ UNCHANGED <<diskVars, pc, why, state, reserved, loadVars, outcome>>

Fault ==
  \/ RecoveryFails \/ RefuseLoad \/ IssuanceFails \/ BuildFails
  \/ CommitAmbiguous \/ CloseOrKill \/ PowerLoss \/ RewriteInput

Next == RecoverStep \/ LoadStep \/ Fault

Spec == Init /\ [][Next]_vars

-----------------------------------------------------------------------------
(* Properties.                                                              *)

\* Whichever record the roots hold now or after a power loss, the directory has
\* what that record names: a data record finds its attempt's unit under its
\* final name in every view, synchronized, holding exactly the rows of one
\* version of the input, and no loader name that recovery would refuse.  So an
\* interrupted load never leaves a database that open refuses, and no load
\* commits mixed or damaged rows (publish_unit's order of links, removals and
\* barriers; the checks on the input, the staging files and the unit).
RootsFindTheirUnit ==
  \A r \in rootSurvivors \union {root} :
    r.seq # 0 =>
      /\ entry[UnitFinal] = r.seq /\ survivors[UnitFinal] = {r.seq}
      /\ \A n \in Private : entry[n] = 0 /\ survivors[n] = {0}
      /\ r.seq \in whole
      /\ \E v \in Version : unit[r.seq] = [row \in 1 .. Rows[v] |-> v]

\* The loader makes the same promise as an append: one attempt at a time, each
\* ending once, at most one of them durable.  A plain error is never followed
\* by a commit of that attempt, Ok never by its loss, an attempt number never
\* names two loads (the issuance before construction, RolledBack, CommitAmbiguous).
ImplementsPromise == Promise!Spec

\* A handle exists unless the process is down or still in Database::open.
Handle == pc # "closed" /\ ~(why = "open" /\ pc \in Recovering)

\* Bytes of the staging files together, and of a unit under either name.
StagingBytes == IF Present(Column) = {} THEN 0 ELSE Len(staged)
FilesWithin(limit) ==
  /\ StagingBytes <= limit
  /\ \A n \in Present({UnitNext, UnitFinal}) :
       StagingBytes + UnitBytes(Len(unit[entry[n]])) <= limit

\* While a handle lives, the files a load left without committing are paid for by
\* the handle's charge: a failure that cannot prove cleanup keeps it, and the
\* second pass writes no more than the first one counted (Staging::append, the
\* release in load_lineitem).
ChargeCoversFiles == Handle /\ state # "Loaded" => FilesWithin(reserved)
=============================================================================
