------------------------------ MODULE Creation ------------------------------
(***************************************************************************)
(* Database::create and its cleanup, with other processes that open or      *)
(* create at the same path (src/src/database.rs, and the inspection of      *)
(* src/src/storage/recovery.rs).  A directory is built entry by entry under *)
(* a lease on its LOCK; a failure removes what was made; an opener that     *)
(* found LOCK earlier may lock a file that is no longer the database's.     *)
(*                                                                          *)
(* Every directory ever made at the path is an incarnation, which stands    *)
(* for the identity of its LOCK file and for its database identity.  What   *)
(* was synchronized survives a power loss, and what changed since may or    *)
(* may not, entry by entry: the choice is made when the power goes.         *)
(***************************************************************************)
EXTENDS Naturals, Sequences

CONSTANTS
  Process,
  Nobody,         \* a lock without holder
  MaxCreations    \* bound: directories made at the path

ASSUME CreationAssumption ==
  /\ Nobody \notin Process
  /\ MaxCreations \in Nat

Incarnation == 1 .. MaxCreations

\* "directories" is units with private: opening needs both, and nothing is put
\* into either before the handle is returned.
CreationOrder ==
  <<"LOCK", "directories", "WAL", "CONTROL", "ROOT.A", "ROOT.B">>
RemovalOrder ==
  <<"directories", "ROOT.A", "ROOT.B", "WAL", "CONTROL", "LOCK">>
Steps == 1 .. 6

Roots == {"ROOT.A", "ROOT.B"}
Mandatory == {"LOCK", "CONTROL", "WAL", "directories"}
Entry == Mandatory \union Roots
Written == Entry \ {"LOCK", "directories"}     \* entries with contents

VARIABLES
  dir,            \* the incarnation at the path, or 0
  survivors,      \* what may be at the path after a power loss
  names,          \* entries of the incarnation at the path
  synced,         \* entries of each incarnation at its last synchronization
  touched,        \* entries created or removed since
  whole,          \* entries of each incarnation with synchronized contents
  used,           \* incarnations so far
  holder,         \* who holds the lock on each incarnation's LOCK
  pc,             \* <<stage, step>> of each process
  own,            \* the incarnation a process made, or whose LOCK it opened
  clean,          \* cleanup met no error so far
  told            \* history: what the creator of each incarnation was told

entryVars == <<names, synced, touched, whole>>
pathVars == <<dir, survivors, entryVars>>
procVars == <<own, clean>>
vars == <<pathVars, used, holder, pc, procVars, told>>

Out == <<"out", 0>>
At(stage) == <<stage, 0>>
Making == {<<"make", k>> : k \in Steps}
Filling == {<<"fill", k>> : k \in Steps}
Creating ==
  Making \union Filling \union
  {At("lease"), At("validate"), At("syncRoot"), At("syncParent"), At("registry")}
Removing ==
  {At("check"), At("rmdir"), At("syncGone")} \union {<<"remove", k>> : k \in Steps}
Opening == {At("found"), At("locked"), At("inspected"), At("repair")}

Init ==
  /\ dir = 0 /\ survivors = {0}
  /\ names = {}
  /\ synced = [i \in Incarnation |-> {}]
  /\ touched = [i \in Incarnation |-> {}]
  /\ whole = [i \in Incarnation |-> {}]
  /\ used = 0
  /\ holder = [i \in Incarnation |-> Nobody]
  /\ pc = [p \in Process |-> Out]
  /\ own = [p \in Process |-> 0]
  /\ clean = [p \in Process |-> TRUE]
  /\ told = [i \in Incarnation |-> "nothing"]

Goto(p, from, to) == pc[p] = from /\ pc' = [pc EXCEPT ![p] = to]

Leased(p) == own[p] # 0 /\ holder[own[p]] = p

\* A lock goes with its file descriptor.
Unlock(ps) ==
  holder' = [i \in Incarnation |-> IF holder[i] \in ps THEN Nobody ELSE holder[i]]

\* Processes that return from the operation, or die.
Leave(ps) ==
  /\ pc' = [p \in Process |-> IF p \in ps THEN Out ELSE pc[p]]
  /\ own' = [p \in Process |-> IF p \in ps THEN 0 ELSE own[p]]
  /\ clean' = [p \in Process |-> p \in ps \/ clean[p]]
  /\ Unlock(ps)

-----------------------------------------------------------------------------
(* Creation.                                                                *)

\* create_dir refuses an existing path.
CreateDirectory(p) ==
  /\ Goto(p, Out, <<"make", 1>>)
  /\ dir = 0 /\ used < MaxCreations
  /\ used' = used + 1 /\ dir' = used + 1
  /\ survivors' = survivors \union {used + 1}
  /\ names' = {}
  /\ own' = [own EXCEPT ![p] = used + 1]
  /\ clean' = [clean EXCEPT ![p] = TRUE]
  /\ UNCHANGED <<synced, touched, whole, holder, told>>

\* Entries of the directory at the path that power loss may leave either way.
Touch(e) == touched' = [touched EXCEPT ![dir] = @ \union {e}]

\* Once the parent is synchronized, a directory that is not at d is gone for
\* good, and its entries are forgotten.
Keep(entries, d) == [i \in Incarnation |-> IF i = d THEN entries[i] ELSE {}]

SyncEntries(present) ==
  /\ synced' = [synced EXCEPT ![dir] = present]
  /\ touched' = [touched EXCEPT ![dir] = {}]

After(k) == IF k = 6 THEN At("validate") ELSE <<"make", k + 1>>

\* create_new or create_dir; LOCK is leased next, the others are filled next.
CreateEntry(p, k) ==
  LET e == CreationOrder[k] IN
  /\ Goto(p, <<"make", k>>, IF e = "LOCK" THEN At("lease")
                            ELSE IF e \in Written THEN <<"fill", k>> ELSE After(k))
  /\ e \notin names
  /\ names' = names \union {e} /\ Touch(e)
  /\ UNCHANGED <<dir, survivors, synced, whole, used, holder, procVars, told>>

\* DatabaseLease::acquire on the file just created; an opener may hold it.
TakeLease(p) ==
  /\ Goto(p, At("lease"), <<"make", 2>>)
  /\ holder[own[p]] = Nobody
  /\ holder' = [holder EXCEPT ![own[p]] = p]
  /\ UNCHANGED <<pathVars, used, procVars, told>>

\* create_synced_file writes and synchronizes the contents.
FillEntry(p, k) ==
  /\ Goto(p, <<"fill", k>>, After(k))
  /\ whole' = [whole EXCEPT ![own[p]] = @ \union {CreationOrder[k]}]
  /\ UNCHANGED <<dir, survivors, names, synced, touched, used, holder, procVars,
                 told>>

\* validate_created_namespace accepts exactly the empty database.
ValidateCreated(p) ==
  /\ Goto(p, At("validate"), At("syncRoot"))
  /\ dir = own[p] /\ names = Entry /\ Written \subseteq whole[dir]
  /\ UNCHANGED <<pathVars, used, holder, procVars, told>>

SyncRoot(p) ==
  /\ Goto(p, At("syncRoot"), At("syncParent"))
  /\ SyncEntries(names)
  /\ UNCHANGED <<dir, survivors, names, whole, used, holder, procVars, told>>

\* Mutant: the directory's own name is left to the system.
SyncParentSkipped(p) ==
  /\ Goto(p, At("syncParent"), At("registry"))
  /\ UNCHANGED <<pathVars, used, holder, procVars, told>>

SyncParent(p) ==
  /\ Goto(p, At("syncParent"), At("registry"))
  /\ survivors' = {dir}
  /\ synced' = Keep(synced, dir) /\ touched' = Keep(touched, dir)
  /\ whole' = Keep(whole, dir)
  /\ UNCHANGED <<dir, names, used, holder, procVars, told>>

\* The registry is allocated and the handle returned.
FinishCreate(p) ==
  /\ Goto(p, At("registry"), At("live"))
  /\ told' = [told EXCEPT ![own[p]] = "created"]
  /\ UNCHANGED <<pathVars, used, holder, procVars>>

-----------------------------------------------------------------------------
(* Failure and cleanup.                                                     *)

\* Mutant: the lease ends with initialization, before cleanup.
FailCreationUnlocked(p) ==
  /\ pc[p] \in Creating
  /\ pc' = [pc EXCEPT ![p] = <<"remove", 1>>]
  /\ Unlock({p})
  /\ UNCHANGED <<pathVars, used, procVars, told>>

\* Any step fails, the last ones included; the lease is kept.
FailCreation(p) ==
  /\ pc[p] \in Creating
  /\ pc' = [pc EXCEPT ![p] = IF Leased(p) THEN At("check") ELSE <<"remove", 1>>]
  /\ UNCHANGED <<pathVars, used, holder, procVars, told>>

\* cleanup_failed_creation removes only from the directory it holds.
CheckLock(p) ==
  /\ Goto(p, At("check"), <<"remove", 1>>)
  /\ dir = own[p] /\ "LOCK" \in names
  /\ UNCHANGED <<pathVars, used, holder, procVars, told>>

AfterRemoving(k) == IF k = 6 THEN At("rmdir") ELSE <<"remove", k + 1>>

\* A name that is not there is no error; an error does not stop cleanup.
RemoveEntry(p, k) ==
  LET e == RemovalOrder[k] IN
  /\ Goto(p, <<"remove", k>>, AfterRemoving(k))
  /\ \/ /\ names' = names \ {e}
        /\ IF e \in names THEN Touch(e) ELSE UNCHANGED touched
        /\ UNCHANGED clean
     \/ clean' = [clean EXCEPT ![p] = FALSE] /\ UNCHANGED <<names, touched>>
  /\ UNCHANGED <<dir, survivors, synced, whole, used, holder, own, told>>

RemoveRoot(p) ==
  /\ Goto(p, At("rmdir"), At("syncGone"))
  /\ \/ names = {} /\ dir' = 0 /\ survivors' = survivors \union {0} /\ UNCHANGED clean
     \/ clean' = [clean EXCEPT ![p] = FALSE] /\ UNCHANGED <<dir, survivors>>
  /\ UNCHANGED <<entryVars, used, holder, own, told>>

\* Mutant: errors of single removals are forgotten.
ReportLast(p) == "failed and gone"

Report(p) == IF clean[p] THEN "failed and gone" ELSE "cleanup required"

\* The parent is synchronized, the lease dropped and the result returned.
SyncGone(p) ==
  /\ pc[p] = At("syncGone")
  /\ survivors' = {dir}
  /\ synced' = Keep(synced, dir) /\ touched' = Keep(touched, dir)
  /\ whole' = Keep(whole, dir)
  /\ Leave({p})
  /\ told' = [told EXCEPT ![own[p]] = Report(p)]
  /\ UNCHANGED <<dir, names, used>>

\* The lock entry changed, or the parent could not be synchronized.
CleanupFails(p) ==
  /\ pc[p] \in {At("check"), At("syncGone")}
  /\ Leave({p})
  /\ told' = [told EXCEPT ![own[p]] = "cleanup required"]
  /\ UNCHANGED <<pathVars, used>>

-----------------------------------------------------------------------------
(* Opening.                                                                 *)

\* validate_lock_entry, open and the identity check of acquire.
FindLock(p) ==
  /\ Goto(p, Out, At("found"))
  /\ dir # 0 /\ "LOCK" \in names
  /\ own' = [own EXCEPT ![p] = dir]
  /\ UNCHANGED <<pathVars, used, holder, clean, told>>

TryLock(p) ==
  /\ Goto(p, At("found"), At("locked"))
  /\ holder[own[p]] = Nobody
  /\ holder' = [holder EXCEPT ![own[p]] = p]
  /\ UNCHANGED <<pathVars, used, procVars, told>>

\* Mutant: holding a lock is taken for holding this database's lock.
NamespaceCompleteUnowned(p) ==
  dir # 0 /\ Mandatory \subseteq names /\ names \intersect Roots # {}

\* read_namespace_authority: the held LOCK is the current one, every mandatory
\* name is there, and a root.
NamespaceComplete(p) ==
  dir = own[p] /\ Mandatory \subseteq names /\ names \intersect Roots # {}

InspectNames(p) ==
  /\ Goto(p, At("locked"), At("inspected"))
  /\ NamespaceComplete(p)
  /\ UNCHANGED <<pathVars, used, holder, procVars, told>>

\* CONTROL decodes; both roots, or one that the fence confirms.
ReadAuthority(p) ==
  /\ Goto(p, At("inspected"), At("repair"))
  /\ dir # 0
  /\ LET readable == names \intersect whole[dir] IN
       /\ "CONTROL" \in readable
       /\ \/ Roots \subseteq readable
          \/ Roots \intersect readable # {} /\ "WAL" \in readable
  /\ UNCHANGED <<pathVars, used, holder, procVars, told>>

\* repair_namespace, whose steps are those of module Publication.
Repair(p) ==
  /\ Goto(p, At("repair"), At("live"))
  /\ names' = names \union Roots
  /\ whole' = [whole EXCEPT ![dir] = @ \union Roots \union {"WAL"}]
  /\ SyncEntries(names')
  /\ UNCHANGED <<dir, survivors, used, holder, procVars, told>>

-----------------------------------------------------------------------------
\* The opener is refused at any point (Locked, Corrupt, I/O), the handle is
\* closed, or the process dies anywhere.
RefuseCloseOrKill(p) ==
  /\ pc[p] # Out
  /\ Leave({p})
  /\ UNCHANGED <<pathVars, used, told>>

PowerLoss ==
  /\ dir' \in survivors
  /\ survivors' = {dir'}
  /\ IF dir' = 0
     THEN names' = {} /\ synced' = Keep(synced, 0) /\ touched' = Keep(touched, 0)
     ELSE /\ \E kept \in SUBSET touched[dir'] :
               names' = (synced[dir'] \ touched[dir']) \union kept
          /\ synced' = [Keep(synced, dir') EXCEPT ![dir'] = names']
          /\ touched' = Keep(touched, 0)
  /\ whole' = Keep(whole, dir')
  /\ Leave(Process)
  /\ UNCHANGED <<used, told>>

CreateStep(p) ==
  \/ CreateDirectory(p) \/ TakeLease(p)
  \/ \E k \in Steps : CreateEntry(p, k) \/ FillEntry(p, k)
  \/ ValidateCreated(p) \/ SyncRoot(p) \/ SyncParent(p) \/ FinishCreate(p)

CleanupStep(p) ==
  \/ FailCreation(p) \/ CheckLock(p) \/ CleanupFails(p)
  \/ \E k \in Steps : RemoveEntry(p, k)
  \/ RemoveRoot(p) \/ SyncGone(p)

OpenStep(p) ==
  \/ FindLock(p) \/ TryLock(p) \/ InspectNames(p) \/ ReadAuthority(p)
  \/ Repair(p)

Next ==
  \/ \E p \in Process : CreateStep(p) \/ CleanupStep(p) \/ OpenStep(p) \/ RefuseCloseOrKill(p)
  \/ PowerLoss

Spec == Init /\ [][Next]_vars

-----------------------------------------------------------------------------
(* Properties.                                                              *)

\* The path, the entries and the processes keep their types; a path without a
\* directory has no entries.
TypeOK ==
  /\ dir \in 0 .. MaxCreations
  /\ survivors \subseteq 0 .. MaxCreations
  /\ names \subseteq Entry /\ (dir = 0 => names = {})
  /\ synced \in [Incarnation -> SUBSET Entry]
  /\ touched \in [Incarnation -> SUBSET Entry]
  /\ whole \in [Incarnation -> SUBSET Written]
  /\ used \in 0 .. MaxCreations
  /\ holder \in [Incarnation -> Process \union {Nobody}]
  /\ pc \in [Process -> Creating \union Removing \union Opening \union {Out, At("live")}]
  /\ own \in [Process -> 0 .. MaxCreations]
  /\ clean \in [Process -> BOOLEAN]
  /\ told \in [Incarnation ->
                 {"nothing", "created", "failed and gone", "cleanup required"}]

Live(p) == pc[p] = At("live")

\* Who relies on the directory as it is, or changes it.
Acting(p) ==
  \/ Live(p) \/ pc[p] \in Creating
  \/ pc[p] \in Removing \ {At("syncGone")}
  \/ pc[p] \in {At("inspected"), At("repair")}

\* Nobody is past inspection of a directory that somebody else is creating,
\* removing, repairing or using, whichever LOCK file they hold.
OneActor == \A p, q \in Process : Acting(p) /\ Acting(q) => p = q

\* A handle's directory is the one at the path, and complete: no cleanup of a
\* failed creation takes an opened database apart.
OpenedStaysWhole ==
  \A p \in Process : Live(p) =>
    dir = own[p] /\ names = Entry /\ Written \subseteq whole[dir]

\* A creation that returned a handle survives power loss from then on.
CreatedIsDurable ==
  \A i \in Incarnation : told[i] = "created" =>
    /\ survivors = {i}
    /\ synced[i] = Entry /\ touched[i] = {} /\ Written \subseteq whole[i]

\* A creation that failed without asking for cleanup left nothing, and nothing
\* comes back.
FailedIsGone ==
  \A i \in Incarnation : told[i] = "failed and gone" => dir # i /\ i \notin survivors
=============================================================================
