------------------------------ MODULE Scratch -------------------------------
(***************************************************************************)
(* The disposable files of src/src/storage/scratch.rs.  Operations sharing  *)
(* one open database each own a pair of files; all pairs are created under  *)
(* the same two names of private/, unlinked, and only used once the removal *)
(* of the names is durable.  Recovery on open removes what was left of an   *)
(* interrupted creation and refuses anything else.                          *)
(*                                                                          *)
(* The directory has a visible and a durable view, as in Publication; the   *)
(* system may write a name, or its removal, back at any time.  Bytes are    *)
(* counted in units of the temporary budget.                                *)
(***************************************************************************)
EXTENDS Naturals, FiniteSetsExt

CONSTANTS
  Owner,          \* operations that may need scratch
  NoFile,         \* a name that names nothing
  Limit,          \* TemporaryAuthority::limit
  MaxExtent       \* bound: bytes one operation puts in one file

ASSUME ScratchAssumption ==
  /\ IsFiniteSet(Owner)
  /\ NoFile \notin Owner \X {1, 2}
  /\ Limit \in Nat /\ MaxExtent \in Nat

Name == {1, 2}             \* recovery::SCRATCH_NAMES
File == Owner \X Name      \* the file an owner created under a name

VARIABLES
  names, dnames,  \* what each name in private/ refers to: visible, durable
  size,           \* bytes in each file
  admission,      \* Admission::state
  marked,         \* Bootstrap::requires_recovery of each owner
  extents,        \* Scratch::extents of each owner
  reserved,       \* TemporaryAuthority::reserved
  other,          \* the part of it charged by appends and loads
  pc,             \* what each owner is doing: <<stage, name>>
  handle          \* the database: open, closed, or in recovery

dirVars == <<names, dnames>>
accountVars == <<extents, reserved, other>>
vars == <<dirVars, size, admission, marked, accountVars, pc, handle>>

Idle == <<"out", 0>>
Live == <<"live", 0>>
AtName(stage) == {<<stage, n>> : n \in Name}

Bootstrapping ==
  {<<"inspect", 0>>, <<"found", 0>>, <<"sync", 0>>, <<"admit", 0>>}
    \union AtName("create") \union AtName("unlink")
InUse == {Live, <<"closing", 0>>} \union AtName("write") \union AtName("release")

Unnamed == [n \in Name |-> NoFile]

Init ==
  /\ names = Unnamed /\ dnames = Unnamed
  /\ size = [f \in File |-> 0]
  /\ admission = "idle"
  /\ marked = [o \in Owner |-> FALSE]
  /\ extents = [o \in Owner |-> [n \in Name |-> 0]]
  /\ reserved = 0 /\ other = 0
  /\ pc = [o \in Owner |-> Idle]
  /\ handle = "open"

Goto(o, from, to) ==
  /\ handle = "open" /\ pc[o] = from
  /\ pc' = [pc EXCEPT ![o] = to]

-----------------------------------------------------------------------------
(* Creation.                                                                *)

\* Mutant: the compare and exchange is a plain store.
BeginUnguarded(o) ==
  /\ Goto(o, Idle, <<"inspect", 0>>)
  /\ admission # "reopen"
  /\ admission' = "creating"
  /\ marked' = [marked EXCEPT ![o] = FALSE]
  /\ UNCHANGED <<dirVars, size, accountVars, handle>>

\* Admission::begin; an operation that finds CREATING or REOPEN is refused.
Begin(o) ==
  /\ Goto(o, Idle, <<"inspect", 0>>)
  /\ admission = "idle"
  /\ admission' = "creating"
  /\ marked' = [marked EXCEPT ![o] = FALSE]
  /\ UNCHANGED <<dirVars, size, accountVars, handle>>

\* inspect_known_entries: unresolved names mark the bootstrap, which then fails.
InspectNames(o) ==
  /\ Goto(o, <<"inspect", 0>>, IF names = Unnamed THEN <<"create", 1>>
                                                 ELSE <<"found", 0>>)
  /\ marked' = [marked EXCEPT ![o] = names # Unnamed]
  /\ UNCHANGED <<dirVars, size, admission, accountVars, handle>>

\* Mutant: the bootstrap is marked by the first removal, not the creation.
CreateUnmarked(o, n) ==
  /\ Goto(o, <<"create", n>>, <<"unlink", n>>)
  /\ names[n] = NoFile
  /\ names' = [names EXCEPT ![n] = <<o, n>>]
  /\ size' = [size EXCEPT ![<<o, n>>] = 0]
  /\ UNCHANGED <<dnames, admission, marked, accountVars, handle>>

\* create_new_read_write refuses an existing name.
Create(o, n) ==
  /\ Goto(o, <<"create", n>>, <<"unlink", n>>)
  /\ names[n] = NoFile
  /\ marked' = [marked EXCEPT ![o] = TRUE]
  /\ names' = [names EXCEPT ![n] = <<o, n>>]
  /\ size' = [size EXCEPT ![<<o, n>>] = 0]
  /\ UNCHANGED <<dnames, admission, accountVars, handle>>

\* Mutant: only the first name is removed.
UnlinkFirst(o, n) ==
  /\ Goto(o, <<"unlink", n>>, IF n = 1 THEN <<"create", 2>> ELSE <<"sync", 0>>)
  /\ names' = [names EXCEPT ![1] = NoFile]
  /\ UNCHANGED <<dnames, size, admission, marked, accountVars, handle>>

Unlink(o, n) ==
  /\ Goto(o, <<"unlink", n>>, IF n = 1 THEN <<"create", 2>> ELSE <<"sync", 0>>)
  /\ names' = [names EXCEPT ![n] = NoFile]
  /\ UNCHANGED <<dnames, size, admission, marked, accountVars, handle>>

\* Mutant: scratch is disposable, so nothing is synchronized.
SyncNamesSkipped(o) ==
  /\ Goto(o, <<"sync", 0>>, <<"admit", 0>>)
  /\ marked' = [marked EXCEPT ![o] = FALSE]
  /\ UNCHANGED <<dirVars, size, admission, accountVars, handle>>

SyncNames(o) ==
  /\ Goto(o, <<"sync", 0>>, <<"admit", 0>>)
  /\ dnames' = names
  /\ marked' = [marked EXCEPT ![o] = FALSE]
  /\ UNCHANGED <<names, size, admission, accountVars, handle>>

\* Bootstrap::drop, after success or failure.
LeaveBootstrap(o) == admission' = IF marked[o] THEN "reopen" ELSE "idle"

\* Scratch::admit and the last cancellation check.
Admit(o) ==
  /\ Goto(o, <<"admit", 0>>, Live)
  /\ LeaveBootstrap(o)
  /\ extents' = [extents EXCEPT ![o] = [n \in Name |-> 0]]
  /\ UNCHANGED <<dirVars, size, marked, reserved, other, handle>>

\* An I/O error, a found name or cancellation at any point.  A creation that
\* fails was marked first; cancellation before the first one leaves no mark.
FailBootstrap(o) ==
  /\ pc[o] \in Bootstrapping /\ handle = "open"
  /\ pc' = [pc EXCEPT ![o] = Idle]
  /\ \/ LeaveBootstrap(o)
     \/ pc[o] \in AtName("create") /\ admission' = "reopen"
  /\ UNCHANGED <<dirVars, size, marked, accountVars, handle>>

-----------------------------------------------------------------------------
(* Use.                                                                     *)

\* Scratch::write: any extension is charged before the first byte.
Reserve(o, n, end) ==
  /\ Goto(o, Live, <<"write", n>>)
  /\ end > extents[o][n]
  /\ reserved + (end - extents[o][n]) <= Limit
  /\ reserved' = reserved + (end - extents[o][n])
  /\ extents' = [extents EXCEPT ![o][n] = end]
  /\ UNCHANGED <<dirVars, size, admission, marked, other, handle>>

Rewrite(o, n) ==
  /\ Goto(o, Live, <<"write", n>>)
  /\ extents[o][n] # 0
  /\ UNCHANGED <<dirVars, size, admission, marked, accountVars, handle>>

\* The bytes, all or some of them: a failed write keeps its charge.
WriteBytes(o, n) ==
  /\ Goto(o, <<"write", n>>, Live)
  /\ \E s \in size[<<o, n>>] .. extents[o][n] :
       size' = [size EXCEPT ![<<o, n>>] = s]
  /\ UNCHANGED <<dirVars, admission, marked, accountVars, handle>>

\* Mutant: reset releases the charge and then truncates.
TruncateLater(o, n) ==
  /\ Goto(o, Live, <<"release", n>>)
  /\ extents[o][n] # 0
  /\ UNCHANGED <<dirVars, size, admission, marked, accountVars, handle>>

\* Scratch::reset truncates first.
Truncate(o, n) ==
  /\ Goto(o, Live, <<"release", n>>)
  /\ extents[o][n] # 0
  /\ size' = [size EXCEPT ![<<o, n>>] = 0]
  /\ UNCHANGED <<dirVars, admission, marked, accountVars, handle>>

ReleaseReset(o, n) ==
  /\ Goto(o, <<"release", n>>, Live)
  /\ extents' = [extents EXCEPT ![o][n] = 0]
  /\ reserved' = reserved - extents[o][n]
  /\ UNCHANGED <<dirVars, size, admission, marked, other, handle>>

\* set_len failed, whether or not it changed the file: the charge stays.
TruncateFails(o, n) ==
  /\ pc[o] = Live /\ handle = "open"
  /\ size' = [size EXCEPT ![<<o, n>>] = 0]
  /\ UNCHANGED <<dirVars, admission, marked, accountVars, pc, handle>>

\* Drop for Scratch: the files are closed, then the charges released.
CloseFiles(o) ==
  /\ Goto(o, Live, <<"closing", 0>>)
  /\ size' = [f \in File |-> IF f[1] = o THEN 0 ELSE size[f]]
  /\ UNCHANGED <<dirVars, admission, marked, accountVars, handle>>

Held(o) == extents[o][1] + extents[o][2]

ReleaseDropped(o) ==
  /\ Goto(o, <<"closing", 0>>, Idle)
  /\ reserved' = reserved - Held(o)
  /\ extents' = [extents EXCEPT ![o] = [n \in Name |-> 0]]
  /\ UNCHANGED <<dirVars, size, admission, marked, other, handle>>

\* Appends and loads charge and release the same account.
OtherCharge ==
  /\ handle = "open"
  /\ \/ reserved < Limit /\ other' = other + 1 /\ reserved' = reserved + 1
     \/ other > 0 /\ other' = other - 1 /\ reserved' = reserved - 1
  /\ UNCHANGED <<dirVars, size, admission, marked, extents, pc, handle>>

-----------------------------------------------------------------------------
(* The end of the process, power loss, and recovery.                        *)

\* Only a file with a name outlives the process.
Vanish(kept) ==
  /\ size' = [f \in File |-> IF \E n \in Name : kept[n] = f THEN size[f] ELSE 0]
  /\ marked' = [o \in Owner |-> FALSE]
  /\ extents' = [o \in Owner |-> [n \in Name |-> 0]]
  /\ reserved' = 0 /\ other' = 0
  /\ pc' = [o \in Owner |-> Idle]
  /\ admission' = "idle"
  /\ handle' = "closed"

\* Owners borrow the database, so it is only closed when none is left.
Close ==
  /\ handle = "open"
  /\ \A o \in Owner : pc[o] = Idle
  /\ Vanish(names)
  /\ UNCHANGED dirVars

Kill ==
  /\ handle # "closed"
  /\ Vanish(names)
  /\ UNCHANGED dirVars

PowerLoss ==
  /\ Vanish(dnames)
  /\ names' = dnames
  /\ UNCHANGED dnames

Writeback(n) ==
  /\ names[n] # dnames[n]
  /\ dnames' = [dnames EXCEPT ![n] = names[n]]
  /\ UNCHANGED <<names, size, admission, marked, accountVars, pc, handle>>

\* Mutant: recovery accepts a complete pair of leftovers or none.
RemovablePair ==
  \/ names = Unnamed
  \/ \A n \in Name : names[n] # NoFile /\ size[names[n]] = 0

\* validate_scratch_names: a leftover is empty.
Removable == \A n \in Name : names[n] # NoFile => size[names[n]] = 0

BeginRecovery ==
  /\ handle = "closed"
  /\ Removable
  /\ handle' = "removing"
  /\ UNCHANGED <<dirVars, size, admission, marked, accountVars, pc>>

\* remove_known_entries, the first name first.
RemoveLeftover(n) ==
  /\ handle = "removing"
  /\ names[n] # NoFile /\ (n = 2 => names[1] = NoFile)
  /\ names' = [names EXCEPT ![n] = NoFile]
  /\ UNCHANGED <<dnames, size, admission, marked, accountVars, pc, handle>>

\* The last barrier of repair_namespace.
SyncLeftovers ==
  /\ handle = "removing"
  /\ names = Unnamed
  /\ dnames' = names
  /\ handle' = "open"
  /\ UNCHANGED <<names, size, admission, marked, accountVars, pc>>

-----------------------------------------------------------------------------
BootstrapStep(o) ==
  \/ Begin(o) \/ InspectNames(o)
  \/ \E n \in Name : Create(o, n) \/ Unlink(o, n)
  \/ SyncNames(o) \/ Admit(o) \/ FailBootstrap(o)

UseStep(o) ==
  \/ \E n \in Name : \/ \E end \in 1 .. MaxExtent : Reserve(o, n, end)
                     \/ Rewrite(o, n) \/ WriteBytes(o, n)
                     \/ Truncate(o, n) \/ ReleaseReset(o, n)
                     \/ TruncateFails(o, n)
  \/ CloseFiles(o) \/ ReleaseDropped(o)

Recover ==
  \/ BeginRecovery \/ SyncLeftovers
  \/ \E n \in Name : RemoveLeftover(n)

Next ==
  \/ \E o \in Owner : BootstrapStep(o) \/ UseStep(o)
  \/ OtherCharge
  \/ Close \/ Kill \/ PowerLoss
  \/ \E n \in Name : Writeback(n)
  \/ Recover

Spec == Init /\ [][Next]_vars

\* Opening again after the handle was closed is up to the caller, who does.
FairSpec == Spec /\ WF_vars(Recover)

-----------------------------------------------------------------------------
(* Properties.                                                              *)

Stage == Bootstrapping \union InUse \union {Idle}

\* The fields of Admission, Bootstrap, Scratch and the account keep their types.
TypeOK ==
  /\ names \in [Name -> File \union {NoFile}]
  /\ dnames \in [Name -> File \union {NoFile}]
  /\ size \in [File -> 0 .. MaxExtent]
  /\ admission \in {"idle", "creating", "reopen"}
  /\ marked \in [Owner -> BOOLEAN]
  /\ extents \in [Owner -> [Name -> 0 .. MaxExtent]]
  /\ reserved \in 0 .. Limit /\ other \in 0 .. Limit
  /\ pc \in [Owner -> Stage]
  /\ handle \in {"open", "closed", "removing"}

\* Scratch in use has no name, and no crash can give it one back: a payload is
\* never found under a name that recovery would have to refuse.
InUseIsAnonymous ==
  \A o \in Owner : pc[o] \in InUse =>
    \A n, m \in Name : <<o, n>> # names[m] /\ <<o, n>> # dnames[m]

\* Recovery accepts what any interruption leaves in private/.
LeftoversRemovable == handle = "closed" => Removable

\* One operation at a time uses the names, and finds the one it creates free.
NamesAreExclusive ==
  /\ \A o, p \in Owner : pc[o] \in Bootstrapping /\ pc[p] \in Bootstrapping => o = p
  /\ \A o \in Owner, n \in Name : pc[o] = <<"create", n>> => names[n] = NoFile

\* When another creation would be admitted no name is left, visible or durable:
\* uncertain removal blocks creation until the database is opened again.
IdleMeansClean ==
  handle = "open" /\ admission = "idle" => names = Unnamed /\ dnames = Unnamed

\* The bytes in scratch files never pass what their owners are charged, and the
\* charges add up to the account, which never passes its limit.
UsageWithinBudget ==
  /\ \A o \in Owner, n \in Name :
       pc[o] \in InUse => size[<<o, n>>] <= extents[o][n]
  /\ SumFunction([o \in Owner |-> Held(o)]) + other = reserved
  /\ reserved <= Limit

\* Once no process is killed any more, a closed database opens again.
Quiet == ~(Kill \/ PowerLoss)
ReopensWhenQuiet == <>[][Quiet]_vars => (handle # "open" ~> handle = "open")
=============================================================================
