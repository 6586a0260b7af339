# Formal models of PipeSQL

PipeSQL is an embedded analytical database: an application writes typed batches,
prepares pipe queries and pulls answers, with no server and no background
threads. These modules specify its storage engine and its query engine as the
code under `src/` implements them: which steps are durable when, what a failure
or a power loss at each of them leaves behind, what several threads of one
process may do to each other, what callers are promised about their commits, and
that a query gives the rows of its answer whatever buffers, scratch files,
fallbacks and replays it goes through.

Source lines below are those of the repository at the commit in `src/`; paths
are given without the leading `src/src/`.

## 1. The system

### Parts, state and operations

| part | source | state | operations |
|---|---|---|---|
| snapshot selection | `storage/format.rs` | none: rules over records (issued, generation, attempt) | `transition_from`, `select_snapshot` |
| publication | `storage/publication.rs` | `WAL`, `ROOT.A`, `ROOT.B`, `ROOT.x.next` | `publish_snapshot`: fence, A, B, each synchronized before the next |
| recovery | `storage/recovery.rs`, `storage/construction.rs` | the whole directory | on open: validate, repair roots, rewrite the fence, remove unfinished objects |
| construction | `storage/construction.rs`, `append.rs`, `declare.rs` | objects `units/<attempt>-<ordinal>` | create, write, synchronize; or clean up and abort |
| history | `storage/history.rs` | one object per commit listing every committed attempt | append, find |
| snapshot registry | `storage/snapshot.rs` | slots, current slot, active owner, pins, `unavailable`, `generation`, a mutex | snapshot, resolve, writer and maintenance admission, issue, commit, abort, finish |
| reclamation | `storage/reclaim.rs`, `reclaim/inventory.rs` | captured views; a merged inventory of names | walk reachable views, merge with stored names, unlink, synchronize |
| scratch | `storage/scratch.rs` | two names in `private/`, anonymous files, extents, an admission flag | create, write, reset, drop |
| accounts | `resources.rs` | one atomic total per account, a limit | reserve, release, split, transfer, shrink |
| handle | `database.rs` | lease, registry, accounts | create, open, close |
| lineitem loader | `storage/legacy*` | fixed-schema directory | load and publish |
| codecs | `storage/catalog.rs`, `schema.rs`, `table.rs`, `unit.rs` | object bytes | encode, decode, validate |
| query front end | `query*` | none between calls | lex, parse, bind, plan, evaluate scalars |
| runtime | `execution/runtime.rs` and its controllers | a tree of producers, the active one, a batch per producer | step, hand a batch up, ask an input, replay an input |
| blocking operators | `execution/blocking*` | run buffers, runs on two scratch streams, cursors with a cached page | ORDER BY, DISTINCT, windows, joins, set operations |
| aggregation | `execution/aggregation*` | dense slots, a hash table, or sorted runs | count, group, fall back to disk |
| import and export | `csv*`, `jsonl.rs`, `parquet*` | one file | read into an append, write a result |
| command line | `main.rs`, `cli/` | none | arguments, output |

### How they interact

- A writer is admitted by the registry, reserves temporary space, then issues an
  attempt number by publishing a root record (`Writer::issue`), builds objects,
  and publishes a second record that selects them (`Writer::commit_prepared`), or
  removes them and settles the registry (`abort_unbuilt`). A token is exposed
  only after issuance, so callers can ask about it after any failure.
- Readers pin a slot of the registry for the life of a query; resolvers pin a
  history for one search. Neither holds the mutex while reading files.
  Reclamation captures the pinned views once and then deletes without the mutex.
- Publication and recovery meet on disk only: whatever a failed or killed
  process left is all recovery has. An owner that cannot tell what it left marks
  the registry unavailable; then only closing and reopening helps.
- Queries and reclamation take scratch pairs under two shared names; all
  operations of a handle share the memory and temporary-space accounts.
- A query is a tree of producers inside one call. One of them is active; it takes
  one step and continues, asks an input for a batch, hands its batch to its
  consumer, or has an input replayed. A grouping whose hash table overflows starts
  again on disk from the rows its input gives a second time, and everything below
  it must be able to give them.
- The legacy loader publishes through the same root files as an append, but moves
  its unit into place by a link and an unlink and rolls back through the recovery
  that `open` uses.

### What is hard about it

Crashes and power loss between any two effects, writeback in any order,
in-place rewriting of the fence, repairs that stop half way and run again;
failures after the rename that makes a commit durable; cleanup that stops half
way; readers, resolvers, a writer and a reclamation interleaving between the
steps of each other; values captured under the mutex and used without it; a
bounded retry loop on a shared total; limits met exactly. In a query: a batch is
held while its consumer is suspended inside it; a sort spills, merges over several
passes and rewinds; keys that sort as equal need not be equal; a branch that was
not chosen must not fail; an input is replayed after it was read in part, to its
end, or never. `PROJECT.json` lists
the hazards, each at its line, with the properties that would catch it.

## 2. Modules

| module | models | used by |
|---|---|---|
| `SnapshotFormat` | record transitions and `select_snapshot` as relations | `Publication` |
| `AtomicCommit` | the abstract promise: attempts end once, in order, numbered without a gap | `Publication` and `LegacyLoad` refine it |
| `Publication` | one directory, its process and the power supply | `MCPublication`, `PublicationProofs` |
| `PublicationProofs`, `RegistryProofs`, `ScratchProofs`, `AccountsProofs`, `CreationProofs`, `InventoryProofs`, `LegacyLoadProofs` | the inductive invariants and the theorems of section 5 | |
| `DataTheorems` | what the operators on data do, for any input: sums over finite sets, the order of rows | `AccountsProofs`, `ScratchProofs` |
| `Registry` | the threads of one open handle | `MCRegistry`, `RegistryProofs` |
| `Scratch` | the scratch pairs of one handle, and their recovery | `MCScratch`, `ScratchProofs` |
| `Accounts` | the compare-and-exchange loop and reservations | `MCAccounts`, `AccountsProofs` |
| `Creation` | processes that create, clean up and open at one path | `MCCreation`, `CreationProofs` |
| `Inventory` | the external merge that decides what reclamation may delete | `MCInventory`, `InventoryProofs` |
| `LegacyLoad` | the lineitem load with its rollback and recovery; refines `AtomicCommit` | `MCLegacyLoad`, `LegacyLoadProofs` |
| `RowOrder` | values, rows, their order and the record that encodes them | `ExternalSort`, `Scalars` |
| `ExternalSort` | run buffers, runs on two scratch streams, merge passes, cursors | `SortedOperators` |
| `RowStream` | the abstract promise: the rows of the answer, in order and once | `SortedOperators`, `Runtime` refine it |
| `SortedOperators` | ORDER BY, DISTINCT, windows, joins, set operations over sorters | `MCSortedOperators` |
| `Scalars` | numeric expressions in postfix, in batches and row by row | `Predicates` |
| `Predicates` | WHERE expressions compiled to branches | `ScalarSyntax` |
| `ScalarSyntax` | parsing of numeric expressions | `QueryAnswer` |
| `QueryAnswer` | what a query means: rows of each node from rows of its inputs | `Runtime` |
| `Runtime` | the tree of producers: scans, LIMIT, UNION ALL, COUNT, groupings, replay | `MCRuntime` |

The `MC*` modules add only symmetry sets and the inputs that `Init` chooses from.

### SnapshotFormat

A record is `[issued, gen, seq]`: the highest attempt ever issued, the number of
successful publications, and the attempt of the last one. A `CatalogCommit` also
holds references to its catalog and history objects; these are named by
attempt `seq`, so two records of one database with equal triples are equal.
`Selects(a, b, f, r)` says that roots `a`, `b` and fence `f` authorize `r`
(`select_snapshot` returns `r`); `Unreadable` stands for a file that decodes to
`None`. `Repairs` is the replica the function returns beside the record.

### Publication

| variables | in the code |
|---|---|
| `root`, `next`, `wal`, `names` | `ROOT.A/B`, `ROOT.A/B.next`, `WAL`, the entries of `units/`, as the process sees them |
| `droot`, `dnext`, `dwal`, `dnames` | the same, as a power loss would leave them |
| `whole`, `chain` | which objects are complete and synchronized; what each history object lists |
| `mem`, `active`, `created` | the registry's current record, the issued attempt, the builder's count of objects |
| `target` | the record being published, or published last |
| `chosen`, `repair` | the `NamespaceAuthority` recovery works with |
| `pc` | the effect the process is about to perform; `"down"` is an unavailable registry |
| `outcome` | history variable: what callers were told of each attempt |
| `damages` | how many files have decayed |

Every effect of `publish_snapshot`, of construction and cleanup, of `reclaim`
and of `repair_namespace` followed by `recover_construction` is one action, in
the order of the code. A failure is an action of its own (`OwnerFails`,
`RecoveryFails`, `TearFence`): an effect that took place and then reported an
error is the effect followed by the failure of the next step. `CloseOrKill` ends
the process between any two effects and keeps the visible state, `PowerLoss`
keeps the durable one, `Writeback*` make any change durable early, and
`DamageRoot` and `DamageFence` make a stored copy unreadable. A writer
reads back what it writes, so `WriteRootNext` and `WriteObject` cover a write,
its verification and its synchronization; before it is renamed into place, or
before its directory barrier, such a file counts for nothing.

Storage is assumed to behave as in `src/dev/src/check/model.rs`: renaming
replaces a root atomically, synchronizing a file persists its contents and a
directory its names, and anything else may persist at any time or never.
Contents are not assumed durable because a name is, or the other way round.

`AtomicCommit` is the same system with no disk: `Issue`, `Commit`, `Abort`, and
`Consume`, which is what a failed issuance may leave for the next open. The
refinement is the identity on `outcome`.

### Registry

Threads (`pc`, `view`) share the state under the mutex (`lock`, `current`,
`slots`, `active`), the atomic counters (`dataPins`, `resolutionPins`,
`generation`, `unavailable`) and the files. Publication is one step here, with a
failed one leaving either record authorized, as `Publication` shows; the files
of generation g are its catalog graph (`catalogs`), which readers need, and its
history (`histories`), which resolvers need. `Enter` is the non-waiting
`Registry::enter` (a refusal changes nothing and has no action), `Acquire` the
waiting `finish_owned_write`; `Disable` is `fail_catalog` or the drop of an
unfinished owner. `told` is what callers were answered.

### Scratch

`names`/`dnames` map the two names of `private/` to the file they refer to; a
file is identified by the owner and name it was created under, and `size` counts
bytes in units of the temporary budget. `admission` and `marked` are
`Admission::state` and `Bootstrap::requires_recovery`. `extents` and `reserved`
are charged before a write and released after the bytes are gone; `other` is
what appends and loads charge to the same account. Recovery (`BeginRecovery`,
`RemoveLeftover`, `SyncLeftovers`) is the part of `repair_namespace` that deals
with these names; it is only entered when `Removable`, the test of
`validate_scratch_names`, holds.

### Accounts

`BeginReserve` loads the total, and each turn of the loop is `Refuse`,
`Exchange`, `LoseExchange` or `GiveUp`; the weak exchange may fail without
cause. `MaxWord` stands for `u64::MAX` and sums are tested against it as
`checked_add` does. `peak` is a history variable: the highest total since a call
began.

### Creation

Each directory ever made at the path is an incarnation, which stands for the
identity of its `LOCK` and for its database identity. `names` is what the
directory at the path lists, `synced` and `touched` what its last
synchronization made durable and what changed since, `whole` the entries whose
contents are synchronized, `survivors` what a power loss may leave at the path.
The choice is made when the power goes: any subset of what changed. `pc` walks
`finish_create`, `cleanup_created_namespace` and `open_with_effects`; `own` is
the `LOCK` a process has open, which need not be the one at the path any more,
and `clean` is `first` being `None`. `units` and `private` are one entry. A
removal that fails leaves the name. A directory that can no longer come back is
forgotten (`Keep`), which changes nothing that any action reads.

### Inventory

`state` is `State`, with `Building` divided into the enumeration of the directory
(`PushName`), the reference walk (`PushReference`), the merge passes and the final
check. `slots`, `source`, `runs`, `cursors` (with their `heads`) and `pending` are
those of `merge`; `merged` holds the descriptors a pass has replaced. A checksum is
the sequence it was computed from, so `checked`, the running checksum of `finish`, is
what the check has read so far. Sorting and folding a chunk is stated by its result:
the i-th record of a run has the i-th identity of the chunk and what any record of
it says. Each step consumes one record, so a scratch
record may change between any two reads (`Decay`, to any other well-formed
record). Each `?` is `Fail`. The memory of a page of a merge is left out; the
pages of `next`, with their own checksums, are not.

### LegacyLoad

A legacy database admits one load. `state` and `pc` walk
`load_lineitem_with_effects` with `build_private_unit`, `publish_unit` and
`publish_snapshot` in the order of their effects; `entry` and `survivors` are what
each loader name refers to now and after a power loss, `unit` the rows each unit
was assembled from, tagged with the version of the input they were read from, and
`whole` the units whose bytes are synchronized and verified. `rootSurvivors` holds
the records a power loss may leave. A write may store other bytes than it was
given (`Staged`, `Assembled`), which the checks must notice, and `RewriteInput`
changes the input at any time. Publication of a record is taken as `Publication`
shows it to be.

### RowOrder, ExternalSort and SortedOperators

A value is `[kind, n, bits]`; `bits` tells the two zeros apart. A file is a sequence
of cells, a run a header and its records, and a step moves one record. `sort[i]` is
a `RowSort` with its `RunBuffer`, its two `Scratch` streams and its `MergePasses`;
`Push`, `Finish` and `SortStep` are the methods of the same names, and the phases of
`step` are one operator each (`MergePrepare`, `MergeNextPair`, `MergeRecord`,
`MergePairEnds`, `MergeFlush`, `MergePassEnds`, `MergeFinal`). Optional growth of a
buffer is granted in part, in full or not at all. Every check that answers
`Error::Corrupt`, and every assertion, sets `fault` to `"internal"`.

`ctl` is the controller (`Order`, `Join` or `SortedSet`), with its phases as actions
(`OrderCount`, `OrderEmit`, `JoinMatch`, `JoinRight`, `SetSelects`, ...); `Supply` hands
it a batch of any length up to `BatchRows`, and `Verdict` stands for the filters and
expressions after it. `answer` is computed in `Init` from the input by the
mathematical definition of each operator, and `RowStream` says what may be returned
of it.

### Scalars, ScalarSyntax, Predicates, QueryAnswer and Runtime

`Scalars` has the program of an expression (`Op`, in postfix), its types,
nullability and jumps, and both evaluators: `EvaluateBatch` column by column, and
`Turn`, row by row, which leaves a branch when it is not needed and stops to ask for
a definition. `PlainValue` and `ConditionalValue` are the two ways `RowValues`
computes what an expression depends on. `ScalarSyntax` is the operator-precedence
parser with its markers for calls, parentheses and CASE. `Predicates` compiles
tokens to comparisons with two distances, and `Matches`/`Retains` follow them for one
row; `Branching` follows them column by column in a scan.

`QueryAnswer` evaluates trees, not programs: an expression by its meaning
(`Meaning`), a filter by three-valued logic, a node by its rows. It shares none of
the algorithms above.

`Runtime` plans a query first (`Planned`): the source text of its expressions and
filters is parsed and compiled by the modules above, so what runs is what the
parser made of it. It has one operator per phase of each controller, and the glue of `advance`:
`Hand` gives a batch or the end to the parent, `Ask` and `AskReplay` go down, `Cleared`
is what one step clears. Below a node, a retaining operator (sort, window, set
operation) is `RetainTakes` and `RetainEmit`: the sorting itself is in
`SortedOperators`. A group has a hash phase (`GroupHash`), the fallback and the disk
phases; the table's capacity is part of the query, so every length fits and overflows
somewhere.

## 3. Runs

| run | question | bounds | distinct states |
|---|---|---|---|
| `publication` | does every failure leave a directory that reopens to what callers were told, and is usable once failures stop? | 3 attempts, 2 successes, 2 objects each, 1 damaged file | 427,777 |
| `registry` | do pins protect views, are answers true? | 3 threads, 3 slots, 2 pins, 3 attempts, 2 successes | 346,971 |
| `registry_live` | does a waiting owner get the mutex? | 3 threads, 2 slots, 1 pin, 1 attempt | 7,395 |
| `registry_busy` | can a reader make the handle unavailable? (it can) | 2 threads, 2 slots | counterexample |
| `scratch` | is a payload ever reachable by name, does the budget cover every byte, does a directory with leftovers open again? | 3 owners, limit 3, 2 units per file | 172,434 |
| `accounts` | does the total balance, and is a refusal honest? | 3 calls, limit 2, word 3, 2 tries | 34,381 |
| `creation` | may creators, their cleanup and openers share a path? | 2 processes, 2 directories made at the path | 333,934 |
| `inventory` | is a protected object ever offered for deletion? | 3 objects, 4 references, chunks, pages and merges of 2, 1 disturbance | 1,143,500 |
| `load` | does every end of a load leave no rows or all of one version of the input? | 3 attempts, 2 columns, 3 versions of the input | 204,891 |
| `sorting` | do sorting operators give their answer through runs, passes, rewinds and a replay? | at most 3 rows a side (5 for runs alone), runs of 1 record growing to 4, I/O of 3 cells | 455,694 |
| `queries` | do queries give their answer through batches, branches, fallbacks and replays? | filters of 3 operands, expressions of 3 levels, chains of 4 nodes, at most 5 rows | 128,075 |
| `queries_unread` | is a replay asked only of what can replay? (it is not) | LIMIT 0 below UNION ALL below GROUP BY | counterexample |

### What the properties say

Publication. `ReopenAdmits`: short of damaged files, a closed directory is never
refused. `IdleIsSettled`: between operations both views agree with the registry
and no object of an aborted or interrupted attempt is left. `SelectableIsDurable`:
whatever a durable root names has its whole graph durable, so deletion and
creation are ordered right against the roots. `LiveAnswersAgree` and
`AuthorizedAnswersAgree`: `resolve_commit`, on a live handle and over any root
recovery could select, answers as callers were told. `OutcomesFinal`: a decided
outcome never changes, an exposed token is never forgotten. `ImplementsPromise`:
the refinement to `AtomicCommit`. `RecoversWhenQuiet`: liveness.

Damage is tolerated for one file at a time. With `damages = 0` required, the
availability properties say nothing after damage, because `select_snapshot`
may then rightly refuse (a lone root needs the fence's confirmation); the
properties about answers hold with any amount of it.

Registry. `PinnedFilesExist`, `PinnedSlotsKeepTheirView`, `WriterSlotUnpinned`
(the assertion of `commit_prepared`), `AnswersAreTrue` (who was told "aborted"
never sees a commit, who was told "durable" has one), `SnapshotsAreFresh` (a new
reader sees every commit whose receipt was returned, and nothing unpublished),
`GenerationNotBehind`, and the liveness `OwnersSettle`.

Load. `RootsFindTheirUnit`: whichever record the roots select, at any moment and
after any power loss, names a complete unit under its final name, with the rows of
one version of the input and no loader name beside it that recovery refuses.
`ChargeCoversFiles`: what a failed load leaves is paid for by the handle.
`ImplementsPromise`: the loader keeps the promise of `AtomicCommit` as well.

Scratch. `InUseIsAnonymous`, `LeftoversRemovable`, `NamesAreExclusive`,
`IdleMeansClean`, `UsageWithinBudget`, and the liveness `ReopensWhenQuiet`.

Accounts. `AccountBalances`, `RefusalsAreHonest`.

Creation. `OneActor`: nobody is past inspection of a directory that somebody else
creates, removes, repairs or uses, whichever `LOCK` they hold. `OpenedStaysWhole`:
no cleanup takes an opened database apart. `CreatedIsDurable`: a creation that
returned a handle survives power loss. `FailedIsGone`: a failure that did not ask
for cleanup left nothing, and nothing comes back.

Inventory. `OnlyGarbageOffered`: no protected object is offered, and nothing is
offered when one is missing, whatever happens to the scratch files.
`NothingForgotten`: an inventory read to its end offered every unreferenced name,
once. `FailsForCause`: undisturbed, only a missing object makes it fail.

Sorting. `NothingInternal`: no step meets a state that its own checks reject, and
a sorted input read to its end stops at the end of its run. `ImplementsStream`:
what is returned is always a beginning of the answer, the end comes only after all
of it, and each failure has the cause that the answer allows; a replay gives it
again. `EveryQueryEnds`: liveness.

Queries. `ImplementsStream` and `EveryQueryEnds` as above, for whole queries.
`SpentLimitsRest`: below a LIMIT that has its rows nothing runs any more, except to
be replayed. Whether an expression is in the rows' way is part of the answer: it may
fail a query only where its value is needed, up to the batch that is computed at
once.

`Publication`, `Registry`, `Scratch`, `Accounts`, `Creation` and `Inventory` state
their type invariant as `TypeOK`. That of `Publication` is listed for its run; all six
are proved.

### Why the bounds are enough

Three attempts let a committed attempt, an aborted or lost one and a new one
coexist, so a stale root, a history with a gap and leftovers of an older attempt
all occur; two successes give a publication that replaces a non-empty history
and then the limit. Two objects are a catalog and a history. Roots, fence and
their next names are always two, one and two; a damaged file can strike at any
step, and only one may be lost before `select_snapshot` has to refuse. In
`Registry`, three threads cover any pair of conflicting roles and a bystander,
three slots leave one current, one pinned and one to write, and `MaxPins` is met.
In `Scratch` and `Accounts` two actors conflict and a third takes part; limits
are small enough to be met exactly and to be exceeded by one.
In `Creation`, a second directory at the path is what a stale `LOCK` needs, and a
second process is its opener or the other creator.
In `Inventory`, three names and four references make up to four runs, so that a
merge of two takes a second pass, a group may have one run, and equal identities
meet in a chunk, in a group or only in the second pass; a run fills two pages.

In `LegacyLoad`, two columns are a first and a last; of three versions of the
input one is empty and one longer, so that an input can change its length between
the passes and within one.
In `SortedOperators`, a run takes one record at first and three or four when it may
grow, so five rows make up to five runs, three merge passes, a pass with an odd run
out and one with a grown run; three cells of I/O split a header from its record and
a record from its rest. Keys are NULL, NaN, both zeros and two numbers, in every
sequence of up to three; the second column tells equal keys apart and decides what
is dropped (7) or fails (9) after the operator.
In `Runtime`, batches hold two rows and a quantum four, so that inputs of five end
in a partial quantum and a partial batch; hash tables hold none to three keys. A
DOUBLE is exact to 4 and overflows beyond 8, an INT64 beyond 7: conversion, rounding
and overflow all occur in one operation.

### Fairness

- `Publication`: weak fairness of `Open`, `RecoverStep` and `CloseUnavailable`.
  Recovery runs on the caller's thread over a finite directory and has no wait;
  closing and opening again is what the documentation asks of a caller who gets
  `RecoveryRequired`. Nothing is assumed of writers, and failures are allowed
  any number of times: `RecoversWhenQuiet` assumes only that they stop.
- `Registry`: weak fairness of a thread that holds the mutex, which does bounded
  work without I/O, and strong fairness of `Settle`. The comment at
  `storage/snapshot.rs:154` states that progress of a waiting owner depends on
  host scheduling and mutex fairness; strong fairness is exactly that assumption.
- `Scratch`: weak fairness of recovery, as in `Publication`.
- `SortedOperators` and `Runtime`: weak fairness of `Step`, the caller's next call,
  written out as `[]<>Ended \/ []<><<Step>>_vars`. Nothing else runs: the engine has
  no threads, so a query progresses exactly when its caller steps it. A query that
  can neither step nor has ended would be reported as a deadlock.
- `LegacyLoad` has no liveness property: a load runs to its end in one call, and its
  recovery is that of `Publication`.
- `Accounts` has no liveness property: the loop is bounded by construction and
  may answer `Contention`.

### Deadlock

It is checked in every run. An inventory ends when its caller drops it (`Done`), a
query when it has failed or ended (`Terminated`). A database at its attempt limit can
still be closed, reclaimed and reopened, so no model stops.

## 4. Findings

`registry_busy` checks what the comment at `storage/snapshot.rs:154` states: an
admitted writer must settle its transition even if a reader briefly holds the
mutex. `create_table` (`storage/declare.rs:210`) does not: it returns the error
of `Writer::issue` with `?`, and `issue` begins with the non-waiting `enter`. If a
reader holds the mutex at that instant the admitted writer is dropped unfinished,
and its `Drop` makes the whole handle unavailable although nothing was written.
The append path releases its writer in the same situation
(`storage/append/admission.rs:146`).

`queries_unread` checks what `docs/execution.md:98` says of a hash table that cannot
hold its input, that "the engine discards it and replays the input through a
sorter", and what `execution/union.rs:8` says of an unused input, that replay can
leave it at its initial state. UNION ALL marks an input visited when it asks for it
(`execution/union.rs:97`), and a LIMIT 0 ends without asking further. When a GROUP BY
above then falls back, the replay goes through the LIMIT to an ORDER BY, an aggregate
or a window that never ran and answers `Error::Corrupt`
(`execution/blocking/order.rs:278`): a valid query fails as corrupt when its keys do
not fit. The properties of the run `queries` are checked on queries without that
shape.

## 5. Proofs

The runs show the properties on the instances of section 3; the theorems below hold
for every value of the constants. Each component has its theorems in a module of its
own, with one shape: an inductive invariant `IInv`, checked by TLC on the
component's instance before it was proved; a lemma that `Init` establishes it; one
lemma per conjunct and kind of step; `IInvStep`, which puts them together; and
`Invariance == Spec => []IInv`, from which the named properties follow. `DataTheorems`
is about operators, not about a specification: its two theorems hold for every
layout and every row.

| module | theorem | states, for every reachable state or step |
|---|---|---|
| `PublicationProofs` | `TypeCorrect` | `TypeOK` |
| | `LiveAnswersAgreeAlways` | `LiveAnswersAgree` |
| | `AuthorizedAnswersAgreeAlways` | `AuthorizedAnswersAgree` |
| | `OutcomesAreFinal` | `OutcomesFinal` |
| | `SelectableAlwaysDurable` | `SelectableIsDurable` |
| | `IdleAlwaysSettled` | `IdleIsSettled` |
| | `ReopenAlwaysAdmits` | `ReopenAdmits` |
| | `PromiseImplemented` | `ImplementsPromise`: `Spec` implies `AtomicCommit` |
| `RegistryProofs` | `TypeCorrect` | `TypeOK` |
| | `PinnedFilesExistAlways` | `PinnedFilesExist` |
| | `PinnedSlotsKeepTheirViewAlways` | `PinnedSlotsKeepTheirView` |
| | `WriterSlotUnpinnedAlways` | `WriterSlotUnpinned` |
| | `GenerationNotBehindAlways` | `GenerationNotBehind` |
| | `AnswersAreTrueAlways` | `AnswersAreTrue` |
| | `SnapshotsAreAlwaysFresh` | `SnapshotsAreFresh` |
| `ScratchProofs` | `TypeCorrect` | `TypeOK` |
| | `InUseIsAlwaysAnonymous` | `InUseIsAnonymous` |
| | `LeftoversAreAlwaysRemovable` | `LeftoversRemovable` |
| | `NamesAreAlwaysExclusive` | `NamesAreExclusive` |
| | `IdleAlwaysMeansClean` | `IdleMeansClean` |
| | `UsageAlwaysWithinBudget` | `UsageWithinBudget` |
| `AccountsProofs` | `TypeCorrect` | `TypeOK` |
| | `AccountAlwaysBalances` | `AccountBalances` |
| | `RefusalsAreAlwaysHonest` | `RefusalsAreHonest` |
| `CreationProofs` | `TypeCorrect` | `TypeOK` |
| | `AlwaysOneActor` | `OneActor` |
| | `OpenedAlwaysWhole` | `OpenedStaysWhole` |
| | `CreatedAlwaysDurable` | `CreatedIsDurable` |
| | `FailedAlwaysGone` | `FailedIsGone` |
| `InventoryProofs` | `TypeCorrect` | `TypeOK` |
| | `OnlyGarbageIsOffered` | `OnlyGarbageOffered` |
| | `NothingIsForgotten` | `NothingForgotten` |
| | `FailsForCauseOnly` | `FailsForCause` |
| `LegacyLoadProofs` | `RootsAlwaysFindTheirUnit` | `RootsFindTheirUnit` |
| | `ChargeAlwaysCoversFiles` | `ChargeCoversFiles` |
| | `LoadKeepsPromise` | `ImplementsPromise`: `Spec` implies `AtomicCommit` with one commit |
| `DataTheorems` | `RecordsAreOrdered` | `CompareRecords` is a strict total order on records, NaN and both zeros among their values |
| | `SortsAsAsked` | compared in its layout, an encoded row sorts as the ORDER BY items say, and it is given back unchanged |

### Assumptions

Each module of the model names what its constants have to satisfy:
`PublicationAssumption` (at least one attempt and success, at least a catalog and a
history object per attempt) and `UnreadableAssumption`; `RegistryAssumption` (at
least two slots and one pin: the code has `SLOTS` = 4 and `MAX_PINS` = 8; any set of
threads, finite or not); `ScratchAssumption` and `AccountsAssumption` (the owners and the
handles are finitely many, so that what they hold can be added up; the limit fits
the word); `CreationAssumption`; `InventoryAssumption` (chunks and pages of at least one
record, merges of at least two runs, room for one reference of every object); `LegacyLoadAssumption` (at least one attempt, column
and version of the input, each version with any number of rows). Nothing else is assumed. The bounds that make the
instances finite (`MaxIssued`, `MaxSuccesses`, `MaxDamage`, `MaxCreations`,
`MaxExtent`, `Objects`, `MaxReferences`) are arbitrary numbers in the theorems.

### Publication

None of the properties is inductive. A decided attempt stays resolvable because
every copy on disk says the current record or the one being published next
(`EitherSays`), because those two records resolve all earlier attempts alike
(`Histories`: the prepared history extends the current one by the active
attempt), and because recovery gives up the other record only when no durable
copy of it is left. The last point needs the progress of publication and of
recovery as part of the invariant: after each effect, which of the six copies
(two roots and the fence, visible and durable) already say the new record. So

    IInv == TypeOK /\ Bounded /\ Stages /\ Authority /\ Histories /\ Answers

- `Bounded`: stored records respect the limits admission checks.
- `Stages`: what the owner of the current stage may still do, and which of the
  two transitions `target` is.
- `Authority`: what roots and fence say at each stage (`EitherSays`, `AllSay`,
  `PublicationProgress`, `RecoveryProgress`).
- `Histories`: no history lists a later attempt; a prepared one extends the
  current one.
- `Answers`: while a handle lives, `outcome` is the registry's answer except for
  the pending attempt; while it does not, both records that may be selected
  agree with every decided outcome.

Damage needs no hypothesis: an unreadable copy says nothing, and what is proved
is that no other copy says anything wrong.

The second part of the module adds an inductive invariant of its own, about objects and about what
holds while no file is damaged:

    DInv == RootsStored /\ SelfListed /\ Accounted /\ OwnNames /\ SyncedUnits
              /\ NextNames /\ Copies /\ Succession

- `RootsStored`: the objects of every record that a root, visible or durable, says,
  or that is being published or recovered, are complete and have durable names.
  `SelectableIsDurable` is part of it. Removals respect it because they only happen
  while all these records are one (`HeldRecords`), whose objects the removal spares:
  cleanup takes the active attempt, reclamation what the record does not reach,
  recovery what is later than its last commit (`HeldKept`).
- `Accounted`, `OwnNames`, `SyncedUnits`: every name belongs to an attempt both
  records list, or to one later than the last commit of either; a live handle knows
  which; and at the barriers both views of units/ are equal. So an idle handle has
  no object that no commit lists, and recovery may tell leftovers by their number.
- `Copies`, `Succession`: short of damage every root is readable and says the
  current record or its successor, a durable copy never runs ahead of the visible
  one, and the fence says the successor before the first root does. So whatever
  mixture of visible and durable copies a power loss leaves, `select_snapshot`
  authorizes one of the two (`Authorized`).
- `NextNames`: which replacement names exist at which stage.

The last part of the module shows that `Publication` implements `AtomicCommit`. The mapping is
the identity on `outcome`; what has to be proved is that the promise's own terms,
the first unknown attempt and the next generation, are what the engine's records
say: `Counted` (a record's generation is the number of attempts its history lists)
and `Told` (callers know the answers of the registry's record, except for at most
one pending attempt, the last issued, also while the database is closed). Then
`FinishIssue` is `Issue`, `FinishCommit` is `Commit`, `FinishAbort` is `Abort`, and
`FinishOpen` is one of four things (`OpenKept`): nothing, the abort of the pending
attempt, its commit, or `Consume`, when the record recovery found issued a number
nobody was told of. Every other step leaves `outcome`.

### Registry

The pins of a slot are the threads that use it (`Pins`, as cardinalities of the
sets of readers and resolvers), so a slot without pins is nobody's and the slot an
owner was given stays unpinned. That there is one owner (`Owners`) does not follow
from the mutex, which an owner leaves while it works: it follows from `active`,
written and read only under the mutex (`Mutex`), and from what a failed owner leaves
behind, an unavailable registry. What the files authorize is then the current record
or the one that owner has just published (`Records`, `Files`, `Commits`).
Reclamation is an owner too: between its capture of the views and its last deletion
no other record can become current, and a new reader pins the current one, which is
kept (`Kept`); with that `PinnedFilesExist` is inductive. `AnswersAreTrue` needs the
reason why an answer computed outside the mutex does not age: a resolver's view
decides every attempt it covers but the one active when the view was taken
(`Decided`), and a final answer is about an attempt nobody can still commit
(`Answered`).

`ReadersNeverDisable` is refuted by the run `registry_busy` (section 4), so there is
nothing to prove about it.

### Scratch

`Boot` says stage by stage what private/ holds while a pair is created, in both
views, and that an owner without a recovery mark leaves nothing; `Quiescent` says
which stages have bytes or charges at all. Together they give that bytes exist only
after the removal of the names is durable. `Charged` is the account as a sum over
all owners; that a step of one owner changes the sum by that owner's share is
`DataTheorems`.

### Accounts and sums

`AccountBalances` is inductive together with the types; `Peaks` (the highest total
since a call began bounds what it last saw) carries `RefusalsAreHonest`. The proofs
use six facts about sums over a finite set (a sum changes by what one element
changes, a part does not pass the whole). `DataTheorems` proves them without the
library's induction theorems, which the provers cannot instantiate: the sum is the
function that takes the elements in the order `CHOOSE` fixes (`SumDefined`); a
property of all subsets fails at a minimal one (`MinimalSet`, from the
well-foundedness of strict inclusion), and the minimal counterexample is refuted.

### Creation

    IInv == TypeOK /\ Numbered /\ Creators /\ (\A p : Bound(p) /\ Progress(p))
              /\ OneActor /\ CreatedIsDurable /\ FailedIsGone

A lock is on a file, and the file may belong to a directory that is no longer at the
path. `Bound` says when a lock is worth something: whoever acts owns the directory at
the path and either holds its lock or the directory has no other entry than LOCK,
which is why an opener that finds every mandatory name cannot overtake the creator
between `create_new` and the lease. `Creators` gives each directory one creator that
has not answered yet, so that a directory whose creator returned is nobody's to clean
up; `Progress` records what each stage has established, `Numbered` that a new
directory is new. A power loss sets everybody back and leaves `CreatedIsDurable` to
be read off what was synchronized.

### Inventory

    Shape /\ Carried /\ Paged /\ Read /\ OnlyGarbageOffered      whatever happens
    Kept /\ Once /\ FailsForCause                                 while undisturbed

A record is what it says of its object, its marks: that it has a name, that it is
referenced (`MarksOf`).

- `Shape`: types; runs that follow each other in their file without a gap; cursors
  within the run they read; what each step of building has already finished.
- `Carried`: the chunk and the runs, later the runs written and the runs not yet merged,
  have exactly the marks the enumerations have given. That holds although a record of a
  scratch file may change under a merge, because it is about what the checksums were
  computed from: a group is closed when every cursor has come to the end of its run
  with the checksum of that run (`GroupMarks`).
- `Paged`, `Read`: the pages whose checksums are kept are the records checked, which are
  in ascending order, all named, and in the end those of the one run; what is offered
  are the candidates among the records passed. With `Carried` a candidate is a name
  without a reference (`CheckedMeaning`), and `OnlyGarbageOffered` and
  `NothingForgotten` follow, with any record changing at any moment.
- `Kept`: undisturbed, both files hold what was written to them, runs are sorted, and the
  pending record is not above any head.
- `Once`: undisturbed, no two runs, and no two records of the chunk, hold a name of the
  same object. So a merge never meets a clash (`MergesWell`), the final check fails only
  for a missing object (`ChecksWell`), and every page is read again as it was checked
  (`PagesStay`).

That sorting a chunk gives each identity once, in order, is a fact about ranks
(`RankFacts`, `NthFacts`), and needs no induction over the chunk.

### LegacyLoad

    IInv == Types /\ Roots /\ Names /\ Contents /\ RootsFindTheirUnit
              /\ Sizes /\ ChargeCoversFiles /\ Told

- `Roots`: from the admission of a load to the rename of its data record every record
  that may survive is empty, so loader names may come and go; recovery, too, removes
  names only below such a record.
- `Names`: which names the load has at each stage and which of them are the same in
  every view. At `publish` it is exactly the linked unit, which is what
  `RootsFindTheirUnit` asks of the record about to be renamed in.
- `Contents`: versions of the input only grow, so an identity that is still that of
  the input at the end of a pass was that of every row of the pass; the comparisons
  of `assemble_unit` and `verify_unit` carry "rows of one version" from what was read
  to what is in the unit file.
- `Sizes`: the second pass is no longer than the first, and a unit no longer than the
  staged rows, so twice the first pass covers staging and unit at every stage
  (`BuildingCovered`); no number that was not issued yet has a unit file.
- `Told`: callers know the answers of some record that every surviving record equals
  or continues, by an issuance nobody was told of or by the commit of the pending
  attempt. The promise's first unknown attempt is read off that record
  (`KnownEmpty`), and reopening is one of the same four steps as in `Publication`.

### Row order

Merging compares records many times, on different streams, and is wrong as soon as
two comparisons disagree. A value is its class (NULL, NaN, number) and its number
(`ValueFacts`); a key compares both, one way or the other, and NULL by a policy of its
own (`FieldFacts`, `FieldChain`); keys are compared lexicographically and the
ordinal of the row breaks ties (`LexicographicFacts`, `RecordFacts`).

`SortsAsAsked` is about the layout, which moves each key in front of the other columns
and drops repeated items. `Layout` is a fold, and `Lays` and `Arranged` say what it has done
after each item: every column is in it once, the keys are the first occurrences of
the items so far, in order. That this holds after every item is shown by a least item
after which it would not. A dropped item compares a column that an earlier key
found equal, so it cannot decide, whatever its direction: the reason given at
`record.rs:64`.

### Only model-checked

- The query engine, but for the order of rows. That parsing, compiling, merging and
  sorting compute what `QueryAnswer` and `RowStream` say is induction over data, which
  is out of the provers' reach; TLC checks it on all small inputs. `NothingInternal` of
  `SortedOperators` and `SpentLimitsRest` of `Runtime` are checked there too and not
  proved.
- Liveness under fairness (`RecoversWhenQuiet`, `OwnersSettle`, `EveryQueryEnds`),
  which is out of the proof system's reach.

## 6. Not modelled

- The byte codecs, checksums and path handling: a file is what it says, or
  unreadable. A record damaged so that it still decodes is excluded by the
  checksum.
- Replacement of directories or of `LOCK` by somebody outside the protocol,
  which the code detects by inode identity.
- The contents of data objects and the batches they come from: a data object is
  complete or it is not.
- The cleanup of a directory in the old empty state (`NamespaceCleanup::LegacyEmpty`).
- In the loader: the parser of input rows, which yields rows or an error.
- In expressions: infinities, POWER, FLOOR, CEIL, ROUND, EXP, LN, LOG10, dates and
  strings, and the folding of constants. The numbers that are left keep what the
  properties tell apart: types, NULL, NaN, both zeros, rounding and overflow.
- In grouping: errors of argument expressions, and text that outgrows a group's
  memory; memory itself is the capacity of the hash table and what a run buffer
  grows to.
- The scan of a legacy database: its columns have no NULL and its filters compare
  encoded keys.
- Name resolution, the choice of producers and the pruning of columns
  (`query/binding.rs`, `execution/planning`): a query is given as its nodes.
- Import and export of CSV, JSON lines and Parquet, and the command line: parsers
  and printers of one file, without state that outlives a call.

The map covers about a tenth of the implementation's lines. Most of the others are
the development checks under `src/dev` (measurements, fault-injection harnesses and
their fixtures), byte formats, tests inside source files, and the items above.

## 7. Plan

The order is that of what would hurt most if wrong.

1. Done: storage (`SnapshotFormat`, `Publication` and its promise, `Registry`,
   `Scratch`, `Accounts`, `Creation`, `Inventory`, `LegacyLoad`), sorting and its
   operators, expressions, filters and the runtime.
2. Done: every safety property of `Publication`, `Registry`, `Scratch`, `Accounts`,
   `Creation`, `Inventory` and `LegacyLoad` that a passing run checks is proved, and that
   `Publication` and `LegacyLoad` implement `AtomicCommit`. Of sorting, the order of
   rows is proved. Left: `NothingInternal`, which needs the invariants of
   `ExternalSort` first.
3. Later candidates: column pruning (`execution/planning/demand.rs`) against the
   columns an answer needs; the chunked readers of CSV and JSON lines, whose records
   may straddle any refill; definition levels of Parquet pages; history paging as
   folds over pages.
