----------------------------- MODULE Inventory ------------------------------
(***************************************************************************)
(* What reclamation may delete (src/src/storage/reclaim/inventory.rs): the  *)
(* names of the objects directory are matched with the objects the          *)
(* protected views reference, by an external merge over two scratch files.  *)
(* A name without a reference is a candidate; a reference without a name    *)
(* must stop everything before the first candidate is offered.              *)
(*                                                                          *)
(* Objects are numbered in the order of their encoded identities.  A        *)
(* checksum is the sequence it was computed from.  Pages of a merge's       *)
(* input and output are left out: records are read and written one by one.  *)
(* The pages that `next' reads again, against their own checksums, are not. *)
(***************************************************************************)
EXTENDS Integers, Sequences, FiniteSets, SequencesExt

CONSTANTS
  Objects,          \* identities 1 .. Objects
  ChunkRecords,     \* CHUNK_RECORDS
  FanIn,            \* FAN_IN
  PageRecords,      \* PAGE_BYTES / RECORD_BYTES
  MaxReferences     \* bound: references the walk returns

ASSUME InventoryAssumption ==
  /\ Objects \in Nat /\ MaxReferences \in Nat /\ Objects <= MaxReferences
  /\ ChunkRecords \in Nat \ {0} /\ PageRecords \in Nat \ {0}
  /\ FanIn \in Nat \ {0, 1}

Object == 1 .. Objects

\* A flag byte is never zero; name only, reference only, or both.
Record ==
  [id : Object, name : BOOLEAN, ref : BOOLEAN] \ [id : Object, name : {FALSE}, ref : {FALSE}]
Named(n) == [id |-> n, name |-> TRUE, ref |-> FALSE]
Referenced(n) == [id |-> n, name |-> FALSE, ref |-> TRUE]
None == [id |-> 0, name |-> FALSE, ref |-> FALSE]      \* no record

VARIABLES
  names,            \* the objects directory
  protected,        \* what the captured views reference
  listed, walked,   \* names and references pushed so far
  references,       \* how many references
  chunk,            \* records not yet in a run
  slots,            \* contents of the two scratch files
  source,           \* the file that holds the runs
  runs,             \* <<[offset, records, checksum]>>
  start,            \* first run of the group being merged
  cursors,          \* one per run of the group
  pending,          \* the record that equal ones are folded into
  merged,           \* runs written by this pass
  written,          \* records of the run being written
  pages,            \* page checksums
  checked,          \* the records read so far by the check, its running checksum
  at,               \* the next record to check or to offer
  loaded,           \* <<page number, contents>> in the I/O buffer
  offered,          \* history: candidates returned
  disturbed,        \* history: what interfered, or "nothing"
  state             \* State, with the steps of building

inputVars == <<names, protected, listed, walked, references>>
passVars == <<start, cursors, pending, merged, written>>
readVars == <<pages, checked, at, loaded>>
historyVars == <<offered, disturbed>>
vars == <<inputVars, chunk, slots, source, runs, passVars, readVars, historyVars, state>>

Init ==
  /\ names \in SUBSET Object /\ protected \in SUBSET Object
  /\ listed = {} /\ walked = {} /\ references = 0
  /\ chunk = <<>> /\ slots = [s \in {0, 1} |-> <<>>] /\ source = 0
  /\ runs = <<>>
  /\ start = 1 /\ cursors = <<>> /\ pending = None /\ merged = <<>> /\ written = <<>>
  /\ pages = <<>> /\ checked = <<>> /\ at = 1 /\ loaded = <<0, <<>>>>
  /\ offered = <<>> /\ disturbed = "nothing"
  /\ state = "listing"

Goto(from, to) == state = from /\ state' = to

\* The ? of a call: the whole inventory fails.
Fail ==
  /\ state' = "failed"
  /\ UNCHANGED <<inputVars, chunk, slots, source, runs, passVars, readVars, historyVars>>

-----------------------------------------------------------------------------
(* Records and runs.                                                        *)

\* combine refuses two names of one object.
Clash(r, s) == r.id = s.id /\ r.name /\ s.name

\* Mutant: the later record of an object replaces the earlier one.
CombineLast(r, s) == s

Combine(r, s) == [id |-> r.id, name |-> r.name \/ s.name, ref |-> r.ref \/ s.ref]

ClashIn(records) ==
  \E i, j \in DOMAIN records : i # j /\ Clash(records[i], records[j])

Identities(records) == {r.id : r \in ToSet(records)}

\* All the records of one object, folded.
Folded(records, n) ==
  LET found == {r \in ToSet(records) : r.id = n} IN
  [id |-> n, name |-> \E r \in found : r.name, ref |-> \E r \in found : r.ref]

\* The i-th identity in their order.
Nth(ids, i) == CHOOSE n \in ids : Cardinality({m \in ids : m <= n}) = i

\* sort_unstable, and the fold of equal identities that follows it.
SortedRun(records) ==
  LET ids == Identities(records) IN
  [i \in 1 .. Cardinality(ids) |-> Folded(records, Nth(ids, i))]

\* A write at an offset keeps what lies beyond it.
Overwrite(file, offset, records) ==
  SubSeq(file, 1, offset) \o records \o
    SubSeq(file, offset + Len(records) + 1, Len(file))

RunAt(offset, records) ==
  [offset |-> offset, records |-> Len(records), checksum |-> records]

End(rs) == IF rs = <<>> THEN 0 ELSE Last(rs).offset + Last(rs).records

\* flush, when ClashIn(chunk) does not stop it.
Flushed ==
  LET run == SortedRun(chunk) IN
  /\ slots' = [slots EXCEPT ![0] = Overwrite(@, End(runs), run)]
  /\ runs' = Append(runs, RunAt(End(runs), run))

-----------------------------------------------------------------------------
(* Building: every name of the directory, then every reference.             *)

\* push: a full chunk is flushed before the record is added.
Push(r) ==
  IF Len(chunk) < ChunkRecords
  THEN chunk' = Append(chunk, r) /\ UNCHANGED <<slots, runs>>
  ELSE ~ClashIn(chunk) /\ Flushed /\ chunk' = <<r>>

pushUnchanged == <<names, protected, source, passVars, readVars, offered>>

PushName ==
  /\ state = "listing"
  /\ \E n \in names \ listed : Push(Named(n)) /\ listed' = listed \union {n}
  /\ UNCHANGED <<pushUnchanged, walked, references, disturbed, state>>

\* The enumeration returns a name again.
PushNameAgain ==
  /\ state = "listing" /\ disturbed = "nothing"
  /\ \E n \in listed : Push(Named(n))
  /\ disturbed' = "doubled"
  /\ UNCHANGED <<pushUnchanged, listed, walked, references, state>>

EndListing ==
  /\ Goto("listing", "walking")
  /\ listed = names
  /\ UNCHANGED <<inputVars, chunk, slots, source, runs, passVars, readVars, historyVars>>

\* Several views may reference one object; the bound leaves room for all of them.
PushReference ==
  /\ state = "walking"
  /\ \E n \in protected :
       /\ references < MaxReferences - Cardinality(protected \ (walked \union {n}))
       /\ Push(Referenced(n)) /\ walked' = walked \union {n}
  /\ references' = references + 1
  /\ UNCHANGED <<pushUnchanged, listed, disturbed, state>>

PushClashes ==
  /\ state \in {"listing", "walking"}
  /\ Len(chunk) = ChunkRecords /\ ClashIn(chunk)
  /\ Fail

\* finish flushes the rest.
FlushLast ==
  /\ Goto("walking", "merging")
  /\ walked = protected
  /\ IF chunk = <<>> THEN UNCHANGED <<slots, runs>> ELSE ~ClashIn(chunk) /\ Flushed
  /\ chunk' = <<>>
  /\ UNCHANGED <<inputVars, source, passVars, readVars, historyVars>>

LastClashes ==
  /\ state = "walking" /\ walked = protected
  /\ ClashIn(chunk)
  /\ Fail

-----------------------------------------------------------------------------
(* Merging: at most FanIn runs at a time, from one file into the other.     *)

Target == 1 - source

\* Cursor::next: the next record of a run, and the checksum at its end.
NewCursor(run) == [run |-> run, read |-> 0, seen |-> <<>>, head |-> None]
Exhausted(c) == c.read = c.run.records
Advanced(c) ==
  IF Exhausted(c) THEN [c EXCEPT !.head = None]
  ELSE LET r == slots[source][c.run.offset + c.read + 1] IN
       [c EXCEPT !.read = @ + 1, !.seen = Append(@, r), !.head = r]
Misread(c) ==
  IF Exhausted(c) THEN c.seen # c.run.checksum
  ELSE c.seen # <<>> /\ Last(c.seen).id >= Advanced(c).head.id

\* Mutant: the end of the runs is taken for the index of the last one.
GroupEndShort == IF Len(runs) < start + FanIn THEN Len(runs) - 1 ELSE start + FanIn - 1

GroupEnd == IF Len(runs) < start + FanIn - 1 THEN Len(runs) ELSE start + FanIn - 1

mergeUnchanged == <<inputVars, chunk, source, runs, readVars, historyVars, state>>

MergePass == state = "merging" /\ Len(runs) > 1 /\ start <= Len(runs)

OpenGroup ==
  /\ MergePass /\ cursors = <<>>
  /\ cursors' = [i \in 1 .. GroupEnd - start + 1 |->
                   Advanced(NewCursor(runs[start + i - 1]))]
  /\ UNCHANGED <<slots, start, pending, merged, written, mergeUnchanged>>

Heads == {i \in DOMAIN cursors : cursors[i].head # None}

\* Flags come after the identity in the order of records; equal identities are
\* folded whichever comes first.
Least == CHOOSE i \in Heads : \A j \in Heads :
           \/ cursors[i].head.id < cursors[j].head.id
           \/ cursors[i].head.id = cursors[j].head.id /\ i <= j

Folds(r) == pending # None /\ pending.id = r.id

\* What the pass has written, with one more record.
Emit(r) ==
  /\ slots' = [slots EXCEPT ![Target] = Overwrite(@, End(merged) + Len(written), <<r>>)]
  /\ written' = Append(written, r)

MergeRecord ==
  /\ MergePass /\ Heads # {}
  /\ LET c == cursors[Least] IN
       /\ ~(Folds(c.head) /\ Clash(pending, c.head)) /\ ~Misread(c)
       /\ cursors' = [cursors EXCEPT ![Least] = Advanced(c)]
       /\ IF Folds(c.head)
          THEN pending' = Combine(pending, c.head) /\ UNCHANGED <<slots, written>>
          ELSE /\ pending' = c.head
               /\ IF pending = None THEN UNCHANGED <<slots, written>> ELSE Emit(pending)
  /\ UNCHANGED <<start, merged, mergeUnchanged>>

MergeFails ==
  /\ MergePass /\ Heads # {}
  /\ LET c == cursors[Least] IN
       \/ Folds(c.head) /\ Clash(pending, c.head)
       \/ Misread(c)
  /\ Fail

\* The last record of the group is written, and its descriptor kept.
CloseGroup ==
  /\ MergePass /\ cursors # <<>> /\ Heads = {}
  /\ LET records == Append(written, pending) IN
       /\ slots' = [slots EXCEPT ![Target] =
                      Overwrite(@, End(merged) + Len(written), <<pending>>)]
       /\ merged' = Append(merged, RunAt(End(merged), records))
  /\ start' = start + FanIn
  /\ cursors' = <<>> /\ pending' = None /\ written' = <<>>
  /\ UNCHANGED mergeUnchanged

EndPass ==
  /\ state = "merging" /\ Len(runs) > 1 /\ start > Len(runs)
  /\ runs' = merged /\ source' = Target
  /\ start' = 1 /\ merged' = <<>>
  /\ UNCHANGED <<inputVars, chunk, slots, cursors, pending, written, readVars,
                 historyVars, state>>

-----------------------------------------------------------------------------
(* Checking the one run that is left, page by page.                         *)

Count == IF runs = <<>> THEN 0 ELSE runs[1].records

PageOf(k) ==
  SubSeq(slots[source], (k - 1) * PageRecords + 1,
         IF k * PageRecords < Count THEN k * PageRecords ELSE Count)

\* Each identity greater than the one before it, and so than all before it.
Ascending(records) ==
  \A i, j \in DOMAIN records : i < j => records[i].id < records[j].id

Missing(records) == \E r \in ToSet(records) : ~r.name

ChecksumDiffers == runs # <<>> /\ checked # runs[1].checksum

BeginCheck ==
  /\ Goto("merging", "checking")
  /\ Len(runs) <= 1
  /\ UNCHANGED <<inputVars, chunk, slots, source, runs, passVars, readVars, historyVars>>

\* Its checksum is saved before its records are known to be good.
CheckPage ==
  /\ state = "checking" /\ Len(checked) < Count
  /\ LET page == PageOf(Len(pages) + 1) IN
       /\ Ascending(checked \o page) /\ ~Missing(page)
       /\ pages' = Append(pages, page) /\ checked' = checked \o page
  /\ UNCHANGED <<inputVars, chunk, slots, source, runs, passVars, at, loaded,
                 historyVars, state>>

CheckEnds ==
  /\ Goto("checking", "ready")
  /\ Len(checked) = Count
  /\ ~ChecksumDiffers
  /\ UNCHANGED <<inputVars, chunk, slots, source, runs, passVars, readVars, historyVars>>

CheckFails ==
  /\ state = "checking"
  /\ IF Len(checked) < Count
     THEN LET page == PageOf(Len(pages) + 1) IN
          ~Ascending(checked \o page) \/ Missing(page)
     ELSE ChecksumDiffers
  /\ Fail

-----------------------------------------------------------------------------
(* Inventory::next.                                                         *)

Page(i) == (i - 1) \div PageRecords + 1

\* Mutant: a page that was checked once is not checked again.
SamePageAssumed(k) == TRUE

SamePage(k) == PageOf(k) = pages[k]

LoadPage ==
  /\ state = "ready" /\ at <= Count /\ loaded[1] # Page(at)
  /\ SamePage(Page(at))
  /\ loaded' = <<Page(at), PageOf(Page(at))>>
  /\ UNCHANGED <<inputVars, chunk, slots, source, runs, passVars, pages, checked, at,
                 historyVars, state>>

PageChanged ==
  /\ state = "ready" /\ at <= Count /\ loaded[1] # Page(at)
  /\ ~SamePage(Page(at))
  /\ Fail

\* A name without a reference is returned; anything else is passed over.
NextRecord ==
  /\ state = "ready" /\ at <= Count /\ loaded[1] = Page(at)
  /\ LET r == loaded[2][((at - 1) % PageRecords) + 1] IN
       offered' = IF r.name /\ ~r.ref THEN Append(offered, r.id) ELSE offered
  /\ at' = at + 1
  /\ UNCHANGED <<inputVars, chunk, slots, source, runs, passVars, pages, checked, loaded,
                 disturbed, state>>

NextEnds ==
  /\ Goto("ready", "finished")
  /\ at > Count
  /\ UNCHANGED <<inputVars, chunk, slots, source, runs, passVars, readVars, historyVars>>

-----------------------------------------------------------------------------
(* Interference, once: cancellation or an I/O error stops the operation, or *)
(* a record of a scratch file changes to another well-formed one.           *)

Interrupt ==
  /\ state \notin {"finished", "failed"} /\ disturbed = "nothing"
  /\ state' = "failed" /\ disturbed' = "interrupted"
  /\ UNCHANGED <<inputVars, chunk, slots, source, runs, passVars, readVars, offered>>

Decay ==
  /\ state \notin {"finished", "failed"} /\ disturbed = "nothing"
  /\ \E s \in {0, 1} : \E i \in DOMAIN slots[s] : \E r \in Record \ {slots[s][i]} :
       slots' = [slots EXCEPT ![s][i] = r]
  /\ disturbed' = "decayed"
  /\ UNCHANGED <<inputVars, chunk, source, runs, passVars, readVars, offered, state>>

Building ==
  PushName \/ PushNameAgain \/ EndListing \/ PushReference \/ PushClashes
    \/ FlushLast \/ LastClashes
Merging == OpenGroup \/ MergeRecord \/ MergeFails \/ CloseGroup \/ EndPass
Checking == BeginCheck \/ CheckPage \/ CheckEnds \/ CheckFails
Offering == LoadPage \/ PageChanged \/ NextRecord \/ NextEnds

\* The caller drops the inventory.
Done == state \in {"finished", "failed"} /\ UNCHANGED vars

Next == Building \/ Merging \/ Checking \/ Offering \/ Interrupt \/ Decay \/ Done

Spec == Init /\ [][Next]_vars

-----------------------------------------------------------------------------
(* Properties.                                                              *)

Run == [offset : Nat, records : Nat, checksum : Seq(Record)]

\* Runs lie within their file, one after the other, and the variables keep
\* their types.
TypeOK ==
  /\ listed \subseteq names /\ walked \subseteq protected
  /\ chunk \in Seq(Record) /\ Len(chunk) <= ChunkRecords
  /\ slots \in [{0, 1} -> Seq(Record)] /\ source \in {0, 1}
  /\ \A rs \in {runs, merged} :
       /\ rs \in Seq(Run)
       /\ \A i \in DOMAIN rs :
            /\ rs[i].records = Len(rs[i].checksum)
            /\ rs[i].offset = IF i = 1 THEN 0 ELSE rs[i - 1].offset + rs[i - 1].records
  /\ End(runs) <= Len(slots[source]) /\ End(merged) <= Len(slots[1 - source])
  /\ pending \in Record \union {None} /\ written \in Seq(Record)
  /\ Len(cursors) <= FanIn
  /\ state \in {"listing", "walking", "merging", "checking", "ready", "finished", "failed"}
  /\ disturbed \in {"nothing", "doubled", "interrupted", "decayed"}

\* A candidate is never an object a view references, whatever happens to the
\* scratch files, and none is offered when a referenced object is missing.
OnlyGarbageOffered ==
  /\ ToSet(offered) \subseteq names \ protected
  /\ offered # <<>> => protected \subseteq names

\* An inventory read to its end offered everything that may go, once each.
NothingForgotten ==
  state = "finished" =>
    /\ ToSet(offered) = names \ protected
    /\ Len(offered) = Cardinality(names \ protected)

\* Undisturbed, only a missing object makes reclamation fail.
FailsForCause ==
  state = "failed" => disturbed # "nothing" \/ ~(protected \subseteq names)
=============================================================================
