---------------------------- MODULE ExternalSort ----------------------------
(***************************************************************************)
(* Sorting more rows than fit in memory (src/execution/blocking.rs,         *)
(* blocking/io.rs): RowSort collects records in a bounded buffer, sorts and  *)
(* spills each full buffer as a run, and merges pairs of runs between two   *)
(* scratch files until one run is left.                                     *)
(*                                                                          *)
(* A file is a sequence of cells: a run header takes one, a record takes    *)
(* RecordWidth cells, so extents, buffering and byte limits keep their      *)
(* arithmetic.  A step of the code that moves up to 256 records is as many  *)
(* steps here: it only saves calls.  Every check the code answers with      *)
(* Error::Corrupt or a panic sets fault to "internal".  Memory amounts are  *)
(* not kept: an optional growth is granted in part, in full or not at all.  *)
(***************************************************************************)
EXTENDS RowOrder

CONSTANTS
  Sides,           \* the inputs being sorted, each with a sorter of its own
  RunRows,         \* BATCH_ROWS: the admitted rows of a run buffer
  StartRows,       \* 4096: the rows a run buffer may grow to before input
  CeilingRows,     \* 16384: no buffer of this many rows doubles
  MaxRows,         \* MAX_AGGREGATE_ROWS
  IoCells          \* IO_BYTES: the cells of a transfer buffer

ASSUME SortConstants ==
  /\ Sides \subseteq {0, 1}
  /\ RunRows \in 1 .. StartRows /\ StartRows \in 1 .. CeilingRows
  /\ MaxRows \in Nat /\ IoCells \in Nat \ {0}

VARIABLES
  layout,          \* [Sides -> Layout], chosen with the query
  sort,            \* RowSort: phase, finishing, rows, runs, last ordinal
  buffer,          \* RunBuffer: spans, limits and the merge-sort positions
  writer,          \* WriteBuffer: pending cells and their file offset
  disk,            \* the two scratch files of each sorter
  merge,           \* MergePasses: the file being read and the pass's progress
  pair,            \* PairMerge: the last record written and what must remain
  cursor,          \* the left (0) and right (1) RunCursor of PairMerge
  fault            \* how the query failed, or "none"

files == <<writer, disk>>
sortVars == <<layout, sort, buffer, writer, disk, merge, pair, cursor, fault>>

MaxPasses == Least({p \in 0 .. MaxRows : 2 ^ p >= MaxRows})
MaxWidth(i) == 1 + Len(layout[i].columns)

----------------------------------------------------------------------------
(* Cells, the write buffer and the read buffer. *)

RunHeader(pass, index, rows, cells) ==
  [tag |-> "run", pass |-> pass, index |-> index, rows |-> rows, cells |-> cells]

RecordCells(r) ==
  [part \in 1 .. RecordWidth(r) |-> [tag |-> "row", record |-> r, part |-> part]]

Cells(records) == SumFunction([k \in 1 .. Len(records) |-> RecordWidth(records[k])])

Position(w) == w.offset + Len(w.cells)

Overwrite(file, offset, cells) ==
  SubSeq(file, 1, offset) \o cells \o SubSeq(file, offset + Len(cells) + 1, Len(file))

Flushed(stream) ==
  [cells |-> <<>>, offset |-> Position(stream),
   file |-> Overwrite(stream.file, stream.offset, stream.cells)]

\* Append cells to the buffer of one file.  A full buffer is flushed when one
\* more cell arrives, so a nonempty stream keeps between 1 and IoCells of them.
Appended(stream, cells) ==
  LET all == stream.cells \o cells
      kept == IF all = <<>> THEN 0 ELSE ((Len(all) - 1) % IoCells) + 1
      sent == Len(all) - kept
  IN [cells |-> SubSeq(all, sent + 1, Len(all)), offset |-> stream.offset + sent,
      file |-> Overwrite(stream.file, stream.offset, SubSeq(all, 1, sent))]

Stream(i, slot) ==
  [cells |-> writer[i].cells, offset |-> writer[i].offset, file |-> disk[i][slot]]

SetStream(i, slot, stream) ==
  /\ writer' = [writer EXCEPT ![i] = [cells |-> stream.cells, offset |-> stream.offset]]
  /\ disk' = [disk EXCEPT ![i][slot] = stream.file]

EmptyCache == [slot |-> -1, start |-> 0, cells |-> <<>>, ahead |-> 0]
Cleared(cache) == [cache EXCEPT !.cells = <<>>, !.ahead = 0]

Slice(file, from, to) == SubSeq(file, from + 1, Lower(to, Len(file)))

\* The offset up to which cached cells serve a read of n cells.
CachedUpTo(cache, offset, n) ==
  LET stop == cache.start + Len(cache.cells)
  IN IF offset >= cache.start /\ offset < stop THEN Lower(stop, offset + n) ELSE offset

\* A refill starts a multiple of IoCells after the first one.  It stops at the
\* replay hint when it starts below it, and at the limit otherwise.
RefillStart(base, last) == base + ((last - base) \div IoCells) * IoCells
RefillEnd(start, hint, limit) == Lower(start + IoCells, IF start < hint THEN hint ELSE limit)
Refilled(cache, start, hint, limit, file) ==
  [cache EXCEPT !.start = start, !.cells = Slice(file, start, RefillEnd(start, hint, limit))]

\* Cells from the cache up to "from", then refills up to "last"; the last
\* refill stays cached.
ReadOn(cache, offset, from, last, hint, limit, file) ==
  [cache |-> IF from > last THEN cache
             ELSE Refilled(cache, RefillStart(IF from < hint /\ last >= hint THEN hint ELSE from,
                                              last), hint, limit, file),
   got |-> (IF from > offset
            THEN SubSeq(cache.cells, offset - cache.start + 1, from - cache.start) ELSE <<>>)
           \o Slice(file, from, last + 1)]

\* Read n cells of a file below a limit.
Complete(read, offset, n, limit) ==
  [cache |-> read.cache, got |-> read.got, ok |-> offset + n <= limit /\ Len(read.got) = n]
ReadWith(cache, offset, n, limit, file) ==
  Complete(ReadOn(cache, offset, CachedUpTo(cache, offset, n), offset + n - 1,
                  Lower(cache.ahead, limit), limit, file), offset, n, limit)
ReadCells(cached, slot, offset, n, limit, file) ==
  ReadWith(IF cached.slot = slot THEN cached ELSE [EmptyCache EXCEPT !.slot = slot],
           offset, n, limit, file)

----------------------------------------------------------------------------
(* Runs and the cursor that reads one. *)

NoRun == [start |-> 0, end |-> 0, rows |-> 0]

\* The shape Run::header accepts, when a run is written and when it is read.
RunShape(i, pass, index, rows, cells) ==
  /\ pass <= MaxPasses /\ index < MaxRows
  /\ rows \in 1 .. MaxRows
  /\ cells >= rows /\ cells <= rows * MaxWidth(i)

\* Read a run header: the identity it must have, and its extent.
RunAt(i, cache, head, offset, pass, index, limit) ==
  [cache |-> cache,
   run |-> [start |-> offset + 1, end |-> offset + 1 + head.cells, rows |-> head.rows],
   ok |-> /\ head.pass = pass /\ head.index = index
          /\ RunShape(i, pass, index, head.rows, head.cells)
          /\ offset + 1 + head.cells <= limit]
HeaderIn(at) == IF at.ok /\ at.got[1].tag = "run" THEN at.got[1] ELSE RunHeader(-1, -1, 0, 0)
RunFrom(i, at, offset, pass, index, limit) ==
  RunAt(i, at.cache, HeaderIn(at), offset, pass, index, limit)
ReadRun(i, cache, slot, offset, pass, index, limit) ==
  RunFrom(i, ReadCells(cache, slot, offset, 1, limit, disk[i][slot]), offset, pass, index, limit)

Begin(c, run) ==
  [c EXCEPT !.run = run, !.offset = run.start, !.remaining = run.rows,
            !.loaded = FALSE, !.cache = Cleared(@)]

Exhausted(c) == c.remaining = 0

\* Load the record under the cursor, unless it is loaded or the run has ended:
\* the header tells how long the body is, and both must be this record's.
Loaded(c, r, head, body) ==
  [cursor |-> [c EXCEPT !.record = r, !.loaded = TRUE, !.cache = body.cache],
   ok |-> r # NoRecord /\ body.ok /\ head.got \o body.got = RecordCells(r),
   read |-> TRUE]
LoadBody(c, r, head, slot, file) ==
  Loaded(c, r, head,
         ReadCells(head.cache, slot, c.offset + 1, RecordWidth(r) - 1, c.run.end, file))
LoadRecord(c, head, slot, file) ==
  LoadBody(c, IF head.ok /\ head.got[1].tag = "row" THEN head.got[1].record ELSE NoRecord,
           head, slot, file)
Load(i, c, slot) ==
  IF Exhausted(c) THEN [cursor |-> c, ok |-> c.offset = c.run.end, read |-> FALSE]
  ELSE IF c.loaded THEN [cursor |-> c, ok |-> TRUE, read |-> FALSE]
  ELSE LoadRecord(c, ReadCells(c.cache, slot, c.offset, 1, c.run.end, disk[i][slot]),
                  slot, disk[i][slot])

Consumed(c) ==
  [c EXCEPT !.offset = @ + RecordWidth(c.record), !.remaining = @ - 1, !.loaded = FALSE]

Bookmark(c) == [offset |-> c.offset, remaining |-> c.remaining]

LimitReadAhead(c, cells) == [c EXCEPT !.cache.ahead = c.offset + cells]

\* Go back to a bookmark of this run; the loaded boundary row bounds prefetch.
CanRewind(c, mark) ==
  /\ mark.offset >= c.run.start /\ mark.offset < c.run.end
  /\ mark.remaining \in 1 .. c.run.rows
  /\ c.loaded => c.offset + RecordWidth(c.record) <= c.run.end

Rewound(c, mark) ==
  LET end == IF c.loaded THEN c.offset + RecordWidth(c.record) ELSE c.offset
  IN [c EXCEPT !.offset = mark.offset, !.remaining = mark.remaining, !.loaded = FALSE,
               !.cache = [Cleared(@) EXCEPT !.ahead = end]]

----------------------------------------------------------------------------
(* Collecting records and writing one run (RunBuffer). *)

EmptyBuffer(i) ==
  [phase |-> "collect", spans |-> <<>>, work |-> <<>>, rows |-> RunRows,
   cells |-> MaxWidth(i) + RunRows - 1, index |-> 0, width |-> 1,
   left |-> 0, middle |-> 0, right |-> 0, end |-> 0, output |-> 0]

IdleCursor ==
  [run |-> NoRun, offset |-> 0, remaining |-> 0, loaded |-> FALSE, record |-> NoRecord,
   cache |-> EmptyCache]

NewSort == [i \in Sides |->
  [phase |-> "collect", finishing |-> FALSE, rows |-> 0, runs |-> 0, last |-> -1]]
NewBuffers == [i \in Sides |-> EmptyBuffer(i)]
NewWriters == [i \in Sides |-> [cells |-> <<>>, offset |-> 0]]
NewFiles == [i \in Sides |-> [slot \in {0, 1} |-> <<>>]]
NewMerges == [i \in Sides |->
  [phase |-> "idle", slot |-> 0, pass |-> 0, runs |-> 0, rows |-> 0, end |-> 0,
   index |-> 0, offset |-> 0, checked |-> 0, outputs |-> 0, result |-> NoRun]]
NewPairs == [i \in Sides |-> [previous |-> NoRecord, expected |-> 0, remaining |-> 0]]
NewCursors == [i \in Sides |-> [c \in {0, 1} |-> IdleCursor]]

SortInit ==
  /\ sort = NewSort /\ buffer = NewBuffers /\ writer = NewWriters /\ disk = NewFiles
  /\ merge = NewMerges /\ pair = NewPairs /\ cursor = NewCursors
  /\ fault = "none"

\* A step that finds the state it relies on, or ends the query.
Ensure(ok, Action) ==
  IF ok THEN Action /\ UNCHANGED <<layout, fault>>
  ELSE fault' = "internal"
       /\ UNCHANGED <<layout, sort, buffer, files, merge, pair, cursor>>

\* The limits a buffer may have after an attempt to grow it to at most "rows":
\* bytes grow with the rows, by the shortest record each.
GrownRows(b, rows) ==
  {[b EXCEPT !.rows = r, !.cells = @ + r - b.rows] : r \in b.rows .. rows}

\* Before any input the buffer may grow, if memory allows.
GrowEmpty(i) ==
  /\ \E b \in GrownRows(buffer[i], StartRows) : buffer' = [buffer EXCEPT ![i] = b]
  /\ UNCHANGED <<layout, sort, files, merge, pair, cursor, fault>>

\* The last write of a run that is not the final one says how the buffer should
\* grow: rows by doubling, when rows filled it, otherwise cells for the width
\* it saw.  Memory may refuse either; a partial fit is for cells only.
GrownAfterWrite(b) ==
  LET width == (Cells(b.spans) + Len(b.spans) - 1) \div Len(b.spans)
      double == [b EXCEPT !.rows = 2 * @,
                          !.cells = IF width * 2 * b.rows > @ THEN width * 2 * b.rows ELSE @]
  IN IF Len(b.spans) > b.rows \div 2
     THEN {b} \union (IF b.rows >= StartRows /\ b.rows < CeilingRows THEN {double} ELSE {})
     ELSE {[b EXCEPT !.cells = c] : c \in {b.cells} \union (b.cells .. width * b.rows)}

Fits(i, r) ==
  /\ Len(buffer[i].spans) < buffer[i].rows
  /\ Cells(buffer[i].spans) + RecordWidth(r) <= buffer[i].cells

\* RunBuffer::begin: a run of one record needs no sorting.
BeginRun(i) ==
  LET b == buffer[i] IN
  [b EXCEPT !.index = sort[i].runs, !.width = 1, !.left = 0,
            !.middle = Lower(1, Len(b.spans)), !.right = Lower(1, Len(b.spans)),
            !.end = Lower(2, Len(b.spans)), !.output = 0,
            !.phase = IF Len(b.spans) = 1 THEN "header" ELSE "sort"]

RunCanBegin(i) ==
  RunShape(i, 0, sort[i].runs, Len(buffer[i].spans), Cells(buffer[i].spans))

\* RowSort::push: accept the record, or start the run and leave it to the caller.
Push(i, r) ==
  IF sort[i].rows = MaxRows
  THEN fault' = "limit" /\ UNCHANGED <<layout, sort, buffer, files, merge, pair, cursor>>
  ELSE Ensure(/\ sort[i].phase = "collect" /\ sort[i].last < r.ordinal
              /\ Fits(i, r) \/ RunCanBegin(i),
         /\ IF Fits(i, r)
            THEN /\ buffer' = [buffer EXCEPT ![i].spans = Append(@, r), ![i].work = Append(@, r)]
                 /\ sort' = [sort EXCEPT ![i].rows = @ + 1, ![i].last = r.ordinal]
            ELSE /\ buffer' = [buffer EXCEPT ![i] = BeginRun(i)]
                 /\ sort' = [sort EXCEPT ![i].phase = "run"]
         /\ UNCHANGED <<files, merge, pair, cursor>>)

\* RowSort::finish: the last run, if any record waits, then the merge.
Finish(i) ==
  LET empty == buffer[i].spans = <<>> IN
  Ensure(sort[i].phase = "collect" /\ (empty \/ RunCanBegin(i)),
    /\ sort' = [sort EXCEPT ![i].finishing = TRUE,
                            ![i].phase = IF empty THEN "flush" ELSE "run"]
    /\ buffer' = IF empty THEN buffer ELSE [buffer EXCEPT ![i] = BeginRun(i)]
    /\ UNCHANGED <<files, merge, pair, cursor>>)

StartPair(b, start) ==
  LET middle == Lower(start + b.width, Len(b.spans)) IN
  [b EXCEPT !.left = start, !.middle = middle, !.right = middle,
            !.end = Lower(middle + b.width, Len(b.spans)), !.output = start]

\* Move the lesser of two spans to the work array.
TakesLeft(i, b) ==
  IF b.left < b.middle /\ b.right < b.end
  THEN CompareRecords(layout[i], b.spans[b.left + 1], b.spans[b.right + 1]) <= 0
  ELSE b.left < b.middle

Moved(i, b) ==
  IF TakesLeft(i, b)
  THEN [b EXCEPT !.work[b.output + 1] = b.spans[b.left + 1], !.left = @ + 1, !.output = @ + 1]
  ELSE [b EXCEPT !.work[b.output + 1] = b.spans[b.right + 1], !.right = @ + 1, !.output = @ + 1]

\* A finished width swaps the two arrays.
NextPair(b) ==
  IF b.output < b.end THEN b
  ELSE IF b.end < Len(b.spans) THEN StartPair(b, b.end)
  ELSE StartPair([b EXCEPT !.spans = b.work, !.work = b.spans, !.width = 2 * @], 0)

SortSpan(i) ==
  /\ sort[i].phase = "run" /\ buffer[i].phase = "sort"
  /\ \E b \in {NextPair(Moved(i, buffer[i]))} :
       buffer' = [buffer EXCEPT ![i] =
         [b EXCEPT !.phase = IF b.width >= Len(b.spans) THEN "header" ELSE @]]
  /\ UNCHANGED <<layout, sort, files, merge, pair, cursor, fault>>

WriteHeader(i) ==
  LET b == buffer[i] IN
  /\ sort[i].phase = "run" /\ b.phase = "header"
  /\ SetStream(i, 0, Appended(Stream(i, 0),
                              <<RunHeader(0, b.index, Len(b.spans), Cells(b.spans))>>))
  /\ buffer' = [buffer EXCEPT ![i].phase = "write", ![i].output = 0]
  /\ UNCHANGED <<layout, sort, merge, pair, cursor, fault>>

\* The last record empties the buffer: back to collecting, or on to the merge.
WriteSpan(i) ==
  LET b == buffer[i]
      last == b.output + 1 = Len(b.spans)
      empty(c) == [c EXCEPT !.phase = "collect", !.spans = <<>>, !.work = <<>>]
  IN /\ sort[i].phase = "run" /\ b.phase = "write"
     /\ SetStream(i, 0, Appended(Stream(i, 0), RecordCells(b.spans[b.output + 1])))
     /\ IF ~last
        THEN buffer' = [buffer EXCEPT ![i].output = @ + 1] /\ UNCHANGED sort
        ELSE /\ \E g \in IF sort[i].finishing THEN {b} ELSE GrownAfterWrite(b) :
                  buffer' = [buffer EXCEPT ![i] = empty(g)]
             /\ sort' = [sort EXCEPT ![i].runs = @ + 1,
                           ![i].phase = IF sort[i].finishing THEN "flush" ELSE "collect"]
     /\ UNCHANGED <<layout, merge, pair, cursor, fault>>

----------------------------------------------------------------------------
(* Merging pairs of runs, one pass after another (MergePasses, PairMerge). *)

\* The initial runs are complete: write the rest, free the buffer, merge.
FlushRuns(i) ==
  LET end == Position(writer[i])
      rows == sort[i].rows
      body == end - sort[i].runs
  IN /\ sort[i].phase = "flush"
     /\ Ensure(/\ rows <= MaxRows /\ sort[i].runs <= rows
               /\ (sort[i].runs = 0) <=> (rows = 0)
               /\ body >= rows /\ body <= rows * MaxWidth(i)
               /\ merge[i].phase = "idle" /\ buffer[i].spans = <<>>,
          /\ SetStream(i, 0, Flushed(Stream(i, 0)))
          /\ merge' = [merge EXCEPT ![i].runs = sort[i].runs, ![i].rows = rows, ![i].end = end,
               ![i].phase = IF sort[i].runs <= 1 THEN "final" ELSE "prepare"]
          /\ buffer' = [buffer EXCEPT ![i].phase = "released"]
          /\ sort' = [sort EXCEPT ![i].phase = "merge"]
          /\ UNCHANGED <<pair, cursor>>)

\* Truncate the file this pass writes, and forget cached cells of both.
MergePrepare(i) ==
  /\ sort[i].phase = "merge" /\ merge[i].phase = "prepare"
  /\ Ensure(merge[i].pass < MaxPasses /\ merge[i].runs > 1 /\ writer[i].cells = <<>>,
       /\ disk' = [disk EXCEPT ![i][1 - merge[i].slot] = <<>>]
       /\ writer' = [writer EXCEPT ![i].offset = 0]
       /\ cursor' = [cursor EXCEPT ![i][0].cache = Cleared(@), ![i][1].cache = Cleared(@)]
       /\ merge' = [merge EXCEPT ![i].index = 0, ![i].offset = 0, ![i].checked = 0,
                                 ![i].outputs = 0, ![i].phase = "next"]
       /\ UNCHANGED <<sort, buffer, pair>>)

\* MergePasses::next_run: read the next header and count its rows.
RunCounted(m, at) ==
  [run |-> at.run, cache |-> at.cache,
   ok |-> at.ok /\ m.checked + at.run.rows <= m.rows,
   merge |-> [m EXCEPT !.checked = @ + at.run.rows, !.offset = at.run.end, !.index = @ + 1]]
NextRun(i, m, cache) ==
  RunCounted(m, ReadRun(i, cache, m.slot, m.offset, m.pass, m.index, m.end))

\* The two runs are checked: write the header of their merge and begin it.
BeginPair(i, m, left, right, rows, cells) ==
  Ensure(left.ok /\ right.ok /\ RunShape(i, m.pass + 1, m.outputs, rows, cells),
    /\ SetStream(i, 1 - m.slot, Appended(Stream(i, 1 - m.slot),
                                         <<RunHeader(m.pass + 1, m.outputs, rows, cells)>>))
    /\ pair' = [pair EXCEPT ![i] =
         [previous |-> NoRecord, expected |-> Position(writer[i]) + 1 + cells,
          remaining |-> rows]]
    /\ cursor' = [cursor EXCEPT
         ![i][0] = Begin([@ EXCEPT !.cache = right.cache], left.run),
         ![i][1] = Begin(@, right.run)]
    /\ merge' = [merge EXCEPT ![i] = [right.merge EXCEPT !.phase = "pair"]]
    /\ UNCHANGED <<sort, buffer>>)

\* Take the next two runs (the last may be alone) and begin their merge.
MergeNextPair(i) ==
  LET m == merge[i] IN
  /\ sort[i].phase = "merge" /\ m.phase = "next" /\ m.index < m.runs
  /\ \E left \in {NextRun(i, m, cursor[i][0].cache)} :
     \E right \in {IF left.merge.index = m.runs THEN [left EXCEPT !.run = NoRun]
                   ELSE NextRun(i, left.merge, left.cache)} :
       BeginPair(i, m, left, right, left.run.rows + right.run.rows,
                 (left.run.end - left.run.start) + (right.run.end - right.run.start))

\* Every run of the file was merged: the counts must agree with the file.
MergePassEnds(i) ==
  LET m == merge[i] IN
  /\ sort[i].phase = "merge" /\ m.phase = "next" /\ m.index = m.runs
  /\ Ensure(m.offset = m.end /\ m.checked = m.rows /\ m.outputs = HalfUp(m.runs),
       /\ merge' = [merge EXCEPT ![i].phase = "flush"]
       /\ UNCHANGED <<sort, buffer, files, pair, cursor>>)

\* Keep what a later record is compared with: its key fields and its ordinal.
Remembered(i, r) ==
  Record(SubSeq(r.fields, 1, layout[i].keys), <<>>, r.ordinal)

\* A loaded record is written before one that is greater, and before none.
Precede(i, left, right) ==
  left.loaded /\ (right.loaded => CompareRecords(layout[i], left.record, right.record) <= 0)

\* Write the lesser of the two loaded records; output must strictly increase.
WriteLesser(i, left, right, takeLeft, slot) ==
  LET selected == IF takeLeft THEN left.cursor ELSE right.cursor IN
  Ensure(/\ left.ok /\ right.ok /\ selected.loaded
         /\ pair[i].previous = NoRecord
            \/ CompareRecords(layout[i], pair[i].previous, selected.record) < 0,
    /\ SetStream(i, slot, Appended(Stream(i, slot), RecordCells(selected.record)))
    /\ pair' = [pair EXCEPT ![i].previous = Remembered(i, selected.record),
                            ![i].remaining = @ - 1]
    /\ cursor' = [cursor EXCEPT
         ![i][0] = IF takeLeft THEN Consumed(selected) ELSE left.cursor,
         ![i][1] = IF takeLeft THEN right.cursor ELSE Consumed(selected)]
    /\ UNCHANGED <<sort, buffer, merge>>)

MergeRecord(i) ==
  /\ sort[i].phase = "merge" /\ merge[i].phase = "pair" /\ pair[i].remaining > 0
  /\ \E left \in {Load(i, cursor[i][0], merge[i].slot)},
        right \in {Load(i, cursor[i][1], merge[i].slot)} :
       WriteLesser(i, left, right, Precede(i, left.cursor, right.cursor), 1 - merge[i].slot)

\* The declared rows are written: both inputs must have ended where they should.
MergePairEnds(i) ==
  /\ sort[i].phase = "merge" /\ merge[i].phase = "pair" /\ pair[i].remaining = 0
  /\ Ensure(/\ \A c \in {0, 1} :
                 Exhausted(cursor[i][c]) /\ cursor[i][c].offset = cursor[i][c].run.end
            /\ Position(writer[i]) = pair[i].expected,
       /\ merge' = [merge EXCEPT ![i].outputs = @ + 1, ![i].phase = "next"]
       /\ UNCHANGED <<sort, buffer, files, pair, cursor>>)

\* The written file is the next pass's input.
MergeFlush(i) ==
  LET m == merge[i] IN
  /\ sort[i].phase = "merge" /\ m.phase = "flush"
  /\ Ensure(m.outputs < m.runs,
       /\ SetStream(i, 1 - m.slot, Flushed(Stream(i, 1 - m.slot)))
       /\ merge' = [merge EXCEPT ![i].slot = 1 - m.slot, ![i].pass = @ + 1,
            ![i].runs = m.outputs, ![i].end = Position(writer[i]),
            ![i].phase = IF m.outputs = 1 THEN "final" ELSE "prepare"]
       /\ UNCHANGED <<sort, buffer, pair, cursor>>)

\* One run or none is left: empty the other file and check the last header.
\* The call that finishes the sort also starts reading: the inputs in "begin"
\* are read from their first record, those in "forget" compare with none before.
FinalRun(i, m, cache) ==
  IF m.runs = 0 THEN [run |-> NoRun, cache |-> cache, ok |-> TRUE, merge |-> m]
  ELSE NextRun(i, m, cache)
SortDone(i, last, begin, forget) ==
  /\ disk' = [disk EXCEPT ![i][1 - last.merge.slot] = <<>>]
  /\ merge' = [merge EXCEPT ![i] = [last.merge EXCEPT !.result = last.run, !.phase = "done"]]
  /\ sort' = [sort EXCEPT ![i].phase = "done"]
  /\ cursor' = [s \in Sides |-> IF s \in begin
       THEN [([cursor EXCEPT ![i][0].cache = last.cache])[s] EXCEPT
               ![0] = Begin(@, IF s = i THEN last.run ELSE merge[s].result)]
       ELSE ([cursor EXCEPT ![i][0].cache = last.cache])[s]]
  /\ pair' = [s \in Sides |-> IF s \in forget
       THEN [pair[s] EXCEPT !.previous = NoRecord] ELSE pair[s]]
  /\ UNCHANGED <<buffer, writer>>
MergeFinal(i, begin, forget) ==
  /\ sort[i].phase = "merge" /\ merge[i].phase = "final"
  /\ \E last \in {FinalRun(i, [merge[i] EXCEPT !.index = 0, !.offset = 0, !.checked = 0],
                            Cleared(cursor[i][0].cache))} :
       Ensure(last.ok /\ last.merge.offset = merge[i].end /\ last.merge.checked = merge[i].rows,
              SortDone(i, last, begin, forget))

\* One call of RowSort::step that does not finish the sort.
SortStep(i) ==
  \/ SortSpan(i) \/ WriteHeader(i) \/ WriteSpan(i) \/ FlushRuns(i)
  \/ MergePrepare(i) \/ MergeNextPair(i) \/ MergePassEnds(i)
  \/ MergeRecord(i) \/ MergePairEnds(i) \/ MergeFlush(i)

----------------------------------------------------------------------------
(* Reading the sorted records back (SortedInput). *)

\* Mutant: the first record read again is compared with the last one read before.
BeginReadRemembering(inputs, forget) ==
  /\ cursor' = [s \in Sides |-> IF s \in inputs
       THEN [cursor[s] EXCEPT ![0] = Begin(@, merge[s].result)] ELSE cursor[s]]
  /\ UNCHANGED pair

\* begin_read: start over, with nothing to compare the first record with.
BeginRead(inputs, forget) ==
  /\ cursor' = [s \in Sides |-> IF s \in inputs
       THEN [cursor[s] EXCEPT ![0] = Begin(@, merge[s].result)] ELSE cursor[s]]
  /\ pair' = [s \in Sides |-> IF s \in forget
       THEN [pair[s] EXCEPT !.previous = NoRecord] ELSE pair[s]]

Reading(i) == cursor[i][0]
Loading(i) == Load(i, Reading(i), merge[i].slot)
NeedsLoad(i) == ~Exhausted(Reading(i)) /\ ~Reading(i).loaded
Fields(i) == Reading(i).record.fields
RowRead(i) == Decode(layout[i], Fields(i))
SetReading(i, c) == cursor' = [cursor EXCEPT ![i][0] = c]

\* SortedInput::load: true when this call loaded a record.
LoadRead(i) ==
  \E at \in {Loading(i)} :
    Ensure(sort[i].phase = "done" /\ at.ok,
      /\ SetReading(i, at.cursor)
      /\ UNCHANGED <<sort, buffer, files, merge, pair>>)

\* A record must come after the one remembered, in key and then in ordinal.
InOrder(i) ==
  pair[i].previous.ordinal = -1
    \/ CompareRecords(layout[i], pair[i].previous, Reading(i).record) < 0

KeyIsRepeated(i) ==
  /\ pair[i].previous.ordinal # -1
  /\ CompareKeys(layout[i], pair[i].previous.fields, Fields(i)) = 0
=============================================================================
