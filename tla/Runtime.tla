------------------------------- MODULE Runtime -------------------------------
(***************************************************************************)
(* Executing a query (src/execution/runtime.rs and its controllers).  The    *)
(* producers form a tree, inputs first.  One of them is active; it takes one *)
(* step and continues, asks an input for a batch, hands a batch or its end   *)
(* to its consumer, or asks for an input to be replayed.                    *)
(*                                                                          *)
(* A grouping counts in a hash table while the keys fit, and otherwise       *)
(* starts again on disk, from the rows its input gives a second time.        *)
(***************************************************************************)
EXTENDS QueryAnswer

CONSTANTS
  Queries,       \* families of queries as written: Init plans one of them
  BatchRows,     \* batch::ROWS
  Quantum,       \* COMPUTE_ROWS: the rows examined at once without expressions
  ArgumentRows   \* the arguments a grouping captures at once

VARIABLES
  query,         \* [nodes, faulty]
  answer,        \* what it must return
  own,           \* the controller of each node
  batch,         \* the output batch of each node
  state,         \* OutputState: "ready", "rows" or "finished"
  active,        \* the node that steps next
  phase,         \* "run", "replay", "done" or "failed"
  target,        \* the node to replay
  given,         \* the rows returned
  fault

vars == <<query, answer, own, batch, state, active, phase, target, given, fault>>
runVars == <<state, active, phase, target, fault>>

Node(n) == query.nodes[n]
Root == Len(query.nodes)
Supplier(n, i) == Node(n).inputs[i]
Parent(n) == CHOOSE p \in DOMAIN query.nodes : n \in Range(Node(p).inputs)

----------------------------------------------------------------------------
(* The outcomes of a step.  It has cleared the result batch first, and the   *)
(* controller its own; the input's batch may still be partly read.           *)

\* Mutant: a step clears every batch.
ClearedAll(n) == [m \in DOMAIN batch |-> <<>>]
Cleared(n) == [batch EXCEPT ![Root] = <<>>, ![n] = <<>>]

Becomes(n, c) == own' = [own EXCEPT ![n] = c]

Continue(n, c) ==
  /\ Becomes(n, c) /\ batch' = Cleared(n)
  /\ UNCHANGED runVars

\* Rows and the end are both messages for the consumer.
Hand(n, c, message, rows) ==
  /\ Becomes(n, c)
  /\ batch' = [Cleared(n) EXCEPT ![n] = rows]
  /\ state' = [state EXCEPT ![n] = message]
  /\ IF n = Root
     THEN active' = active /\ phase' = IF message = "finished" THEN "done" ELSE phase
     ELSE active' = Parent(n) /\ phase' = phase
  /\ UNCHANGED <<target, fault>>

Output(n, c, rows) ==
  IF rows = <<>> THEN Continue(n, c) ELSE Hand(n, c, "rows", rows)

\* Any error: the query drops its workspace.
Fail(cause) ==
  /\ fault' = cause /\ phase' = "failed"
  /\ batch' = [m \in DOMAIN batch |-> <<>>]
  /\ UNCHANGED <<own, state, active, target>>

\* The consumer is done with the input's batch; only now may it be reused.
Ask(n, c, i) ==
  IF state[Supplier(n, i)] = "finished" THEN Fail("internal")
  ELSE /\ Becomes(n, c)
       /\ batch' = [Cleared(n) EXCEPT ![Supplier(n, i)] = <<>>]
       /\ state' = [state EXCEPT ![Supplier(n, i)] = "ready"]
       /\ active' = Supplier(n, i)
       /\ UNCHANGED <<phase, target, fault>>

AskReplay(n, c, i) ==
  /\ Becomes(n, c) /\ batch' = Cleared(n)
  /\ phase' = "replay" /\ target' = Supplier(n, i)
  /\ UNCHANGED <<state, active, fault>>

----------------------------------------------------------------------------
(* Filters and projections of a producer. *)

\* A row through the filters, then the output columns: what filters computed is
\* not computed again.
ColumnValues(n, known) ==
  FoldLeft(LAMBDA k, slot : RowValue(Node(n), k, slot), known, Node(n).columns)

OutputRow(n, known) == [i \in DOMAIN Node(n).columns |-> known[Node(n).columns[i]]]

Projected(n, known) ==
  [keeps |-> TRUE, refusal |-> Refusal(Node(n), known, Node(n).columns), row |-> OutputRow(n, known)]

Judged(n, retained) ==
  IF retained.at = Reject \/ retained.refusal # Null
  THEN [keeps |-> FALSE, refusal |-> retained.refusal, row |-> <<>>]
  ELSE Projected(n, ColumnValues(n, retained.known))

Judge(n, row) == Judged(n, Retains(Node(n), row))

\* The first row to be refused decides the error.
FailFor(refusal) == Fail(IF refusal = Failure THEN "expression" ELSE "internal")
Refuse(refusals) == FailFor(refusals[Least({p \in DOMAIN refusals : refusals[p] # Null})])

RowsKept(judged) ==
  LET kept == SelectSeq(judged, LAMBDA j : j.keeps) IN [p \in DOMAIN kept |-> kept[p].row]

\* A batch of input rows through the filters, or the error of one of them.
OutputJudged(n, c, judged) ==
  IF \E p \in DOMAIN judged : judged[p].refusal # Null
  THEN Refuse([p \in DOMAIN judged |-> judged[p].refusal])
  ELSE Output(n, c, RowsKept(judged))

OutputKept(n, c, rows) ==
  \E judged \in {[p \in DOMAIN rows |-> Judge(n, rows[p])]} : OutputJudged(n, c, judged)

Input(n) == batch[Supplier(n, 1)]
InputEnds(n) == state[Supplier(n, 1)] = "finished"

Computed(n, slots) == \E slot \in slots : slot > Stored(Node(n))
Expressions(n) ==
  Computed(n, Range(Node(n).columns) \union {filter.column : filter \in Range(Node(n).filters)})
WorkRows(n) == IF Expressions(n) THEN BatchRows ELSE Quantum

----------------------------------------------------------------------------
(* Scans: one unit after another, a quantum of its rows at a time. *)

NewScan == [phase |-> "begin", unit |-> 0, loaded |-> FALSE, start |-> 0, end |-> 0,
            selection |-> <<>>, next |-> <<>>, at |-> 0, replayed |-> FALSE]

UnitRows(n) == Node(n).units[own[n].unit]

ScanBegin(n) ==
  LET c == own[n]
      end == Lower(c.start + WorkRows(n), Len(UnitRows(n)))
  IN /\ c.phase = "begin"
     /\ IF ~c.loaded
        THEN IF c.unit = Len(Node(n).units)
             THEN Hand(n, [c EXCEPT !.phase = "done"], "finished", <<>>)
             ELSE Continue(n, [c EXCEPT !.unit = @ + 1, !.loaded = TRUE])
        ELSE IF c.start = Len(UnitRows(n))
             THEN Continue(n, [c EXCEPT !.loaded = FALSE, !.start = 0])
             ELSE Continue(n, [c EXCEPT !.end = end,
                    !.selection = [i \in 1 .. end - c.start |-> UnitRows(n)[c.start + i]],
                    !.next = [i \in 1 .. end - c.start |-> 1],
                    !.phase = IF Node(n).filters = <<>> THEN "output" ELSE "filter",
                    !.at = IF Node(n).filters = <<>> THEN 0 ELSE 1])

\* After a filter: give up the quantum, try the next filter, or output the rest.
Selected(n, c, selection, next) ==
  LET last == c.at = Len(Node(n).filters)
      c2 == [c EXCEPT !.selection = selection, !.next = next]
  IN IF selection = <<>> THEN [c2 EXCEPT !.start = c.end, !.phase = "begin"]
     ELSE IF last THEN [c2 EXCEPT !.phase = "output", !.at = 0]
     ELSE [c2 EXCEPT !.at = @ + 1]

\* A filter reads the rows whose next decision it is; without branches, all.
Reached(c) == SelectSeq([p \in DOMAIN c.selection |-> p], LAMBDA p : c.next[p] = c.at)

Refusals(n, known, slots) == [i \in DOMAIN known |-> Refusal(Node(n), known[i], slots)]

After(at, distance) == IF distance = Reject THEN Reject ELSE at + distance

\* Where each selected row goes, given the distances of those the filter read.
NextFilters(c, reached, distances) ==
  [p \in DOMAIN c.selection |->
     IF c.next[p] # c.at THEN c.next[p]
     ELSE After(c.at, distances[CHOOSE i \in DOMAIN reached : reached[i] = p])]

Passing(filters, at, next) ==
  SelectSeq([p \in DOMAIN next |-> p],
            LAMBDA p : IF ~Branching(filters) THEN next[p] # Reject
                       ELSE at = Len(filters) => next[p] = Len(filters) + 1)

Advance(n, c, next) ==
  \E passing \in {Passing(Node(n).filters, c.at, next)} :
    Continue(n, Selected(n, c, [i \in DOMAIN passing |-> c.selection[passing[i]]],
                               [i \in DOMAIN passing |-> next[passing[i]]]))

FilterRows(n, c, filter, reached) ==
  \E known \in {BatchValues(Node(n), [i \in DOMAIN reached |-> c.selection[reached[i]]],
                            <<filter.column>>)} :
  \E refusals \in {Refusals(n, known, <<filter.column>>)} :
    IF \E i \in DOMAIN refusals : refusals[i] # Null THEN Refuse(refusals)
    ELSE \E next \in {NextFilters(c, reached,
                        [i \in DOMAIN known |-> Distance(filter, known[i][filter.column])])} :
           Advance(n, c, next)

ScanFilter(n) ==
  /\ own[n].phase = "filter"
  /\ \E reached \in {Reached(own[n])} : FilterRows(n, own[n], Node(n).filters[own[n].at], reached)

\* Wide text may fill the batch early; the rows before are complete.
OutputSome(n, c, known) ==
  \E m \in IF Node(n).wide THEN 1 .. Len(known) ELSE {Len(known)} :
    Hand(n, IF c.at + m = Len(c.selection)
            THEN [c EXCEPT !.start = c.end, !.phase = "begin"]
            ELSE [c EXCEPT !.at = @ + m],
         "rows", [p \in 1 .. m |-> OutputRow(n, known[p])])

OutputRows(n, c, most) ==
  \E known \in {BatchValues(Node(n), SubSeq(c.selection, c.at + 1, c.at + most), Node(n).columns)} :
  \E refusals \in {Refusals(n, known, Node(n).columns)} :
    IF \E p \in DOMAIN refusals : refusals[p] # Null THEN Refuse(refusals)
    ELSE OutputSome(n, c, known)

ScanOutput(n) ==
  /\ own[n].phase = "output"
  /\ OutputRows(n, own[n], Lower(BatchRows, Len(own[n].selection) - own[n].at))

Scan(n) == Node(n).op = "scan" /\ (ScanBegin(n) \/ ScanFilter(n) \/ ScanOutput(n))

----------------------------------------------------------------------------
(* LIMIT and OFFSET, UNION ALL, and a count OVER (). *)

NewLimit(n) == [phase |-> "read", skip |-> Node(n).offset, take |-> Node(n).count]

\* Mutant: the quota is spent after the filter.
LimitAwaitKept(n) ==
  LET c == own[n]
      skipped == Lower(c.skip, Len(Input(n)))
      taken == Lower(c.take, Len(Input(n)) - skipped)
  IN \E judged \in {[p \in 1 .. taken |-> Judge(n, Input(n)[skipped + p])]} :
       OutputJudged(n, [phase |-> "read", skip |-> c.skip - skipped,
                        take |-> c.take - Len(RowsKept(judged))], judged)

LimitAwait(n) ==
  LET c == own[n]
      skipped == Lower(c.skip, Len(Input(n)))
      taken == Lower(c.take, Len(Input(n)) - skipped)
  IN OutputKept(n, [phase |-> "read", skip |-> c.skip - skipped, take |-> c.take - taken],
                SubSeq(Input(n), skipped + 1, skipped + taken))

LimitEnds(n) == Hand(n, [own[n] EXCEPT !.phase = "done"], "finished", <<>>)

\* Mutant: a LIMIT reads its input to the end.
LimitReadOn(n) ==
  /\ own[n].phase = "read"
  /\ Ask(n, [own[n] EXCEPT !.phase = "await"], 1)

LimitRead(n) ==
  LET c == own[n] IN
  /\ c.phase = "read"
  /\ IF c.skip = 0 /\ c.take = 0 THEN LimitEnds(n) ELSE Ask(n, [c EXCEPT !.phase = "await"], 1)

Limit(n) ==
  /\ Node(n).op = "limit"
  /\ \/ LimitRead(n)
     \/ own[n].phase = "await" /\ (IF InputEnds(n) THEN LimitEnds(n) ELSE LimitAwait(n))

NewUnion == [phase |-> "read", side |-> 1, visited |-> {}, pending |-> {}]

\* Mutant: a requested replay stays pending.
UnionReadAgain(n) ==
  LET c == own[n] IN
  /\ c.phase = "read"
  /\ IF c.side \in c.pending THEN AskReplay(n, c, c.side)
     ELSE Ask(n, [c EXCEPT !.visited = @ \union {c.side}, !.phase = "await"], c.side)

UnionRead(n) ==
  LET c == own[n] IN
  /\ c.phase = "read"
  /\ IF c.side \in c.pending THEN AskReplay(n, [c EXCEPT !.pending = @ \ {c.side}], c.side)
     ELSE Ask(n, [c EXCEPT !.visited = @ \union {c.side}, !.phase = "await"], c.side)

UnionAwait(n) ==
  LET c == own[n]
      child == Supplier(n, c.side)
  IN /\ c.phase = "await"
     /\ IF state[child] # "finished" THEN OutputKept(n, [c EXCEPT !.phase = "read"], batch[child])
        ELSE IF c.side = 1 THEN Continue(n, [c EXCEPT !.side = 2, !.phase = "read"])
        ELSE Hand(n, [c EXCEPT !.phase = "done"], "finished", <<>>)

Union(n) == Node(n).op = "union" /\ (UnionRead(n) \/ UnionAwait(n))

NewCount == [phase |-> "read", rows |-> 0, remaining |-> 0, replayed |-> FALSE]

CountAwait(n) ==
  LET c == own[n] IN
  /\ c.phase = "await"
  /\ IF InputEnds(n) THEN Continue(n, [c EXCEPT !.phase = "emit", !.remaining = c.rows])
     ELSE IF Len(Input(n)) > MaxRows - c.rows THEN Fail("limit")
     ELSE Continue(n, [c EXCEPT !.phase = "read", !.rows = @ + Len(Input(n))])

\* One row at a time: a later LIMIT may stop before the next row fails.
CountEmit(n) ==
  LET c == own[n] IN
  /\ c.phase = "emit"
  /\ IF c.remaining = 0 THEN Continue(n, [c EXCEPT !.phase = "done"])
     ELSE OutputKept(n, [c EXCEPT !.remaining = @ - 1], <<<<Number(c.rows), Number(c.rows)>>>>)

Ends(n) ==
  /\ own[n].phase = "done" /\ state[n] # "finished"
  /\ Hand(n, own[n], "finished", <<>>)

Count(n) ==
  /\ Node(n).op = "count"
  /\ \/ own[n].phase = "read" /\ Ask(n, [own[n] EXCEPT !.phase = "await"], 1)
     \/ CountAwait(n) \/ CountEmit(n) \/ Ends(n)

----------------------------------------------------------------------------
(* The sorting operators, by what SortedOperators shows of them: they take   *)
(* each input to its end a row at a time, then give their rows, and give     *)
(* them again once. *)

NewRetain == [phase |-> "read", side |-> 1, at |-> 0, kept |-> <<<<>>, <<>>>>,
              results |-> <<>>, emitted |-> 0, replayed |-> FALSE]

RetainResults(n, kept) == IF Node(n).op = "order" THEN ByKey(kept[1]) ELSE Excepted(kept[1], kept[2])

RetainTakes(n) ==
  LET c == own[n]
      child == Supplier(n, c.side)
  IN \/ /\ c.phase = "read"
        /\ Ask(n, [c EXCEPT !.phase = "await"], c.side)
     \/ /\ c.phase = "await"
        /\ Continue(n, IF state[child] # "finished" THEN [c EXCEPT !.phase = "capture", !.at = 1]
                       ELSE IF c.side < Len(Node(n).inputs)
                       THEN [c EXCEPT !.side = @ + 1, !.phase = "read"]
                       ELSE [c EXCEPT !.phase = "emit", !.results = RetainResults(n, c.kept)])
     \/ /\ c.phase = "capture"
        /\ Continue(n, IF c.at > Len(batch[child]) THEN [c EXCEPT !.phase = "read"]
                       ELSE [c EXCEPT !.kept[c.side] = Append(@, batch[child][c.at]), !.at = @ + 1])

RetainEmit(n) ==
  LET c == own[n] IN
  /\ c.phase = "emit"
  /\ IF c.emitted = Len(c.results) THEN Continue(n, [c EXCEPT !.phase = "done"])
     ELSE OutputKept(n, [c EXCEPT !.emitted = @ + 1], <<c.results[c.emitted + 1]>>)

Retain(n) == Node(n).op \in {"order", "except"} /\ (RetainTakes(n) \/ RetainEmit(n) \/ Ends(n))

----------------------------------------------------------------------------
(* GROUP BY: a hash table of "room" keys, then files. *)

NewGroup == [phase |-> "read", pending |-> TRUE, memory |-> FALSE, groups |-> <<>>,
             positions |-> <<>>, at |-> 0, count |-> 0, records |-> <<>>, order |-> <<>>,
             holding |-> FALSE, key |-> Null, captured |-> <<>>, total |-> Null,
             results |-> <<>>, emitted |-> 0, replayed |-> FALSE]

\* The first rows decide whether there is memory for a table at all.
GroupAwait(n) ==
  LET c == own[n]
      next == IF ~InputEnds(n) THEN "capture" ELSE IF c.pending THEN "done"
              ELSE IF c.memory THEN (IF Node(n).ordered THEN "order" ELSE "check") ELSE "sort"
  IN /\ c.phase = "await"
     /\ Continue(n, [c EXCEPT !.phase = next, !.pending = FALSE, !.at = 0, !.count = 0,
          !.memory = IF c.pending /\ ~InputEnds(n) THEN Node(n).room # 0 ELSE @])

\* The next captured range of the batch, or the next batch.
GroupCapture(n) ==
  LET c == own[n]
      start == c.at + c.count
  IN /\ c.phase = "capture"
     /\ Continue(n, IF start = Len(Input(n)) THEN [c EXCEPT !.phase = "read"]
          ELSE [c EXCEPT !.at = start, !.count = Lower(ArgumentRows, Len(Input(n)) - start),
                         !.positions = <<>>, !.phase = IF c.memory THEN "hash" ELSE "encode"])

CapturedRow(n, i) == Input(n)[own[n].at + i]

\* Mutant: the fallback keeps what the rows read so far were counted into.
GroupFallbackKept(n) ==
  AskReplay(n, [own[n] EXCEPT !.phase = "create", !.memory = FALSE,
    !.records = [i \in 1 .. own[n].at |-> Input(n)[i]]], 1)

\* Partial totals cannot be merged into the disk path: start over.
GroupFallback(n) ==
  AskReplay(n, [own[n] EXCEPT !.phase = "create", !.memory = FALSE, !.groups = <<>>,
                              !.positions = <<>>], 1)

\* Find or add the group of the next row; after the last, fold the range.
GroupHash(n) ==
  LET c == own[n]
      row == Len(c.positions) + 1
      key == CapturedRow(n, row)[1]
      found == {g \in DOMAIN c.groups : SameKey(c.groups[g][1], key)}
      Fold(groups, i) == [groups EXCEPT ![c.positions[i]][2] = Plus(@, CapturedRow(n, i)[2])]
  IN /\ c.phase = "hash"
     /\ IF row > c.count
        THEN Continue(n, [c EXCEPT !.phase = "capture",
               !.groups = FoldLeft(Fold, @, [i \in 1 .. c.count |-> i])])
        ELSE IF found # {} THEN Continue(n, [c EXCEPT !.positions = Append(@, Least(found))])
        ELSE IF Len(c.groups) = Node(n).room THEN GroupFallback(n)
        ELSE Continue(n, [c EXCEPT !.groups = Append(@, <<key, Null>>),
                                   !.positions = Append(@, Len(c.groups) + 1)])

\* The sorter takes a record; Spill and its passes are SortedOperators'.
GroupEncode(n) ==
  LET c == own[n]
      row == Len(c.positions) + 1
  IN /\ c.phase = "encode"
     /\ Continue(n, IF row > c.count THEN [c EXCEPT !.phase = "capture"]
                    ELSE [c EXCEPT !.records = Append(@, CapturedRow(n, row)),
                                   !.positions = Append(@, row)])

GroupSort(n) ==
  /\ own[n].phase = "sort"
  /\ Continue(n, [own[n] EXCEPT !.phase = "reduce", !.at = 1, !.records = ByKey(@)])

\* Equal keys are adjacent.
Boundary(c) ==
  IF c.at > Len(c.records) THEN TRUE
  ELSE c.holding /\ CompareValues(c.key, c.records[c.at][1]) < 0

FoldCaptured(c) == [c EXCEPT !.captured = <<>>, !.total = FoldLeft(Plus, @, c.captured)]

\* The group is complete: judge it, and retain its row.
FinishGroup(n, folded, judged) ==
  IF judged.refusal # Null THEN FailFor(judged.refusal)
  ELSE Continue(n, [folded EXCEPT !.holding = FALSE, !.total = Null,
                      !.results = IF judged.keeps THEN Append(@, judged.row) ELSE @])

TakeRecord(c, record) ==
  [c EXCEPT !.captured = Append(@, record[2]), !.at = @ + 1, !.holding = TRUE,
            !.key = IF c.holding THEN @ ELSE record[1]]

\* Filling the argument buffer does not end a group.
GroupReduce(n) ==
  LET c == own[n] IN
  /\ c.phase = "reduce"
  /\ IF Boundary(c)
     THEN IF c.holding
          THEN \E folded \in {FoldCaptured(c)} :
               \E judged \in {Judge(n, <<folded.key, folded.total>>)} : FinishGroup(n, folded, judged)
          ELSE Continue(n, [c EXCEPT !.phase = "emitDisk"])
     ELSE Continue(n, IF Len(c.captured) = ArgumentRows THEN FoldCaptured(c)
                      ELSE TakeRecord(c, c.records[c.at]))

GroupOrder(n) ==
  /\ own[n].phase = "order"
  /\ Continue(n, [own[n] EXCEPT !.phase = "check", !.groups = ByKey(@)])

\* Every result is computed before the first is given.
GroupCheck(n) ==
  LET c == own[n] IN
  /\ c.phase = "check"
  /\ IF c.at = Len(c.groups) THEN Continue(n, [c EXCEPT !.phase = "emitMemory", !.at = 0])
     ELSE \E refusal \in {Judge(n, c.groups[c.at + 1]).refusal} :
            IF refusal # Null THEN FailFor(refusal) ELSE Continue(n, [c EXCEPT !.at = @ + 1])

GroupEmitMemory(n) ==
  LET c == own[n]
      end == Lower(c.at + (IF Node(n).wide THEN 1 ELSE BatchRows), Len(c.groups))
  IN /\ c.phase = "emitMemory"
     /\ IF c.at = Len(c.groups) THEN Continue(n, [c EXCEPT !.phase = "done"])
        ELSE OutputKept(n, [c EXCEPT !.at = end], SubSeq(c.groups, c.at + 1, end))

GroupEmitDisk(n) ==
  LET c == own[n]
      end == Lower(c.emitted + (IF Node(n).wide THEN 1 ELSE BatchRows), Len(c.results))
  IN /\ c.phase = "emitDisk"
     /\ IF c.emitted = Len(c.results) THEN Continue(n, [c EXCEPT !.phase = "done"])
        ELSE Output(n, [c EXCEPT !.emitted = end], SubSeq(c.results, c.emitted + 1, end))

Group(n) ==
  /\ Node(n).op = "group"
  /\ \/ own[n].phase = "create" /\ Continue(n, [own[n] EXCEPT !.phase = "read"])
     \/ own[n].phase = "read" /\ Ask(n, [own[n] EXCEPT !.phase = "await"], 1)
     \/ GroupAwait(n) \/ GroupCapture(n) \/ GroupHash(n) \/ GroupEncode(n) \/ GroupSort(n)
     \/ GroupReduce(n) \/ GroupOrder(n) \/ GroupCheck(n)
     \/ GroupEmitMemory(n) \/ GroupEmitDisk(n) \/ Ends(n)

----------------------------------------------------------------------------
(* Aggregates without keys, or with the loader's few keys: a slot for each. *)

Slots(n) == IF Node(n).slots = <<>> THEN <<Null>> ELSE Node(n).slots

NewDense(n) == [phase |-> "read", totals |-> [s \in DOMAIN Slots(n) |-> Null], used |-> {},
                at |-> 0, replayed |-> FALSE]

SlotOf(n, row) == IF Node(n).slots = <<>> THEN 1 ELSE CHOOSE s \in DOMAIN Slots(n) : Slots(n)[s] = row[1]

DenseConsume(n) ==
  LET c == own[n]
      Fold(totals, row) == [totals EXCEPT ![SlotOf(n, row)] = Plus(@, row[2])]
  IN /\ c.phase = "consume"
     /\ Continue(n, IF InputEnds(n) THEN [c EXCEPT !.phase = "check", !.at = 0]
          ELSE [c EXCEPT !.phase = "read", !.totals = FoldLeft(Fold, @, Input(n)),
                         !.used = @ \union {SlotOf(n, row) : row \in Range(Input(n))}])

SlotRow(n, s) == <<Slots(n)[s], own[n].totals[s]>>

\* A slot without rows gives nothing; without keys there is always one row.
Shown(n, from, to) ==
  SelectSeq([i \in 1 .. to - from |-> from + i],
            LAMBDA s : s \in own[n].used \/ Node(n).slots = <<>>)

JudgedSlots(n, slots) == [i \in DOMAIN slots |-> Judge(n, SlotRow(n, slots[i]))]

DenseCheck(n) ==
  LET c == own[n]
      end == Lower(c.at + WorkRows(n), Len(Slots(n)))
  IN /\ c.phase = "check"
     /\ \E judged \in {JudgedSlots(n, Shown(n, c.at, end))} :
          IF \E p \in DOMAIN judged : judged[p].refusal # Null
          THEN Refuse([p \in DOMAIN judged |-> judged[p].refusal])
          ELSE Continue(n, IF end = Len(Slots(n)) THEN [c EXCEPT !.phase = "emit", !.at = 0]
                           ELSE [c EXCEPT !.at = end])

\* Examine the slots until the batch is full.
EmitSlots(n, c, shown, judged, end) ==
  LET kept == SelectSeq([i \in DOMAIN shown |-> i], LAMBDA i : judged[i].keeps)
      next == IF Len(kept) < BatchRows THEN end ELSE shown[kept[BatchRows]]
  IN Output(n, [c EXCEPT !.at = next, !.phase = IF next = Len(Slots(n)) THEN "done" ELSE @],
            [i \in 1 .. Lower(BatchRows, Len(kept)) |-> judged[kept[i]].row])

DenseEmit(n) ==
  LET c == own[n]
      end == Lower(c.at + WorkRows(n), Len(Slots(n)))
  IN /\ c.phase = "emit"
     /\ \E shown \in {Shown(n, c.at, end)} : \E judged \in {JudgedSlots(n, shown)} :
          EmitSlots(n, c, shown, judged, end)

DenseGroups(n) ==
  /\ Node(n).op = "dense"
  /\ \/ own[n].phase = "read" /\ Ask(n, [own[n] EXCEPT !.phase = "consume"], 1)
     \/ DenseConsume(n) \/ DenseCheck(n) \/ DenseEmit(n) \/ Ends(n)

----------------------------------------------------------------------------
(* Replay. *)

\* Retained results can be given again once, and only when they are complete.
Replayable(n) ==
  LET c == own[n]
      complete == {"emit", "emitMemory", "emitDisk", "done"}
  IN CASE Node(n).op \in {"limit", "union"} -> TRUE
       [] Node(n).op = "scan" -> ~c.replayed
       [] OTHER -> ~c.replayed /\ c.phase \in complete

Rewound(n) ==
  LET c == own[n]
      op == Node(n).op
  IN CASE op = "scan" -> [NewScan EXCEPT !.replayed = TRUE]
       [] op = "limit" -> NewLimit(n)
       [] op = "union" -> [c EXCEPT !.side = 1, !.pending = c.visited, !.phase = "read"]
       [] op = "count" -> [c EXCEPT !.remaining = c.rows, !.phase = "emit", !.replayed = TRUE]
       [] op = "dense" -> [c EXCEPT !.at = 0, !.phase = "emit", !.replayed = TRUE]
       [] op = "group" -> [c EXCEPT !.at = 0, !.emitted = 0, !.replayed = TRUE,
                             !.phase = IF c.memory THEN "emitMemory" ELSE "emitDisk"]
       [] OTHER -> [c EXCEPT !.emitted = 0, !.phase = "emit", !.replayed = TRUE]

\* LIMIT retains no rows: its input is replayed next.
ReplayNode ==
  LET n == target IN
  /\ phase = "replay"
  /\ IF ~Replayable(n) THEN Fail("internal")
     ELSE /\ Becomes(n, Rewound(n)) /\ batch' = Cleared(n)
          /\ state' = [state EXCEPT ![n] = "ready"]
          /\ IF Node(n).op = "limit" THEN target' = Supplier(n, 1) /\ phase' = phase
             ELSE target' = target /\ phase' = "run"
          /\ UNCHANGED <<active, fault>>

----------------------------------------------------------------------------
(* Planning.  A node as written has expressions and WHERE trees; its source    *)
(* text gives their programs and one chain of filters. *)

AddDefinition(node, definition) ==
  [node EXCEPT !.definitions = Append(@, definition),
               !.schema = Append(@, [type |-> definition.type, nullable |-> definition.nullable])]

Defining(node, tree) ==
  AddDefinition(node, Definition(ParseExpression(ExpressionTokens(tree)), node.schema))

Filtering(node, tree) == [node EXCEPT !.filters = Compile(@, Tokens(tree))]

PlanNode(node) ==
  FoldLeft(Filtering, FoldLeft(Defining, node @@ [definitions |-> <<>>, filters |-> <<>>],
                               node.trees), node.wheres)

\* One conditional expression makes every node compute row by row.
InOrder(nodes) ==
  LET conditional == \E n \in DOMAIN nodes : \E d \in Range(nodes[n].definitions) : RequiresOrder(d)
  IN [n \in DOMAIN nodes |-> nodes[n] @@ [conditional |-> conditional]]

Planned(written) ==
  [written EXCEPT !.nodes = Once(InOrder, [n \in DOMAIN @ |-> PlanNode(@[n])])]

NewController(n) ==
  LET op == Node(n).op
  IN CASE op = "scan" -> NewScan [] op = "limit" -> NewLimit(n) [] op = "union" -> NewUnion
       [] op = "count" -> NewCount [] op = "group" -> NewGroup [] op = "dense" -> NewDense(n)
       [] OTHER -> NewRetain

Init ==
  /\ \E family \in DOMAIN Queries : \E written \in Queries[family] : query = Planned(written)
  /\ answer = Answer(query.nodes)
  /\ own = [n \in DOMAIN query.nodes |-> NewController(n)]
  /\ batch = [n \in DOMAIN query.nodes |-> <<>>]
  /\ state = [n \in DOMAIN query.nodes |-> "ready"]
  /\ active = Root /\ phase = "run" /\ target = Root
  /\ given = <<>> /\ fault = "none"

Ended == phase \in {"done", "failed"}

\* A step of the active producer; the caller gets the rows of the result batch.
Step ==
  /\ \/ /\ phase = "run"
        /\ \E n \in {active} : \/ Scan(n) \/ Limit(n) \/ Union(n) \/ Count(n) \/ Retain(n)
                               \/ Group(n) \/ DenseGroups(n)
     \/ ReplayNode
  /\ given' = given \o batch'[Root]
  /\ UNCHANGED <<query, answer>>

\* Reading the table, scratch files and cancellation can fail a step.
StepFails ==
  /\ ~Ended /\ query.faulty
  /\ Fail("io")
  /\ UNCHANGED <<query, answer, given>>

Terminated == Ended /\ UNCHANGED vars

Next == Step \/ StepFails \/ Terminated

\* The caller keeps stepping.  A query that has not ended can step, or TLC would
\* report a deadlock: this is weak fairness of Step with ENABLED written out.
Spec == Init /\ [][Next]_vars /\ ([]<>Ended \/ []<><<Step>>_vars)

----------------------------------------------------------------------------
\* The rows of a query are those its nodes denote, in order and once: whatever
\* the batches, the branches of its filters, hash fallbacks and replays
\* (docs/execution.md).  It fails on an expression only where one may fail, and
\* never because a producer refuses its part.
Promise == INSTANCE RowStream WITH
  answer <- answer,
  given <- given,
  state <- IF phase = "done" THEN "ended" ELSE IF phase = "failed" THEN "failed" ELSE "open",
  cause <- fault,
  replayed <- FALSE
ImplementsStream == Promise!Spec

\* A query that is stepped ends: no producer and consumer ask each other for
\* ever, and no replay repeats.
EveryQueryEnds == <>[]Ended

\* The nodes a node reads, and those that they read.
Below(n) ==
  LET b[m \in DOMAIN query.nodes] ==
        Range(Node(m).inputs) \union UNION {b[k] : k \in Range(Node(m).inputs)}
  IN b[n]

\* A LIMIT that has its rows lets nothing below it run (test/public/limit.rs:8):
\* neither a filter that drops them nor an OFFSET makes it read on.
SpentLimitsRest ==
  [][\A n \in DOMAIN query.nodes :
       Node(n).op = "limit" /\ own[n].skip = 0 /\ own[n].take = 0 /\ own'[n] = own[n]
       => \A m \in Below(n) : own'[m] = own[m] \/ phase = "replay"]_vars

\* A replay is asked only of a producer that can give its rows again
\* (docs/execution.md:98, src/execution/union.rs:8).
ReplaysAccepted == fault # "internal"
=============================================================================
