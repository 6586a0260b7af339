-------------------------- MODULE SortedOperators --------------------------
(***************************************************************************)
(* The operators that sort what they retain (src/execution/blocking):       *)
(* ORDER BY, DISTINCT and window functions (order.rs), equality joins       *)
(* (join.rs), EXCEPT and INTERSECT (sorted_set.rs).                         *)
(*                                                                          *)
(* Each feeds one or two external sorters a record at a time, finishes the  *)
(* sort and reads the result back, once more if the query asks for a replay.*)
(* The runtime calls one step at a time and supplies an input batch when a  *)
(* step asks for one.                                                       *)
(***************************************************************************)
EXTENDS ExternalSort

CONSTANTS
  Queries,          \* the operators and their inputs that Init chooses from
  BatchRows,        \* the most rows of a supplied batch
  OutputRows,       \* batch::ROWS: the most rows of one output batch
  ReadAhead,        \* the prefetch hint at the start of a group, in cells
  Verdict(_)        \* what the expressions after the operator make of a row:
                    \* "keep", "drop" or "fail"

VARIABLES
  query,            \* [op, width, keys, partition, argument, direct, rows, faulty]
  answer,           \* what the query must return: see Answer
  ctl,              \* the controller's Phase: [phase, side, row]
  source,           \* the rows each input has still to supply
  batch,            \* the supplied batch of each input
  staged,           \* the captured record, kept until the sorter accepts it
  ordinal,          \* the records accepted of each input
  retired,          \* the inputs whose staging and merge-right buffers are freed
  group,            \* ReplayGroup, or the join's bookmark in "start"
  total,            \* the running sum, or Null
  replayed,
  out               \* the rows returned since the start or the replay

question == <<query, answer>>
ownVars == <<question, ctl, source, batch, staged, ordinal, retired, group, total,
             replayed, out>>
ownExceptCtl == <<question, source, batch, staged, ordinal, retired, group, total,
                  replayed, out>>
vars == <<sortVars, ownVars>>

SetOps == {"exceptDistinct", "exceptAll", "intersectDistinct", "intersectAll"}
JoinOps == {"inner", "left"}
OrderOps == {"order", "distinct", "count", "partition", "sum"}
Inputs == IF query.op \in OrderOps THEN {0} ELSE {0, 1}

At(phase, side, row) == [phase |-> phase, side |-> side, row |-> row]
Now(phase) == At(phase, 0, 0)

NoMark == [offset |-> -1, remaining |-> 0]
NoGroup == [start |-> NoMark, rows |-> 0, remaining |-> 0]

\* Any error installs Failed; a step that succeeds installs the next phase.
Then(next) == ctl' = IF fault' = "none" THEN next ELSE Now("failed")

----------------------------------------------------------------------------
(* Collecting and sorting: the phases every operator has for each input. *)

Create(i) ==
  /\ ctl = At("create", i, 0)
  /\ GrowEmpty(i)
  /\ Then(At("read", i, 0))
  /\ UNCHANGED ownExceptCtl

\* The step asks for input; the runtime answers with a batch, empty at the end.
Read(i) ==
  /\ ctl = At("read", i, 0)
  /\ \E n \in IF source[i] = <<>> THEN {0} ELSE 1 .. Lower(BatchRows, Len(source[i])) :
       /\ batch' = [batch EXCEPT ![i] = SubSeq(source[i], 1, n)]
       /\ source' = [source EXCEPT ![i] = SubSeq(@, n + 1, Len(@))]
  /\ ctl' = At("await", i, 0)
  /\ UNCHANGED <<sortVars, question, staged, ordinal, retired, group, total, replayed, out>>

AwaitRows(i) ==
  /\ ctl = At("await", i, 0) /\ batch[i] # <<>>
  /\ ctl' = At("capture", i, 1)
  /\ UNCHANGED <<sortVars, question, source, batch, staged, ordinal, retired, group, total,
                 replayed, out>>

AwaitEnd(i) ==
  /\ ctl = At("await", i, 0) /\ batch[i] = <<>>
  /\ Finish(i)
  /\ Then(At("sort", i, 0))
  /\ UNCHANGED ownExceptCtl

\* Encode the next row, up to the admitted number of rows.
Capture(i) ==
  LET row == ctl.row IN
  /\ ctl = At("capture", i, row) /\ row <= Len(batch[i])
  /\ fault' = IF i \in retired THEN "internal"
              ELSE IF ordinal[i] = MaxRows THEN "limit" ELSE fault
  /\ staged' = [staged EXCEPT ![i] =
       Record(Encode(layout[i], batch[i][row]), <<>>, ordinal[i])]
  /\ Then(At("push", i, row))
  /\ UNCHANGED <<layout, sort, buffer, files, merge, pair, cursor>>
  /\ UNCHANGED <<question, source, batch, ordinal, retired, group, total, replayed, out>>

BatchCaptured(i) ==
  /\ ctl = At("capture", i, ctl.row) /\ ctl.row > Len(batch[i])
  /\ ctl' = At("read", i, 0)
  /\ UNCHANGED <<sortVars, question, source, batch, staged, ordinal, retired, group, total,
                 replayed, out>>

\* A full buffer leaves the record staged: spill, then push it again.
PushRow(i) ==
  LET accepted == sort'[i].phase = "collect" IN
  /\ ctl = At("push", i, ctl.row)
  /\ Push(i, staged[i])
  /\ ordinal' = [ordinal EXCEPT ![i] = IF fault' = "none" /\ accepted THEN @ + 1 ELSE @]
  /\ Then(IF accepted THEN At("capture", i, ctl.row + 1) ELSE At("spill", i, ctl.row))
  /\ UNCHANGED <<question, source, batch, staged, retired, group, total, replayed, out>>

Spill(i) ==
  /\ ctl = At("spill", i, ctl.row)
  /\ SortStep(i)
  /\ Then(IF sort'[i].phase = "collect" THEN At("push", i, ctl.row) ELSE ctl)
  /\ UNCHANGED ownExceptCtl

Sorting(i) ==
  /\ ctl = At("sort", i, 0)
  /\ SortStep(i)
  /\ Then(ctl)
  /\ UNCHANGED ownExceptCtl

Collect(i) ==
  \/ Create(i) \/ Read(i) \/ AwaitRows(i) \/ AwaitEnd(i) \/ Capture(i) \/ BatchCaptured(i)
  \/ PushRow(i) \/ Spill(i) \/ Sorting(i)

----------------------------------------------------------------------------
(* Reading back: what the operators share. *)

\* Consume the loaded records of some inputs, and remember them or not.
Consume(inputs, remember) ==
  /\ cursor' = [s \in Sides |-> IF s \in inputs
       THEN [cursor[s] EXCEPT ![0] = Consumed(@)] ELSE cursor[s]]
  /\ pair' = [s \in Sides |-> IF s \in inputs \intersect remember
       THEN [pair[s] EXCEPT !.previous = Remembered(s, Reading(s).record)] ELSE pair[s]]

\* SortedInput::load, for a cursor that needs it; the step then yields.
LoadInput(i) ==
  /\ NeedsLoad(i)
  /\ LoadRead(i)
  /\ Then(ctl)
  /\ UNCHANGED ownExceptCtl

AtEnd(i) == Exhausted(Reading(i))

\* A query with direct output has no filter and no expression.
JudgedBy(q, row) == IF q.direct THEN "keep" ELSE Verdict(row)
Judged(row) == JudgedBy(query, row)

\* Mutant: a row that the filter drops consumes nothing.
DeliverKept(row, inputs, remember) ==
  /\ fault' = IF Judged(row) = "fail" THEN "expression" ELSE fault
  /\ IF Judged(row) = "keep" THEN out' = Append(out, row) /\ Consume(inputs, remember)
     ELSE UNCHANGED <<cursor, pair, out>>

\* Return a row unless a filter drops it, consume the records of "inputs" and
\* remember them if the operator compares; the row's expressions may fail.
Deliver(row, inputs, remember) ==
  /\ fault' = IF Judged(row) = "fail" THEN "expression" ELSE fault
  /\ IF Judged(row) = "fail" THEN UNCHANGED <<cursor, pair, out>>
     ELSE /\ out' = IF Judged(row) = "keep" THEN Append(out, row) ELSE out
          /\ Consume(inputs, remember)

----------------------------------------------------------------------------
(* ORDER BY, DISTINCT and window functions (Order). *)

Grouped == query.op \in {"partition", "sum"}
ReadPhase == Now(IF Grouped THEN "countLoad" ELSE "load")
readVars == <<layout, sort, buffer, files, merge>>
inputVars == <<question, source, batch, staged, ordinal, retired, replayed>>

OrderSorted ==
  /\ ctl = At("sort", 0, 0)
  /\ MergeFinal(0, {0}, {0})
  /\ Then(ReadPhase)
  /\ group' = NoGroup /\ total' = Null
  /\ UNCHANGED <<inputVars, out>>

\* The group is counted: go back to its first record and emit it.
EmitGroup ==
  Ensure(group.rows > 0 /\ CanRewind(Reading(0), group.start),
    /\ SetReading(0, Rewound(Reading(0), group.start))
    /\ pair' = [pair EXCEPT ![0].previous.ordinal = -1]
    /\ UNCHANGED <<sort, buffer, files, merge>>)
  /\ group' = [group EXCEPT !.remaining = group.rows]
  /\ Then(Now("load"))
  /\ UNCHANGED <<inputVars, total, out>>

OrderCountLoad ==
  /\ ctl = Now("countLoad") /\ ~NeedsLoad(0)
  /\ IF AtEnd(0) /\ group.rows > 0 THEN EmitGroup
     ELSE /\ ctl' = Now(IF AtEnd(0) THEN "done" ELSE "count")
          /\ UNCHANGED <<sortVars, ownExceptCtl>>

Sum(a, b) == IF b = Null THEN a ELSE IF a = Null THEN b ELSE Number(a.n + b.n)

\* Count the loaded row into the group, or leave it and emit the group before.
OrderCount ==
  LET r == Reading(0).record
      previous == pair[0].previous
      starts == group.rows = 0
      next == previous.ordinal # -1 /\ CompareKeys(layout[0], previous.fields, r.fields) < 0
      newPartition == /\ starts /\ previous.ordinal # -1
                      /\ ComparePrefix(layout[0], previous.fields, r.fields, query.partition) # 0
  IN /\ ctl = Now("count")
     /\ IF InOrder(0) /\ ~starts /\ next THEN EmitGroup
        ELSE /\ Ensure(/\ InOrder(0) /\ (starts => ~KeyIsRepeated(0))
                       /\ group.rows < ordinal[0],
                  /\ SetReading(0, Consumed(IF starts THEN LimitReadAhead(Reading(0), ReadAhead)
                                            ELSE Reading(0)))
                  /\ pair' = [pair EXCEPT ![0].previous = Remembered(0, r)]
                  /\ UNCHANGED <<sort, buffer, files, merge>>)
             /\ total' = IF query.op # "sum" THEN total
                         ELSE Sum(IF newPartition THEN Null ELSE total,
                                  RowRead(0)[query.argument])
             /\ group' = [group EXCEPT !.rows = @ + 1,
                                       !.start = IF starts THEN Bookmark(Reading(0)) ELSE @]
             /\ Then(Now("countLoad"))
             /\ UNCHANGED <<inputVars, out>>

OrderLoad ==
  /\ ctl = Now("load") /\ ~NeedsLoad(0)
  /\ Ensure(AtEnd(0) /\ Grouped => group.remaining = 0,
            UNCHANGED <<sort, buffer, files, merge, pair, cursor>>)
  /\ Then(Now(IF AtEnd(0) THEN "done" ELSE "emit"))
  /\ UNCHANGED ownExceptCtl

Analytic ==
  CASE query.op = "count" -> <<Number(ordinal[0])>>
    [] query.op = "partition" -> <<Number(group.rows)>>
    [] query.op = "sum" -> <<total>>
    [] OTHER -> <<>>

\* A duplicate is skipped before its expressions run; every row is remembered.
OrderEmit ==
  LET r == Reading(0).record
      sameKey == CompareKeys(layout[0], pair[0].previous.fields, r.fields) = 0
      duplicate == query.op = "distinct" /\ KeyIsRepeated(0)
      last == group.remaining = 1
  IN /\ ctl = Now("emit")
     /\ IF ~InOrder(0) \/ (Grouped /\ (group.remaining = 0 \/ ~sameKey))
        THEN fault' = "internal" /\ UNCHANGED <<cursor, pair, out>>
        ELSE IF duplicate THEN Consume({0}, {0}) /\ UNCHANGED <<fault, out>>
        ELSE Deliver(RowRead(0) \o Analytic, {0}, {0})
     /\ group' = IF ~Grouped THEN group ELSE IF last THEN NoGroup
                 ELSE [group EXCEPT !.remaining = @ - 1]
     /\ Then(Now(IF Grouped /\ last THEN "countLoad" ELSE "load"))
     /\ UNCHANGED <<readVars, inputVars, total>>

OrderReads ==
  \/ ctl.phase \in {"countLoad", "load"} /\ LoadInput(0)
  \/ OrderCountLoad \/ OrderCount \/ OrderLoad \/ OrderEmit

OrderStep == query.op \in OrderOps /\ (Collect(0) \/ OrderSorted \/ OrderReads)

OrderReplay ==
  /\ query.op \in OrderOps /\ ~replayed
  /\ ctl.phase \in {"countLoad", "count", "load", "emit", "done"}
  /\ BeginRead({0}, {0})
  /\ group' = NoGroup /\ total' = Null /\ out' = <<>> /\ replayed' = TRUE
  /\ ctl' = ReadPhase
  /\ UNCHANGED <<readVars, fault, question, source, batch, staged, ordinal, retired>>

----------------------------------------------------------------------------
(* Equality joins (Join). *)

JoinKey(i) == Fields(i)[1]

\* The left key against the right one, or against the end of the right input.
KeyOrder == IF AtEnd(1) THEN -1 ELSE CompareValues(JoinKey(0), JoinKey(1))

\* Mutant: keys that sort together match.
KeysMatchSorted == KeyOrder = 0

\* Sorting puts NULLs together and NaNs together; equality accepts neither.
KeysMatch == KeyOrder = 0 /\ JoinKey(0) \notin {Null, NaN}

\* Input 0 is sorted: free what only collecting and merging need, then collect
\* input 1.  With both sorted, matching starts.
JoinSorted(i) ==
  /\ ctl = At("sort", i, 0)
  /\ MergeFinal(i, {i}, {})
  /\ retired' = IF i = 0 THEN retired \union {0} ELSE retired
  /\ Then(IF i = 0 THEN At("create", 1, 0) ELSE Now("seek"))
  /\ UNCHANGED <<question, source, batch, staged, ordinal, group, total, replayed, out>>

\* Load the left cursor, and the right one only if the left needed nothing.
LoadBoth == LoadInput(0) \/ (~NeedsLoad(0) /\ LoadInput(1))
BothLoaded == ~NeedsLoad(0) /\ ~NeedsLoad(1)

JoinSeeking == ctl = Now("seek") /\ BothLoaded
LeftUnmatched == ~AtEnd(0) /\ KeyOrder <= 0 /\ ~KeysMatch

JoinEnds ==
  /\ JoinSeeking
  /\ AtEnd(0) \/ (AtEnd(1) /\ query.op = "inner")
  /\ ctl' = Now("done")
  /\ UNCHANGED <<sortVars, ownExceptCtl>>

JoinUnmatched ==
  /\ JoinSeeking /\ LeftUnmatched /\ query.op = "left"
  /\ ctl' = Now("unmatched")
  /\ UNCHANGED <<sortVars, ownExceptCtl>>

JoinSkip ==
  /\ JoinSeeking /\ ~AtEnd(0) /\ ~AtEnd(1)
  /\ \/ LeftUnmatched /\ query.op = "inner" /\ Consume({0}, {})
     \/ KeyOrder > 0 /\ Consume({1}, {})
  /\ UNCHANGED <<readVars, fault, ctl, ownExceptCtl>>

\* Remember where the right group starts and its key.
JoinMatch ==
  /\ JoinSeeking /\ ~AtEnd(0) /\ ~AtEnd(1) /\ KeysMatch
  /\ group' = [NoGroup EXCEPT !.start = Bookmark(Reading(1))]
  /\ pair' = [pair EXCEPT ![1].previous = Remembered(1, Reading(1).record)]
  /\ SetReading(1, LimitReadAhead(Reading(1), ReadAhead))
  /\ ctl' = Now("emit")
  /\ UNCHANGED <<readVars, fault, inputVars, total, out>>

Nulls(i) == [c \in 1 .. Len(layout[i].columns) |-> Null]

\* One pair, or an unmatched left row: advance by match, whatever a filter says.
JoinEmit ==
  /\ ctl.phase = "unmatched" \/ (ctl.phase = "emit" /\ ~query.direct)
  /\ IF ctl.phase = "emit" THEN Deliver(RowRead(0) \o RowRead(1), {1}, {})
     ELSE Deliver(RowRead(0) \o Nulls(1), {0}, {})
  /\ Then(Now(IF ctl.phase = "emit" THEN "right" ELSE "seek"))
  /\ UNCHANGED <<readVars, inputVars, group, total>>

\* Direct fixed-width output fills a batch with the matches of one left row.
Paired(st) == Append(st.rows, RowRead(0) \o Decode(layout[1], st.cursor.record.fields))
NextMatch(rows, next) ==
  [cursor |-> next.cursor, rows |-> rows, ok |-> next.ok,
   more |-> next.read /\ CompareValues(JoinKey(0), next.cursor.record.fields[1]) = 0]
Fill(st, n) ==
  IF ~st.more THEN st
  ELSE IF n = OutputRows
       THEN [st EXCEPT !.cursor = Consumed(@), !.rows = Paired(st), !.more = FALSE]
  ELSE NextMatch(Paired(st), Load(1, Consumed(st.cursor), merge[1].slot))

JoinEmitFixed ==
  /\ ctl = Now("emit") /\ query.direct
  /\ \E filled \in {FoldLeft(Fill, [cursor |-> Reading(1), rows |-> <<>>, more |-> TRUE, ok |-> TRUE],
                             [n \in 1 .. OutputRows |-> n])} :
       /\ Ensure(filled.ok,
            /\ SetReading(1, filled.cursor)
            /\ UNCHANGED <<sort, buffer, files, merge, pair>>)
       /\ out' = out \o filled.rows
  /\ Then(Now("right"))
  /\ UNCHANGED <<inputVars, group, total>>

\* Walk the right group; when it ends, the left row is spent.
JoinRight ==
  LET same == KeyOrder = 0 IN
  /\ ctl = Now("right") /\ ~NeedsLoad(1)
  /\ IF same THEN UNCHANGED <<cursor, pair>> ELSE Consume({0}, {})
  /\ ctl' = Now(IF same THEN "emit" ELSE "left")
  /\ UNCHANGED <<readVars, fault, ownExceptCtl>>

\* Another left row with the group's key needs the right group again.
JoinLeft ==
  LET same == ~AtEnd(0) /\ CompareKeys(layout[0], Fields(0), pair[1].previous.fields) = 0 IN
  /\ ctl = Now("left") /\ ~NeedsLoad(0)
  /\ Ensure(same => CanRewind(Reading(1), group.start),
       /\ IF same THEN SetReading(1, Rewound(Reading(1), group.start)) ELSE UNCHANGED cursor
       /\ UNCHANGED <<sort, buffer, files, merge, pair>>)
  /\ group' = IF same \/ AtEnd(0) THEN group ELSE NoGroup
  /\ Then(Now(IF AtEnd(0) THEN "done" ELSE IF same THEN "right" ELSE "seek"))
  /\ UNCHANGED <<inputVars, total, out>>

JoinReads ==
  \/ ctl.phase = "seek" /\ LoadBoth
  \/ ctl.phase = "right" /\ LoadInput(1)
  \/ ctl.phase = "left" /\ LoadInput(0)
  \/ JoinEnds \/ JoinUnmatched \/ JoinSkip \/ JoinMatch
  \/ JoinEmit \/ JoinEmitFixed \/ JoinRight \/ JoinLeft

JoinStep ==
  query.op \in JoinOps /\ (JoinReads \/ \E i \in Inputs : Collect(i) \/ JoinSorted(i))

JoinReplay ==
  /\ query.op \in JoinOps /\ ~replayed
  /\ ctl.phase \in {"seek", "emit", "right", "left", "done"}
  /\ BeginRead({0, 1}, {})
  /\ group' = NoGroup /\ out' = <<>> /\ replayed' = TRUE
  /\ ctl' = Now("seek")
  /\ UNCHANGED <<readVars, fault, question, source, batch, staged, ordinal, retired, total>>

----------------------------------------------------------------------------
(* EXCEPT and INTERSECT (SortedSet). *)

\* Both inputs are collected and sorted before the first comparison.
SetSorted(i) ==
  /\ ctl = At("sort", i, 0)
  /\ MergeFinal(i, IF i = 0 THEN {} ELSE {0, 1}, IF i = 0 THEN {} ELSE {0, 1})
  /\ Then(IF i = 0 THEN At("create", 1, 0) ELSE Now("seek"))
  /\ UNCHANGED ownExceptCtl

SetSeeking == ctl = Now("seek") /\ BothLoaded
LeftRepeats == query.op \in {"exceptDistinct", "intersectDistinct"} /\ KeyIsRepeated(0)
SetOrder == IF AtEnd(1) THEN -1 ELSE CompareKeys(layout[0], Fields(0), Fields(1))
Intersects == query.op \in {"intersectDistinct", "intersectAll"}

SetEnds ==
  /\ SetSeeking
  /\ AtEnd(0) \/ (~AtEnd(0) /\ AtEnd(1) /\ Intersects /\ ~LeftRepeats)
  /\ Ensure(~AtEnd(0) => InOrder(0), UNCHANGED <<sort, buffer, files, merge, pair, cursor>>)
  /\ Then(Now("done"))
  /\ UNCHANGED ownExceptCtl

\* A left row that nothing selects, a right row that nothing matches, or with
\* EXCEPT ALL one of each: ALL spends one right occurrence for each match.
SetSkip(inputs) ==
  Ensure(InOrder(0) /\ (~LeftRepeats => InOrder(1)),
    Consume(inputs, inputs) /\ UNCHANGED <<sort, buffer, files, merge>>)

Skippable(order) ==
  CASE order < 0 -> IF Intersects THEN {0} ELSE {}
    [] order > 0 -> {1}
    [] OTHER -> IF query.op = "exceptDistinct" THEN {0}
                ELSE IF query.op = "exceptAll" THEN {0, 1} ELSE {}

SetSkips ==
  /\ SetSeeking /\ ~AtEnd(0)
  /\ \E inputs \in {IF LeftRepeats THEN {0} ELSE IF AtEnd(1) THEN {} ELSE Skippable(SetOrder)} :
       inputs # {} /\ SetSkip(inputs)
  /\ Then(ctl)
  /\ UNCHANGED ownExceptCtl

\* The left row is selected; INTERSECT ALL spends the right row it matched.
SetSelects ==
  LET matched == SetOrder = 0 /\ Intersects
      spent == IF query.op = "intersectAll" THEN {1} ELSE {} IN
  /\ SetSeeking /\ ~AtEnd(0) /\ ~LeftRepeats
  /\ matched \/ (~Intersects /\ SetOrder < 0)
  /\ Ensure(InOrder(0) /\ (~AtEnd(1) => InOrder(1)),
       Consume(IF matched THEN spent ELSE {}, {1}) /\ UNCHANGED <<sort, buffer, files, merge>>)
  /\ Then(Now("emit"))
  /\ UNCHANGED ownExceptCtl

SetEmit ==
  /\ ctl = Now("emit")
  /\ Deliver(RowRead(0), {0}, {0})
  /\ Then(Now("seek"))
  /\ UNCHANGED <<readVars, inputVars, group, total>>

SetReads ==
  (ctl.phase = "seek" /\ LoadBoth) \/ SetEnds \/ SetSkips \/ SetSelects \/ SetEmit

SetStep ==
  query.op \in SetOps /\ (SetReads \/ \E i \in Inputs : Collect(i) \/ SetSorted(i))

SetReplay ==
  /\ query.op \in SetOps /\ ~replayed
  /\ ctl.phase \in {"seek", "emit", "done"}
  /\ BeginRead({0, 1}, {0, 1})
  /\ out' = <<>> /\ replayed' = TRUE
  /\ ctl' = Now("seek")
  /\ UNCHANGED <<readVars, fault, question, source, batch, staged, ordinal, retired, group, total>>

----------------------------------------------------------------------------
(* The answer a query must return, from its rows alone. *)

\* The rows of an input in stable order.
Stable(keys, rows) ==
  LET first(a, b) == Precedes(keys, rows[a], rows[b]) \/ (Peers(keys, rows[a], rows[b]) /\ a < b)
      order == SetToSortSeq(1 .. Len(rows), first)
  IN [p \in 1 .. Len(rows) |-> rows[order[p]]]

Copies(keys, row, rows) == Cardinality({p \in 1 .. Len(rows) : Peers(keys, row, rows[p])})

\* Positions kept by a condition, as the sequence of rows at them.
Kept(rows, Keep(_)) ==
  LET at == SetToSortSeq({p \in 1 .. Len(rows) : Keep(p)}, <)
  IN [p \in 1 .. Len(at) |-> rows[at[p]]]

Windowed(q, sorted) ==
  LET Part(a, b) == \A p \in 1 .. q.partition :
                      Same(a[q.keys[p].column], b[q.keys[p].column])
      Counted(row) == {p \in 1 .. Len(sorted) :
                         Part(row, sorted[p]) /\ ~Precedes(q.keys, row, sorted[p])}
      Summed(row) == {p \in Counted(row) : sorted[p][q.argument] # Null}
      SumOver(S) == IF S = {} THEN Null
                    ELSE Number(MapThenSumSet(LAMBDA p : sorted[p][q.argument].n, S))
  IN [p \in 1 .. Len(sorted) |-> Append(sorted[p],
        CASE q.op = "count" -> Number(Len(sorted))
          [] q.op = "partition" -> Number(Copies(q.keys, sorted[p], sorted))
          [] OTHER -> SumOver(Summed(sorted[p])))]

\* The matches of one left row, or the row with NULLs.
Joined(q, l, right) ==
  LET matches == Kept(right, LAMBDA p : /\ l[q.keys[1].column] \notin {Null, NaN}
                                        /\ Peers(q.keys, l, right[p]))
      nulls == [c \in 1 .. q.width |-> Null]
  IN IF matches = <<>> /\ q.op = "left" THEN <<l \o nulls>>
     ELSE [p \in 1 .. Len(matches) |-> l \o matches[p]]

Combined(q, left, right) ==
  LET rank(p) == Cardinality({k \in 1 .. p : Peers(q.keys, left[k], left[p])})
      found(p) == Copies(q.keys, left[p], right)
      chosen(p) == CASE q.op = "exceptDistinct" -> rank(p) = 1 /\ found(p) = 0
                     [] q.op = "intersectDistinct" -> rank(p) = 1 /\ found(p) > 0
                     [] q.op = "exceptAll" -> rank(p) > found(p)
                     [] OTHER -> rank(p) <= found(p)
  IN Kept(left, chosen)

Result(q, left, right) ==
  CASE q.op = "order" -> left
    [] q.op = "distinct" ->
         Kept(left, LAMBDA p : \A k \in 1 .. p - 1 : ~Peers(q.keys, left[k], left[p]))
    [] q.op \in {"count", "partition", "sum"} -> Windowed(q, left)
    [] q.op \in JoinOps -> FlattenSeq([p \in 1 .. Len(left) |-> Joined(q, left[p], right)])
    [] OTHER -> Combined(q, left, right)

\* Expressions run on demand: nothing after the first failing row is returned.
FailingRows(q, rows) == {p \in 1 .. Len(rows) : JudgedBy(q, rows[p]) = "fail"}
Told(q, failing, given) ==
  [rows |-> given,
   fails |-> failing # {},
   failAt |-> IF failing = {} THEN {} ELSE {Len(given)},
   refused |-> \E i \in Sides : Len(q.rows[i]) > MaxRows]
Judgement(q, rows) ==
  Told(q, FailingRows(q, rows),
       Kept(rows, LAMBDA p : /\ JudgedBy(q, rows[p]) = "keep"
                             /\ \A f \in FailingRows(q, rows) : p < f))
Answer(q) == Judgement(q, Result(q, Stable(q.keys, q.rows[0]), Stable(q.keys, q.rows[1])))

----------------------------------------------------------------------------
Init ==
  /\ query \in Queries
  /\ answer = Answer(query)
  /\ layout = [i \in Sides |-> Layout(query.width, query.keys)]
  /\ SortInit
  /\ ctl = At("create", 0, 0)
  /\ source = query.rows
  /\ batch = [i \in Sides |-> <<>>]
  /\ staged = [i \in Sides |-> NoRecord]
  /\ ordinal = [i \in Sides |-> 0]
  /\ retired = {} /\ group = NoGroup /\ total = Null
  /\ replayed = FALSE /\ out = <<>>

Ended == ctl.phase \in {"done", "failed"}

\* File access, a checksum or cancellation fails the step: the query drops the
\* sorters and their files, and keeps nothing to retry.
StepFails ==
  /\ ~Ended /\ query.faulty
  /\ fault' = "io"
  /\ ctl' = Now("failed")
  /\ sort' = NewSort /\ buffer' = NewBuffers /\ writer' = NewWriters /\ disk' = NewFiles
  /\ merge' = NewMerges /\ pair' = NewPairs /\ cursor' = NewCursors
  /\ source' = [i \in Sides |-> <<>>] /\ batch' = source' /\ group' = NoGroup /\ total' = Null
  /\ staged' = [i \in Sides |-> NoRecord] /\ ordinal' = [i \in Sides |-> 0]
  /\ UNCHANGED <<layout, question, retired, replayed, out>>

Step == OrderStep \/ JoinStep \/ SetStep
Replay == OrderReplay \/ JoinReplay \/ SetReplay
Terminated == Ended /\ UNCHANGED vars

Next == Step \/ Replay \/ StepFails \/ Terminated

\* The caller of a query keeps stepping it until it ends.  A query that has not
\* ended can step, or TLC would report a deadlock (not every query is faulty):
\* this is weak fairness of Step with ENABLED written out.
Spec == Init /\ [][Next]_vars /\ ([]<>Ended \/ []<><<Step>>_vars)

----------------------------------------------------------------------------
\* No step meets a state its checks reject or an assertion excludes, whatever
\* runs, passes, rewinds and replays came before: Error::Corrupt and panics are
\* for damaged scratch only (blocking.rs, order.rs, join.rs, sorted_set.rs).
NothingInternal ==
  /\ fault # "internal"
  /\ \A i \in Inputs : sort[i].phase = "done" /\ AtEnd(i) =>
       Reading(i).offset = Reading(i).run.end

\* Each operator gives the rows of the answer, in order and once, fails on an
\* expression exactly where the answer does, refuses only an input of more rows
\* than the engine sorts, and gives all of it again on replay.
Promise == INSTANCE RowStream WITH
  given <- out,
  state <- IF ctl.phase = "done" THEN "ended"
           ELSE IF ctl.phase = "failed" THEN "failed" ELSE "open",
  cause <- fault
ImplementsStream == Promise!Spec

\* A query that is stepped ends: no operator waits on itself for ever, however
\* the runs spill, the passes alternate and the groups rewind.
EveryQueryEnds == <>[]Ended
=============================================================================
