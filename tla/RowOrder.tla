------------------------------ MODULE RowOrder ------------------------------
(***************************************************************************)
(* Rows and their order in the blocking operators                           *)
(* (src/execution/blocking/record.rs).                                      *)
(*                                                                          *)
(* A value is NULL, NaN or a number.  "bits" tells apart values that        *)
(* grouping treats as equal, like the two zeros: comparison ignores it and  *)
(* encoding keeps it.  Text, dates and integers order like numbers.         *)
(***************************************************************************)
EXTENDS Integers, FiniteSets, Sequences, SequencesExt

Null == [kind |-> "null", n |-> 0, bits |-> 0]
NaN == [kind |-> "nan", n |-> 0, bits |-> 0]
Number(n) == [kind |-> "number", n |-> n, bits |-> 0]
NegativeZero == [kind |-> "number", n |-> 0, bits |-> 1]

Least(S) == CHOOSE x \in S : \A y \in S : x <= y
Lower(a, b) == IF a < b THEN a ELSE b
HalfUp(n) == (n + 1) \div 2

Compare(a, b) == IF a < b THEN -1 ELSE IF a = b THEN 0 ELSE 1

\* NULL first, then NaN, then numbers; NULLs are alike, and so are NaNs.
Class(v) == CASE v.kind = "null" -> 0 [] v.kind = "nan" -> 1 [] OTHER -> 2

CompareValues(a, b) ==
  IF Class(a) # Class(b) THEN Compare(Class(a), Class(b)) ELSE Compare(a.n, b.n)

\* One ORDER BY item: the column of the input row and its policy.
Key(column) == [column |-> column, descending |-> FALSE, nullsLast |-> FALSE]
KeyWith(column, descending, nullsLast) ==
  [column |-> column, descending |-> descending, nullsLast |-> nullsLast]

\* A layout stores the comparison fields first and every field once: a repeated
\* item adds nothing, and each key is swapped into the next key position.
Placed(width, l, k) ==
  IF \E p \in 1 .. l.keys : l.columns[p].column = k.column THEN l
  ELSE LET at == l.keys + 1
           from == CHOOSE p \in at .. width : l.columns[p].column = k.column
       IN [columns |-> [l.columns EXCEPT ![from] = l.columns[at], ![at] = k],
           keys |-> at]

Unplaced(width) == [columns |-> [p \in 1 .. width |-> Key(p)], keys |-> 0]

Layout(width, order) ==
  FoldLeft(LAMBDA l, k : Placed(width, l, k), Unplaced(width), order)

\* Rows are stored in layout order and given back in input order.
Encode(layout, row) == [p \in 1 .. Len(row) |-> row[layout.columns[p].column]]

Decode(layout, fields) ==
  [c \in 1 .. Len(fields) |->
     fields[CHOOSE p \in 1 .. Len(fields) : layout.columns[p].column = c]]

\* Mutant: DESC reverses NULLs too.
CompareFieldReversed(column, a, b) ==
  IF column.descending THEN CompareValues(b, a) ELSE CompareValues(a, b)

\* DESC reverses values and leaves the placement of NULL alone.
CompareField(column, a, b) ==
  LET reverse == IF a = Null \/ b = Null THEN column.nullsLast ELSE column.descending
  IN IF reverse THEN CompareValues(b, a) ELSE CompareValues(a, b)

\* The first comparison that tells two things apart decides.
Lexicographic(order) ==
  LET differ == {p \in DOMAIN order : order[p] # 0}
  IN IF differ = {} THEN 0 ELSE order[Least(differ)]

ComparePrefix(layout, a, b, keys) ==
  Lexicographic([p \in 1 .. keys |-> CompareField(layout.columns[p], a[p], b[p])])

CompareKeys(layout, a, b) == ComparePrefix(layout, a, b, layout.keys)

\* A record carries the row's fields, the evaluated aggregate arguments and the
\* input ordinal, which breaks ties between equal keys.
Record(fields, arguments, ordinal) ==
  [fields |-> fields, arguments |-> arguments, ordinal |-> ordinal]

NoRecord == Record(<<>>, <<>>, -1)

CompareRecords(layout, a, b) ==
  Lexicographic(<<CompareKeys(layout, a.fields, b.fields), Compare(a.ordinal, b.ordinal)>>)

\* A frame takes a header, a cell for each field that is not NULL and a word
\* for each argument.
Present(fields) == {p \in 1 .. Len(fields) : fields[p] # Null}
RecordWidth(r) == 1 + Cardinality(Present(r.fields)) + Len(r.arguments)

-----------------------------------------------------------------------------
(* The order a query asks for, from its items alone.                        *)

Smaller(x, y) == (x = NaN /\ y # NaN) \/ (NaN \notin {x, y} /\ x.n < y.n)

Ahead(key, x, y) ==
  IF Null \in {x, y} THEN x # y /\ (y = Null <=> key.nullsLast)
  ELSE IF key.descending THEN Smaller(y, x) ELSE Smaller(x, y)

Same(x, y) == ~Ahead(Key(1), x, y) /\ ~Ahead(Key(1), y, x)

\* Row a sorts before row b on a list of keys.
Precedes(keys, a, b) ==
  \E p \in 1 .. Len(keys) :
    /\ Ahead(keys[p], a[keys[p].column], b[keys[p].column])
    /\ \A q \in 1 .. p - 1 : Same(a[keys[q].column], b[keys[q].column])

Peers(keys, a, b) == \A p \in 1 .. Len(keys) : Same(a[keys[p].column], b[keys[p].column])
=============================================================================
