------------------------------ MODULE MCRuntime ------------------------------
(* Small queries: WHERE trees over every kind of value, expressions, and        *)
(* pipelines whose groupings fall back and replay what is below them.          *)
EXTENDS Runtime

Seqs(S, n) == UNION {[1 .. k -> S] : k \in 0 .. n}
One == Number(1)
Two == Number(2)
Three == Number(3)

Slot(type, nullable) == [type |-> type, nullable |-> nullable]
Doubles == <<Slot("double", TRUE), Slot("double", TRUE)>>

\* Expression trees.
Leaf(op) == <<op @@ [args |-> <<>>]>>
Shift(tree, by) ==
  [i \in DOMAIN tree |-> [tree[i] EXCEPT !.args = [k \in DOMAIN @ |-> @[k] + by]]]
Joined(a, b) == a \o Shift(b, Len(a))
Of1(name, a) == Append(a, Op(name) @@ [args |-> <<Len(a)>>])
Over(op, a, b) == Append(Joined(a, b), op @@ [args |-> <<Len(a), Len(a) + Len(b)>>])
Of2(name, a, b) == Over(Op(name), a, b)
Decided(op, left, right, k, m) ==
  Append(Joined(left, right), op @@ [args |-> <<k, Len(left), Len(left) + m, Len(left) + Len(right)>>])
If(a, test, b, yes, no) == Decided(Case(test), Joined(a, b), Joined(yes, no), Len(a), Len(yes))
Constant(value) == Leaf(Literal(value))
V == Leaf(Column(2))

\* A division that fails where the value is 3.
Ratio == <<Literal(Number(6)) @@ [args |-> <<>>], Column(2) @@ [args |-> <<>>],
           Literal(Three) @@ [args |-> <<>>],
           Op("Subtract") @@ [args |-> <<2, 3>>], Op("Divide") @@ [args |-> <<1, 4>>]>>

Bare ==
  [op |-> "scan", inputs |-> <<>>, wheres |-> <<>>, schema |-> Doubles,
   trees |-> <<>>, columns |-> <<1, 2>>,
   wide |-> FALSE, units |-> <<>>, offset |-> 0, count |-> 0,
   room |-> 0, ordered |-> FALSE, slots |-> <<>>]
With(node, tree) == [node EXCEPT !.trees = Append(@, tree)]
Dividing == With(Bare, Ratio)
Plain(op, inputs) == [Dividing EXCEPT !.op = op, !.inputs = inputs]
Scanning(units) == [Plain("scan", <<>>) EXCEPT !.units = units]
Limiting(input, offset, count) ==
  [Plain("limit", <<input>>) EXCEPT !.offset = offset, !.count = count]
Grouping(input, room) == [Plain("group", <<input>>) EXCEPT !.room = room]
Computing(node) == [node EXCEPT !.columns = <<1, 3>>]

\* The node with one more WHERE.
Where(node, tree) == [node EXCEPT !.wheres = Append(@, tree)]

Query(nodes) == [nodes |-> nodes, faulty |-> FALSE]

----------------------------------------------------------------------------
(* WHERE trees, over a scan of rows with every kind of key and value. *)

Compares(column, test, literal) == Operand("compare", column, test, <<literal>>, FALSE)
Operands ==
  {Compares(1, "=", One), Compares(1, "notDistinct", Null), Compares(2, "isNull", Null),
   Compares(3, ">", Number(-4)), Compares(2, "<", Null), Compares(1, "<>", Two),
   Operand("in", 1, "", <<Two, Null, One>>, TRUE), Operand("in", 2, "", <<One, Two>>, FALSE),
   Operand("between", 2, "", <<One, Two>>, TRUE)}
Few == {Compares(1, "<=", One), Compares(1, "distinct", Null), Compares(3, ">=", Number(-3)),
        Operand("in", 2, "", <<One, Null>>, TRUE)}

NotOf(left) == [Word("NOT") EXCEPT !.kind = "NOT"] @@ [left |-> left, right |-> 0]
Both(kind, left, right) == Word(kind) @@ [left |-> left, right |-> right]
Kinds == {"AND", "OR"}

Trees ==
  {<<a>> : a \in Operands}
  \union {<<a, NotOf(1)>> : a \in Operands}
  \union {<<a, b, Both(k, 1, 2)>> : a \in Operands, b \in Operands, k \in Kinds}
  \union {<<a, b, Both(k, 1, 2), NotOf(3)>> : a \in Few, b \in Few, k \in Kinds}
  \union {<<a, b, Both(k, 1, 2), c, Both(l, 3, 4)>> :
            a \in Few, b \in Few, c \in Few, k \in Kinds, l \in Kinds}
  \union {<<a, b, c, Both(k, 2, 3), Both(l, 1, 4)>> :
            a \in Few, b \in Few, c \in Few, k \in Kinds, l \in Kinds}
  \union {<<a, b, NotOf(2), c, Both(k, 3, 4), NotOf(5), Both(l, 1, 6)>> :
            a \in Few, b \in Few, c \in Few, k \in Kinds, l \in Kinds}

AllRows == <<<<One, One>>, <<One, Null>>, <<Null, One>>, <<Null, Two>>, <<NaN, Two>>,
             <<Two, NaN>>, <<Two, Two>>, <<One, Two>>, <<Null, Null>>>>
Overflowing == <<<<One, One>>, <<Two, Two>>, <<Two, Three>>, <<One, One>>>>

FilterQueries ==
  <<{Query(<<Where(Scanning(<<AllRows>>), t)>>) : t \in Trees},
    {Query(<<Where(Scanning(<<Overflowing, <<<<Null, Three>>>>>>), t)>>) : t \in Trees},
    {Query(<<Where(Where(Scanning(<<AllRows>>), <<a, b, Both(k, 1, 2)>>), <<c>>)>>) :
        a \in Few, b \in Few, c \in Few, k \in Kinds},
    {Query(<<Scanning(<<Overflowing>>),
              Where(Where(Limiting(1, 0, 3), <<a, b, Both(k, 1, 2)>>), <<c, NotOf(1)>>)>>) :
        a \in Few, b \in Few, c \in Few, k \in Kinds}>>

----------------------------------------------------------------------------
(* Expressions, each over one row at a time: every operation on two columns    *)
(* and two constants, every pair of operators, and conditionals over a         *)
(* division that fails.                                                        *)

A1 == Leaf(Column(1))
Tests == {"=", "<>", "<", "<=", ">", ">=", "distinct", "notDistinct"}
Arithmetic == Range(Signs)

Flat(leaves, operations) ==
  {Of1(u, x) : u \in Unaries, x \in leaves}
  \union {Of2(o, x, y) : o \in operations \union {"SafeDivide", "Coalesce", "NullIf"},
                        x \in leaves, y \in leaves}
Nested(c) ==
  {Of2(o, A1, Of2(p, V, c)) : o \in Arithmetic, p \in Arithmetic}
  \union {Of2(o, Of2(p, A1, V), c) : o \in Arithmetic, p \in Arithmetic}
  \union UNION {{Of2(o, Of1("Negate", A1), V), Of2(o, A1, Of1("Negate", c)),
                Of1("Negate", Of2(o, A1, V)), Of1("Abs", Of2(o, Of1("Negate", c), V))} :
               o \in Arithmetic}
  \union {Of1("Negate", Of1("Negate", V)), Of1("Negate", c)}
Conditional(c, risk) ==
  {Of2("Coalesce", V, risk), Of2("Coalesce", risk, A1), Of2("NullIf", risk, V),
   Of2("Coalesce", A1, Of2("Coalesce", V, risk)), Of2("Coalesce", Of2("Coalesce", A1, risk), V),
   Of2("Coalesce", A1, If(V, "=", c, risk, V)), Of2("Add", Of2("Coalesce", A1, risk), c),
   If(Of2("Coalesce", A1, V), "=", c, Of2("NullIf", V, c), Of1("Sqrt", V)),
   If(If(A1, "=", V, c, risk), "=", c, A1, V), If(c, "=", c, risk, V),
   If(A1, "distinct", V, If(V, "=", c, A1, risk), c)}
  \union {If(A1, t, V, risk, c) : t \in Tests} \union {If(A1, t, V, V, risk) : t \in Tests}
  \union {If(A1, t, Constant(Null), V, n) : t \in {"distinct", "notDistinct"}, n \in {risk, Constant(Null)}}
  \union {If(A1, "=", V, x, If(V, t, c, y, z)) :
            t \in {"<", "notDistinct"}, x \in {A1, risk}, y \in {V, risk}, z \in {c, Constant(Null)}}
  \union {If(A1, "=", c, V, If(V, "=", c, A1, If(A1, "=", V, c, x))) : x \in {risk, Constant(Null)}}

\* [trees, schema, rows]: doubles, integers, and an integer that is never NULL.
Whole == {"Add", "Subtract", "Multiply", "IntegerDivide", "Mod"}
Kinds3 ==
  <<[schema |-> Doubles,
    trees |-> Flat({A1, V, Constant(Null)}, Arithmetic)
              \union Nested(Constant(Three)) \union Conditional(Constant(Three), Ratio),
    rows |-> {<<a, b>> : a \in {Null, NaN, Three, NegativeZero}, b \in {Null, Three, Number(-8)}}],
   [schema |-> <<Slot("integer", TRUE), Slot("integer", TRUE)>>,
    trees |-> Flat({A1, V, Constant(Integer(-8))}, Whole)
              \union Nested(Constant(Integer(3))) \union Conditional(Constant(Integer(3)), Ratio),
    rows |-> {<<a, b>> : a \in {Null, Integer(3), Integer(-8), Integer(0)},
                         b \in {Null, Integer(-1), Integer(3)}}],
   [schema |-> <<Slot("integer", FALSE), Slot("double", TRUE)>>,
    trees |-> Nested(Constant(Integer(3))) \union Conditional(Constant(Integer(3)), Ratio)
              \union Conditional(Constant(Three), Of2("Mod", A1, Of2("Subtract", A1, Constant(Integer(3))))),
    rows |-> {<<a, b>> : a \in {Integer(3), Integer(7)}, b \in {Null, Three, Number(4), NaN}}]>>

Evaluating(k) ==
  {Query(<<[n EXCEPT !.units = <<<<r>>>>]>>) :
     n \in {Computing(With([Bare EXCEPT !.schema = k.schema], t)) : t \in k.trees}, r \in k.rows}

\* Expressions that use expressions, as filters and as results, over batches:
\* 3 fails where the value is 3, 4 and 5 may need it, 6 uses all of them.
C3 == Leaf(Column(3))
Chained(fourth, fifth) ==
  With(With(With(Dividing, fourth), fifth),
           Of2("Coalesce", A1, Of2("Add", Leaf(Column(4)), Leaf(Column(5)))))
Chains ==
  {Chained(f, g) : f \in {Of2("Multiply", C3, V), Of2("Coalesce", A1, C3), Of2("NullIf", C3, V)},
                   g \in {Of1("Negate", Leaf(Column(4))), Of2("SafeDivide", V, A1),
                          If(V, "=", Constant(Three), V, Leaf(Column(4)))}}
Uses(node) ==
  {[Where(node, w) EXCEPT !.columns = c] :
     w \in {<<Compares(4, "isNotNull", Null)>>, <<Compares(6, ">", Number(-7)), NotOf(1)>>,
            <<Compares(2, "<", Three), Compares(3, "<=", Number(-6)), Both("AND", 1, 2)>>,
            <<Compares(1, "isNull", Null), Compares(5, "<", One), Both("OR", 1, 2)>>},
     c \in {<<1, 2>>, <<6, 2>>, <<3, 5>>}}
  \union {[node EXCEPT !.columns = c] : c \in {<<4, 5>>, <<6, 6>>}}

Mixed3 == {<<<<One, One>>, <<Null, Two>>, <<One, Three>>>>,
           <<<<One, Two>>, <<Two, Null>>, <<Null, One>>, <<NaN, NaN>>, <<Two, One>>>>,
           <<<<Two, Three>>, <<One, Three>>>>, <<<<Null, One>>, <<Null, Three>>>>}
\* What may be NULL though no column is.
Sure == [Bare EXCEPT !.schema = <<Slot("double", FALSE), Slot("double", FALSE)>>]
SureQueries ==
  {Query(<<[With(With(Sure, f), g) EXCEPT !.columns = <<3, 4>>, !.units = <<<<r>>>>]>>) :
     f \in {Of2("SafeDivide", A1, V), Of2("NullIf", A1, V), If(A1, "<", V, A1, Constant(Null))},
     g \in {Of1("Negate", C3), Of2("Add", V, C3), Of2("Coalesce", C3, V)},
     r \in {<<One, Number(0)>>, <<Three, Three>>, <<One, Two>>}}

ChainQueries ==
  <<SureQueries,
    {Query(<<[n EXCEPT !.units = <<r>>]>>) : n \in UNION {Uses(c) : c \in Chains}, r \in Mixed3},
    {Query(<<Scanning(<<r>>), [n EXCEPT !.op = "limit", !.inputs = <<1>>, !.count = 4]>>) :
        n \in UNION {Uses(c) : c \in Chains}, r \in Mixed3}>>

----------------------------------------------------------------------------
(* Pipelines. *)

Keep == <<Compares(2, "<", Three)>>
Odd == <<Operand("in", 2, "", <<Two, Null>>, TRUE)>>

Rows3 == Seqs({<<One, One>>, <<Two, Two>>, <<Null, One>>}, 3)
Longer == {<<<<One, One>>, <<Two, Two>>, <<One, Two>>, <<Two, One>>, <<One, One>>>>,
           <<<<NegativeZero, One>>, <<Number(0), Two>>, <<NaN, NaN>>, <<NaN, One>>, <<Null, Null>>>>}
Failing3 == {<<<<One, Three>>, <<Two, One>>>>, <<<<One, One>>, <<Two, Three>>, <<One, One>>>>,
             <<<<One, One>>, <<Two, Two>>, <<Two, One>>, <<One, Three>>>>}
Sources == {<<r>> : r \in Rows3 \union Longer}
Splits == {<<<<>>, <<<<One, One>>>>, <<<<Two, Two>>, <<One, Two>>, <<Null, One>>>>>>,
           <<Overflowing, <<<<Two, One>>>>>>}

LimitQueries ==
  <<{Query(<<Scanning(<<r>>), n>>) :
       r \in Rows3 \union Longer \union Failing3,
       n \in UNION {{Limiting(1, o, c), Computing(Limiting(1, o, c)), Where(Limiting(1, o, c), Odd)} :
              o \in 0 .. 2, c \in 0 .. 2}},
    {Query(<<Computing(Scanning(s)), Limiting(1, 0, c), Where(Limiting(2, o, 2), Odd)>>) :
        s \in Splits \union {<<r>> : r \in Failing3}, o \in 0 .. 1, c \in {0, 1, 3}}>>

GroupQueries ==
  <<{Query(<<Scanning(s), [n EXCEPT !.ordered = d]>>) :
       s \in Sources \union Splits, d \in BOOLEAN,
       n \in UNION {{Grouping(1, r), Where(Computing(Grouping(1, r)), Odd)} : r \in 0 .. 3}},
    {Query(<<[Scanning(<<r>>) EXCEPT !.wide = TRUE], [Grouping(1, m) EXCEPT !.wide = TRUE]>>) :
        r \in Longer, m \in 0 .. 1},
    {Query(<<Scanning(<<r>>), Computing(Grouping(1, m))>>) : r \in Failing3, m \in 0 .. 2},
    {Query(<<Scanning(<<r>>), n>>) :
        r \in Seqs({<<One, One>>, <<Two, Two>>}, 3) \union Failing3,
        n \in UNION {{[Plain("dense", <<1>>) EXCEPT !.slots = t],
                      Where(Computing([Plain("dense", <<1>>) EXCEPT !.slots = t]), Keep)} :
                     t \in {<<>>, <<One, Two>>, <<Null, One, Three, Two>>}}}>>

A == Scanning(<<<<<<One, One>>, <<Two, Two>>, <<One, Two>>>>>>)
B == Scanning(<<<<<<Two, One>>, <<Null, One>>>>, <<<<One, Two>>>>>>)
Ordering(input) == Plain("order", <<input>>)
Union2(l, r) == Plain("union", <<l, r>>)

\* What a grouping may have below it when it falls back.
Composed ==
  {<<A, Ordering(1)>>, <<A, Grouping(1, 2)>>, <<A, Grouping(1, 1)>>, <<A, Limiting(1, 1, 2)>>,
   <<A, Where(Plain("order", <<1>>), Odd), Limiting(2, 0, 1)>>,
   <<A, B, Union2(1, 2)>>, <<A, B, Union2(1, 2), A, Union2(3, 4)>>,
   <<A, B, Union2(1, 2), Ordering(3)>>, <<A, B, Where(Plain("except", <<1, 2>>), Odd)>>,
   <<A, B, Ordering(2), Union2(1, 3), Limiting(4, 0, 2)>>,
   <<A, B, Ordering(2), Union2(1, 3), Limiting(4, 1, 3)>>,
   <<A, Plain("count", <<1>>), B, Union2(2, 3)>>,
   <<A, B, Plain("count", <<2>>), Union2(1, 3)>>,
   <<A, Plain("dense", <<1>>), B, Union2(2, 3)>>,
   <<A, Limiting(1, 0, 0), B, Union2(2, 3)>>,
   <<A, Computing(Grouping(1, 1)), Limiting(2, 0, 1), B, Union2(3, 4), Limiting(5, 1, 2)>>}

ComposedQueries ==
  <<{[Query(Append(c, Grouping(Len(c), m))) EXCEPT !.faulty = m = 2] : c \in Composed, m \in 0 .. 2},
    {Query(c \o <<Grouping(Len(c), m), Ordering(Len(c) + 1), Limiting(Len(c) + 2, 1, 2)>>) :
        c \in Composed, m \in 0 .. 1},
    {Query(c \o <<Grouping(Len(c), 1), Grouping(Len(c) + 1, m)>>) : c \in Composed, m \in 0 .. 1},
    {Query(c) : c \in Composed},
    {Query(<<Scanning(<<r>>), n>>) :
        r \in Longer \union {<<>>, Append(Overflowing, <<One, One>>) \o <<<<One, Two>>>>},
        n \in {Plain("count", <<1>>), Computing(Plain("count", <<1>>)),
               Where(Plain("count", <<1>>), Keep), Computing(Plain("order", <<1>>))}}>>

ExpressionQueries == [k \in 1 .. 3 |-> Evaluating(Kinds3[k])]

MCQueries ==
  ExpressionQueries \o ChainQueries \o FilterQueries \o LimitQueries \o GroupQueries \o ComposedQueries

\* A LIMIT 0 of an ORDER BY, as one side of a UNION ALL below a GROUP BY.
UnreadQueries ==
  <<{Query(<<A, n, Limiting(2, 0, 0), B, Union2(3, 4), Grouping(5, m)>>) :
     n \in {Ordering(1), Grouping(1, 2), Plain("count", <<1>>)}, m \in 0 .. 3}>>
=============================================================================
