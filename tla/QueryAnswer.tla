---------------------------- MODULE QueryAnswer ------------------------------
(***************************************************************************)
(* What a query means, without batches, buffers, fallbacks or replays: the  *)
(* rows of each node from the rows of its inputs.                           *)
(*                                                                          *)
(* A query is a sequence of nodes, inputs first; a row is a key and a value. *)
(* Each node computes its expressions from the rows it produces, applies its  *)
(* WHERE trees and projects two columns.  A tree lists its nodes, operands    *)
(* first.                                                                   *)
(***************************************************************************)
EXTENDS ScalarSyntax

CONSTANT MaxRows          \* MAX_AGGREGATE_ROWS

\* F(v), written so that TLC computes v once.
Once(F(_), v) == CHOOSE result \in {F(x) : x \in {v}} : TRUE

\* The sequence that continues base, each element from those before it.
Built(Of(_, _), base, seq) ==
  FoldLeft(LAMBDA built, x : Once(LAMBDA before : Append(before, Of(before, x)), built), base, seq)

(* Expressions.  The value of a conditional has the type of the whole, and   *)
(* what it does not need cannot fail.                                       *)

TypeOf(tree, schema) ==
  LET Type(types, e) ==
        LET results == IF e.name = "Case" THEN SubSeq(e.args, 3, 4) ELSE e.args
        IN CASE e.name = "Column" -> schema[e.slot].type
             [] e.name = "Literal" -> IF e.value.kind = "number" THEN "double" ELSE "integer"
             [] e.name \in {"ToDouble", "Sqrt", "Divide", "SafeDivide"} -> "double"
             [] OTHER -> IF \E a \in Range(results) : types[a] = "double" THEN "double" ELSE "integer"
  IN Built(Type, <<>>, tree)

Not3(t) == CASE t = "true" -> "false" [] t = "false" -> "true" [] OTHER -> t
Or3(S) == IF "true" \in S THEN "true" ELSE IF "unknown" \in S THEN "unknown" ELSE "false"
And3(S) == Not3(Or3({Not3(t) : t \in S}))
Truth2(b) == IF b THEN "true" ELSE "false"

Comparison(test, a, b) ==
  CASE test = "isNull" -> Truth2(a = Null)
    [] test = "isNotNull" -> Truth2(a # Null)
    [] test \in {"distinct", "notDistinct"} ->
         Truth2((a = b \/ (Null \notin {a, b} /\ CompareValues(a, b) = 0)) # (test = "distinct"))
    [] OTHER -> IF Null \in {a, b} \/ Failure \in {a, b} THEN "unknown" ELSE Truth2(Test(test, a, b))

\* Two integers are compared exactly, and anything else as DOUBLE.
TypedComparison(test, a, b) ==
  LET type == IF a.kind = "integer" /\ b.kind = "integer" THEN "integer" ELSE "double"
  IN Comparison(test, Coerce(a, type), Coerce(b, type))

Meaning(tree, schema, row) ==
  LET type == TypeOf(tree, schema)
      Value(values, e) ==
        LET Arg(k) == values[e.args[k]]
            Typed(k) == Coerce(Arg(k), type[Len(values) + 1])
        IN CASE e.name = "Column" -> row[e.slot]
             [] e.name = "Literal" -> e.value
             [] e.name = "Coalesce" -> Typed(IF Arg(1) = Null THEN 2 ELSE 1)
             [] e.name = "Case" ->
                  IF Failure \in {Arg(1), Arg(2)} THEN Failure
                  ELSE Typed(IF TypedComparison(e.test, Arg(1), Arg(2)) = "true" THEN 3 ELSE 4)
             [] e.name \in Unaries -> IF Arg(1) = Failure THEN Failure ELSE Unary(e.name, Arg(1))
             [] OTHER ->
                  IF Failure \in {Arg(1), Arg(2)} THEN Failure
                  ELSE IF e.name # "NullIf" THEN Binary(e.name, Arg(1), Arg(2))
                  ELSE IF Comparison("=", Typed(1), Typed(2)) = "true" THEN Null ELSE Typed(1)
  IN Last(Built(Value, <<>>, tree))

\* A row and its expressions, each of which may use those before it.
Extended(node, row) ==
  Built(LAMBDA known, tree : Meaning(tree, node.schema, known), row, node.trees)

\* The source text of an expression, with the fewest parentheses.
ExpressionTokens(tree) ==
  LET Level(e) == CASE e.name \in {"Add", "Subtract"} -> 1
                    [] e.name \in {"Multiply", "Divide"} -> 2
                    [] e.name = "Negate" -> 3 [] OTHER -> 4
      T(kind) == <<Token(kind)>>
      Text(v) == CASE v = Null -> T("NULL")
                   [] Negative(v) -> T("-") \o <<NumberToken([v EXCEPT !.n = -@, !.bits = 0])>>
                   [] OTHER -> <<NumberToken(v)>>
      print[i \in DOMAIN tree] ==
        LET e == tree[i]
            Arg(k) == tree[e.args[k]]
            Inside(k, least) == IF Level(Arg(k)) < least
                                THEN T("(") \o print[e.args[k]] \o T(")") ELSE print[e.args[k]]
            sign == CHOOSE c \in DOMAIN Signs : Signs[c] = e.name
            \* The arms of a CASE; one whose ELSE is another CASE has one arm more.
            arm[k \in DOMAIN tree] ==
              LET c == tree[k]
                  else == tree[c.args[4]]
                  Part(p) == print[c.args[p]]
                  null == tree[c.args[2]].name = "Literal" /\ tree[c.args[2]].value = Null
                  test == CASE null /\ c.test = "distinct" -> T("IS") \o T("NOT") \o T("NULL")
                            [] null /\ c.test = "notDistinct" -> T("IS") \o T("NULL")
                            [] OTHER -> <<CompareToken(c.test)>> \o Part(2)
              IN T("WHEN") \o Part(1) \o test \o T("THEN") \o Part(3)
                 \o (CASE else.name = "Case" -> arm[c.args[4]]
                       [] else.name = "Literal" /\ else.value = Null -> T("END")
                       [] OTHER -> T("ELSE") \o Part(4) \o T("END"))
        IN CASE e.name = "Column" -> <<ColumnToken(e.slot)>>
             [] e.name = "Literal" -> Text(e.value)
             [] e.name = "Negate" -> T("-") \o Inside(1, IF Arg(1).name = "Literal" THEN 5 ELSE 3)
             [] e.name \in Range(Signs) -> Inside(1, Level(e)) \o T(sign) \o Inside(2, Level(e) + 1)
             [] e.name = "Case" -> T("CASE") \o arm[i]
             [] e.name = "ToDouble" ->
                  <<CallToken(e.name)>> \o T("(") \o Inside(1, 0) \o T("AS") \o T("DOUBLE") \o T(")")
             [] e.name \in Unaries -> <<CallToken(e.name)>> \o T("(") \o Inside(1, 0) \o T(")")
             [] OTHER -> <<CallToken(e.name)>> \o T("(") \o Inside(1, 0) \o T(",") \o Inside(2, 0) \o T(")")
  IN print[Len(tree)]

(* WHERE, in three-valued logic. *)

PlainTruth(operand, value, literal) ==
  CASE operand.kind = "in" ->
         Or3({TypedComparison("=", value, literal[i]) : i \in DOMAIN literal})
    [] operand.kind = "between" ->
         And3({TypedComparison(">=", value, literal[1]), TypedComparison("<=", value, literal[2])})
    [] OTHER -> TypedComparison(operand.test, value, literal[1])

Signed3(truth, negated) == IF negated THEN Not3(truth) ELSE truth
OperandTruth(operand, row) ==
  Signed3(PlainTruth(operand, row[operand.column], operand.literals), operand.negated)

Truth(tree, row) ==
  LET t[i \in DOMAIN tree] ==
        LET node == tree[i]
        IN CASE node.kind = "NOT" -> Not3(t[node.left])
             [] node.kind = "AND" -> And3({t[node.left], t[node.right]})
             [] node.kind = "OR" -> Or3({t[node.left], t[node.right]})
             [] OTHER -> OperandTruth(node, row)
  IN t

\* Operands are evaluated from left to right, until the outcome is known.
Overflows(tree, row, truth) ==
  LET f[i \in DOMAIN tree, want \in BOOLEAN] ==
        LET node == tree[i]
            both == (node.kind = "AND") = want
            meets == truth[node.left] = Truth2(want)
        IN CASE node.kind = "NOT" -> f[node.left, ~want]
             [] node.kind \in {"AND", "OR"} ->
                  f[node.left, want] \/ (meets = both /\ f[node.right, want])
             [] OTHER -> row[node.column] = Failure
  IN f[Len(tree), TRUE]

\* One WHERE after another, then the projection.
Filtered(tree, extended, truth) ==
  IF Overflows(tree, extended, truth) THEN "fail"
  ELSE IF truth[Len(tree)] = "true" THEN "keep" ELSE "drop"

AfterWhere(result, tree, extended) ==
  IF result # "keep" THEN result ELSE Filtered(tree, extended, Truth(tree, extended))

AfterWheres(node, extended) ==
  FoldLeft(LAMBDA o, tree : Once(LAMBDA result : AfterWhere(result, tree, extended), o),
           "keep", node.wheres)

WithRow(filtered, row) ==
  [result |-> IF filtered = "keep" /\ Failure \in Range(row) THEN "fail" ELSE filtered, row |-> row]

Shaped(node, extended) ==
  WithRow(AfterWheres(node, extended), [i \in DOMAIN node.columns |-> extended[node.columns[i]]])

Outcome(node, row) == Once(LAMBDA extended : Shaped(node, extended), Extended(node, row))

\* The source text of a tree, with the fewest parentheses.
Tokens(tree) ==
  LET print[i \in DOMAIN tree] ==
        LET node == tree[i]
            Inside(child, least) ==
              IF tree[child].kind \in {"AND", "OR"} /\ Precedence[tree[child].kind] < least
              THEN <<Word("(")>> \o print[child] \o <<Word(")")>> ELSE print[child]
        IN CASE node.kind = "NOT" -> <<Word("NOT")>> \o Inside(node.left, 3)
             [] node.kind \in {"AND", "OR"} ->
                  Inside(node.left, Precedence[node.kind]) \o <<Word(node.kind)>>
                  \o Inside(node.right, Precedence[node.kind] + 1)
             [] OTHER -> <<node>>
  IN print[Len(tree)]

----------------------------------------------------------------------------
(* Aggregates and nodes. *)

\* A sum whose result depends on the order of its terms, as a floating one does.
Plus(a, v) ==
  CASE v = Null -> a [] a = Null -> v [] NaN \in {a, v} -> NaN
    [] OTHER -> Number(2 * a.n + v.n)

Total(rows) == FoldLeft(LAMBDA total, row : Once(LAMBDA a : Plus(a, row[2]), total), Null, rows)

SameKey(a, b) == CompareValues(a, b) = 0
KeysOf(rows) ==
  LET Add(keys, key) == IF \E i \in DOMAIN keys : SameKey(keys[i], key) THEN keys ELSE Append(keys, key)
  IN FoldLeft(LAMBDA known, row : Once(LAMBDA keys : Add(keys, row[1]), known), <<>>, rows)
OfKey(rows, key) == SelectSeq(rows, LAMBDA row : SameKey(row[1], key))

\* Stable: equal keys keep the order they came in.
ByKey(rows) ==
  LET Before(p, q) ==
        LET c == CompareValues(rows[p][1], rows[q][1]) IN c < 0 \/ (c = 0 /\ p < q)
      rank == [p \in DOMAIN rows |-> 1 + Cardinality({q \in DOMAIN rows : Before(q, p)})]
  IN [i \in DOMAIN rows |-> rows[CHOOSE p \in DOMAIN rows : rank[p] = i]]

Grouped(node, rows) ==
  LET keys == KeysOf(rows)
      groups == [i \in DOMAIN keys |-> <<keys[i], Total(OfKey(rows, keys[i]))>>]
  IN IF node.ordered \/ Len(keys) > node.room THEN ByKey(groups) ELSE groups

\* A slot for each possible key; the whole input is one group without keys.
Dense(node, rows) ==
  IF node.slots = <<>> THEN <<<<Null, Total(rows)>>>>
  ELSE LET groups == [i \in DOMAIN node.slots |->
                        <<node.slots[i], Total(OfKey(rows, node.slots[i]))>>]
       IN SelectSeq(groups, LAMBDA g : OfKey(rows, g[1]) # <<>>)

Excepted(left, right) == SelectSeq(ByKey(left), LAMBDA row : row \notin Range(right))

\* What a node makes of its inputs' answers, before its expressions and WHERE.
Produced(node, inputs) ==
  LET rows == IF inputs = <<>> THEN FlattenSeq(node.units) ELSE inputs[1].rows
      end == Lower(node.offset + node.count, Len(rows))
  IN CASE node.op = "scan" -> rows
       [] node.op = "limit" -> SubSeq(rows, node.offset + 1, end)
       [] node.op = "union" -> IF inputs[1].fails THEN rows ELSE rows \o inputs[2].rows
       [] node.op = "count" -> [i \in DOMAIN rows |-> <<Number(Len(rows)), Number(Len(rows))>>]
       [] node.op = "order" -> ByKey(rows)
       [] node.op = "except" -> Excepted(rows, inputs[2].rows)
       [] node.op = "group" -> Grouped(node, rows)
       [] node.op = "dense" -> Dense(node, rows)

\* A node's rows up to the first failure, whether there is one, whether some
\* expression may fail that another evaluation order would not reach, and
\* whether a count exceeds its limit.
NodeAnswer(node, inputs, outcomes) ==
  LET failing == {p \in DOMAIN outcomes : outcomes[p].result = "fail"}
      before == IF failing = {} THEN Len(outcomes) ELSE Least(failing) - 1
      kept == SelectSeq(SubSeq(outcomes, 1, before), LAMBDA o : o.result = "keep")
      whole == node.op \notin {"scan", "limit", "union"}
      wanting == /\ \E i \in DOMAIN inputs : inputs[i].fails
                 /\ node.op = "limit" => Len(inputs[1].rows) < node.offset + node.count
      checked == node.op \in {"group", "dense"} /\ failing # {}
  IN [rows |-> IF (whole /\ wanting) \/ checked THEN <<>> ELSE [i \in DOMAIN kept |-> kept[i].row],
      fails |-> failing # {} \/ wanting,
      risky |-> failing # {} \/ \E i \in DOMAIN inputs : inputs[i].risky,
      refused |-> \/ node.op = "count" /\ Len(inputs[1].rows) > MaxRows
                  \/ \E i \in DOMAIN inputs : inputs[i].refused]

Denoted(node, inputs) ==
  Once(LAMBDA outcomes : NodeAnswer(node, inputs, outcomes),
       Once(LAMBDA rows : [p \in DOMAIN rows |-> Outcome(node, rows[p])], Produced(node, inputs)))

Denote(nodes) ==
  Built(LAMBDA answers, node : Denoted(node, [i \in DOMAIN node.inputs |-> answers[node.inputs[i]]]),
        <<>>, nodes)

\* What RowStream fixes.  Batches are computed a whole at a time, so an
\* expression may fail before rows that precede it are given.
Promised(root) ==
  [rows |-> root.rows, fails |-> root.fails, refused |-> root.refused,
   failAt |-> IF root.risky THEN 0 .. Len(root.rows) ELSE {}]

Answer(nodes) == Once(LAMBDA root : Promised(root), Last(Denote(nodes)))
=============================================================================
