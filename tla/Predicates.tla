----------------------------- MODULE Predicates ------------------------------
(***************************************************************************)
(* WHERE (src/query/parser/boolean.rs, src/execution/predicate.rs): a       *)
(* Boolean expression becomes one comparison after another, each with the   *)
(* distance to the next when it matches and when it does not.  Executing    *)
(* them needs no tree.                                                      *)
(*                                                                          *)
(* A token is "NOT", "(", ")", "AND", "OR" or an operand: a comparison, IN  *)
(* or BETWEEN on a column.  Only well-formed token sequences are compiled.   *)
(***************************************************************************)
EXTENDS Scalars

Reject == 0
Failing == -1

\* A comparison and where it sends a row: "matched" and "other" are distances,
\* Reject for a row that is out; "negated" asks for FALSE.
Filter(column, test, literal) ==
  [column |-> column, test |-> test, literal |-> literal,
   matched |-> 1, other |-> Reject, negated |-> FALSE]

Word(kind) == [kind |-> kind, column |-> 0, test |-> "", literals |-> <<>>, negated |-> FALSE]
Operand(kind, column, test, literals, negated) ==
  [kind |-> kind, column |-> column, test |-> test, literals |-> literals, negated |-> negated]

Precedence == [op \in {"(", "OR", "AND", "NOT"} |->
                 CASE op = "(" -> 0 [] op = "OR" -> 1 [] op = "AND" -> 2 [] OTHER -> 3]

\* The parser's stacks: finished filters, tree nodes (children first), the nodes
\* waiting for an operator and the operators waiting for an operand.
NewSyntax(filters) == [filters |-> filters, nodes |-> <<>>, values |-> <<>>, operators |-> <<>>]

PushNode(s, node) ==
  [s EXCEPT !.nodes = Append(@, node), !.values = Append(@, Len(s.nodes) + 1)]

PushLeaf(s, filter) ==
  PushNode([s EXCEPT !.filters = Append(@, filter)],
           [op |-> "leaf", left |-> 0, right |-> 0, first |-> Len(s.filters) + 1])

PushOperator(s, op) == [s EXCEPT !.operators = Append(@, op)]

\* The last operator takes its operands; NOT takes one.
Reduce(s) ==
  LET op == Last(s.operators)
      needed == IF op = "NOT" THEN 1 ELSE 2
      left == s.values[Len(s.values) + 1 - needed]
  IN PushNode([s EXCEPT !.operators = Front(@),
                        !.values = SubSeq(@, 1, Len(@) - needed)],
              [op |-> op, left |-> left, right |-> Last(s.values), first |-> s.nodes[left].first])

ReduceWhile(s, Takes(_)) ==
  FoldLeft(LAMBDA t, op : IF t.operators # <<>> /\ Takes(Last(t.operators)) THEN Reduce(t) ELSE t,
           s, s.operators)

\* IN is an OR of equalities and BETWEEN an AND of two comparisons, both reduced
\* at once; NOT before them negates the whole result.
PushOperand(s, token) ==
  LET opened == IF token.negated THEN PushOperator(s, "NOT") ELSE s
      tests == CASE token.kind = "in" -> [i \in DOMAIN token.literals |-> "="]
                 [] token.kind = "between" -> <<">=", "<=">>
                 [] OTHER -> <<token.test>>
      joiner == IF token.kind = "in" THEN "OR" ELSE "AND"
      Add(t, i) ==
        LET leaf == PushLeaf(t, Filter(token.column, tests[i], token.literals[i]))
        IN IF i = 1 THEN leaf ELSE Reduce(PushOperator(leaf, joiner))
  IN FoldLeft(Add, opened, [i \in DOMAIN tests |-> i])

\* Mutant: OR binds as tightly as AND.
PushTokenFlat(s, token) ==
  CASE token.kind \in {"NOT", "("} -> PushOperator(s, token.kind)
    [] token.kind = ")" ->
         LET t == ReduceWhile(s, LAMBDA op : op # "(") IN [t EXCEPT !.operators = Front(@)]
    [] token.kind \in {"AND", "OR"} ->
         PushOperator(ReduceWhile(s, LAMBDA op : op # "("), token.kind)
    [] OTHER -> PushOperand(s, token)

PushToken(s, token) ==
  CASE token.kind \in {"NOT", "("} -> PushOperator(s, token.kind)
    [] token.kind = ")" ->
         LET t == ReduceWhile(s, LAMBDA op : op # "(") IN [t EXCEPT !.operators = Front(@)]
    [] token.kind \in {"AND", "OR"} ->
         PushOperator(ReduceWhile(s, LAMBDA op : Precedence[op] >= Precedence[token.kind]),
                      token.kind)
    [] OTHER -> PushOperand(s, token)

\* Where the operands of a node send a row, from where the node itself does:
\* AND needs both TRUE; under a request for FALSE it is OR that needs both.
Child(node, control, side, right) ==
  LET both == (node.op = "AND") # control.negated
  IN CASE node.op = "NOT" -> [control EXCEPT !.negated = ~@]
       [] side = "right" -> control
       [] both -> [control EXCEPT !.matched = right]
       [] OTHER -> [control EXCEPT !.other = right]

\* Syntax::finish: parents follow their children, so walk backward from the root.
Decide(s) ==
  LET end == Len(s.filters) + 1
      root == [matched |-> end, other |-> Reject, negated |-> FALSE]
      Away(leaf, target) == IF target = Reject THEN Reject ELSE target - leaf
      Visit(d, back) ==
        LET index == Len(s.nodes) + 1 - back
            node == s.nodes[index]
            control == d.controls[index]
            right == IF node.right = 0 THEN 0 ELSE s.nodes[node.right].first
        IN IF node.op = "leaf"
           THEN [d EXCEPT !.filters[node.first].matched = Away(node.first, control.matched),
                          !.filters[node.first].other = Away(node.first, control.other),
                          !.filters[node.first].negated = control.negated]
           ELSE [d EXCEPT !.controls = [@ EXCEPT
                   ![node.right] = Child(node, control, "right", right),
                   ![node.left] = Child(node, control, "left", right)]]
  IN FoldLeft(Visit, [filters |-> s.filters, controls |-> [i \in DOMAIN s.nodes |-> root]],
              [i \in DOMAIN s.nodes |-> i]).filters

\* The filters of a pipeline after one more WHERE.
Compile(filters, tokens) ==
  Decide(ReduceWhile(FoldLeft(PushToken, NewSyntax(filters), tokens), LAMBDA op : TRUE))

----------------------------------------------------------------------------
(* Execution. *)

\* An integer is compared with a DOUBLE literal as one.
As(literal, value) == IF literal.kind = "number" THEN AsDouble(value) ELSE value

\* Mutant: the answer of a comparison with NULL is negated like any other.
MatchesNegated(filter, value) ==
  CASE filter.test = "isNull" -> (value = Null) # filter.negated
    [] filter.test = "isNotNull" -> (value # Null) # filter.negated
    [] Null \in {value, filter.literal} ->
         (filter.test = "distinct" /\ value # filter.literal) # filter.negated
    [] OTHER -> Test(filter.test, As(filter.literal, value), filter.literal) # filter.negated

\* A comparison with NULL is UNKNOWN, which is neither the TRUE nor the FALSE
\* that the filter asks for; IS NULL and the null-safe tests are definite.
Matches(filter, value) ==
  CASE filter.test = "isNull" -> (value = Null) # filter.negated
    [] filter.test = "isNotNull" -> (value # Null) # filter.negated
    [] Null \in {value, filter.literal} ->
         CASE filter.test = "distinct" -> (value # filter.literal) # filter.negated
           [] filter.test = "notDistinct" -> (value = filter.literal) # filter.negated
           [] OTHER -> FALSE
    [] OTHER -> Test(filter.test, As(filter.literal, value), filter.literal) # filter.negated

\* How far a row goes from a filter that finds this value, or Reject.
Distance(filter, value) == IF Matches(filter, value) THEN filter.matched ELSE filter.other

\* RowValues::retains: follow one row from filter to filter, and keep what was
\* computed on the way.  A filter it never reaches evaluates nothing.
Refused(s, refusal, next) ==
  IF refusal # Null THEN [s EXCEPT !.at = Failing, !.refusal = refusal] ELSE next
Advanced(s, known, distance) ==
  [s EXCEPT !.known = known, !.at = IF distance = Reject THEN Reject ELSE @ + distance]
Followed(plan, s, filter, known) ==
  Refused(s, Refusal(plan, known, <<filter.column>>),
          Advanced(s, known, Distance(filter, known[filter.column])))
Retains(plan, row) ==
  FoldLeft(LAMBDA s, i :
             IF s.at \notin DOMAIN plan.filters THEN s
             ELSE Followed(plan, s, plan.filters[s.at],
                           RowValue(plan, s.known, plan.filters[s.at].column)),
           [at |-> 1, known |-> row, refusal |-> Null], plan.filters)

\* BranchScratch::rows: only a chain of plain filters needs no branch cursors.
Branching(filters) == \E i \in DOMAIN filters : filters[i].matched # 1 \/ filters[i].other # Reject
=============================================================================
