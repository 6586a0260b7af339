---------------------------- MODULE ScalarSyntax -----------------------------
(***************************************************************************)
(* Numeric expressions as text (src/query/parser.rs, parser/conditional.rs): *)
(* operands go to the program as they are read, operators wait until their   *)
(* operands are complete, and markers keep calls, parentheses and the parts  *)
(* of a CASE apart.                                                         *)
(*                                                                          *)
(* A token is a word, a sign, a column, a number or a comparison.  Only       *)
(* well-formed sequences are parsed, within the limits on their size.        *)
(***************************************************************************)
EXTENDS Predicates

Token(kind) == [kind |-> kind, name |-> "", slot |-> 0, value |-> Null, test |-> ""]
ColumnToken(slot) == [Token("column") EXCEPT !.slot = slot]
NumberToken(value) == [Token("number") EXCEPT !.value = value]
CompareToken(test) == [Token("compare") EXCEPT !.test = test]
CallToken(name) == [Token("call") EXCEPT !.name = name]

Signs == ("+" :> "Add") @@ ("-" :> "Subtract") @@ ("*" :> "Multiply") @@ ("/" :> "Divide")

\* What waits: an operator, or a marker with the operation it ends in.
Pending(kind, name, test) == [kind |-> kind, name |-> name, test |-> test]
Marker(kind) == Pending(kind, "", "")

Strength(pending) ==
  CASE pending.kind = "negate" -> 3
    [] pending.kind = "binary" -> IF pending.name \in {"Multiply", "Divide"} THEN 2 ELSE 1
    [] OTHER -> 0

NewExpression == [ops |-> <<>>, pending |-> <<>>, position |-> 1, operand |-> TRUE]

Push(s, op) == [s EXCEPT !.ops = Append(@, op)]
Take(s, n) == [s EXCEPT !.position = @ + n]
Wait(s, pending) == [s EXCEPT !.pending = Append(@, pending)]
Become(s, pending) == [s EXCEPT !.pending = Append(Front(@), pending)]
Close(s) == [s EXCEPT !.pending = Front(@)]
Expect(s, operand) == [s EXCEPT !.operand = operand]

\* Waiting operators at least this strong have all their operands.
Drain(s, strength) ==
  FoldLeft(LAMBDA t, p : IF t.pending # <<>> /\ Strength(Last(t.pending)) >= strength
                         THEN Close(Push(t, Op(Last(t.pending).name))) ELSE t,
           s, s.pending)

\* The sign of a literal is part of it: the least integer has no negation.
Negated(value) == IF value.kind = "integer" THEN Integer(-value.n) ELSE Double(-value.n, TRUE)

CallMarker(name) ==
  CASE name = "ToDouble" -> Marker("cast")
    [] name \in Unaries -> Pending("call", name, "")
    [] OTHER -> Pending("first", name, "")

\* Where an operand is expected.
ReadOperand(tokens, s) ==
  LET token == tokens[s.position]
      literal == token.kind = "-" /\ tokens[s.position + 1].kind = "number"
  IN CASE token.kind = "CASE" -> Take(Wait(s, Marker("caseLeft")), 2)
       [] token.kind = "NULL" -> Expect(Take(Push(s, Literal(Null)), 1), FALSE)
       [] token.kind = "call" -> Take(Wait(s, CallMarker(token.name)), 2)
       [] token.kind = "number" -> Expect(Take(Push(s, Literal(token.value)), 1), FALSE)
       [] token.kind = "column" -> Expect(Take(Push(s, Column(token.slot)), 1), FALSE)
       [] token.kind = "+" -> Take(s, 1)
       [] literal -> Expect(Take(Push(s, Literal(Negated(tokens[s.position + 1].value))), 2), FALSE)
       [] token.kind = "-" -> Take(Wait(s, Pending("negate", "Negate", "")), 1)
       [] token.kind = "(" -> Take(Wait(s, Marker("paren")), 1)

\* Mutant: END closes the last arm only.
EndArm(s) == Close(Push(s, Case(Last(s.pending).test)))

\* END emits the last arm, then the arms whose fallback it completes.
EndCase(s) ==
  LET Emit(t) == Close(Push(t, Case(Last(t.pending).test)))
  IN FoldLeft(LAMBDA t, p : IF t.pending # <<>> /\ Last(t.pending).kind = "caseTail"
                            THEN Emit(t) ELSE t,
              Emit(s), s.pending)

\* Between the parts of a CASE.
CaseBoundary(tokens, s) ==
  LET token == tokens[s.position]
      negated == tokens[s.position + 1].kind = "NOT"
      boundary == Last(s.pending)
      Right(test) == Become(s, Pending("caseRight", "", test))
  IN CASE boundary.kind = "caseLeft" /\ token.kind = "compare" ->
            Expect(Take(Right(token.test), 1), TRUE)
       [] boundary.kind = "caseLeft" /\ token.kind = "IS" ->
            Take(Push(Right(IF negated THEN "distinct" ELSE "notDistinct"), Literal(Null)),
                 IF negated THEN 3 ELSE 2)
       [] boundary.kind = "caseRight" ->
            Expect(Take(Become(s, Pending("caseResult", "", boundary.test)), 1), TRUE)
       [] boundary.kind = "caseResult" /\ token.kind = "WHEN" ->
            Expect(Take(Wait(Become(s, Pending("caseTail", "", boundary.test)), Marker("caseLeft")), 1), TRUE)
       [] boundary.kind = "caseResult" /\ token.kind = "ELSE" ->
            Expect(Take(Become(s, Pending("caseElse", "", boundary.test)), 1), TRUE)
       [] boundary.kind = "caseResult" /\ token.kind = "END" ->
            Take(EndCase(Push(s, Literal(Null))), 1)
       [] boundary.kind = "caseElse" -> Take(EndCase(s), 1)

CloseParen(s) ==
  LET marker == Last(s.pending)
  IN Take(IF marker.kind = "paren" THEN Close(s) ELSE Close(Push(s, Op(marker.name))), 1)

\* Where an operand has been read.
ReadOperator(tokens, s) ==
  LET token == tokens[s.position]
      binary == Pending("binary", Signs[token.kind], "")
      drained == Drain(s, 1)
  IN CASE token.kind \in {"compare", "IS", "THEN", "WHEN", "ELSE", "END"} -> CaseBoundary(tokens, drained)
       [] token.kind \in DOMAIN Signs -> Expect(Take(Wait(Drain(s, Strength(binary)), binary), 1), TRUE)
       [] token.kind = "AS" -> Take(Close(Push(drained, Op("ToDouble"))), 3)
       [] token.kind = "," ->
            Expect(Take(Become(drained, Pending("second", Last(drained.pending).name, "")), 1), TRUE)
       [] token.kind = ")" -> CloseParen(drained)

\* The program of an expression.
ParseExpression(tokens) ==
  LET Read(s, i) == CASE s.position > Len(tokens) -> s
                      [] s.operand -> ReadOperand(tokens, s)
                      [] OTHER -> ReadOperator(tokens, s)
  IN Drain(FoldLeft(Read, NewExpression, tokens), 1).ops
=============================================================================
