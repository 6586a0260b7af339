------------------------------ MODULE Scalars --------------------------------
(***************************************************************************)
(* Numeric expressions (src/query/scalar.rs, src/query/scalar/evaluation.rs) *)
(* and the values a row computes from them (src/execution/computed.rs).      *)
(*                                                                          *)
(* An expression is a program in postfix order.  Without COALESCE, NULLIF    *)
(* or CASE it runs over a batch of rows at once; with one of them anywhere   *)
(* in the query, every expression runs row by row, skips the branches it     *)
(* does not need and asks for a definition it depends on when it gets there. *)
(*                                                                          *)
(* INT64 and DOUBLE are small: integers end at MaxInteger, a DOUBLE is exact  *)
(* to ExactDouble, even up to MaxDouble and overflows beyond.  A quotient or *)
(* root between two of them is cut off.  Infinities are left out.  POWER,     *)
(* FLOOR, CEIL, ROUND, EXP and the logarithms propagate NULL and fail where   *)
(* division and SQRT do, and are left out as well.                          *)
(***************************************************************************)
EXTENDS RowOrder

CONSTANTS MaxInteger, ExactDouble, MaxDouble

ASSUME ScalarConstants ==
  /\ MaxInteger \in Nat /\ ExactDouble \in Nat /\ MaxDouble \in Nat
  /\ MaxInteger < MaxDouble

\* What a value becomes when computing it failed, or broke the program's types.
Failure == [kind |-> "failed", n |-> 0, bits |-> 0]
Corrupt == [kind |-> "corrupt", n |-> 0, bits |-> 0]
Faulty(v) == v \in {Failure, Corrupt}

Integer(n) == [kind |-> "integer", n |-> n, bits |-> 0]
Double(n, negative) ==
  IF n = 0 THEN IF negative THEN NegativeZero ELSE Number(0)
  ELSE IF n \notin -MaxDouble .. MaxDouble THEN Failure
  ELSE Number(IF n \in -ExactDouble .. ExactDouble \/ n % 2 = 0 THEN n
              ELSE IF (n + 1) % 4 = 0 THEN n + 1 ELSE n - 1)

Checked(n) == IF n \in (-MaxInteger - 1) .. MaxInteger THEN Integer(n) ELSE Failure
AsDouble(v) == IF v.kind = "integer" THEN Double(v.n, FALSE) ELSE v
Coerce(v, type) == IF type = "double" THEN AsDouble(v) ELSE v
Negative(v) == v.n < 0 \/ v.bits = 1

Quotient(a, b) ==
  LET Size(n) == IF n < 0 THEN -n ELSE n
      q == Size(a) \div Size(b)
  IN IF (a < 0) = (b < 0) THEN q ELSE -q

\* Every integer has remainder 0 with divisor -1, though MIN / -1 overflows.
IntegerBinary(name, a, b) ==
  CASE name = "Add" -> Checked(a + b)
    [] name = "Subtract" -> Checked(a - b)
    [] name = "Multiply" -> Checked(a * b)
    [] name = "IntegerDivide" -> IF b = 0 THEN Failure ELSE Checked(Quotient(a, b))
    [] name = "Mod" -> IF b = 0 THEN Failure ELSE Integer(a - b * Quotient(a, b))

\* Either zero is an invalid divisor, whatever the dividend.
DoubleBinary(name, a, b) ==
  IF name \in {"Divide", "SafeDivide"} /\ b.kind = "number" /\ b.n = 0 THEN Failure
  ELSE IF NaN \in {a, b} THEN NaN
  ELSE CASE name = "Add" -> Double(a.n + b.n, Negative(a) /\ Negative(b))
         [] name = "Subtract" -> Double(a.n - b.n, Negative(a) /\ ~Negative(b))
         [] name = "Multiply" -> Double(a.n * b.n, Negative(a) # Negative(b))
         [] OTHER -> Double(Quotient(a.n, b.n), Negative(a) # Negative(b))

Operation(name, a, b) ==
  IF a.kind = "integer" /\ b.kind = "integer" /\ name \notin {"Divide", "SafeDivide"}
  THEN IntegerBinary(name, a.n, b.n)
  ELSE DoubleBinary(name, AsDouble(a), AsDouble(b))

\* SAFE_DIVIDE makes NULL of its own failure; its operands have not failed.
NullIfUnsafe(name, result) == IF name = "SafeDivide" /\ result = Failure THEN Null ELSE result
Binary(name, a, b) ==
  IF Null \in {a, b} THEN Null ELSE NullIfUnsafe(name, Operation(name, a, b))

DoubleUnary(name, v) ==
  IF name = "ToDouble" \/ v.n = 0 THEN v
  ELSE IF v.n < 0 THEN Failure
  ELSE Number(Least({r \in 0 .. v.n : (r + 1) * (r + 1) > v.n}))

Unary(name, v) ==
  LET sign == IF v.n < 0 THEN -1 ELSE IF v.n = 0 THEN 0 ELSE 1
      size == sign * v.n
      Of(n, zero) == IF v.kind = "integer" THEN Checked(n) ELSE Double(n, zero)
  IN IF v = Null THEN v
     ELSE CASE name \in {"ToDouble", "Sqrt"} -> DoubleUnary(name, AsDouble(v))
            [] name = "Abs" -> IF v = NaN THEN v ELSE Of(size, FALSE)
            [] name = "Sign" -> IF v = NaN THEN v ELSE Of(sign, FALSE)
            [] name = "Negate" -> IF v = NaN THEN v ELSE Of(-v.n, ~Negative(v))

\* Comparison::test: only <> and the null-safe tests hold of a NaN.
Test(test, a, b) ==
  LET equal == NaN \notin {a, b} /\ a.n = b.n
      less == NaN \notin {a, b} /\ a.n < b.n
      greater == NaN \notin {a, b} /\ a.n > b.n
      alike == equal \/ (a = NaN /\ b = NaN)
  IN CASE test = "=" -> equal [] test = "<>" -> ~equal
       [] test = "<" -> less [] test = "<=" -> less \/ equal
       [] test = ">" -> greater [] test = ">=" -> greater \/ equal
       [] test = "distinct" -> ~alike [] OTHER -> alike

\* CASE needs only TRUE.  Two integers are compared exactly.
Chooses(test, a, b) ==
  LET type == IF a.kind = "integer" /\ b.kind = "integer" THEN "integer" ELSE "double"
  IN IF a = Null /\ b = Null THEN test = "notDistinct"
     ELSE IF Null \in {a, b} THEN test = "distinct"
     ELSE Test(test, Coerce(a, type), Coerce(b, type))

----------------------------------------------------------------------------
(* Programs. *)

Op(name) == [name |-> name, slot |-> 0, value |-> Null, test |-> ""]
Column(slot) == [Op("Column") EXCEPT !.slot = slot]
Literal(value) == [Op("Literal") EXCEPT !.value = value]
Case(test) == [Op("Case") EXCEPT !.test = test]

Unaries == {"Negate", "Abs", "Sign", "ToDouble", "Sqrt"}
Arity(op) ==
  CASE op.name \in {"Column", "Literal"} -> 0 [] op.name \in Unaries -> 1
    [] op.name = "Case" -> 4 [] OTHER -> 2

\* The stack after a program's first operations, where each operation puts
\* Of(position, its operands).
Stack(ops, last, Of(_, _)) ==
  LET Do(stack, p) ==
        LET rest == Len(stack) - Arity(ops[p])
        IN Append(SubSeq(stack, 1, rest), Of(p, SubSeq(stack, rest + 1, Len(stack))))
  IN FoldLeft(Do, <<>>, [p \in 1 .. last |-> p])

\* The type of every operation's result: a branch not taken counts too.
Types(ops, schema) ==
  LET Type(p, types) ==
        LET op == ops[p]
            deciding == IF op.name = "Case" THEN {types[3], types[4]} ELSE Range(types)
        IN CASE op.name = "Column" -> schema[op.slot].type
             [] op.name = "Literal" -> IF op.value.kind = "number" THEN "double" ELSE "integer"
             [] op.name \in {"ToDouble", "Sqrt", "Divide", "SafeDivide"} -> "double"
             [] OTHER -> IF "double" \in deciding THEN "double" ELSE "integer"
  IN [p \in DOMAIN ops |-> Last(Stack(ops, p, Type))]

\* Mutant: a division is NULL only if an operand is.
NullableArity(ops, schema) ==
  LET May(p, may) ==
        LET op == ops[p]
        IN CASE op.name = "Column" -> schema[op.slot].nullable
             [] op.name = "Literal" -> op.value = Null
             [] op.name = "Case" -> may[3] \/ may[4]
             [] op.name = "Coalesce" -> may[1] /\ may[2]
             [] OTHER -> TRUE \in Range(may)
  IN Stack(ops, Len(ops), May)[1]

Nullable(ops, schema) ==
  LET May(p, may) ==
        LET op == ops[p]
        IN CASE op.name = "Column" -> schema[op.slot].nullable
             [] op.name = "Literal" -> op.value = Null
             [] op.name = "Case" -> may[3] \/ may[4]
             [] op.name = "Coalesce" -> may[1] /\ may[2]
             [] op.name \in {"SafeDivide", "NullIf"} -> TRUE
             [] OTHER -> TRUE \in Range(may)
  IN Stack(ops, Len(ops), May)[1]

\* Where the operands of an operation start.
OperandsOf(op, starts) == SubSeq(starts, Len(starts) + 1 - Arity(op), Len(starts))
Starts(ops, p) ==
  OperandsOf(ops[p], Stack(ops, p - 1, LAMBDA q, starts : IF starts = <<>> THEN q ELSE starts[1]))

\* The operation that has an operand starting here, or 0.
To(ops, starts, name, operand, s) ==
  LET at == {p \in DOMAIN ops : ops[p].name = name /\ starts[p][operand] = s}
  IN IF at = {} THEN 0 ELSE Least(at)

\* Where evaluation may leave its path, by the position an operand starts at.
Fourth(starts, p) == IF p = 0 THEN 0 ELSE starts[p][4]
JumpsFrom(ops, starts) ==
  [fallbackEnd |-> [s \in DOMAIN ops |-> To(ops, starts, "Coalesce", 2, s)],
   caseEnd |-> [s \in DOMAIN ops |-> To(ops, starts, "Case", 4, s)],
   alternative |-> [s \in DOMAIN ops |-> Fourth(starts, To(ops, starts, "Case", 3, s))]]
Jumps(ops) == JumpsFrom(ops, [p \in DOMAIN ops |-> Starts(ops, p)])

\* A definition: its program, and what binding and planning derive from it.
Definition(ops, schema) ==
  [ops |-> ops, types |-> Types(ops, schema), jumps |-> Jumps(ops),
   type |-> Last(Types(ops, schema)), nullable |-> Nullable(ops, schema)]

RequiresOrder(definition) ==
  \E p \in DOMAIN definition.ops : definition.ops[p].name \in {"Coalesce", "NullIf", "Case"}

Columns(definition) ==
  {definition.ops[p].slot : p \in {p \in DOMAIN definition.ops : definition.ops[p].name = "Column"}}

----------------------------------------------------------------------------
(* Evaluation, over what is known of a row: a function of its slots. *)

\* A program without conditions, over one row of a batch.
Operated(op, schema, known, args) ==
  LET faults == {i \in DOMAIN args : Faulty(args[i])}
  IN CASE op.name = "Column" -> IF known[op.slot] = Null /\ ~schema[op.slot].nullable
                                THEN Corrupt ELSE known[op.slot]
       [] op.name = "Literal" -> op.value
       [] OTHER -> IF faults # {} THEN args[Least(faults)]
                   ELSE IF op.name \in Unaries THEN Unary(op.name, args[1])
                   ELSE Binary(op.name, args[1], args[2])

EvaluateBatch(definition, schema, known) ==
  Stack(definition.ops, Len(definition.ops),
        LAMBDA p, args : Operated(definition.ops[p], schema, known, args))[1]

NewEvaluation == [position |-> 1, stack |-> <<>>, wants |-> 0, fault |-> Null]
Halted(e) == e.wants # 0 \/ e.fault # Null

\* The operation at the position, and its supply when it is a column.
PushValue(e, rest, v) ==
  IF Faulty(v) THEN [e EXCEPT !.fault = v]
  ELSE [e EXCEPT !.stack = Append(SubSeq(@, 1, rest), v), !.position = @ + 1]
Supply(slot, v) ==
  IF v = Null THEN slot.nullable ELSE slot.type = "integer" <=> v.kind = "integer"
NullIf(x, y) == IF Null \notin {x, y} /\ Test("=", x, y) THEN Null ELSE x

OperationValue(op, type, schema, known, args) ==
  CASE op.name = "Column" -> IF Supply(schema[op.slot], known[op.slot]) THEN known[op.slot] ELSE Corrupt
    [] op.name = "Literal" -> op.value
    [] op.name \in Unaries -> Unary(op.name, args[1])
    [] op.name = "Coalesce" -> Coerce(args[2], type)
    [] op.name = "NullIf" -> NullIf(Coerce(args[1], type), Coerce(args[2], type))
    [] OTHER -> Binary(op.name, args[1], args[2])

Perform(op, type, schema, known, e, rest) ==
  CASE op.name = "Column" /\ op.slot \notin DOMAIN known -> [e EXCEPT !.wants = op.slot]
    [] op.name = "Case" ->
         [e EXCEPT !.stack = Append(Front(@), Coerce(Last(@), type)), !.position = @ + 1]
    [] OTHER -> PushValue(e, rest, OperationValue(op, type, schema, known,
                                                  SubSeq(e.stack, rest + 1, Len(e.stack))))

Execute(definition, schema, known, e) ==
  LET op == definition.ops[e.position]
  IN Perform(op, definition.types[e.position], schema, known, e, Len(e.stack) - Arity(op))

\* Mutant: a skipped fallback leaves the left value in its own type.
TurnUncoerced(definition, schema, known, e) ==
  LET p == e.position
      jumps == definition.jumps
      end == jumps.caseEnd[p]
      alternative == jumps.alternative[p]
      rest == SubSeq(e.stack, 1, Len(e.stack) - 2)
      chosen == Chooses(definition.ops[jumps.caseEnd[alternative]].test,
                        e.stack[Len(rest) + 1], Last(e.stack))
      Skip(at) == [e EXCEPT !.position = at + 1]
  IN CASE end # 0 -> [Skip(end) EXCEPT !.stack = Append(Front(@), Coerce(Last(@), definition.types[end]))]
       [] end = 0 /\ jumps.fallbackEnd[p] # 0 /\ Last(e.stack) # Null -> Skip(jumps.fallbackEnd[p])
       [] OTHER -> Execute(definition, schema, known,
            IF alternative = 0 THEN e
            ELSE [e EXCEPT !.stack = rest, !.position = IF chosen THEN p ELSE alternative])

\* Leave a chosen result or a left value that needs no fallback; at the start of
\* a result, choose; then execute.
Turn(definition, schema, known, e) ==
  LET p == e.position
      jumps == definition.jumps
      end == jumps.caseEnd[p]
      alternative == jumps.alternative[p]
      rest == SubSeq(e.stack, 1, Len(e.stack) - 2)
      chosen == Chooses(definition.ops[jumps.caseEnd[alternative]].test,
                        e.stack[Len(rest) + 1], Last(e.stack))
      Leave(at) == [e EXCEPT !.position = at + 1,
                             !.stack = Append(Front(@), Coerce(Last(@), definition.types[at]))]
  IN CASE end # 0 -> Leave(end)
       [] end = 0 /\ jumps.fallbackEnd[p] # 0 /\ Last(e.stack) # Null -> Leave(jumps.fallbackEnd[p])
       [] OTHER -> Execute(definition, schema, known,
            IF alternative = 0 THEN e
            ELSE [e EXCEPT !.stack = rest, !.position = IF chosen THEN p ELSE alternative])

\* Until the program ends, fails or needs a value that is not known yet.
Evaluate(definition, schema, known) ==
  FoldLeft(LAMBDA e, i : IF Halted(e) \/ e.position > Len(definition.ops) THEN e
                         ELSE Turn(definition, schema, known, e),
           NewEvaluation, definition.ops)

----------------------------------------------------------------------------
(* The values of a row.  A plan has [schema, definitions]; the slots of its  *)
(* definitions follow those that are stored. *)

Stored(plan) == Len(plan.schema) - Len(plan.definitions)
Define(plan, slot) == plan.definitions[slot - Stored(plan)]

\* Every definition the slots may use, taken or not.
Dependencies(plan, slots) ==
  LET Use(needed, i) ==
        LET slot == Len(plan.schema) + 1 - i
        IN IF slot \in needed THEN needed \union Columns(Define(plan, slot)) ELSE needed
  IN FoldLeft(Use, slots, [i \in DOMAIN plan.definitions |-> i])

\* Dependencies first, each over what is known by then.
PlainValue(plan, known, slot) ==
  LET needed == Dependencies(plan, {slot})
      Next(k, i) ==
        LET at == Stored(plan) + i
        IN IF at > slot \/ at \notin needed \/ at \in DOMAIN k THEN k
           ELSE (at :> EvaluateBatch(Define(plan, at), plan.schema, k)) @@ k
  IN FoldLeft(Next, known, [i \in DOMAIN plan.definitions |-> i])

\* One turn of conditional_value, when evaluating the definition "at" made e.
Worked(w, slot, at, e) ==
  CASE e.wants # 0 /\ e.wants >= at -> [pending |-> <<>>, known |-> (slot :> Corrupt) @@ w.known]
    [] e.wants # 0 /\ e.wants < at -> [w EXCEPT !.pending = Append(@, e.wants)]
    [] e.fault # Null -> [pending |-> <<>>, known |-> (slot :> e.fault) @@ w.known]
    [] OTHER -> [w EXCEPT !.known = (at :> e.stack[1]) @@ @]

\* Each definition is evaluated, at most once waited for, and left.
WorkOn(plan, known, slot, pending) ==
  FoldLeft(LAMBDA w, i :
             IF w.pending = <<>> THEN w
             ELSE IF Last(w.pending) \in DOMAIN w.known THEN [w EXCEPT !.pending = Front(@)]
             ELSE Worked(w, slot, Last(w.pending),
                         Evaluate(Define(plan, Last(w.pending)), plan.schema, w.known)),
           [pending |-> pending, known |-> known],
           [i \in 1 .. 3 * Len(plan.definitions) |-> i]).known

\* Mutant: a definition finds every value it may use computed.
ConditionalValueEager(plan, known, slot) ==
  FoldLeft(LAMBDA k, s : IF Failure \in {k[c] : c \in DOMAIN k} THEN (slot :> Failure) @@ k
                         ELSE WorkOn(plan, k, s, <<s>>),
           known, SetToSortSeq({s \in Dependencies(plan, {slot}) : s > Stored(plan) /\ s <= slot}, <))

\* A definition that needs another waits for it and then starts again.
ConditionalValue(plan, known, slot) == WorkOn(plan, known, slot, <<slot>>)

\* What is known of the row once the slot's value was asked for.
RowValue(plan, known, slot) ==
  CASE slot \in DOMAIN known -> known
    [] plan.conditional -> ConditionalValue(plan, known, slot)
    [] OTHER -> PlainValue(plan, known, slot)

\* A batch of rows and the slots asked of it: column by column, or row by row.
BatchValues(plan, rows, slots) ==
  LET Next(k, slot) == RowValue(plan, k, slot)
      needed == Dependencies(plan, Range(slots))
      Column1(known, i) ==
        LET at == Stored(plan) + i
        IN IF at \notin needed THEN known
           ELSE [p \in DOMAIN known |-> (at :> EvaluateBatch(Define(plan, at), plan.schema, known[p])) @@ known[p]]
  IN IF plan.conditional THEN [p \in DOMAIN rows |-> FoldLeft(Next, rows[p], slots)]
     ELSE FoldLeft(Column1, rows, [i \in DOMAIN plan.definitions |-> i])

\* Why the slots have no values, or Null.  A batch takes values of its type.
Refusal(plan, known, slots) ==
  LET values == [i \in DOMAIN slots |-> IF slots[i] \in DOMAIN known THEN known[slots[i]] ELSE Corrupt]
      Fits(i) == values[i] = Null \/ (values[i].kind = "integer" <=> plan.schema[slots[i]].type = "integer")
  IN CASE \E i \in DOMAIN slots : values[i] = Failure -> Failure
       [] \E i \in DOMAIN slots : values[i] = Corrupt \/ ~Fits(i) -> Corrupt
       [] OTHER -> Null
=============================================================================
