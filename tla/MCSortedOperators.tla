-------------------------- MODULE MCSortedOperators --------------------------
(* Small inputs for the sorting operators: one or two columns, NULL, NaN, both *)
(* zeros, a row that a filter drops and a row whose expression fails.          *)
EXTENDS SortedOperators

Seqs(S, n) == UNION {[1 .. k -> S] : k \in 0 .. n}
One == Number(1)
Two == Number(2)

\* What follows the operator drops rows that end in 7 and fails on rows in 9.
MCVerdict(row) ==
  CASE row[Len(row)] = Number(7) -> "drop" [] row[Len(row)] = Number(9) -> "fail"
    [] OTHER -> "keep"

Ask(op, width, keys, left, right) ==
  [op |-> op, width |-> width, keys |-> keys, partition |-> 0, argument |-> 1,
   direct |-> FALSE, faulty |-> FALSE,
   rows |-> [i \in {0, 1} |-> IF i = 0 THEN left ELSE right]]

\* The second column tells equal keys apart and decides what follows.
Tagged(keys, tags) == [p \in 1 .. Len(keys) |-> <<keys[p], Number(tags[p])>>]
Single(keys) == [p \in 1 .. Len(keys) |-> <<keys[p]>>]
Tags == <<1, 2, 3, 4, 5, 6>>
Failing == <<1, 7, 9, 7, 2, 3>>

OrderQueries ==
  {[Ask("order", 2, <<KeyWith(1, d, l), Key(1)>>, Tagged(k, Tags), <<>>)
      EXCEPT !.faulty = Len(k) = 2] :
     d \in BOOLEAN, l \in BOOLEAN, k \in Seqs({Null, NaN, One}, 2)}
  \union {Ask("order", 2, <<KeyWith(2, TRUE, FALSE), Key(1)>>, Tagged(k, t), <<>>) :
     k \in {<<Two, One, One, Two, One>>, <<One, Null, Two, One, Two, One>>},
     t \in {Tags, Failing}}
  \union {Ask("order", 2, <<Key(1)>>, Tagged(k, t), <<>>) :
     k \in [1 .. 4 -> {One, Two}], t \in {Tags, Failing}}

DistinctQueries ==
  {Ask("distinct", 1, <<Key(1)>>, Single(k), <<>>) :
     k \in Seqs({Number(0), NegativeZero, Number(7), Number(9)}, 3)}

WindowQueries ==
  {Ask("count", 2, <<>>, Tagged(k, Tags), <<>>) : k \in Seqs({Null, Two}, 3)}
  \union {Ask("partition", 2, <<Key(1)>>, Tagged(k, Tags), <<>>) : k \in Seqs({Null, One, Two}, 3)}
  \union {[Ask("sum", 2, <<Key(1), KeyWith(2, TRUE, TRUE)>>, k, <<>>)
             EXCEPT !.partition = n, !.argument = 2] :
            n \in {0, 1}, k \in Seqs({<<One, One>>, <<One, Null>>, <<Two, Two>>}, 3)}

JoinQueries ==
  {Ask(op, 2, <<Key(1)>>, Tagged(l, Tags), Tagged(r, Failing)) :
     op \in JoinOps, l \in Seqs({Null, NaN, One}, 2), r \in Seqs({Null, NaN, One}, 2)}
  \union {[Ask(op, 2, <<Key(1)>>, Tagged(l, Tags), Tagged(r, Tags)) EXCEPT !.direct = d] :
     op \in JoinOps, d \in BOOLEAN, l \in {<<Two, One, Two>>, <<Two, Two>>},
     r \in {<<Two, Two, Two>>, <<One, Two, Two, Null>>}}

SetQueries ==
  {Ask(op, 1, <<Key(1)>>, Single(l), Single(r)) :
     op \in SetOps, l \in Seqs({Number(0), NegativeZero, One}, 2),
     r \in Seqs({Null, Number(0)}, 2)}
  \union {Ask(op, 1, <<Key(1)>>, Single(l), Single(r)) :
     op \in SetOps, l \in {<<One, Two, One, Two>>, <<Number(9), One, Number(7)>>},
     r \in {<<Two, One>>, <<One, One, Two>>}}

MCQueries == OrderQueries \union DistinctQueries \union WindowQueries
             \union JoinQueries \union SetQueries
=============================================================================
