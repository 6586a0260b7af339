--------------------------- MODULE InventoryProofs ---------------------------
(***************************************************************************)
(* That Inventory offers exactly the names no view references: the marks   *)
(* of every record read and written are followed from the two enumerations *)
(* through chunks, runs and merges to the run that is checked and offered. *)
(***************************************************************************)
EXTENDS Inventory, FiniteSetTheorems, TLAPS

-----------------------------------------------------------------------------
(* The inductive invariant.                                                 *)

\* What one record says of its object, and what a sequence of them says.
MarksOf(r) ==
  (IF r.name THEN {<<r.id, "name">>} ELSE {})
    \union (IF r.ref THEN {<<r.id, "ref">>} ELSE {})
Marks(s) == UNION {MarksOf(s[i]) : i \in DOMAIN s}
RunMarks(rs, k) == UNION {Marks(rs[i].checksum) : i \in {j \in DOMAIN rs : k <= j}}

\* What the enumerations have said.
Given == (listed \X {"name"}) \union (walked \X {"ref"})

\* The records a cursor has handed over; its head is not among them.
Taken(c) == IF c.head = None THEN Len(c.seen) ELSE Len(c.seen) - 1
TakenOf(c) == UNION {MarksOf(c.seen[k]) : k \in 1 .. Taken(c)}
TakenMarks == UNION {TakenOf(cursors[i]) : i \in DOMAIN cursors}

Pushing == {"listing", "walking"}
Scanned == {"merging", "checking", "ready", "finished"}
OneRun == {"checking", "ready", "finished"}

RunsTyped(rs) ==
  /\ rs \in Seq(Run)
  /\ \A i \in DOMAIN rs :
       /\ rs[i].records = Len(rs[i].checksum) /\ rs[i].records > 0
       /\ rs[i].offset = IF i = 1 THEN 0 ELSE rs[i - 1].offset + rs[i - 1].records
       /\ rs[i].offset + rs[i].records <= End(rs)

CursorTyped(c) ==
  /\ c \in [run : Run, read : Nat, seen : Seq(Record), head : Record \union {None}]
  /\ c.read = Len(c.seen) /\ 0 < c.read /\ c.read <= c.run.records
  /\ c.head = None => c.seen = c.run.checksum
  /\ c.head # None => c.head = c.seen[Len(c.seen)]

Constant ==
  /\ names \subseteq Object /\ protected \subseteq Object
  /\ listed \subseteq names /\ walked \subseteq protected /\ references \in Nat
  /\ at \in Nat \ {0} /\ start \in Nat \ {0}

Filed ==
  /\ chunk \in Seq(Record) /\ Len(chunk) <= ChunkRecords
  /\ slots \in [{0, 1} -> Seq(Record)] /\ source \in {0, 1}
  /\ RunsTyped(runs) /\ RunsTyped(merged)
  /\ pending \in Record \union {None} /\ written \in Seq(Record)
  /\ End(runs) <= Len(slots[source])
  /\ End(merged) + Len(written) <= Len(slots[1 - source])

Opened ==
  /\ cursors = <<>> => pending = None /\ written = <<>>
  /\ Len(cursors) <= FanIn
  /\ cursors # <<>> => start <= Len(runs) /\ Len(cursors) = GroupEnd - start + 1
  /\ cursors \in Seq([run : Run, read : Nat, seen : Seq(Record), head : Record \union {None}])
  /\ \A i \in DOMAIN cursors : CursorTyped(cursors[i]) /\ cursors[i].run = runs[start + i - 1]
  /\ pending = None => written = <<>> /\ \A i \in DOMAIN cursors : cursors[i].head # None

Phased ==
  /\ state \in {"listing", "walking", "merging", "checking", "ready", "finished", "failed"}
  /\ state \in Pushing =>
       source = 0 /\ start = 1 /\ cursors = <<>> /\ merged = <<>>
  /\ state \in Scanned => listed = names /\ walked = protected /\ chunk = <<>>
  /\ state = "merging" /\ Len(runs) <= 1 => cursors = <<>> /\ merged = <<>>
  /\ state = "listing" => walked = {}
  /\ state = "walking" => listed = names
  /\ state \in OneRun => Len(runs) <= 1
  /\ state \in Pushing \union {"merging", "checking"} =>
       at = 1 /\ loaded = <<0, <<>>>> /\ offered = <<>>
  /\ state \in Pushing \union {"merging"} => pages = <<>> /\ checked = <<>>
  /\ disturbed \in {"nothing", "doubled", "interrupted", "decayed"}

Carried ==
  /\ state \in Pushing => Marks(chunk) \union RunMarks(runs, 1) = Given
  /\ state = "merging" => RunMarks(merged, 1) \union RunMarks(runs, start) = Given
  /\ state = "merging" => Marks(written) \union MarksOf(pending) = TakenMarks
  /\ state = "merging" /\ Len(runs) <= 1 => start = 1
  /\ state \in OneRun => RunMarks(runs, 1) = Given

Paged ==
  state \in OneRun =>
  /\ pages \in Seq(Seq(Record)) /\ checked \in Seq(Record)
  /\ Len(checked) = IF Len(pages) * PageRecords < Count THEN Len(pages) * PageRecords ELSE Count
  /\ \A k \in DOMAIN pages :
       /\ (k - 1) * PageRecords < Count
       /\ Len(pages[k]) = IF k * PageRecords < Count THEN PageRecords
                          ELSE Count - (k - 1) * PageRecords
       /\ \A j \in DOMAIN pages[k] : pages[k][j] = checked[(k - 1) * PageRecords + j]
  /\ Ascending(checked) /\ ~Missing(checked)

Candidate(k) == checked[k].name /\ ~checked[k].ref

Read ==
  state \in {"ready", "finished"} =>
  /\ Len(checked) = Count
  /\ runs # <<>> => checked = runs[1].checksum
  /\ loaded # <<0, <<>>>> => loaded[1] \in DOMAIN pages /\ loaded = <<loaded[1], pages[loaded[1]]>>
  /\ at <= Count + 1
  /\ offered \in Seq(Object)
  /\ ToSet(offered) = {checked[k].id : k \in {j \in 1 .. at - 1 : Candidate(j)}}
  /\ Len(offered) = Cardinality(ToSet(offered))
  /\ state = "finished" => at > Count

NamesOf(s) == {n \in Object : <<n, "name">> \in Marks(s)}
Apart(s, t) == NamesOf(s) \intersect NamesOf(t) = {}

\* What a file holds is what was written, run by run.
Stored(rs, file) ==
  \A i \in DOMAIN rs : \A k \in 1 .. rs[i].records : file[rs[i].offset + k] = rs[i].checksum[k]

Sorted(rs) == \A i \in DOMAIN rs : Ascending(rs[i].checksum)
ApartFrom(rs, k) == \A i, j \in DOMAIN rs : k <= i /\ i < j => Apart(rs[i].checksum, rs[j].checksum)

Kept ==
  disturbed = "nothing" =>
  /\ Sorted(runs) /\ Sorted(merged)
  /\ Stored(runs, slots[source]) /\ Stored(merged, slots[1 - source])
  /\ \A k \in DOMAIN written : slots[1 - source][End(merged) + k] = written[k]
  /\ \A i \in DOMAIN cursors : \A k \in DOMAIN cursors[i].seen :
       cursors[i].seen[k] = cursors[i].run.checksum[k]
  /\ Ascending(written)
  /\ pending # None =>
       /\ \A k \in DOMAIN written : written[k].id < pending.id
       /\ \A i \in Heads : pending.id <= cursors[i].head.id
  /\ state \in OneRun /\ runs # <<>> =>
       \A k \in DOMAIN checked : checked[k] = runs[1].checksum[k]

Once ==
  disturbed = "nothing" =>
  /\ ~ClashIn(chunk)
  /\ \A i \in DOMAIN runs : Apart(chunk, runs[i].checksum)
  /\ ApartFrom(runs, start) /\ ApartFrom(merged, 1)
  /\ \A i \in DOMAIN merged : \A j \in DOMAIN runs :
        start <= j => Apart(merged[i].checksum, runs[j].checksum)

-----------------------------------------------------------------------------
(* The operators the model is built from.                                   *)

\* What appending one element does to a sequence.
LEMMA SequenceFacts ==
  ASSUME NEW S
  PROVE  /\ <<>> \in Seq(S)
         /\ \A s \in Seq(S) : /\ Len(s) \in Nat /\ DOMAIN s = 1 .. Len(s)
                              /\ \A i \in DOMAIN s : s[i] \in S
                              /\ s = <<>> <=> Len(s) = 0
         /\ \A s \in Seq(S) : \A e \in S :
              /\ Append(s, e) \in Seq(S) /\ Len(Append(s, e)) = Len(s) + 1
              /\ \A i \in 1 .. Len(s) : Append(s, e)[i] = s[i]
              /\ Append(s, e)[Len(s) + 1] = e
<1>1. <<>> \in Seq(S)
    OBVIOUS
<1>2. \A s \in Seq(S) : /\ Len(s) \in Nat /\ DOMAIN s = 1 .. Len(s)
                        /\ \A i \in DOMAIN s : s[i] \in S
                        /\ s = <<>> <=> Len(s) = 0
    OBVIOUS
<1>3. ASSUME NEW s \in Seq(S), NEW e \in S
      PROVE  /\ Append(s, e) \in Seq(S) /\ Len(Append(s, e)) = Len(s) + 1
             /\ \A i \in 1 .. Len(s) : Append(s, e)[i] = s[i]
             /\ Append(s, e)[Len(s) + 1] = e
    OBVIOUS
<1> QED
    BY <1>1, <1>2, <1>3

\* What putting one sequence after another does.
LEMMA ConcatFacts ==
  ASSUME NEW S, NEW s \in Seq(S), NEW t \in Seq(S)
  PROVE  /\ s \o t \in Seq(S) /\ Len(s \o t) = Len(s) + Len(t)
         /\ \A i \in 1 .. Len(s) : (s \o t)[i] = s[i]
         /\ \A i \in 1 .. Len(t) : (s \o t)[Len(s) + i] = t[i]
<1>1. s \o t \in Seq(S) /\ Len(s \o t) = Len(s) + Len(t)
    OBVIOUS
<1>2. \A i \in 1 .. Len(s) : (s \o t)[i] = s[i]
    OBVIOUS
<1>3. \A i \in 1 .. Len(t) : (s \o t)[Len(s) + i] = t[i]
    OBVIOUS
<1> QED
    BY <1>1, <1>2, <1>3

\* What a part of a sequence is.
LEMMA SubSeqFacts ==
  ASSUME NEW S, NEW s \in Seq(S), NEW m \in Nat \ {0}, NEW n \in 0 .. Len(s)
  PROVE  /\ SubSeq(s, m, n) \in Seq(S)
         /\ Len(SubSeq(s, m, n)) = IF m <= n THEN n - m + 1 ELSE 0
         /\ \A i \in 1 .. n - m + 1 : SubSeq(s, m, n)[i] = s[m + i - 1]
<1>1. Len(SubSeq(s, m, n)) = IF m <= n THEN n - m + 1 ELSE 0
    OBVIOUS
<1>2. \A i \in 1 .. n - m + 1 : SubSeq(s, m, n)[i] = s[m + i - 1]
    OBVIOUS
<1>3. SubSeq(s, m, n) \in Seq(S)
    OBVIOUS
<1> QED
    BY <1>1, <1>2, <1>3

\* A write within a file, or at its end, leaves the rest as it was.
LEMMA OverwriteFacts ==
  ASSUME NEW S, NEW file \in Seq(S), NEW records \in Seq(S), NEW offset \in 0 .. Len(file)
  PROVE  /\ Overwrite(file, offset, records) \in Seq(S)
         /\ Len(Overwrite(file, offset, records)) >= Len(file)
         /\ Len(Overwrite(file, offset, records)) >= offset + Len(records)
         /\ \A i \in 1 .. offset : Overwrite(file, offset, records)[i] = file[i]
         /\ \A i \in 1 .. Len(records) : Overwrite(file, offset, records)[offset + i] = records[i]
<1> DEFINE before == SubSeq(file, 1, offset)
           after == SubSeq(file, offset + Len(records) + 1, Len(file))
<1>1. before \in Seq(S) /\ Len(before) = offset /\ \A i \in 1 .. offset : before[i] = file[i]
  <2>1. 1 \in Nat \ {0} /\ Len(records) \in Nat /\ Len(file) \in Nat
      OBVIOUS
  <2> QED
      BY <2>1, SubSeqFacts
<1>2. /\ after \in Seq(S)
      /\ Len(after) = IF offset + Len(records) + 1 <= Len(file)
                      THEN Len(file) - offset - Len(records) ELSE 0
  <2>1. offset + Len(records) + 1 \in Nat \ {0} /\ Len(file) \in 0 .. Len(file)
      OBVIOUS
  <2>2. /\ after \in Seq(S)
        /\ Len(after) = IF offset + Len(records) + 1 <= Len(file)
                        THEN Len(file) - (offset + Len(records) + 1) + 1 ELSE 0
      BY <2>1, SubSeqFacts
  <2> QED
      BY <2>1, <2>2
<1> HIDE DEF before, after
<1>3. /\ before \o records \in Seq(S) /\ Len(before \o records) = offset + Len(records)
      /\ \A i \in 1 .. offset : (before \o records)[i] = file[i]
      /\ \A i \in 1 .. Len(records) : (before \o records)[offset + i] = records[i]
  <2>1. /\ before \o records \in Seq(S)
        /\ Len(before \o records) = Len(before) + Len(records)
        /\ \A i \in 1 .. Len(before) : (before \o records)[i] = before[i]
        /\ \A i \in 1 .. Len(records) : (before \o records)[Len(before) + i] = records[i]
    <3>1. before \in Seq(S) /\ records \in Seq(S)
        BY <1>1
    <3> QED
        BY ONLY <3>1, ConcatFacts
  <2> QED
      BY <1>1, <2>1
<1> DEFINE first == before \o records
<1> HIDE DEF first
<1>4. /\ first \in Seq(S) /\ Len(first) = offset + Len(records)
      /\ \A i \in 1 .. offset : first[i] = file[i]
      /\ \A i \in 1 .. Len(records) : first[offset + i] = records[i]
    BY <1>3 DEF first
<1>5. /\ first \o after \in Seq(S) /\ Len(first \o after) = Len(first) + Len(after)
      /\ \A i \in 1 .. Len(first) : (first \o after)[i] = first[i]
  <2>1. first \in Seq(S) /\ after \in Seq(S)
      BY <1>2, <1>4
  <2> QED
      BY ONLY <2>1, ConcatFacts
<1>6. Overwrite(file, offset, records) = first \o after
    BY DEF Overwrite, first, before, after
<1>7. Len(records) \in Nat /\ Len(file) \in Nat /\ offset \in Nat
    OBVIOUS
<1>8. \A i \in 1 .. offset : Overwrite(file, offset, records)[i] = file[i]
    BY <1>4, <1>5, <1>6, <1>7
<1>9. ASSUME NEW i \in 1 .. Len(records)
      PROVE  Overwrite(file, offset, records)[offset + i] = records[i]
  <2>1. offset + i \in 1 .. Len(first)
      BY <1>4, <1>7
  <2> QED
      BY <2>1, <1>4, <1>5, <1>6
<1> QED
    BY <1>2, <1>4, <1>5, <1>6, <1>7, <1>8, <1>9

\* How many of a set of identities come up to one of them.
Rank(ids, n) == Cardinality({m \in ids : m <= n})

\* The identities of a set have the ranks 1, 2, ... in their order.
LEMMA RankFacts ==
  ASSUME NEW ids \in SUBSET Nat, IsFiniteSet(ids)
  PROVE  /\ Cardinality(ids) \in Nat
         /\ \A n \in ids : Rank(ids, n) \in 1 .. Cardinality(ids)
         /\ \A n, k \in ids : n < k => Rank(ids, n) < Rank(ids, k)
         /\ \A i \in 1 .. Cardinality(ids) : \E n \in ids : Rank(ids, n) = i
<1> DEFINE upTo(n) == {m \in ids : m <= n}
           rank == [n \in ids |-> Rank(ids, n)]
<1>2. IsFiniteSet(ids) /\ Cardinality(ids) \in Nat
    BY FS_CardinalityType
<1>3. \A n : IsFiniteSet(upTo(n)) /\ Cardinality(upTo(n)) \in Nat
             /\ Cardinality(upTo(n)) <= Cardinality(ids)
  <2>1. \A n : upTo(n) \in SUBSET ids
      OBVIOUS
  <2> QED
      BY <1>2, <2>1, FS_Subset, FS_CardinalityType
<1>4. ASSUME NEW n \in ids PROVE Rank(ids, n) \in 1 .. Cardinality(ids)
  <2>1. n \in upTo(n)
      OBVIOUS
  <2>2. Cardinality(upTo(n)) # 0
      BY <1>3, <2>1, FS_EmptySet
  <2> QED
      BY <1>2, <1>3, <2>2 DEF Rank
<1>5. ASSUME NEW n \in ids, NEW k \in ids, n < k PROVE Rank(ids, n) < Rank(ids, k)
  <2>1. n \in Int /\ k \in Int /\ ids \subseteq Int
      OBVIOUS
  <2>2. upTo(n) \in SUBSET upTo(k) /\ k \in upTo(k) /\ k \notin upTo(n)
    <3>1. ASSUME NEW m \in upTo(n) PROVE m \in upTo(k)
        BY <2>1, <1>5
    <3>2. k \in upTo(k) /\ k \notin upTo(n)
        BY <2>1, <1>5
    <3> QED
        BY <3>1, <3>2
  <2>3. /\ Cardinality(upTo(n)) <= Cardinality(upTo(k))
        /\ Cardinality(upTo(k)) = Cardinality(upTo(n)) => upTo(k) = upTo(n)
    <3> HIDE DEF upTo
    <3> QED
      BY <1>3, <2>2, FS_Subset
  <2>4. Cardinality(upTo(n)) # Cardinality(upTo(k))
      BY <2>2, <2>3
  <2> HIDE DEF upTo
  <2>5. Cardinality(upTo(n)) < Cardinality(upTo(k))
      BY <1>3, <2>3, <2>4
  <2> QED
      BY <2>5 DEF Rank, upTo
<1>6. rank \in Injection(ids, 1 .. Cardinality(ids))
  <2>1. rank \in [ids -> 1 .. Cardinality(ids)]
      BY <1>4
  <2>2. ASSUME NEW n \in ids, NEW k \in ids, rank[n] = rank[k] PROVE n = k
    <3>1. n \in Int /\ k \in Int
        OBVIOUS
    <3>2. Rank(ids, n) = Rank(ids, k) /\ Rank(ids, n) \in Int
        BY <2>2, <1>4, <1>2
    <3>3. ~(n < k) /\ ~(k < n)
        BY <1>5, <3>2
    <3> QED
        BY <3>1, <3>3
  <2> QED
      BY <2>1, <2>2 DEF Injection, IsInjective
<1>7. /\ IsFiniteSet(1 .. Cardinality(ids))
      /\ Cardinality(1 .. Cardinality(ids)) = Cardinality(ids)
    BY <1>2, FS_Interval
<1>8. rank \in Surjection(ids, 1 .. Cardinality(ids))
  <2> HIDE DEF rank
  <2> QED
    BY <1>6, <1>7, FS_Injection
<1>9. \A i \in 1 .. Cardinality(ids) : \E n \in ids : Rank(ids, n) = i
    BY <1>8 DEF Surjection
<1> QED
    BY <1>2, <1>4, <1>5, <1>9

\* Nth lists the identities of a set in ascending order.
LEMMA NthFacts ==
  ASSUME NEW ids \in SUBSET Nat, IsFiniteSet(ids)
  PROVE  /\ Cardinality(ids) \in Nat
         /\ ids # {} => Cardinality(ids) > 0
         /\ \A i \in 1 .. Cardinality(ids) : Nth(ids, i) \in ids
         /\ \A i, j \in 1 .. Cardinality(ids) : i < j => Nth(ids, i) < Nth(ids, j)
         /\ \A n \in ids : \E i \in 1 .. Cardinality(ids) : Nth(ids, i) = n
<1>1. \A i \in 1 .. Cardinality(ids) : Nth(ids, i) \in ids /\ Rank(ids, Nth(ids, i)) = i
    BY RankFacts DEF Nth, Rank
<1>2. ids \subseteq Int /\ Cardinality(ids) \in Nat
    BY RankFacts
<1>3. ASSUME NEW i \in 1 .. Cardinality(ids), NEW j \in 1 .. Cardinality(ids), i < j
      PROVE  Nth(ids, i) < Nth(ids, j)
  <2>0. Nth(ids, i) \in ids /\ Nth(ids, j) \in ids
      BY <1>1
  <2>a. Nth(ids, i) \in Int /\ Nth(ids, j) \in Int
      BY <2>0, <1>2, Zenon
  <2>b. i \in Int /\ j \in Int
      BY <1>2
  <2>1. Nth(ids, i) \in Int /\ Nth(ids, j) \in Int /\ i \in Int /\ j \in Int
      BY <2>a, <2>b
  <2>2. Nth(ids, i) # Nth(ids, j)
      BY <1>1, <1>3, <2>1
  <2>3. ~(Nth(ids, j) < Nth(ids, i))
      BY <1>1, <1>3, <2>1, RankFacts
  <2> QED
      BY <2>1, <2>2, <2>3
<1>4. ASSUME NEW n \in ids PROVE \E i \in 1 .. Cardinality(ids) : Nth(ids, i) = n
  <2> DEFINE i == Rank(ids, n)
  <2>1. i \in 1 .. Cardinality(ids)
      BY RankFacts
  <2>2. Rank(ids, Nth(ids, i)) = i /\ Nth(ids, i) \in ids
      BY <1>1, <2>1
  <2>3. Nth(ids, i) \in Int /\ n \in Int
    <3> HIDE DEF i
    <3> QED
      BY <1>2, <2>2
  <2>4. ~(Nth(ids, i) < n) /\ ~(n < Nth(ids, i))
      BY <2>2, <2>3, RankFacts
  <2>5. Nth(ids, i) = n
      BY <2>3, <2>4
  <2> QED
      BY <2>1, <2>5
<1>5. ids # {} => Cardinality(ids) > 0
    BY RankFacts, FS_EmptySet
<1> QED
    BY <1>1, <1>2, <1>3, <1>4, <1>5

\* A finite set of numbers has a least one, and identities are such a set.
LEMMA LeastNumber ==
  ASSUME NEW ids \in SUBSET Nat, IsFiniteSet(ids), ids # {}
  PROVE  \E n \in ids : \A m \in ids : n <= m
<1> DEFINE n == Nth(ids, 1)
<1>1. /\ Cardinality(ids) \in Nat /\ Cardinality(ids) > 0 /\ 1 \in 1 .. Cardinality(ids)
    BY NthFacts
<1>2. n \in ids
    BY <1>1, NthFacts
<1>3. ASSUME NEW m \in ids PROVE n <= m
  <2>1. PICK i \in 1 .. Cardinality(ids) : Nth(ids, i) = m
      BY NthFacts
  <2>2. i = 1 \/ 1 < i
      BY <1>1
  <2>3. n \in Nat /\ m \in Nat
      BY <1>2
  <2>4. CASE i = 1
      BY <2>1, <2>3, <2>4
  <2>5. CASE 1 < i
    <3>1. Nth(ids, 1) < Nth(ids, i)
        BY <1>1, <2>5, NthFacts
    <3> QED
        BY <2>1, <2>3, <3>1
  <2> QED
      BY <2>2, <2>4, <2>5
<1> QED
    BY <1>2, <1>3

LEMMA SomeObjects == \A ids \in SUBSET Object : ids \in SUBSET Nat /\ IsFiniteSet(ids)
<1>1. IsFiniteSet(Object) /\ Object \subseteq Nat
    BY InventoryAssumption, FS_Interval DEF Object
<1> QED
    BY <1>1, FS_Subset

\* A record names an object and says at least one thing of it.
LEMMA RecordFacts ==
  /\ \A r \in Record : /\ r.id \in Object /\ r.name \in BOOLEAN /\ r.ref \in BOOLEAN
                       /\ r.name \/ r.ref
                       /\ r = [id |-> r.id, name |-> r.name, ref |-> r.ref]
                       /\ r # None
  /\ \A n \in Object, name \in BOOLEAN, ref \in BOOLEAN :
       name \/ ref => [id |-> n, name |-> name, ref |-> ref] \in Record
<1>1. ASSUME NEW r \in Record
      PROVE  /\ r.id \in Object /\ r.name \in BOOLEAN /\ r.ref \in BOOLEAN
             /\ r.name \/ r.ref
             /\ r = [id |-> r.id, name |-> r.name, ref |-> r.ref]
  <2>1. r \in [id : Object, name : BOOLEAN, ref : BOOLEAN]
      BY DEF Record
  <2>2. /\ r.id \in Object /\ r.name \in BOOLEAN /\ r.ref \in BOOLEAN
        /\ r = [id |-> r.id, name |-> r.name, ref |-> r.ref]
      BY <2>1
  <2>3. r \notin [id : Object, name : {FALSE}, ref : {FALSE}]
      BY DEF Record
  <2>4. ~(r.name = FALSE /\ r.ref = FALSE)
      BY <2>2, <2>3
  <2> QED
      BY <2>2, <2>4
<1>2. ASSUME NEW r \in Record PROVE r # None
  <2>1. r.id >= 1
      BY <1>1 DEF Object
  <2>2. None.id = 0
      BY DEF None
  <2> QED
      BY <2>1, <2>2
<1>3. ASSUME NEW n \in Object, NEW name \in BOOLEAN, NEW ref \in BOOLEAN, name \/ ref
      PROVE  [id |-> n, name |-> name, ref |-> ref] \in Record
  <2> DEFINE r == [id |-> n, name |-> name, ref |-> ref]
  <2>1. r \in [id : Object, name : BOOLEAN, ref : BOOLEAN]
      OBVIOUS
  <2>2. r \notin [id : Object, name : {FALSE}, ref : {FALSE}]
      BY <1>3
  <2> QED
      BY <2>1, <2>2 DEF Record
<1> QED
    BY <1>1, <1>2, <1>3

\* What the records of the two enumerations say.
LEMMA GivenRecords ==
  ASSUME NEW n \in Object
  PROVE  /\ Named(n) \in Record /\ MarksOf(Named(n)) = {<<n, "name">>}
         /\ Referenced(n) \in Record /\ MarksOf(Referenced(n)) = {<<n, "ref">>}
         /\ Named(n).id = n /\ Named(n).name = TRUE
         /\ Referenced(n).id = n /\ Referenced(n).name = FALSE
<1>1. Named(n) \in Record /\ Referenced(n) \in Record
    BY RecordFacts DEF Named, Referenced
<1>2. /\ Named(n).id = n /\ Named(n).name = TRUE /\ Named(n).ref = FALSE
      /\ Referenced(n).id = n /\ Referenced(n).name = FALSE /\ Referenced(n).ref = TRUE
    BY DEF Named, Referenced
<1>3. MarksOf(Named(n)) = {<<n, "name">>}
    BY <1>2 DEF MarksOf
<1>4. MarksOf(Referenced(n)) = {<<n, "ref">>}
    BY <1>2 DEF MarksOf
<1> QED
    BY <1>1, <1>2, <1>3, <1>4

\* Folding two records of one object loses nothing of what they say.
LEMMA CombineFacts ==
  ASSUME NEW r \in Record, NEW s \in Record, r.id = s.id
  PROVE  /\ Combine(r, s) \in Record /\ Combine(r, s).id = r.id
         /\ MarksOf(Combine(r, s)) = MarksOf(r) \union MarksOf(s)
<1>1. Combine(r, s) = [id |-> r.id, name |-> r.name \/ s.name, ref |-> r.ref \/ s.ref]
    BY DEF Combine
<1>2. r.id \in Object /\ (r.name \/ s.name) \in BOOLEAN /\ (r.ref \/ s.ref) \in BOOLEAN
    BY RecordFacts
<1>3. r.name \/ r.ref
    BY RecordFacts
<1>4. Combine(r, s) \in Record
    BY <1>1, <1>2, <1>3, RecordFacts
<1>5. /\ Combine(r, s).id = r.id /\ Combine(r, s).name = (r.name \/ s.name)
      /\ Combine(r, s).ref = (r.ref \/ s.ref)
    BY <1>1
<1>6. MarksOf(Combine(r, s)) = MarksOf(r) \union MarksOf(s)
    BY <1>5 DEF MarksOf
<1> QED
    BY <1>4, <1>5, <1>6

LEMMA NoMarks == MarksOf(None) = {} /\ Marks(<<>>) = {}
<1>1. MarksOf(None) = {}
    BY DEF MarksOf, None
<1>2. Marks(<<>>) = {}
    BY DEF Marks
<1> QED
    BY <1>1, <1>2

LEMMA MarksAppend ==
  ASSUME NEW s \in Seq(Record), NEW r \in Record
  PROVE  Marks(Append(s, r)) = Marks(s) \union MarksOf(r)
<1> DEFINE t == Append(s, r)
<1>1. /\ DOMAIN s = 1 .. Len(s) /\ DOMAIN t = 1 .. Len(s) + 1 /\ Len(s) \in Nat
      /\ \A i \in 1 .. Len(s) : t[i] = s[i]
      /\ t[Len(s) + 1] = r
    BY SequenceFacts
<1> HIDE DEF t
<1>2. \A i : i \in 1 .. Len(s) + 1 <=> i \in 1 .. Len(s) \/ i = Len(s) + 1
    BY <1>1
<1>3. Marks(t) \subseteq Marks(s) \union MarksOf(r)
    BY <1>1, <1>2 DEF Marks
<1>4. Marks(s) \union MarksOf(r) \subseteq Marks(t)
    BY <1>1, <1>2 DEF Marks
<1> QED
    BY <1>3, <1>4 DEF t

\* A mark is one record's.
LEMMA MarkOfRecord ==
  ASSUME NEW s \in Seq(Record), NEW n
  PROVE  /\ <<n, "name">> \in Marks(s) <=> \E i \in DOMAIN s : s[i].id = n /\ s[i].name
         /\ <<n, "ref">> \in Marks(s) <=> \E i \in DOMAIN s : s[i].id = n /\ s[i].ref
<1>1. ASSUME NEW r
      PROVE  /\ <<n, "name">> \in MarksOf(r) <=> r.id = n /\ r.name
             /\ <<n, "ref">> \in MarksOf(r) <=> r.id = n /\ r.ref
  <2>1. "name" # "ref"
      OBVIOUS
  <2>2. <<n, "name">> # <<r.id, "ref">> /\ <<n, "ref">> # <<r.id, "name">>
      BY <2>1
  <2>3. /\ <<n, "name">> = <<r.id, "name">> <=> r.id = n
        /\ <<n, "ref">> = <<r.id, "ref">> <=> r.id = n
      OBVIOUS
  <2> QED
      BY <2>2, <2>3 DEF MarksOf
<1> QED
    BY <1>1 DEF Marks

\* A flushed run is ascending and says what the chunk said.
LEMMA SortedRunFacts ==
  ASSUME NEW s \in Seq(Record), s # <<>>
  PROVE  /\ SortedRun(s) \in Seq(Record) /\ Len(SortedRun(s)) > 0
         /\ Ascending(SortedRun(s))
         /\ Marks(SortedRun(s)) = Marks(s)
<1> DEFINE ids == Identities(s)
           run == SortedRun(s)
           count == Cardinality(ids)
<1>1. /\ Len(s) \in Nat \ {0} /\ DOMAIN s = 1 .. Len(s)
      /\ \A i \in DOMAIN s : s[i] \in Record
    BY SequenceFacts
<1>2. ToSet(s) = {s[i] : i \in DOMAIN s}
    BY DEF ToSet
<1>3. ids \in SUBSET Object /\ ids # {}
  <2>1. \A r \in ToSet(s) : r.id \in Object
      BY <1>1, <1>2, RecordFacts
  <2>2. s[1] \in ToSet(s)
      BY <1>1, <1>2
  <2> QED
      BY <2>1, <2>2 DEF Identities
<1>4. /\ count \in Nat /\ count > 0
      /\ \A i \in 1 .. count : Nth(ids, i) \in ids
      /\ \A i, j \in 1 .. count : i < j => Nth(ids, i) < Nth(ids, j)
      /\ \A n \in ids : \E i \in 1 .. count : Nth(ids, i) = n
  <2> HIDE DEF ids
  <2> QED
    BY <1>3, SomeObjects, NthFacts
<1>5. ASSUME NEW n \in ids
      PROVE  /\ Folded(s, n) \in Record /\ Folded(s, n).id = n
             /\ Folded(s, n).name <=> \E i \in DOMAIN s : s[i].id = n /\ s[i].name
             /\ Folded(s, n).ref <=> \E i \in DOMAIN s : s[i].id = n /\ s[i].ref
  <2> DEFINE found == {r \in ToSet(s) : r.id = n}
             name == \E r \in found : r.name
             ref == \E r \in found : r.ref
  <2>1. Folded(s, n) = [id |-> n, name |-> name, ref |-> ref]
      BY DEF Folded
  <2>2. name <=> \E i \in DOMAIN s : s[i].id = n /\ s[i].name
      BY <1>2
  <2>3. ref <=> \E i \in DOMAIN s : s[i].id = n /\ s[i].ref
      BY <1>2
  <2>4. PICK i \in DOMAIN s : s[i].id = n
      BY <1>2 DEF Identities
  <2>5. name \/ ref
      BY <1>1, <2>2, <2>3, <2>4, RecordFacts
  <2>6. name \in BOOLEAN /\ ref \in BOOLEAN
      OBVIOUS
  <2>7. n \in Object
      BY <1>3
  <2> HIDE DEF found, name, ref
  <2>8. Folded(s, n) \in Record
      BY <2>1, <2>5, <2>6, <2>7, RecordFacts
  <2> QED
      BY <2>1, <2>2, <2>3, <2>6, <2>8
<1>6. run = [i \in 1 .. count |-> Folded(s, Nth(ids, i))]
    BY DEF SortedRun
<1> HIDE DEF ids, run, count
<1>7. run \in Seq(Record) /\ Len(run) = count /\ DOMAIN run = 1 .. count
  <2>1. \A i \in 1 .. count : Folded(s, Nth(ids, i)) \in Record
      BY <1>4, <1>5
  <2> QED
      BY <1>4, <1>6, <2>1
<1>8. \A i \in 1 .. count : run[i] = Folded(s, Nth(ids, i)) /\ run[i].id = Nth(ids, i)
    BY <1>4, <1>5, <1>6
<1>9. Ascending(run)
    BY <1>4, <1>7, <1>8 DEF Ascending
<1>10. ASSUME NEW n
       PROVE  /\ <<n, "name">> \in Marks(run) <=> <<n, "name">> \in Marks(s)
              /\ <<n, "ref">> \in Marks(run) <=> <<n, "ref">> \in Marks(s)
  <2>0. /\ <<n, "name">> \in Marks(run) <=> \E i \in DOMAIN run : run[i].id = n /\ run[i].name
        /\ <<n, "ref">> \in Marks(run) <=> \E i \in DOMAIN run : run[i].id = n /\ run[i].ref
        /\ <<n, "name">> \in Marks(s) <=> \E i \in DOMAIN s : s[i].id = n /\ s[i].name
        /\ <<n, "ref">> \in Marks(s) <=> \E i \in DOMAIN s : s[i].id = n /\ s[i].ref
      BY <1>7, MarkOfRecord
  <2>1. CASE n \in ids
    <3>1. PICK j \in 1 .. count : Nth(ids, j) = n
        BY <1>4, <2>1
    <3>2. ASSUME NEW i \in 1 .. count, run[i].id = n PROVE i = j
      <4>1. Nth(ids, i) = n
          BY <1>8, <3>2
      <4>2. i \in Int /\ j \in Int /\ n \in Int
          BY <1>3, <1>4, <2>1 DEF Object
      <4>3. ~(i < j) /\ ~(j < i)
          BY <1>4, <3>1, <4>1, <4>2
      <4> QED
          BY <4>2, <4>3
    <3>3. run[j] = Folded(s, n) /\ run[j].id = n
        BY <1>8, <3>1
    <3>4. /\ (\E i \in DOMAIN run : run[i].id = n /\ run[i].name) <=> Folded(s, n).name
          /\ (\E i \in DOMAIN run : run[i].id = n /\ run[i].ref) <=> Folded(s, n).ref
        BY <1>7, <3>2, <3>3
    <3>5. /\ Folded(s, n).name <=> \E i \in DOMAIN s : s[i].id = n /\ s[i].name
          /\ Folded(s, n).ref <=> \E i \in DOMAIN s : s[i].id = n /\ s[i].ref
        BY <1>5, <2>1
    <3> QED
        BY <2>0, <3>4, <3>5
  <2>2. CASE n \notin ids
    <3>1. \A i \in DOMAIN run : run[i].id # n
        BY <1>4, <1>7, <1>8, <2>2
    <3>2. \A i \in DOMAIN s : s[i].id # n
        BY <1>2, <2>2 DEF ids, Identities
    <3> QED
        BY <2>0, <3>1, <3>2
  <2> QED
      BY <2>1, <2>2
<1>11. ASSUME NEW t, NEW x \in Marks(t) PROVE \E n : x = <<n, "name">> \/ x = <<n, "ref">>
    BY <1>11 DEF Marks, MarksOf
<1>12. Marks(run) = Marks(s)
  <2>1. ASSUME NEW x \in Marks(run) PROVE x \in Marks(s)
    <3>1. PICK n : x = <<n, "name">> \/ x = <<n, "ref">>
        BY <1>11
    <3> QED
        BY <1>10, <2>1, <3>1
  <2>2. ASSUME NEW x \in Marks(s) PROVE x \in Marks(run)
    <3>1. PICK n : x = <<n, "name">> \/ x = <<n, "ref">>
        BY <1>11
    <3> QED
        BY <1>10, <2>2, <3>1
  <2> QED
      BY <2>1, <2>2
<1> QED
    BY <1>4, <1>7, <1>9, <1>12 DEF run

\* Descriptors of consecutive runs end where their last one ends.
LEMMA RunsFacts ==
  /\ RunsTyped(<<>>) /\ End(<<>>) = 0 /\ \A k : RunMarks(<<>>, k) = {}
  /\ \A rs : RunsTyped(rs) =>
       /\ End(rs) \in Nat /\ Len(rs) \in Nat /\ DOMAIN rs = 1 .. Len(rs)
       /\ \A i \in 1 .. Len(rs) :
            /\ rs[i] \in Run /\ rs[i].offset \in Nat /\ rs[i].records \in Nat \ {0}
            /\ rs[i].checksum \in Seq(Record) /\ rs[i].records = Len(rs[i].checksum)
            /\ rs[i].offset + rs[i].records <= End(rs)
       /\ rs # <<>> => rs[1].offset = 0
<1>1. RunsTyped(<<>>) /\ End(<<>>) = 0
    BY DEF RunsTyped, End
<1>2. \A k : RunMarks(<<>>, k) = {}
    BY DEF RunMarks
<1>3. ASSUME NEW rs, RunsTyped(rs)
      PROVE  /\ End(rs) \in Nat /\ Len(rs) \in Nat /\ DOMAIN rs = 1 .. Len(rs)
             /\ \A i \in 1 .. Len(rs) :
                  /\ rs[i] \in Run /\ rs[i].offset \in Nat /\ rs[i].records \in Nat \ {0}
                  /\ rs[i].checksum \in Seq(Record) /\ rs[i].records = Len(rs[i].checksum)
                  /\ rs[i].offset + rs[i].records <= End(rs)
             /\ rs # <<>> => rs[1].offset = 0
  <2>1. rs \in Seq(Run)
      BY <1>3 DEF RunsTyped
  <2>2. /\ Len(rs) \in Nat /\ DOMAIN rs = 1 .. Len(rs)
        /\ \A i \in 1 .. Len(rs) : rs[i] \in Run
        /\ rs = <<>> <=> Len(rs) = 0
      BY <2>1, SequenceFacts
  <2>3. \A r \in Run : r.offset \in Nat /\ r.records \in Nat /\ r.checksum \in Seq(Record)
      BY DEF Run
  <2>4. \A i \in 1 .. Len(rs) :
          /\ rs[i].records \in Nat \ {0} /\ rs[i].records = Len(rs[i].checksum)
          /\ rs[i].offset + rs[i].records <= End(rs)
      BY <1>3, <2>2, <2>3 DEF RunsTyped
  <2>5. End(rs) \in Nat
    <3>1. CASE rs = <<>>
        BY <3>1 DEF End
    <3>2. CASE rs # <<>>
      <4>1. rs[Len(rs)] \in Run
          BY <2>2, <3>2
      <4> QED
          BY <3>2, <4>1, <2>3 DEF End, Last
    <3> QED
        BY <3>1, <3>2
  <2>6. rs # <<>> => rs[1].offset = 0
      BY <1>3, <2>2 DEF RunsTyped
  <2> QED
      BY <2>2, <2>3, <2>4, <2>5, <2>6
<1> QED
    BY <1>1, <1>2, <1>3

\* A new run begins where the runs before it end.
LEMMA AppendRun ==
  ASSUME NEW rs, RunsTyped(rs), NEW records \in Seq(Record), Len(records) > 0
  PROVE  LET t == Append(rs, RunAt(End(rs), records)) IN
         /\ RunsTyped(t) /\ End(t) = End(rs) + Len(records) /\ Len(t) = Len(rs) + 1
         /\ DOMAIN t = 1 .. Len(rs) + 1
         /\ \A i \in 1 .. Len(rs) : t[i] = rs[i]
         /\ t[Len(rs) + 1] = RunAt(End(rs), records)
         /\ \A k \in 1 .. Len(rs) + 1 : RunMarks(t, k) = RunMarks(rs, k) \union Marks(records)
<1> DEFINE run == RunAt(End(rs), records)
           t == Append(rs, run)
           n == Len(rs)
<1>1. /\ End(rs) \in Nat /\ n \in Nat /\ DOMAIN rs = 1 .. n
      /\ \A i \in 1 .. n :
           /\ rs[i] \in Run /\ rs[i].offset \in Nat /\ rs[i].records \in Nat \ {0}
           /\ rs[i].offset + rs[i].records <= End(rs)
    BY RunsFacts
<1>2. Len(records) \in Nat
    BY SequenceFacts
<1>3. /\ run \in Run /\ run.offset = End(rs) /\ run.records = Len(records)
      /\ run.checksum = records
    BY <1>1, <1>2 DEF RunAt, Run
<1>4. rs \in Seq(Run)
    BY DEF RunsTyped
<1>5. /\ t \in Seq(Run) /\ Len(t) = n + 1 /\ DOMAIN t = 1 .. n + 1
      /\ \A i \in 1 .. n : t[i] = rs[i]
      /\ t[n + 1] = run
  <2> HIDE DEF run
  <2> QED
    BY <1>3, <1>4, SequenceFacts
<1>6. t # <<>> /\ End(t) = End(rs) + Len(records)
  <2> HIDE DEF run
  <2>1. t # <<>>
      BY <1>4
  <2>2. Last(t) = run
      BY <1>5 DEF Last
  <2> HIDE DEF t
  <2> QED
      BY <1>3, <2>1, <2>2 DEF End
<1>7. run.offset = IF n + 1 = 1 THEN 0 ELSE rs[n].offset + rs[n].records
  <2>1. rs = <<>> <=> n = 0
      BY <1>4, SequenceFacts
  <2> QED
      BY <2>1, <1>1, <1>3 DEF End, Last
<1> HIDE DEF run, t
<1>8. RunsTyped(t)
  <2>1. ASSUME NEW i \in 1 .. n
        PROVE  /\ t[i].records = Len(t[i].checksum) /\ t[i].records > 0
               /\ t[i].offset = IF i = 1 THEN 0 ELSE t[i - 1].offset + t[i - 1].records
               /\ t[i].offset + t[i].records <= End(t)
    <3>1. /\ rs[i].records = Len(rs[i].checksum) /\ rs[i].records > 0
          /\ rs[i].offset = IF i = 1 THEN 0 ELSE rs[i - 1].offset + rs[i - 1].records
          /\ rs[i].offset + rs[i].records <= End(rs)
        BY <1>1 DEF RunsTyped
    <3>2. i # 1 => i - 1 \in 1 .. n
        BY <1>1
    <3>3. t[i] = rs[i] /\ (i # 1 => t[i - 1] = rs[i - 1])
        BY <1>5, <3>2
    <3>4. rs[i].offset \in Nat /\ rs[i].records \in Nat
        BY <1>1
    <3>5. rs[i].offset + rs[i].records <= End(t)
      <4>1. rs[i].offset + rs[i].records <= End(rs)
          BY <3>1
      <4>2. End(t) = End(rs) + Len(records) /\ End(rs) \in Nat /\ Len(records) \in Nat
          BY <1>1, <1>2, <1>6
      <4> QED
          BY <3>4, <4>1, <4>2
    <3> QED
        BY <3>1, <3>3, <3>5
  <2>2. /\ t[n + 1].records = Len(t[n + 1].checksum) /\ t[n + 1].records > 0
        /\ t[n + 1].offset = IF n + 1 = 1 THEN 0 ELSE t[n].offset + t[n].records
        /\ t[n + 1].offset + t[n + 1].records <= End(t)
    <3>1. n + 1 # 1 => n \in 1 .. n
        BY <1>1
    <3>2. n + 1 # 1 => t[n] = rs[n]
        BY <1>5, <3>1
    <3> QED
        BY <1>1, <1>2, <1>3, <1>5, <1>6, <1>7, <3>2
  <2>3. \A i \in 1 .. n + 1 : i \in 1 .. n \/ i = n + 1
      BY <1>1
  <2>4. \A i \in DOMAIN t :
          /\ t[i].records = Len(t[i].checksum) /\ t[i].records > 0
          /\ t[i].offset = IF i = 1 THEN 0 ELSE t[i - 1].offset + t[i - 1].records
          /\ t[i].offset + t[i].records <= End(t)
    <3> SUFFICES ASSUME NEW i \in DOMAIN t
                 PROVE  /\ t[i].records = Len(t[i].checksum) /\ t[i].records > 0
                        /\ t[i].offset = IF i = 1 THEN 0 ELSE t[i - 1].offset + t[i - 1].records
                        /\ t[i].offset + t[i].records <= End(t)
        OBVIOUS
    <3>1. CASE i \in 1 .. n
        BY <3>1, <2>1
    <3>2. CASE i = n + 1
      <4>1. i - 1 = n
          BY <1>1, <3>2
      <4> QED
          BY <2>2, <3>2, <4>1
    <3> QED
        BY <1>5, <2>3, <3>1, <3>2
  <2> QED
      BY <1>5, <2>4 DEF RunsTyped
<1>9. ASSUME NEW k \in 1 .. n + 1
      PROVE  RunMarks(t, k) = RunMarks(rs, k) \union Marks(records)
  <2>1. \A i : i \in 1 .. n + 1 /\ k <= i <=> (i \in 1 .. n /\ k <= i) \/ i = n + 1
      BY <1>1
  <2>2. RunMarks(t, k) = UNION {Marks(t[i].checksum) : i \in {j \in 1 .. n + 1 : k <= j}}
      BY <1>5 DEF RunMarks
  <2>3. RunMarks(rs, k) = UNION {Marks(rs[i].checksum) : i \in {j \in 1 .. n : k <= j}}
      BY <1>1 DEF RunMarks
  <2>4. \A i \in {j \in 1 .. n : k <= j} : Marks(t[i].checksum) = Marks(rs[i].checksum)
      BY <1>5
  <2>5. Marks(t[n + 1].checksum) = Marks(records)
      BY <1>3, <1>5
  <2> QED
      BY <2>1, <2>2, <2>3, <2>4, <2>5
<1> QED
    BY <1>5, <1>6, <1>8, <1>9 DEF t, run

-----------------------------------------------------------------------------
(* The shape of a state: types, the layout of the files, and what each      *)
(* phase leaves alone.                                                      *)

Shape == Constant /\ Filed /\ Opened /\ Phased

LEMMA ShapeInit == Init => Shape
<1> SUFFICES ASSUME Init PROVE Shape
    OBVIOUS
<1> USE DEF Init
<1>1. Constant
    BY InventoryAssumption, SequenceFacts DEF Constant
<1>2. Filed
  <2>1. slots \in [{0, 1} -> Seq(Record)] /\ Len(slots[0]) = 0 /\ Len(slots[1]) = 0
      BY SequenceFacts
  <2>2. chunk \in Seq(Record) /\ Len(chunk) = 0 /\ written \in Seq(Record) /\ Len(written) = 0
      BY SequenceFacts
  <2>3. RunsTyped(runs) /\ RunsTyped(merged) /\ End(runs) = 0 /\ End(merged) = 0
      BY RunsFacts
  <2>4. source = 0 /\ pending = None
      OBVIOUS
  <2> QED
      BY <2>1, <2>2, <2>3, <2>4, InventoryAssumption DEF Filed
<1>3. Opened
    BY InventoryAssumption DEF Opened
<1>4. Phased
    BY DEF Phased, Pushing, Scanned, OneRun
<1> QED
    BY <1>1, <1>2, <1>3, <1>4 DEF Shape

\* What flush does to the file and the descriptors.
LEMMA FlushedFacts ==
  ASSUME Filed, Flushed, chunk # <<>>, source = 0
  PROVE  /\ slots' \in [{0, 1} -> Seq(Record)] /\ slots'[1] = slots[1]
         /\ slots'[0] = Overwrite(slots[0], End(runs), SortedRun(chunk))
         /\ SortedRun(chunk) \in Seq(Record) /\ Len(SortedRun(chunk)) > 0
         /\ runs' = Append(runs, RunAt(End(runs), SortedRun(chunk)))
         /\ RunsTyped(runs') /\ End(runs') <= Len(slots'[0])
<1> DEFINE run == SortedRun(chunk)
<1>1. /\ chunk \in Seq(Record) /\ slots \in [{0, 1} -> Seq(Record)] /\ RunsTyped(runs)
      /\ End(runs) <= Len(slots[0])
    BY DEF Filed
<1>2. run \in Seq(Record) /\ Len(run) > 0
    BY <1>1, SortedRunFacts
<1>3. /\ slots' = [slots EXCEPT ![0] = Overwrite(slots[0], End(runs), run)]
      /\ runs' = Append(runs, RunAt(End(runs), run))
    BY DEF Flushed
<1> HIDE DEF run
<1>4. slots[0] \in Seq(Record) /\ End(runs) \in 0 .. Len(slots[0])
    BY <1>1, RunsFacts, SequenceFacts
<1>5. /\ Overwrite(slots[0], End(runs), run) \in Seq(Record)
      /\ Len(Overwrite(slots[0], End(runs), run)) >= End(runs) + Len(run)
    BY <1>2, <1>4, OverwriteFacts
<1>6. /\ slots' \in [{0, 1} -> Seq(Record)] /\ slots'[1] = slots[1]
      /\ slots'[0] = Overwrite(slots[0], End(runs), run)
    BY <1>1, <1>3, <1>5
<1>7. RunsTyped(runs') /\ End(runs') = End(runs) + Len(run)
    BY <1>1, <1>2, <1>3, AppendRun
<1>8. End(runs') <= Len(slots'[0])
    BY <1>5, <1>6, <1>7
<1> QED
    BY <1>2, <1>3, <1>6, <1>7, <1>8 DEF run

LEMMA PushFiled ==
  ASSUME Shape, state \in Pushing, NEW r \in Record, Push(r), UNCHANGED pushUnchanged
  PROVE  Filed'
<1>1. /\ source = 0 /\ merged = <<>> /\ written = <<>> /\ pending = None
      /\ source' = source /\ merged' = merged /\ written' = written /\ pending' = pending
    BY DEF Shape, Opened, Phased, pushUnchanged, passVars
<1>2. Filed
    BY DEF Shape
<1>3. /\ chunk \in Seq(Record) /\ Len(chunk) \in Nat /\ Len(chunk) <= ChunkRecords
      /\ ChunkRecords \in Nat \ {0}
    BY <1>2, InventoryAssumption, SequenceFacts DEF Filed
<1>4. CASE Len(chunk) < ChunkRecords
  <2>1. chunk' = Append(chunk, r) /\ slots' = slots /\ runs' = runs
      BY <1>4 DEF Push
  <2>2. chunk' \in Seq(Record) /\ Len(chunk') <= ChunkRecords
      BY <2>1, <1>3, <1>4, SequenceFacts
  <2> QED
      BY <2>1, <2>2, <1>1, <1>2 DEF Filed
<1>5. CASE Len(chunk) = ChunkRecords
  <2>1. Flushed /\ chunk' = <<r>>
      BY <1>3, <1>5 DEF Push
  <2>2. chunk # <<>>
      BY <1>3, <1>5
  <2>3. /\ slots' \in [{0, 1} -> Seq(Record)] /\ slots'[1] = slots[1]
        /\ RunsTyped(runs') /\ End(runs') <= Len(slots'[0])
      BY <1>1, <1>2, <2>1, <2>2, FlushedFacts
  <2>4. chunk' \in Seq(Record) /\ Len(chunk') <= ChunkRecords
      BY <2>1, <1>3
  <2>5. /\ source' = 0 /\ RunsTyped(merged') /\ pending' = None /\ written' \in Seq(Record)
        /\ End(merged') + Len(written') <= Len(slots'[1])
      BY <1>1, <1>2, <2>3 DEF Filed
  <2> QED
      BY <2>3, <2>4, <2>5 DEF Filed
<1> QED
    BY <1>3, <1>4, <1>5

LEMMA ShapePush ==
  ASSUME Shape, PushName \/ PushNameAgain \/ PushReference
  PROVE  Shape'
<1>1. state \in Pushing /\ state' = state
    BY DEF PushName, PushNameAgain, PushReference, Pushing
<1>2. /\ UNCHANGED pushUnchanged
      /\ \E r \in Record : Push(r)
  <2>1. \A n \in names \union protected \union listed : n \in Object
      BY DEF Shape, Constant
  <2> QED
      BY <2>1, GivenRecords DEF PushName, PushNameAgain, PushReference
<1>3. Filed'
    BY <1>1, <1>2, PushFiled
<1>4. /\ names' = names /\ protected' = protected /\ at' = at /\ offered' = offered
      /\ start' = start /\ cursors' = cursors /\ pending' = pending /\ merged' = merged
      /\ written' = written /\ source' = source /\ pages' = pages /\ checked' = checked
      /\ loaded' = loaded
    BY <1>2 DEF pushUnchanged, passVars, readVars
<1>5. listed' \subseteq names /\ walked' \subseteq protected /\ references' \in Nat
  <2>1. listed \subseteq names /\ walked \subseteq protected /\ references \in Nat
      BY DEF Shape, Constant
  <2>2. CASE PushName
      BY <2>1, <2>2 DEF PushName
  <2>3. CASE PushNameAgain
      BY <2>1, <2>3 DEF PushNameAgain
  <2>4. CASE PushReference
      BY <2>1, <2>4 DEF PushReference
  <2> QED
      BY <2>2, <2>3, <2>4
<1>6. Constant'
    BY <1>4, <1>5 DEF Shape, Constant
<1>7. cursors = <<>> /\ pending = None /\ written = <<>>
    BY <1>1 DEF Shape, Phased, Opened
<1>8. Opened'
    BY <1>4, <1>7, InventoryAssumption, SequenceFacts DEF Opened
<1>9. Phased'
  <2>1. /\ state = "listing" => walked' = {}
        /\ state = "walking" => listed' = names
      BY DEF Shape, Phased, PushName, PushNameAgain, PushReference
  <2>2. disturbed' \in {"nothing", "doubled", "interrupted", "decayed"}
      BY DEF Shape, Phased, PushName, PushNameAgain, PushReference
  <2> QED
      BY <1>1, <1>4, <2>1, <2>2 DEF Shape, Phased, Pushing, Scanned, OneRun
<1> QED
    BY <1>3, <1>6, <1>8, <1>9 DEF Shape

\* Everything but the state, and what disturbed it, stays.
OthersUnchanged ==
  UNCHANGED <<inputVars, chunk, slots, source, runs, passVars, readVars, offered>>

LEMMA ShapeOthers ==
  ASSUME Shape, OthersUnchanged PROVE Constant' /\ Filed' /\ Opened'
<1>1. /\ names' = names /\ protected' = protected /\ listed' = listed /\ walked' = walked
      /\ references' = references /\ chunk' = chunk /\ slots' = slots /\ source' = source
      /\ runs' = runs /\ start' = start /\ cursors' = cursors /\ pending' = pending
      /\ merged' = merged /\ written' = written /\ at' = at /\ offered' = offered
    BY DEF OthersUnchanged, inputVars, passVars, readVars
<1>2. Constant'
    BY <1>1 DEF Shape, Constant
<1>3. Filed'
    BY <1>1 DEF Shape, Filed
<1>4. Opened'
    BY <1>1 DEF Shape, Opened, GroupEnd
<1> QED
    BY <1>2, <1>3, <1>4

LEMMA ShapeStops ==
  ASSUME Shape,
         \/ PushClashes \/ LastClashes \/ MergeFails \/ CheckFails \/ PageChanged
         \/ Interrupt
  PROVE  Shape'
<1>1. OthersUnchanged /\ state' = "failed"
    BY DEF PushClashes, LastClashes, MergeFails, CheckFails, PageChanged, Interrupt, Fail,
           OthersUnchanged, historyVars
<1>2. Constant' /\ Filed' /\ Opened'
    BY <1>1, ShapeOthers
<1>3. disturbed' \in {"nothing", "doubled", "interrupted", "decayed"}
    BY DEF PushClashes, LastClashes, MergeFails, CheckFails, PageChanged, Interrupt, Fail,
           historyVars, Shape, Phased
<1>4. Phased'
    BY <1>1, <1>3 DEF Phased, Pushing, Scanned, OneRun
<1> QED
    BY <1>2, <1>4 DEF Shape

LEMMA ShapePhases ==
  ASSUME Shape, EndListing \/ BeginCheck \/ CheckEnds \/ NextEnds
  PROVE  Shape'
<1>1. OthersUnchanged /\ disturbed' = disturbed
    BY DEF EndListing, BeginCheck, CheckEnds, NextEnds, OthersUnchanged, historyVars
<1>2. Constant' /\ Filed' /\ Opened'
    BY <1>1, ShapeOthers
<1>3. /\ listed' = listed /\ names' = names /\ walked' = walked /\ protected' = protected
      /\ chunk' = chunk /\ runs' = runs /\ start' = start /\ cursors' = cursors
      /\ merged' = merged /\ at' = at /\ loaded' = loaded /\ offered' = offered
      /\ pages' = pages /\ checked' = checked /\ source' = source
    BY <1>1 DEF OthersUnchanged, inputVars, passVars, readVars
<1>4. Phased'
  <2>1. CASE EndListing
      BY <2>1, <1>1, <1>3 DEF EndListing, Goto, Shape, Phased, Pushing, Scanned, OneRun
  <2>2. CASE BeginCheck
      BY <2>2, <1>1, <1>3 DEF BeginCheck, Goto, Shape, Phased, Pushing, Scanned, OneRun
  <2>3. CASE CheckEnds
      BY <2>3, <1>1, <1>3 DEF CheckEnds, Goto, Shape, Phased, Pushing, Scanned, OneRun
  <2>4. CASE NextEnds
      BY <2>4, <1>1, <1>3 DEF NextEnds, Goto, Shape, Phased, Pushing, Scanned, OneRun
  <2> QED
      BY <2>1, <2>2, <2>3, <2>4
<1> QED
    BY <1>2, <1>4 DEF Shape

LEMMA ShapeFlushLast == ASSUME Shape, FlushLast PROVE Shape'
<1>1. /\ names' = names /\ protected' = protected /\ listed' = listed /\ walked' = walked
      /\ references' = references /\ at' = at /\ offered' = offered
      /\ start' = start /\ cursors' = cursors /\ pending' = pending /\ merged' = merged
      /\ written' = written /\ source' = source /\ pages' = pages /\ checked' = checked
      /\ loaded' = loaded /\ disturbed' = disturbed
      /\ state = "walking" /\ state' = "merging" /\ chunk' = <<>> /\ walked = protected
    BY DEF FlushLast, Goto, inputVars, passVars, readVars, historyVars
<1>2. /\ source = 0 /\ merged = <<>> /\ cursors = <<>> /\ written = <<>> /\ pending = None
      /\ listed = names
    BY <1>1 DEF Shape, Phased, Opened, Pushing
<1>3. Constant'
    BY <1>1 DEF Shape, Constant
<1>4. Filed'
  <2>0. Filed
      BY DEF Shape
  <2>1. chunk' \in Seq(Record) /\ Len(chunk') <= ChunkRecords
      BY <1>1, InventoryAssumption, SequenceFacts
  <2>2. CASE chunk = <<>>
    <3>1. slots' = slots /\ runs' = runs
        BY <2>2 DEF FlushLast
    <3> QED
        BY <1>1, <2>0, <2>1, <3>1 DEF Filed
  <2>3. CASE chunk # <<>>
    <3>1. Flushed
        BY <2>3 DEF FlushLast
    <3>2. /\ slots' \in [{0, 1} -> Seq(Record)] /\ slots'[1] = slots[1]
          /\ RunsTyped(runs') /\ End(runs') <= Len(slots'[0])
        BY <1>2, <2>0, <2>3, <3>1, FlushedFacts
    <3>3. /\ source' = 0 /\ RunsTyped(merged') /\ pending' = None /\ written' \in Seq(Record)
          /\ End(merged') + Len(written') <= Len(slots'[1])
        BY <1>1, <1>2, <2>0, <3>2 DEF Filed
    <3> QED
        BY <2>1, <3>2, <3>3 DEF Filed
  <2> QED
      BY <2>2, <2>3
<1>5. Opened'
    BY <1>1, <1>2, InventoryAssumption, SequenceFacts DEF Opened
<1>6. Phased'
    BY <1>1, <1>2 DEF Shape, Phased, Pushing, Scanned, OneRun
<1> QED
    BY <1>3, <1>4, <1>5, <1>6 DEF Shape

Cursor == [run : Run, read : Nat, seen : Seq(Record), head : Record \union {None}]

\* A run of the source lies in its file.
LEMMA RunInFile ==
  ASSUME Filed, NEW k \in DOMAIN runs, NEW i \in 1 .. runs[k].records
  PROVE  /\ runs[k].offset + i \in 1 .. Len(slots[source])
         /\ slots[source][runs[k].offset + i] \in Record
<1>1. /\ runs[k].offset \in Nat /\ runs[k].records \in Nat \ {0}
      /\ runs[k].offset + runs[k].records <= End(runs) /\ End(runs) \in Nat
    BY RunsFacts DEF Filed
<1>2. slots[source] \in Seq(Record) /\ End(runs) <= Len(slots[source])
    BY DEF Filed
<1>3. /\ Len(slots[source]) \in Nat
      /\ \A j \in 1 .. Len(slots[source]) : slots[source][j] \in Record
    BY <1>2, SequenceFacts
<1>4. runs[k].offset + i \in 1 .. Len(slots[source])
    BY <1>1, <1>2, <1>3
<1> QED
    BY <1>3, <1>4

\* A cursor steps to the next record of its run, or to its end.
LEMMA AdvancedFacts ==
  ASSUME Filed, NEW k \in DOMAIN runs, NEW c \in Cursor, c.run = runs[k],
         c.read = Len(c.seen), c.read <= c.run.records
  PROVE  /\ Advanced(c) \in Cursor /\ Advanced(c).run = c.run
         /\ Exhausted(c) => /\ Advanced(c).read = c.read /\ Advanced(c).seen = c.seen
                            /\ Advanced(c).head = None
         /\ ~Exhausted(c) =>
              LET r == slots[source][c.run.offset + c.read + 1] IN
              /\ r \in Record
              /\ Advanced(c).read = c.read + 1 /\ Advanced(c).seen = Append(c.seen, r)
              /\ Advanced(c).head = r /\ Len(Advanced(c).seen) = c.read + 1
              /\ Advanced(c).read <= c.run.records
<1> USE DEF Cursor
<1>0. /\ c.run \in Run /\ c.read \in Nat /\ c.seen \in Seq(Record)
      /\ c.run.records \in Nat /\ c.run.offset \in Nat
    BY DEF Run
<1>1. CASE Exhausted(c)
  <2>1. Advanced(c) = [c EXCEPT !.head = None]
      BY <1>1 DEF Advanced
  <2>2. /\ [c EXCEPT !.head = None] \in Cursor /\ [c EXCEPT !.head = None].run = c.run
        /\ [c EXCEPT !.head = None].read = c.read /\ [c EXCEPT !.head = None].seen = c.seen
        /\ [c EXCEPT !.head = None].head = None
      OBVIOUS
  <2> QED
      BY <1>1, <2>1, <2>2
<1>2. CASE ~Exhausted(c)
  <2> DEFINE r == slots[source][c.run.offset + c.read + 1]
             s == Append(c.seen, r)
  <2>1. c.read + 1 \in 1 .. runs[k].records
      BY <1>0, <1>2 DEF Exhausted
  <2>2. slots[source][c.run.offset + (c.read + 1)] \in Record
      BY <2>1, RunInFile
  <2>3. r \in Record
      BY <1>0, <2>2
  <2>4. Advanced(c) = [c EXCEPT !.read = c.read + 1, !.seen = s, !.head = r]
      BY <1>2 DEF Advanced
  <2> HIDE DEF r
  <2>5. s \in Seq(Record) /\ Len(s) = c.read + 1
      BY <1>0, <2>3, SequenceFacts
  <2> HIDE DEF s
  <2> DEFINE a == c.read + 1
             d == [c EXCEPT !.read = a, !.seen = s, !.head = r]
  <2>a. a \in Nat
      BY <1>0
  <2> HIDE DEF a
  <2>b. d \in Cursor
      BY <2>a, <2>3, <2>5
  <2>c. d.run = c.run /\ d.read = a /\ d.seen = s /\ d.head = r
      OBVIOUS
  <2>6. d \in Cursor /\ d.run = c.run /\ d.read = c.read + 1 /\ d.seen = s /\ d.head = r
      BY <2>b, <2>c DEF a
  <2> QED
      BY <1>0, <1>2, <2>1, <2>3, <2>4, <2>5, <2>6 DEF r, s, a
<1> QED
    BY <1>1, <1>2

LEMMA NewCursorFacts ==
  ASSUME Filed, NEW k \in DOMAIN runs
  PROVE  LET c == Advanced(NewCursor(runs[k]))
             r == slots[source][runs[k].offset + 1] IN
         /\ CursorTyped(c) /\ c.run = runs[k] /\ r \in Record
         /\ c.head = r /\ c.seen = <<r>> /\ c.head # None
<1> DEFINE n == NewCursor(runs[k])
<1>1. /\ runs[k] \in Run /\ runs[k].offset \in Nat /\ runs[k].records \in Nat \ {0}
    BY RunsFacts DEF Filed
<1>2. /\ n \in Cursor /\ n.run = runs[k] /\ n.read = 0 /\ n.seen = <<>> /\ Len(n.seen) = 0
    BY <1>1, SequenceFacts DEF NewCursor, Cursor
<1>3. ~Exhausted(n)
    BY <1>1, <1>2 DEF Exhausted
<1> HIDE DEF n
<1> DEFINE c == Advanced(n)
           r == slots[source][runs[k].offset + 0 + 1]
<1>4. /\ c \in Cursor /\ c.run = runs[k] /\ r \in Record
      /\ c.read = 0 + 1 /\ c.seen = Append(<<>>, r)
      /\ c.head = r /\ Len(c.seen) = 0 + 1
      /\ c.read <= c.run.records
  <2>1. /\ n.read = Len(n.seen) /\ n.read <= n.run.records
        /\ n.run.offset + n.read + 1 = runs[k].offset + 0 + 1
      BY <1>1, <1>2
  <2>2. /\ c \in Cursor /\ c.run = n.run
        /\ slots[source][n.run.offset + n.read + 1] \in Record
        /\ c.read = n.read + 1
        /\ c.seen = Append(n.seen, slots[source][n.run.offset + n.read + 1])
        /\ c.head = slots[source][n.run.offset + n.read + 1] /\ Len(c.seen) = n.read + 1
        /\ c.read <= n.run.records
      BY <1>2, <1>3, <2>1, AdvancedFacts
  <2> QED
      BY <1>2, <2>1, <2>2
<1>5. Append(<<>>, r) = <<r>> /\ <<r>>[1] = r
    OBVIOUS
<1>6. r = slots[source][runs[k].offset + 1]
    BY <1>1
<1> HIDE DEF c, r
<1>7. r # None
    BY <1>4, RecordFacts
<1>8. CursorTyped(c)
    BY <1>4, <1>5, <1>7 DEF CursorTyped, Cursor
<1> QED
    BY <1>4, <1>5, <1>6, <1>7, <1>8 DEF c, n

\* Taking the head of a cursor that read its run as it should.
LEMMA TakeHead ==
  ASSUME Filed, NEW k \in DOMAIN runs, NEW c, CursorTyped(c), c.run = runs[k],
         c.head # None, ~Misread(c)
  PROVE  /\ CursorTyped(Advanced(c)) /\ Advanced(c).run = c.run
         /\ \/ /\ Exhausted(c) /\ Advanced(c).head = None /\ Advanced(c).seen = c.seen
            \/ LET r == slots[source][c.run.offset + c.read + 1] IN
               /\ ~Exhausted(c) /\ r \in Record /\ c.head.id < r.id
               /\ Advanced(c).head = r /\ Advanced(c).head # None
               /\ Advanced(c).seen = Append(c.seen, r)
<1>1. /\ c \in Cursor /\ c.read = Len(c.seen) /\ 0 < c.read /\ c.read <= c.run.records
      /\ c.head = c.seen[Len(c.seen)] /\ c.head \in Record
    BY DEF CursorTyped, Cursor
<1>2. c.seen \in Seq(Record) /\ c.seen # <<>> /\ Last(c.seen) = c.head
  <2>1. c.seen \in Seq(Record) /\ Len(c.seen) # 0
      BY <1>1 DEF Cursor
  <2>2. Last(c.seen) = c.seen[Len(c.seen)]
      BY DEF Last
  <2> QED
      BY <1>1, <2>1, <2>2, SequenceFacts
<1>3. CASE Exhausted(c)
  <2>1. /\ Advanced(c) \in Cursor /\ Advanced(c).run = c.run
        /\ Advanced(c).read = c.read /\ Advanced(c).seen = c.seen /\ Advanced(c).head = None
      BY <1>1, <1>3, AdvancedFacts
  <2>2. c.seen = c.run.checksum
      BY <1>3 DEF Misread
  <2>3. CursorTyped(Advanced(c))
      BY <1>1, <2>1, <2>2 DEF CursorTyped, Cursor
  <2> QED
      BY <1>3, <2>1, <2>3
<1>4. CASE ~Exhausted(c)
  <2> DEFINE r == slots[source][c.run.offset + c.read + 1]
  <2>1. /\ Advanced(c) \in Cursor /\ Advanced(c).run = c.run /\ r \in Record
        /\ Advanced(c).read = c.read + 1 /\ Advanced(c).seen = Append(c.seen, r)
        /\ Advanced(c).head = r /\ Len(Advanced(c).seen) = c.read + 1
        /\ Advanced(c).read <= c.run.records
      BY <1>1, <1>4, AdvancedFacts
  <2> HIDE DEF r
  <2>2. ~(c.head.id >= r.id)
      BY <1>2, <1>4, <2>1 DEF Misread
  <2>3. c.head.id \in Int /\ r.id \in Int
      BY <1>1, <2>1, RecordFacts DEF Object
  <2>4. c.head.id < r.id
      BY <2>2, <2>3
  <2>5. r # None
      BY <2>1, RecordFacts
  <2>6. Append(c.seen, r)[c.read + 1] = r
      BY <1>1, <1>2, <2>1, SequenceFacts
  <2>7. c.read \in Nat
      BY <1>1 DEF Cursor
  <2>8. CursorTyped(Advanced(c))
      BY <1>1, <2>1, <2>5, <2>6, <2>7 DEF CursorTyped, Cursor
  <2> QED
      BY <1>4, <2>1, <2>4, <2>5, <2>8 DEF r
<1> QED
    BY <1>3, <1>4

\* The group that is open is a part of the runs.
LEMMA GroupFacts ==
  ASSUME Shape, start <= Len(runs)
  PROVE  /\ GroupEnd \in start .. Len(runs) /\ start \in DOMAIN runs
         /\ GroupEnd - start + 1 \in 1 .. FanIn
         /\ GroupEnd = Len(runs) \/ GroupEnd + 1 = start + FanIn
<1>1. start \in Nat \ {0} /\ FanIn \in Nat \ {0, 1} /\ Len(runs) \in Nat
      /\ DOMAIN runs = 1 .. Len(runs)
    BY InventoryAssumption, RunsFacts DEF Shape, Constant, Filed
<1> QED
    BY <1>1 DEF GroupEnd

\* The head that is taken is one of the least.
LEMMA LeastFacts ==
  ASSUME Opened, Heads # {}
  PROVE  /\ Least \in Heads /\ Heads \subseteq DOMAIN cursors
         /\ cursors[Least].head \in Record
         /\ \A j \in Heads : /\ cursors[j].head \in Record
                             /\ cursors[Least].head.id <= cursors[j].head.id
<1> DEFINE id(i) == cursors[i].head.id
           ids == {id(i) : i \in Heads}
<1>1. /\ DOMAIN cursors = 1 .. Len(cursors) /\ Len(cursors) \in Nat
      /\ Heads \subseteq DOMAIN cursors
      /\ \A i \in Heads : cursors[i].head \in Record
  <2>1. cursors \in Seq(Cursor)
      BY DEF Opened, Cursor
  <2>2. /\ DOMAIN cursors = 1 .. Len(cursors) /\ Len(cursors) \in Nat
        /\ \A i \in DOMAIN cursors : cursors[i] \in Cursor
      BY <2>1, SequenceFacts
  <2>3. \A i \in Heads : i \in DOMAIN cursors /\ cursors[i].head # None
      BY DEF Heads
  <2> QED
      BY <2>2, <2>3 DEF Cursor
<1>2. ids \in SUBSET Object
    BY <1>1, RecordFacts
<1>3. \A i \in Heads : id(i) \in Nat
    BY <1>1, RecordFacts DEF Object
<1>4. PICK n \in ids : \A m \in ids : n <= m
  <2>1. ids # {}
      OBVIOUS
  <2>2. ids \in SUBSET Nat /\ IsFiniteSet(ids)
      BY <1>2, SomeObjects
  <2> HIDE DEF ids
  <2> QED
      BY <2>1, <2>2, LeastNumber
<1> DEFINE first == {i \in Heads : id(i) = n}
<1>5. first \in SUBSET Nat /\ IsFiniteSet(first) /\ first # {}
  <2>1. IsFiniteSet(1 .. Len(cursors))
      BY <1>1, FS_Interval
  <2>2. first \in SUBSET (1 .. Len(cursors))
      BY <1>1
  <2> QED
      BY <1>1, <1>4, <2>1, <2>2, FS_Subset
<1>6. PICK i \in first : \A j \in first : i <= j
    BY <1>5, LeastNumber
<1>7. \A j \in Heads : id(i) < id(j) \/ (id(i) = id(j) /\ i <= j)
  <2> SUFFICES ASSUME NEW j \in Heads PROVE id(i) < id(j) \/ (id(i) = id(j) /\ i <= j)
      OBVIOUS
  <2>1. id(i) = n /\ n <= id(j) /\ id(i) \in Nat /\ id(j) \in Nat
      BY <1>3, <1>4, <1>6
  <2>2. CASE id(j) = n
      BY <1>6, <2>1, <2>2
  <2>3. CASE id(j) # n
      BY <2>1, <2>3
  <2> QED
      BY <2>2, <2>3
<1>8. \E x \in Heads : \A j \in Heads :
           \/ cursors[x].head.id < cursors[j].head.id
           \/ cursors[x].head.id = cursors[j].head.id /\ x <= j
  <2>1. i \in Heads
      BY <1>6
  <2> QED
      BY <1>7, <2>1
<1>9. /\ Least \in Heads
      /\ \A j \in Heads :
           \/ cursors[Least].head.id < cursors[j].head.id
           \/ cursors[Least].head.id = cursors[j].head.id /\ Least <= j
    BY <1>8 DEF Least
<1>10. \A j \in Heads : cursors[Least].head.id <= cursors[j].head.id
  <2> SUFFICES ASSUME NEW j \in Heads PROVE cursors[Least].head.id <= cursors[j].head.id
      OBVIOUS
  <2>1. id(Least) \in Nat /\ id(j) \in Nat
      BY <1>3, <1>9
  <2> QED
      BY <1>9, <2>1
<1> QED
    BY <1>1, <1>9, <1>10

LEMMA ShapeOpenGroup == ASSUME Shape, OpenGroup PROVE Shape'
<1>1. /\ state = "merging" /\ Len(runs) > 1 /\ start <= Len(runs) /\ cursors = <<>>
      /\ pending = None /\ written = <<>>
    BY DEF OpenGroup, MergePass, Shape, Opened
<1> DEFINE n == GroupEnd - start + 1
<1>2. /\ GroupEnd \in start .. Len(runs) /\ start \in DOMAIN runs /\ n \in 1 .. FanIn
      /\ start \in Nat /\ Len(runs) \in Nat /\ DOMAIN runs = 1 .. Len(runs)
    BY <1>1, GroupFacts, RunsFacts DEF Shape, Filed, Constant
<1>3. cursors' = [i \in 1 .. n |-> Advanced(NewCursor(runs[start + i - 1]))]
    BY DEF OpenGroup
<1>4. Filed
    BY DEF Shape
<1>5. ASSUME NEW i \in 1 .. n
      PROVE  /\ CursorTyped(cursors'[i]) /\ cursors'[i].run = runs[start + i - 1]
             /\ cursors'[i].head # None /\ start + i - 1 \in DOMAIN runs
  <2>1. start + i - 1 \in DOMAIN runs
      BY <1>2
  <2>2. cursors'[i] = Advanced(NewCursor(runs[start + i - 1]))
      BY <1>3
  <2> QED
      BY <1>4, <2>1, <2>2, NewCursorFacts
<1>6. /\ names' = names /\ protected' = protected /\ listed' = listed /\ walked' = walked
      /\ references' = references /\ chunk' = chunk /\ slots' = slots /\ source' = source
      /\ runs' = runs /\ start' = start /\ pending' = pending /\ merged' = merged
      /\ written' = written /\ at' = at /\ offered' = offered /\ state' = state
      /\ pages' = pages /\ checked' = checked /\ loaded' = loaded /\ disturbed' = disturbed
    BY DEF OpenGroup, mergeUnchanged, inputVars, readVars, historyVars
<1>7. Constant'
    BY <1>6 DEF Shape, Constant
<1>8. Filed'
    BY <1>6 DEF Shape, Filed
<1>9. /\ cursors' \in Seq(Cursor) /\ Len(cursors') = n /\ DOMAIN cursors' = 1 .. n
  <2>1. \A i \in 1 .. n : cursors'[i] \in Cursor
      BY <1>5 DEF CursorTyped, Cursor
  <2>2. n \in Nat
      BY <1>2
  <2> HIDE DEF n
  <2>3. \A i \in 1 .. n : Advanced(NewCursor(runs[start + i - 1])) \in Cursor
      BY <1>3, <2>1
  <2> QED
      BY <1>3, <2>2, <2>3
<1>10. Opened'
  <2>1. GroupEnd' = GroupEnd
      BY <1>6 DEF GroupEnd
  <2>2. \A i \in DOMAIN cursors' :
          CursorTyped(cursors'[i]) /\ cursors'[i].run = runs'[start' + i - 1]
          /\ cursors'[i].head # None
      BY <1>5, <1>6, <1>9
  <2>3. cursors' # <<>> /\ n <= FanIn
      BY <1>2, <1>9
  <2> HIDE DEF n
  <2>4. Len(cursors') = GroupEnd' - start' + 1
      BY <1>6, <1>9, <2>1 DEF n
  <2> QED
      BY <1>1, <1>6, <1>9, <2>2, <2>3, <2>4 DEF Opened, Cursor
<1>11. Phased'
    BY <1>1, <1>6 DEF Shape, Phased, Pushing, Scanned, OneRun
<1> QED
    BY <1>7, <1>8, <1>10, <1>11 DEF Shape

\* What a step of the merge does, in the two cases it distinguishes.
LEMMA MergeRecordFacts ==
  ASSUME Shape, MergeRecord
  PROVE  LET c == cursors[Least] IN
         /\ Least \in Heads /\ Heads \subseteq DOMAIN cursors /\ c.head \in Record
         /\ \A j \in Heads : cursors[j].head \in Record /\ c.head.id <= cursors[j].head.id
         /\ CursorTyped(c) /\ c.head # None /\ ~Misread(c)
         /\ start + Least - 1 \in DOMAIN runs /\ c.run = runs[start + Least - 1]
         /\ CursorTyped(Advanced(c)) /\ Advanced(c).run = c.run
         /\ DOMAIN cursors' = DOMAIN cursors /\ Len(cursors') = Len(cursors)
         /\ DOMAIN cursors = 1 .. Len(cursors) /\ Len(cursors) \in Nat
         /\ cursors'[Least] = Advanced(c)
         /\ \A j \in DOMAIN cursors : j # Least => cursors'[j] = cursors[j]
         /\ pending' \in Record
         /\ \/ /\ Folds(c.head) /\ ~Clash(pending, c.head) /\ pending \in Record
               /\ pending' = Combine(pending, c.head) /\ slots' = slots /\ written' = written
            \/ /\ ~Folds(c.head) /\ pending' = c.head /\ pending = None
               /\ slots' = slots /\ written' = written
            \/ /\ ~Folds(c.head) /\ pending' = c.head /\ pending \in Record /\ Emit(pending)
<1> DEFINE c == cursors[Least]
<1>1. Heads # {} /\ MergePass
    BY DEF MergeRecord
<1>2. Opened /\ Filed
    BY DEF Shape
<1>3. /\ Least \in Heads /\ Heads \subseteq DOMAIN cursors /\ c.head \in Record
      /\ \A j \in Heads : cursors[j].head \in Record /\ c.head.id <= cursors[j].head.id
    BY <1>1, <1>2, LeastFacts
<1>4. /\ cursors \in Seq(Cursor) /\ DOMAIN cursors = 1 .. Len(cursors) /\ Len(cursors) \in Nat
      /\ cursors = <<>> <=> Len(cursors) = 0
  <2>1. cursors \in Seq(Cursor)
      BY <1>2 DEF Opened, Cursor
  <2> QED
      BY <2>1, SequenceFacts
<1>5. /\ CursorTyped(c) /\ c.run = runs[start + Least - 1] /\ c.head # None
    BY <1>2, <1>3 DEF Opened, Heads
<1>6. start + Least - 1 \in DOMAIN runs
  <2>1. start <= Len(runs) /\ Len(cursors) = GroupEnd - start + 1
      BY <1>2, <1>3, <1>4 DEF Opened
  <2>2. GroupEnd \in start .. Len(runs) /\ DOMAIN runs = 1 .. Len(runs) /\ Len(runs) \in Nat
        /\ start \in Nat \ {0}
      BY <2>1, <1>2, GroupFacts, RunsFacts DEF Shape, Constant, Filed
  <2>3. Least \in 1 .. Len(cursors)
      BY <1>3, <1>4
  <2> QED
      BY <2>1, <2>2, <2>3, <1>4
<1>7. ~Misread(c) /\ cursors' = [cursors EXCEPT ![Least] = Advanced(c)]
    BY DEF MergeRecord
<1>8. CursorTyped(Advanced(c)) /\ Advanced(c).run = c.run
  <2> HIDE DEF c
  <2> QED
    BY <1>2, <1>5, <1>6, <1>7, TakeHead
<1>9. /\ DOMAIN cursors' = DOMAIN cursors /\ Len(cursors') = Len(cursors)
      /\ cursors'[Least] = Advanced(c)
      /\ \A j \in DOMAIN cursors : j # Least => cursors'[j] = cursors[j]
  <2>1. Advanced(c) \in Cursor /\ Least \in 1 .. Len(cursors)
      BY <1>3, <1>4, <1>8 DEF CursorTyped, Cursor
  <2> HIDE DEF c
  <2> QED
    BY <1>4, <1>7, <2>1
<1>10. /\ ~(Folds(c.head) /\ Clash(pending, c.head))
       /\ IF Folds(c.head)
          THEN pending' = Combine(pending, c.head) /\ slots' = slots /\ written' = written
          ELSE /\ pending' = c.head
               /\ IF pending = None THEN slots' = slots /\ written' = written
                  ELSE Emit(pending)
    BY DEF MergeRecord
<1>11. pending \in Record \/ pending = None
    BY <1>2 DEF Filed
<1>12. Folds(c.head) => pending \in Record /\ pending.id = c.head.id
    BY <1>11 DEF Folds
<1>13. pending' \in Record
    BY <1>3, <1>10, <1>12, CombineFacts
<1> HIDE DEF c
<1>14. \/ /\ Folds(c.head) /\ ~Clash(pending, c.head) /\ pending \in Record
          /\ pending' = Combine(pending, c.head) /\ slots' = slots /\ written' = written
       \/ /\ ~Folds(c.head) /\ pending' = c.head /\ pending = None
          /\ slots' = slots /\ written' = written
       \/ /\ ~Folds(c.head) /\ pending' = c.head /\ pending \in Record /\ Emit(pending)
    BY <1>10, <1>11, <1>12
<1> QED
    BY <1>3, <1>4, <1>5, <1>6, <1>7, <1>8, <1>9, <1>13, <1>14 DEF c

\* One record more at the end of what the pass has written.
LEMMA TargetFacts ==
  ASSUME Filed, NEW r \in Record,
         slots' = [slots EXCEPT ![Target] = Overwrite(@, End(merged) + Len(written), <<r>>)]
  PROVE  /\ slots' \in [{0, 1} -> Seq(Record)]
         /\ slots'[source] = slots[source]
         /\ End(merged) + Len(written) + 1 <= Len(slots'[1 - source])
         /\ \A i \in 1 .. End(merged) + Len(written) :
              slots'[1 - source][i] = slots[1 - source][i]
         /\ slots'[1 - source][End(merged) + Len(written) + 1] = r
<1> DEFINE n == End(merged) + Len(written)
           file == slots[1 - source]
           new == Overwrite(file, n, <<r>>)
<1>1. /\ slots \in [{0, 1} -> Seq(Record)] /\ source \in {0, 1} /\ n <= Len(file)
    BY DEF Filed
<1>2. 1 - source \in {0, 1} /\ 1 - source # source
    BY <1>1
<1>3. file \in Seq(Record) /\ n \in 0 .. Len(file) /\ n \in Nat
    BY <1>1, <1>2, RunsFacts, SequenceFacts DEF Filed
<1>4. <<r>> \in Seq(Record) /\ Len(<<r>>) = 1 /\ <<r>>[1] = r
    OBVIOUS
<1>5. slots' = [slots EXCEPT ![1 - source] = new]
    BY DEF Target
<1> HIDE DEF n, file, new
<1>6. /\ new \in Seq(Record) /\ Len(new) >= n + 1
      /\ \A i \in 1 .. n : new[i] = file[i]
      /\ new[n + 1] = r
  <2> DEFINE one == <<r>>
  <2>1. one \in Seq(Record) /\ Len(one) = 1 /\ one[1] = r
      BY <1>4
  <2> HIDE DEF one
  <2>2. /\ Overwrite(file, n, one) \in Seq(Record)
        /\ Len(Overwrite(file, n, one)) >= n + Len(one)
        /\ \A i \in 1 .. n : Overwrite(file, n, one)[i] = file[i]
        /\ \A i \in 1 .. Len(one) : Overwrite(file, n, one)[n + i] = one[i]
    <3>1. file \in Seq(Record) /\ one \in Seq(Record) /\ n \in 0 .. Len(file)
        BY <1>3, <2>1
    <3> QED
        BY ONLY <3>1, OverwriteFacts
  <2>3. 1 \in 1 .. Len(one)
      BY <2>1
  <2>4. new = Overwrite(file, n, one)
      BY DEF new, one
  <2> QED
      BY <2>1, <2>2, <2>3, <2>4
<1>7. /\ slots' \in [{0, 1} -> Seq(Record)] /\ slots'[source] = slots[source]
      /\ slots'[1 - source] = new
  <2> DEFINE d == 1 - source
  <2>1. d \in {0, 1} /\ d # source /\ slots' = [slots EXCEPT ![d] = new]
      BY <1>2, <1>5
  <2> HIDE DEF d
  <2>a. slots \in [{0, 1} -> Seq(Record)] /\ source \in {0, 1} /\ new \in Seq(Record)
      BY <1>1, <1>6
  <2>2. slots' \in [{0, 1} -> Seq(Record)] /\ slots'[source] = slots[source] /\ slots'[d] = new
      BY ONLY <2>a, <2>1
  <2> QED
      BY <2>2 DEF d
<1>8. n + 1 <= Len(new)
    BY <1>3, <1>6, SequenceFacts
<1> QED
    BY <1>6, <1>7, <1>8 DEF n, file

LEMMA ShapeMergeRecord == ASSUME Shape, MergeRecord PROVE Shape'
<1> DEFINE c == cursors[Least]
<1>1. /\ state = "merging" /\ Len(runs) > 1 /\ start <= Len(runs)
      /\ names' = names /\ protected' = protected /\ listed' = listed /\ walked' = walked
      /\ references' = references /\ chunk' = chunk /\ source' = source
      /\ runs' = runs /\ start' = start /\ merged' = merged
      /\ at' = at /\ offered' = offered /\ state' = state
      /\ pages' = pages /\ checked' = checked /\ loaded' = loaded /\ disturbed' = disturbed
    BY DEF MergeRecord, MergePass, mergeUnchanged, inputVars, readVars, historyVars
<1>2. Filed /\ Opened
    BY DEF Shape
<1>3. /\ Least \in DOMAIN cursors /\ start + Least - 1 \in DOMAIN runs
      /\ c.run = runs[start + Least - 1]
      /\ CursorTyped(Advanced(c)) /\ Advanced(c).run = c.run
      /\ DOMAIN cursors' = DOMAIN cursors /\ Len(cursors') = Len(cursors)
      /\ DOMAIN cursors = 1 .. Len(cursors) /\ Len(cursors) \in Nat
      /\ cursors'[Least] = Advanced(c)
      /\ \A j \in DOMAIN cursors : j # Least => cursors'[j] = cursors[j]
      /\ pending' \in Record
    BY MergeRecordFacts
<1> HIDE DEF c
<1>4. Constant'
    BY <1>1 DEF Shape, Constant
<1>5. Filed'
  <2>1. CASE slots' = slots /\ written' = written
      BY <1>1, <1>2, <1>3, <2>1 DEF Filed
  <2>2. CASE pending \in Record /\ Emit(pending)
    <3>1. /\ written' = Append(written, pending)
          /\ slots' = [slots EXCEPT ![Target] =
                         Overwrite(@, End(merged) + Len(written), <<pending>>)]
        BY <2>2 DEF Emit
    <3>2. /\ slots' \in [{0, 1} -> Seq(Record)] /\ slots'[source] = slots[source]
          /\ End(merged) + Len(written) + 1 <= Len(slots'[1 - source])
        BY <1>2, <2>2, <3>1, TargetFacts
    <3>3. written' \in Seq(Record) /\ Len(written') = Len(written) + 1
          /\ Len(written) \in Nat /\ End(merged) \in Nat
        BY <1>2, <2>2, <3>1, RunsFacts, SequenceFacts DEF Filed
    <3>4. End(merged) + Len(written') <= Len(slots'[1 - source])
        BY <3>2, <3>3
    <3> QED
        BY <1>1, <1>2, <1>3, <3>2, <3>3, <3>4 DEF Filed
  <2> QED
      BY <2>1, <2>2, MergeRecordFacts
<1>6. Opened'
  <2>1. cursors' \in Seq(Cursor) /\ cursors # <<>> /\ cursors' # <<>>
    <3>1. cursors' = [cursors EXCEPT ![Least] = Advanced(c)]
        BY DEF MergeRecord, c
    <3>2. Advanced(c) \in Cursor
        BY <1>3 DEF CursorTyped, Cursor
    <3>3. cursors \in Seq(Cursor)
        BY <1>2 DEF Opened, Cursor
    <3>4. cursors' \in Seq(Cursor)
        BY <1>3, <3>1, <3>2, <3>3
    <3>5. Len(cursors) # 0 /\ Len(cursors') # 0
        BY <1>3
    <3> QED
        BY <3>3, <3>4, <3>5
  <2>2. \A i \in DOMAIN cursors' :
          CursorTyped(cursors'[i]) /\ cursors'[i].run = runs'[start' + i - 1]
    <3> SUFFICES ASSUME NEW i \in DOMAIN cursors
                 PROVE  CursorTyped(cursors'[i]) /\ cursors'[i].run = runs[start + i - 1]
        BY <1>1, <1>3
    <3>1. CASE i = Least
        BY <1>3, <3>1
    <3>2. CASE i # Least
      <4>1. cursors'[i] = cursors[i]
          BY <1>3, <3>2
      <4> QED
          BY <1>2, <4>1 DEF Opened
    <3> QED
        BY <3>1, <3>2
  <2>3. GroupEnd' = GroupEnd
      BY <1>1 DEF GroupEnd
  <2>4. pending' # None
      BY <1>3, RecordFacts
  <2>5. /\ Len(cursors) <= FanIn /\ start <= Len(runs) /\ Len(cursors) = GroupEnd - start + 1
      BY <1>2, <2>1 DEF Opened
  <2>6. Len(cursors') <= FanIn /\ start' <= Len(runs') /\ Len(cursors') = GroupEnd' - start' + 1
      BY <1>1, <1>3, <2>3, <2>5
  <2> QED
      BY <2>1, <2>2, <2>4, <2>6 DEF Opened, Cursor
<1>7. Phased'
    BY <1>1 DEF Shape, Phased, Pushing, Scanned, OneRun
<1> QED
    BY <1>4, <1>5, <1>6, <1>7 DEF Shape

LEMMA ShapeCloseGroup == ASSUME Shape, CloseGroup PROVE Shape'
<1> DEFINE records == Append(written, pending)
<1>1. /\ state = "merging" /\ Len(runs) > 1 /\ start <= Len(runs)
      /\ cursors # <<>> /\ Heads = {}
      /\ names' = names /\ protected' = protected /\ listed' = listed /\ walked' = walked
      /\ references' = references /\ chunk' = chunk /\ source' = source
      /\ runs' = runs /\ start' = start + FanIn
      /\ cursors' = <<>> /\ pending' = None /\ written' = <<>>
      /\ at' = at /\ offered' = offered /\ state' = state
      /\ pages' = pages /\ checked' = checked /\ loaded' = loaded /\ disturbed' = disturbed
    BY DEF CloseGroup, MergePass, mergeUnchanged, inputVars, readVars, historyVars
<1>2. Filed /\ Opened
    BY DEF Shape
<1>3. pending \in Record
  <2>1. cursors \in Seq(Cursor)
      BY <1>2 DEF Opened, Cursor
  <2>2. 1 \in DOMAIN cursors
      BY <1>1, <2>1, SequenceFacts
  <2>3. cursors[1].head = None
      BY <1>1, <2>2 DEF Heads
  <2>4. pending # None
      BY <1>2, <2>2, <2>3 DEF Opened
  <2> QED
      BY <1>2, <2>4 DEF Filed
<1>4. /\ merged' = Append(merged, RunAt(End(merged), records))
      /\ slots' = [slots EXCEPT ![Target] =
                     Overwrite(@, End(merged) + Len(written), <<pending>>)]
    BY DEF CloseGroup
<1>5. /\ records \in Seq(Record) /\ Len(records) = Len(written) + 1 /\ Len(written) \in Nat
      /\ Len(records) > 0
    BY <1>2, <1>3, SequenceFacts DEF Filed
<1> HIDE DEF records
<1>6. RunsTyped(merged') /\ End(merged') = End(merged) + Len(records)
  <2>1. RunsTyped(merged)
      BY <1>2 DEF Filed
  <2> QED
      BY <1>4, <1>5, <2>1, AppendRun
<1>7. /\ slots' \in [{0, 1} -> Seq(Record)] /\ slots'[source] = slots[source]
      /\ End(merged) + Len(written) + 1 <= Len(slots'[1 - source])
    BY <1>2, <1>3, <1>4, TargetFacts
<1>8. Constant'
  <2>1. start' \in Nat \ {0}
      BY <1>1, InventoryAssumption DEF Shape, Constant
  <2> QED
      BY <1>1, <2>1 DEF Shape, Constant
<1>9. Filed'
  <2>1. written' \in Seq(Record) /\ Len(written') = 0
      BY <1>1, SequenceFacts
  <2>2. End(merged) \in Nat
      BY <1>2, RunsFacts DEF Filed
  <2>3. End(merged') + Len(written') <= Len(slots'[1 - source])
      BY <1>5, <1>6, <1>7, <2>1, <2>2
  <2> QED
      BY <1>1, <1>2, <1>6, <1>7, <2>1, <2>3 DEF Filed
<1>10. Opened'
    BY <1>1, InventoryAssumption, SequenceFacts DEF Opened
<1>11. Phased'
    BY <1>1 DEF Shape, Phased, Pushing, Scanned, OneRun
<1> QED
    BY <1>8, <1>9, <1>10, <1>11 DEF Shape

LEMMA ShapeEndPass == ASSUME Shape, EndPass PROVE Shape'
<1>1. /\ state = "merging" /\ Len(runs) > 1 /\ start > Len(runs)
      /\ names' = names /\ protected' = protected /\ listed' = listed /\ walked' = walked
      /\ references' = references /\ chunk' = chunk /\ source' = 1 - source /\ slots' = slots
      /\ runs' = merged /\ start' = 1 /\ merged' = <<>>
      /\ cursors' = cursors /\ pending' = pending /\ written' = written
      /\ at' = at /\ offered' = offered /\ state' = state
      /\ pages' = pages /\ checked' = checked /\ loaded' = loaded /\ disturbed' = disturbed
    BY DEF EndPass, Target, inputVars, readVars, historyVars
<1>2. Filed /\ Opened
    BY DEF Shape
<1>3. cursors = <<>> /\ written = <<>> /\ pending = None
  <2>1. start \in Nat /\ Len(runs) \in Nat
      BY <1>2, RunsFacts DEF Shape, Constant, Filed
  <2>2. ~(start <= Len(runs))
      BY <1>1, <2>1
  <2> QED
      BY <1>2, <2>2 DEF Opened
<1>4. Constant'
    BY <1>1 DEF Shape, Constant
<1>5. Filed'
  <2>1. /\ RunsTyped(runs') /\ RunsTyped(merged') /\ End(merged') = 0
        /\ Len(written) = 0 /\ End(merged) \in Nat
      BY <1>1, <1>2, <1>3, RunsFacts DEF Filed
  <2>2. source' \in {0, 1} /\ 1 - source' = source
      BY <1>1, <1>2 DEF Filed
  <2>3. slots \in [{0, 1} -> Seq(Record)] /\ source \in {0, 1}
      BY <1>2 DEF Filed
  <2>4. Len(slots[source]) \in Nat
      BY <2>3, SequenceFacts
  <2>5. End(runs') <= Len(slots'[source'])
      BY <1>1, <1>2, <2>1 DEF Filed
  <2>6. End(merged') + Len(written') <= Len(slots'[1 - source'])
      BY <1>1, <2>1, <2>2, <2>4
  <2> QED
      BY <1>1, <1>2, <2>1, <2>2, <2>5, <2>6 DEF Filed
<1>6. Opened'
    BY <1>1, <1>3, InventoryAssumption, SequenceFacts DEF Opened
<1>7. Phased'
    BY <1>1, <1>3 DEF Shape, Phased, Pushing, Scanned, OneRun
<1> QED
    BY <1>4, <1>5, <1>6, <1>7 DEF Shape

LEMMA ShapeReading ==
  ASSUME Shape, CheckPage \/ LoadPage \/ NextRecord PROVE Shape'
<1>1. /\ names' = names /\ protected' = protected /\ listed' = listed /\ walked' = walked
      /\ references' = references /\ chunk' = chunk /\ source' = source /\ slots' = slots
      /\ runs' = runs /\ start' = start /\ merged' = merged
      /\ cursors' = cursors /\ pending' = pending /\ written' = written
      /\ state' = state /\ disturbed' = disturbed
    BY DEF CheckPage, LoadPage, NextRecord, inputVars, passVars, historyVars
<1>2. Constant'
  <2>1. at' \in Nat \ {0}
      BY DEF CheckPage, LoadPage, NextRecord, Shape, Constant
  <2> QED
      BY <1>1, <2>1 DEF Shape, Constant
<1>3. Filed'
    BY <1>1 DEF Shape, Filed
<1>4. Opened'
    BY <1>1 DEF Shape, Opened, GroupEnd
<1>5. Phased'
  <2>1. CASE CheckPage
    <3>1. state = "checking" /\ at' = at /\ loaded' = loaded /\ offered' = offered
        BY <2>1 DEF CheckPage, historyVars
    <3> QED
        BY <1>1, <3>1 DEF Shape, Phased, Pushing, Scanned, OneRun
  <2>2. CASE LoadPage \/ NextRecord
    <3>1. state = "ready" /\ pages' = pages /\ checked' = checked
        BY <2>2 DEF LoadPage, NextRecord
    <3> QED
        BY <1>1, <3>1 DEF Shape, Phased, Pushing, Scanned, OneRun
  <2> QED
      BY <2>1, <2>2
<1> QED
    BY <1>2, <1>3, <1>4, <1>5 DEF Shape

LEMMA ShapeDecay == ASSUME Shape, Decay PROVE Shape'
<1>1. /\ names' = names /\ protected' = protected /\ listed' = listed /\ walked' = walked
      /\ references' = references /\ chunk' = chunk /\ source' = source
      /\ runs' = runs /\ start' = start /\ merged' = merged
      /\ cursors' = cursors /\ pending' = pending /\ written' = written
      /\ pages' = pages /\ checked' = checked /\ at' = at /\ loaded' = loaded
      /\ offered' = offered /\ state' = state /\ disturbed' = "decayed"
    BY DEF Decay, inputVars, passVars, readVars
<1>2. Filed
    BY DEF Shape
<1>3. /\ slots' \in [{0, 1} -> Seq(Record)]
      /\ \A s \in {0, 1} : Len(slots'[s]) = Len(slots[s])
  <2>0. PICK s \in {0, 1} : \E i \in DOMAIN slots[s] : \E r \in Record :
          slots' = [slots EXCEPT ![s] = [slots[s] EXCEPT ![i] = r]]
      BY DEF Decay
  <2>1. PICK i \in DOMAIN slots[s], r \in Record :
          slots' = [slots EXCEPT ![s] = [slots[s] EXCEPT ![i] = r]]
      BY <2>0
  <2>2. slots \in [{0, 1} -> Seq(Record)]
      BY <1>2 DEF Filed
  <2> DEFINE new == [slots[s] EXCEPT ![i] = r]
  <2>3. new \in Seq(Record) /\ Len(new) = Len(slots[s])
    <3>1. slots[s] \in Seq(Record)
        BY <2>2
    <3> QED
        BY <3>1
  <2> HIDE DEF new
  <2>4. slots' = [slots EXCEPT ![s] = new]
      BY <2>1 DEF new
  <2> QED
      BY <2>2, <2>3, <2>4
<1>4. Constant'
    BY <1>1 DEF Shape, Constant
<1>5. Filed'
  <2>1. source \in {0, 1} /\ 1 - source \in {0, 1}
      BY <1>2 DEF Filed
  <2>2. Len(slots'[source]) = Len(slots[source])
        /\ Len(slots'[1 - source]) = Len(slots[1 - source])
      BY <1>3, <2>1
  <2> QED
      BY <1>1, <1>2, <1>3, <2>1, <2>2 DEF Filed
<1>6. Opened'
    BY <1>1 DEF Shape, Opened, GroupEnd
<1>7. Phased'
    BY <1>1 DEF Shape, Phased, Pushing, Scanned, OneRun
<1> QED
    BY <1>4, <1>5, <1>6, <1>7 DEF Shape

LEMMA ShapeStep == Shape /\ [Next]_vars => Shape'
<1> SUFFICES ASSUME Shape, [Next]_vars PROVE Shape'
    OBVIOUS
<1>1. CASE UNCHANGED vars
  <2>1. OthersUnchanged /\ state' = state /\ disturbed' = disturbed
      BY <1>1 DEF vars, OthersUnchanged, historyVars
  <2>2. Constant' /\ Filed' /\ Opened'
      BY <2>1, ShapeOthers
  <2>3. Phased'
      BY <2>1 DEF OthersUnchanged, inputVars, passVars, readVars, Shape, Phased, Pushing,
                  Scanned, OneRun
  <2> QED
      BY <2>2, <2>3 DEF Shape
<1>2. CASE Building
    BY <1>2, ShapePush, ShapePhases, ShapeStops, ShapeFlushLast DEF Building
<1>3. CASE Merging
    BY <1>3, ShapeOpenGroup, ShapeMergeRecord, ShapeStops, ShapeCloseGroup, ShapeEndPass
    DEF Merging
<1>4. CASE Checking
    BY <1>4, ShapePhases, ShapeReading, ShapeStops DEF Checking
<1>5. CASE Offering
    BY <1>5, ShapePhases, ShapeReading, ShapeStops DEF Offering
<1>6. CASE Interrupt \/ Decay
    BY <1>6, ShapeStops, ShapeDecay
<1>7. CASE Done
    BY <1>1, <1>7 DEF Done
<1> QED
    BY <1>1, <1>2, <1>3, <1>4, <1>5, <1>6, <1>7 DEF Next

LEMMA ShapeInvariant == Spec => []Shape
<1> QED
    BY ShapeInit, ShapeStep, PTL DEF Spec

\* Runs stay within their file, one after the other, whatever happens to the
\* records in it; no group holds more cursors than FAN_IN.
THEOREM TypeCorrect == Spec => []TypeOK
<1>1. Shape => TypeOK
  <2> SUFFICES ASSUME Shape PROVE TypeOK
      OBVIOUS
  <2>1. Filed /\ Opened /\ Constant /\ Phased
      BY DEF Shape
  <2>2. End(merged) <= Len(slots[1 - source])
    <3>1. End(merged) \in Nat /\ Len(written) \in Nat
        BY <2>1, RunsFacts, SequenceFacts DEF Filed
    <3>2. Len(slots[1 - source]) \in Nat
      <4>1. 1 - source \in {0, 1} /\ slots \in [{0, 1} -> Seq(Record)]
          BY <2>1 DEF Filed
      <4> QED
          BY <4>1, SequenceFacts
    <3>3. End(merged) + Len(written) <= Len(slots[1 - source])
        BY <2>1 DEF Filed
    <3> QED
        BY <3>1, <3>2, <3>3
  <2>3. \A rs \in {runs, merged} :
          /\ rs \in Seq(Run)
          /\ \A i \in DOMAIN rs :
               /\ rs[i].records = Len(rs[i].checksum)
               /\ rs[i].offset = IF i = 1 THEN 0 ELSE rs[i - 1].offset + rs[i - 1].records
      BY <2>1 DEF Filed, RunsTyped
  <2> QED
      BY <2>1, <2>2, <2>3 DEF TypeOK, Constant, Filed, Opened, Phased
<1> QED
    BY <1>1, ShapeInvariant, PTL

-----------------------------------------------------------------------------
(* The marks: nothing said of an object is lost, nothing is invented.       *)

LEMMA MarksOfOne == ASSUME NEW r \in Record PROVE Marks(<<r>>) = MarksOf(r)
<1>1. <<>> \in Seq(Record) /\ <<r>> = Append(<<>>, r)
    OBVIOUS
<1> QED
    BY <1>1, MarksAppend, NoMarks

\* A pushed record is in the chunk, or the chunk became a run before it.
LEMMA PushMarks ==
  ASSUME Shape, state \in Pushing, NEW r \in Record, Push(r)
  PROVE  Marks(chunk') \union RunMarks(runs', 1)
           = (Marks(chunk) \union RunMarks(runs, 1)) \union MarksOf(r)
<1>1. /\ Filed /\ source = 0 /\ chunk \in Seq(Record) /\ RunsTyped(runs)
      /\ ChunkRecords \in Nat \ {0}
    BY InventoryAssumption DEF Shape, Phased, Filed
<1>2. CASE Len(chunk) < ChunkRecords
  <2>1. chunk' = Append(chunk, r) /\ runs' = runs
      BY <1>2 DEF Push
  <2>2. Marks(chunk') = Marks(chunk) \union MarksOf(r)
      BY <1>1, <2>1, MarksAppend
  <2> QED
      BY <2>1, <2>2
<1>3. CASE ~(Len(chunk) < ChunkRecords)
  <2>1. Flushed /\ chunk' = <<r>>
      BY <1>3 DEF Push
  <2>2. chunk # <<>>
      BY <1>1, <1>3
  <2> DEFINE run == SortedRun(chunk)
  <2>3. /\ run \in Seq(Record) /\ Len(run) > 0
        /\ runs' = Append(runs, RunAt(End(runs), run))
      BY <1>1, <2>1, <2>2, FlushedFacts
  <2>4. Marks(run) = Marks(chunk)
      BY <1>1, <2>2, SortedRunFacts
  <2> HIDE DEF run
  <2>5. Len(runs) \in Nat /\ 1 \in 1 .. Len(runs) + 1
      BY <1>1, RunsFacts
  <2>6. RunMarks(runs', 1) = RunMarks(runs, 1) \union Marks(run)
      BY <1>1, <2>3, <2>5, AppendRun
  <2>7. Marks(chunk') = MarksOf(r)
      BY <2>1, MarksOfOne
  <2> QED
      BY <2>4, <2>6, <2>7
<1> QED
    BY <1>2, <1>3

\* Handing over its head adds what the head says to what a cursor handed over.
LEMMA TakenFacts ==
  ASSUME NEW c, CursorTyped(c)
  PROVE  /\ c.head = None => TakenOf(c) = Marks(c.run.checksum)
         /\ c.head # None => /\ Taken(c) = Len(c.seen) - 1 /\ c.seen[Len(c.seen)] = c.head
                             /\ Marks(c.seen) = TakenOf(c) \union MarksOf(c.head)
<1>1. /\ c.seen \in Seq(Record) /\ Len(c.seen) \in Nat /\ Len(c.seen) > 0
      /\ DOMAIN c.seen = 1 .. Len(c.seen)
    BY SequenceFacts DEF CursorTyped
<1>2. CASE c.head = None
  <2>1. Taken(c) = Len(c.seen) /\ c.seen = c.run.checksum
      BY <1>2 DEF Taken, CursorTyped
  <2>2. TakenOf(c) = Marks(c.seen)
      BY <1>1, <2>1 DEF TakenOf, Marks
  <2> QED
      BY <1>2, <2>1, <2>2
<1>3. CASE c.head # None
  <2> DEFINE n == Len(c.seen)
  <2>1. Taken(c) = n - 1 /\ c.seen[n] = c.head
      BY <1>3 DEF Taken, CursorTyped
  <2>2. \A k : k \in 1 .. n <=> k \in 1 .. n - 1 \/ k = n
      BY <1>1
  <2>3. TakenOf(c) = UNION {MarksOf(c.seen[k]) : k \in 1 .. n - 1}
      BY <2>1 DEF TakenOf
  <2>4. Marks(c.seen) = UNION {MarksOf(c.seen[k]) : k \in 1 .. n}
      BY <1>1 DEF Marks
  <2> HIDE DEF n
  <2>5. Marks(c.seen) = TakenOf(c) \union MarksOf(c.head)
      BY <2>1, <2>2, <2>3, <2>4
  <2> QED
      BY <1>3, <2>1, <2>5 DEF n
<1> QED
    BY <1>2, <1>3

LEMMA TakenAdvanced ==
  ASSUME Filed, NEW k \in DOMAIN runs, NEW c, CursorTyped(c), c.run = runs[k],
         c.head # None, ~Misread(c)
  PROVE  TakenOf(Advanced(c)) = TakenOf(c) \union MarksOf(c.head)
<1> DEFINE d == Advanced(c)
<1>1. CursorTyped(d) /\ d.run = c.run
    BY TakeHead
<1>2. c.seen \in Seq(Record)
    BY DEF CursorTyped
<1>3. Marks(c.seen) = TakenOf(c) \union MarksOf(c.head)
    BY TakenFacts
<1>4. CASE Exhausted(c)
  <2>1. d.head = None /\ d.seen = c.seen
      BY <1>4, TakeHead
  <2> HIDE DEF d
  <2>2. d.seen = d.run.checksum
      BY <1>1, <2>1 DEF CursorTyped
  <2>3. TakenOf(d) = Marks(c.seen)
      BY <1>1, <2>1, <2>2, TakenFacts
  <2> QED
      BY <1>3, <2>3 DEF d
<1>5. CASE ~Exhausted(c)
  <2> DEFINE r == slots[source][c.run.offset + c.read + 1]
  <2>1. r \in Record /\ d.head # None /\ d.seen = Append(c.seen, r)
      BY <1>5, TakeHead
  <2> HIDE DEF d, r
  <2>2. Taken(d) = Len(c.seen)
    <3>1. Len(d.seen) = Len(c.seen) + 1 /\ Len(c.seen) \in Nat
        BY <1>2, <2>1, SequenceFacts
    <3> QED
        BY <2>1, <3>1 DEF Taken
  <2>3. \A j \in 1 .. Len(c.seen) : d.seen[j] = c.seen[j]
      BY <1>2, <2>1, SequenceFacts
  <2>4. TakenOf(d) = Marks(c.seen)
    <3>1. DOMAIN c.seen = 1 .. Len(c.seen)
        BY <1>2, SequenceFacts
    <3> QED
        BY <2>2, <2>3, <3>1 DEF TakenOf, Marks
  <2> QED
      BY <1>3, <2>4 DEF d
<1> QED
    BY <1>4, <1>5

LEMMA CarriedInit == Init => Carried
<1> SUFFICES ASSUME Init PROVE Carried
    OBVIOUS
<1>1. chunk = <<>> /\ runs = <<>> /\ listed = {} /\ walked = {} /\ state = "listing"
    BY DEF Init
<1>2. Given = {}
    BY <1>1 DEF Given
<1>3. Marks(chunk) \union RunMarks(runs, 1) = {}
    BY <1>1, NoMarks, RunsFacts
<1> QED
    BY <1>1, <1>2, <1>3 DEF Carried, OneRun

LEMMA CarriedPush ==
  ASSUME Shape, Carried, PushName \/ PushNameAgain \/ PushReference
  PROVE  Carried'
<1>1. state \in Pushing /\ state' = state /\ state' \notin OneRun /\ state' # "merging"
    BY DEF PushName, PushNameAgain, PushReference, Pushing, OneRun
<1>2. ASSUME NEW r \in Record, Push(r), Given' = Given \union MarksOf(r)
      PROVE  Carried'
  <2>1. Marks(chunk') \union RunMarks(runs', 1)
          = (Marks(chunk) \union RunMarks(runs, 1)) \union MarksOf(r)
      BY <1>1, <1>2, PushMarks
  <2>2. Marks(chunk) \union RunMarks(runs, 1) = Given
      BY <1>1 DEF Carried
  <2>3. Marks(chunk') \union RunMarks(runs', 1) = Given'
      BY <1>2, <2>1, <2>2
  <2> QED
      BY <1>1, <2>3 DEF Carried
<1>3. \A n \in names \union protected \union listed : n \in Object
    BY DEF Shape, Constant
<1>4. CASE PushName
  <2>1. PICK n \in names : Push(Named(n)) /\ listed' = listed \union {n}
      BY <1>4 DEF PushName
  <2>2. walked' = walked /\ n \in Object
      BY <1>3, <1>4 DEF PushName
  <2>3. Given' = Given \union {<<n, "name">>}
      BY <2>1, <2>2 DEF Given
  <2>4. Named(n) \in Record /\ MarksOf(Named(n)) = {<<n, "name">>}
      BY <2>2, GivenRecords
  <2> QED
      BY <1>2, <2>1, <2>3, <2>4
<1>5. CASE PushNameAgain
  <2>1. PICK n \in listed : Push(Named(n))
      BY <1>5 DEF PushNameAgain
  <2>2. walked' = walked /\ listed' = listed /\ n \in Object
      BY <1>3, <1>5 DEF PushNameAgain
  <2>3. Given' = Given \union {<<n, "name">>}
      BY <2>1, <2>2 DEF Given
  <2>4. Named(n) \in Record /\ MarksOf(Named(n)) = {<<n, "name">>}
      BY <2>2, GivenRecords
  <2> QED
      BY <1>2, <2>1, <2>3, <2>4
<1>6. CASE PushReference
  <2>1. PICK n \in protected : Push(Referenced(n)) /\ walked' = walked \union {n}
      BY <1>6 DEF PushReference
  <2>2. listed' = listed /\ n \in Object
      BY <1>3, <1>6 DEF PushReference
  <2>3. Given' = Given \union {<<n, "ref">>}
      BY <2>1, <2>2 DEF Given
  <2>4. Referenced(n) \in Record /\ MarksOf(Referenced(n)) = {<<n, "ref">>}
      BY <2>2, GivenRecords
  <2> QED
      BY <1>2, <2>1, <2>3, <2>4
<1> QED
    BY <1>4, <1>5, <1>6

LEMMA CarriedFlushLast == ASSUME Shape, Carried, FlushLast PROVE Carried'
<1>1. /\ state = "walking" /\ state' = "merging" /\ listed' = listed /\ walked' = walked
      /\ start' = start /\ cursors' = cursors /\ pending' = pending /\ merged' = merged
      /\ written' = written
    BY DEF FlushLast, Goto, inputVars, passVars
<1>2. /\ Filed /\ source = 0 /\ merged = <<>> /\ cursors = <<>> /\ written = <<>>
      /\ pending = None /\ start = 1 /\ chunk \in Seq(Record) /\ RunsTyped(runs)
    BY <1>1 DEF Shape, Phased, Opened, Filed, Pushing
<1>3. Given' = Given
    BY <1>1 DEF Given
<1>4. Marks(chunk) \union RunMarks(runs, 1) = Given
    BY <1>1 DEF Carried, Pushing
<1>5. RunMarks(runs', 1) = Given
  <2>1. CASE chunk = <<>>
    <3>1. runs' = runs
        BY <2>1 DEF FlushLast
    <3> QED
        BY <1>4, <2>1, <3>1, NoMarks
  <2>2. CASE chunk # <<>>
    <3> DEFINE run == SortedRun(chunk)
    <3>1. Flushed
        BY <2>2 DEF FlushLast
    <3>2. /\ run \in Seq(Record) /\ Len(run) > 0
          /\ runs' = Append(runs, RunAt(End(runs), run))
        BY <1>2, <2>2, <3>1, FlushedFacts
    <3>3. Marks(run) = Marks(chunk)
        BY <1>2, <2>2, SortedRunFacts
    <3> HIDE DEF run
    <3>4. Len(runs) \in Nat /\ 1 \in 1 .. Len(runs) + 1
        BY <1>2, RunsFacts
    <3>5. RunMarks(runs', 1) = RunMarks(runs, 1) \union Marks(run)
        BY <1>2, <3>2, <3>4, AppendRun
    <3> QED
        BY <1>4, <3>3, <3>5
  <2> QED
      BY <2>1, <2>2
<1>6. RunMarks(merged', 1) = {}
    BY <1>1, <1>2, RunsFacts
<1>7. TakenMarks' = {} /\ Marks(written') \union MarksOf(pending') = {}
    BY <1>1, <1>2, NoMarks DEF TakenMarks
<1>8. start' = 1
    BY <1>1, <1>2
<1> QED
    BY <1>1, <1>3, <1>5, <1>6, <1>7, <1>8 DEF Carried, Pushing, OneRun

LEMMA CarriedOpenGroup == ASSUME Shape, Carried, OpenGroup PROVE Carried'
<1>1. /\ state = "merging" /\ Len(runs) > 1 /\ start <= Len(runs) /\ cursors = <<>>
      /\ listed' = listed /\ walked' = walked /\ runs' = runs /\ start' = start
      /\ pending' = pending /\ merged' = merged /\ written' = written /\ state' = state
    BY DEF OpenGroup, MergePass, mergeUnchanged, inputVars
<1>2. Given' = Given
    BY <1>1 DEF Given
<1>3. TakenMarks = {}
    BY <1>1 DEF TakenMarks
<1>4. TakenMarks' = {}
  <2>1. Filed /\ Shape
      BY DEF Shape
  <2> DEFINE n == GroupEnd - start + 1
  <2>2. DOMAIN cursors' = 1 .. n
      BY DEF OpenGroup
  <2>3. ASSUME NEW i \in 1 .. n PROVE TakenOf(cursors'[i]) = {}
    <3>1. cursors'[i] = Advanced(NewCursor(runs[start + i - 1]))
        BY DEF OpenGroup
    <3>2. start + i - 1 \in DOMAIN runs
      <4>1. /\ GroupEnd \in start .. Len(runs) /\ start \in Nat \ {0}
            /\ Len(runs) \in Nat /\ DOMAIN runs = 1 .. Len(runs)
          BY <1>1, GroupFacts, RunsFacts DEF Shape, Filed, Constant
      <4> QED
          BY <4>1
    <3> DEFINE c == cursors'[i]
               r == slots[source][runs[start + i - 1].offset + 1]
    <3>3. c.head # None /\ c.seen = <<r>>
        BY <2>1, <3>1, <3>2, NewCursorFacts
    <3> HIDE DEF c, r
    <3>4. Taken(c) = 0
        BY <3>3 DEF Taken
    <3> QED
        BY <3>4 DEF TakenOf, c
  <2> QED
      BY <2>2, <2>3 DEF TakenMarks
<1>5. Marks(written') \union MarksOf(pending') = TakenMarks'
    BY <1>1, <1>3, <1>4 DEF Carried
<1> QED
    BY <1>1, <1>2, <1>5 DEF Carried, Pushing, OneRun

LEMMA CarriedMergeRecord == ASSUME Shape, Carried, MergeRecord PROVE Carried'
<1> DEFINE c == cursors[Least]
           k == start + Least - 1
<1>1. /\ state = "merging" /\ Len(runs) > 1
      /\ listed' = listed /\ walked' = walked /\ runs' = runs /\ start' = start
      /\ merged' = merged /\ state' = state
    BY DEF MergeRecord, MergePass, mergeUnchanged, inputVars
<1>2. Given' = Given
    BY <1>1 DEF Given
<1>3. Filed /\ written \in Seq(Record)
    BY DEF Shape, Filed
<1>4. /\ Least \in DOMAIN cursors /\ k \in DOMAIN runs
      /\ CursorTyped(c) /\ c.head # None /\ c.head \in Record /\ ~Misread(c) /\ c.run = runs[k]
      /\ DOMAIN cursors' = DOMAIN cursors /\ cursors'[Least] = Advanced(c)
      /\ \A j \in DOMAIN cursors : j # Least => cursors'[j] = cursors[j]
    BY MergeRecordFacts
<1> HIDE DEF c, k
<1>5. TakenOf(Advanced(c)) = TakenOf(c) \union MarksOf(c.head)
    BY <1>3, <1>4, TakenAdvanced
<1>6. TakenMarks' = TakenMarks \union MarksOf(c.head)
  <2>1. \A j \in DOMAIN cursors :
          TakenOf(cursors'[j]) = IF j = Least THEN TakenOf(c) \union MarksOf(c.head)
                                 ELSE TakenOf(cursors[j])
      BY <1>4, <1>5
  <2>2. c = cursors[Least]
      BY DEF c
  <2>3. TakenMarks' = UNION {TakenOf(cursors'[j]) : j \in DOMAIN cursors}
      BY <1>4 DEF TakenMarks
  <2>4. TakenMarks = UNION {TakenOf(cursors[j]) : j \in DOMAIN cursors}
      BY DEF TakenMarks
  <2>5. ASSUME NEW x \in TakenMarks' PROVE x \in TakenMarks \union MarksOf(c.head)
      BY <2>1, <2>2, <2>3, <2>4, <2>5, <1>4
  <2>6. ASSUME NEW x \in TakenMarks \union MarksOf(c.head) PROVE x \in TakenMarks'
    <3>1. CASE x \in MarksOf(c.head)
        BY <2>1, <2>3, <1>4, <3>1
    <3>2. CASE x \in TakenMarks
      <4>1. PICK j \in DOMAIN cursors : x \in TakenOf(cursors[j])
          BY <2>4, <3>2
      <4>2. x \in TakenOf(cursors'[j])
          BY <2>1, <2>2, <4>1
      <4> QED
          BY <2>3, <4>2
    <3> QED
        BY <2>6, <3>1, <3>2
  <2> QED
      BY <2>5, <2>6
<1>7. Marks(written) \union MarksOf(pending) = TakenMarks
    BY <1>1 DEF Carried
<1>8. Marks(written') \union MarksOf(pending')
        = (Marks(written) \union MarksOf(pending)) \union MarksOf(c.head)
  <2>1. CASE /\ Folds(c.head) /\ pending \in Record
             /\ pending' = Combine(pending, c.head) /\ written' = written
    <3>1. pending.id = c.head.id
        BY <2>1 DEF Folds
    <3>2. MarksOf(pending') = MarksOf(pending) \union MarksOf(c.head)
        BY <1>4, <2>1, <3>1, CombineFacts
    <3> QED
        BY <2>1, <3>2
  <2>2. CASE pending' = c.head /\ pending = None /\ written' = written
      BY <2>2, NoMarks
  <2>3. CASE pending' = c.head /\ pending \in Record /\ Emit(pending)
    <3>1. written' = Append(written, pending)
        BY <2>3 DEF Emit
    <3>2. Marks(written') = Marks(written) \union MarksOf(pending)
        BY <1>3, <2>3, <3>1, MarksAppend
    <3> QED
        BY <2>3, <3>2
  <2> QED
      BY <2>1, <2>2, <2>3, MergeRecordFacts DEF c
<1>9. Marks(written') \union MarksOf(pending') = TakenMarks'
    BY <1>6, <1>7, <1>8
<1> QED
    BY <1>1, <1>2, <1>9 DEF Carried, Pushing, OneRun

\* The runs of the group that closes are those its cursors read to the end.
LEMMA GroupMarks ==
  ASSUME Shape, MergePass, cursors # <<>>, Heads = {}
  PROVE  RunMarks(runs, start) = TakenMarks \union RunMarks(runs, start + FanIn)
<1>1. /\ Opened /\ RunsTyped(runs) /\ start <= Len(runs) /\ start \in Nat \ {0}
      /\ FanIn \in Nat \ {0}
    BY InventoryAssumption DEF MergePass, Shape, Filed, Constant
<1>2. DOMAIN runs = 1 .. Len(runs) /\ Len(runs) \in Nat
    BY <1>1, RunsFacts
<1>0. /\ GroupEnd \in start .. Len(runs)
      /\ GroupEnd = Len(runs) \/ GroupEnd + 1 = start + FanIn
    BY <1>1, GroupFacts
<1>g. /\ GroupEnd \in Nat /\ start \in Nat \ {0} /\ FanIn \in Nat \ {0} /\ Len(runs) \in Nat
      /\ start <= GroupEnd /\ GroupEnd <= Len(runs)
      /\ GroupEnd = Len(runs) \/ GroupEnd + 1 = start + FanIn
  <2>1. start \in Nat \ {0} /\ FanIn \in Nat \ {0} /\ Len(runs) \in Nat
      BY <1>1, <1>2
  <2> QED
      BY <2>1, <1>0
<1>3. DOMAIN cursors = 1 .. GroupEnd - start + 1
  <2>1. cursors \in Seq(Cursor) /\ Len(cursors) = GroupEnd - start + 1
      BY <1>1 DEF Opened, Cursor
  <2> QED
      BY <2>1, SequenceFacts
<1>4. \A i \in DOMAIN cursors : TakenOf(cursors[i]) = Marks(runs[start + i - 1].checksum)
  <2> SUFFICES ASSUME NEW i \in DOMAIN cursors
               PROVE  TakenOf(cursors[i]) = Marks(runs[start + i - 1].checksum)
      OBVIOUS
  <2>1. CursorTyped(cursors[i]) /\ cursors[i].run = runs[start + i - 1]
      BY <1>1 DEF Opened
  <2>2. cursors[i].head = None
      BY DEF Heads
  <2> QED
      BY <2>1, <2>2, TakenFacts
<1>5. ASSUME NEW x \in RunMarks(runs, start)
      PROVE  x \in TakenMarks \union RunMarks(runs, start + FanIn)
  <2>1. PICK i \in DOMAIN runs : start <= i /\ x \in Marks(runs[i].checksum)
      BY DEF RunMarks
  <2>2. CASE start + FanIn <= i
      BY <2>1, <2>2 DEF RunMarks
  <2>3. CASE ~(start + FanIn <= i)
    <3> DEFINE j == i - start + 1
    <3>1. j \in 1 .. GroupEnd - start + 1 /\ start + j - 1 = i
      <4>1. i \in Nat /\ start <= i /\ i <= Len(runs)
          BY <1>2, <2>1
      <4>2. i <= GroupEnd
          BY <4>1, <1>g, <2>3
      <4> QED
          BY <4>1, <4>2, <1>g
    <3> HIDE DEF j
    <3>2. TakenOf(cursors[j]) = Marks(runs[i].checksum)
        BY <1>3, <1>4, <3>1
    <3> QED
        BY <1>3, <2>1, <3>1, <3>2 DEF TakenMarks
  <2> QED
      BY <2>2, <2>3
<1>6. ASSUME NEW x \in TakenMarks PROVE x \in RunMarks(runs, start)
  <2>1. PICK j \in DOMAIN cursors : x \in TakenOf(cursors[j])
      BY DEF TakenMarks
  <2> DEFINE i == start + j - 1
  <2>2. i \in DOMAIN runs /\ start <= i
    <3>1. j \in Nat \ {0} /\ j <= GroupEnd - start + 1
        BY <1>3, <1>g
    <3>2. start <= i /\ i <= Len(runs) /\ i \in Nat \ {0}
        BY <3>1, <1>g
    <3> QED
        BY <3>2, <1>2
  <2>3. x \in Marks(runs[i].checksum)
      BY <1>4, <2>1
  <2> HIDE DEF i
  <2> QED
      BY <2>2, <2>3 DEF RunMarks
<1>7. ASSUME NEW x \in RunMarks(runs, start + FanIn) PROVE x \in RunMarks(runs, start)
  <2>1. PICK i \in DOMAIN runs : start + FanIn <= i /\ x \in Marks(runs[i].checksum)
      BY DEF RunMarks
  <2>2. start <= i
    <3>1. i \in Nat
        BY <1>2, <2>1
    <3> QED
        BY <3>1, <2>1, <1>g
  <2> QED
      BY <2>1, <2>2 DEF RunMarks
<1> QED
    BY <1>5, <1>6, <1>7

LEMMA CarriedCloseGroup == ASSUME Shape, Carried, CloseGroup PROVE Carried'
<1> DEFINE records == Append(written, pending)
<1>1. /\ state = "merging" /\ MergePass /\ cursors # <<>> /\ Heads = {} /\ Len(runs) > 1
      /\ listed' = listed /\ walked' = walked /\ runs' = runs /\ start' = start + FanIn
      /\ cursors' = <<>> /\ pending' = None /\ written' = <<>> /\ state' = state
      /\ merged' = Append(merged, RunAt(End(merged), records))
    BY DEF CloseGroup, MergePass, mergeUnchanged, inputVars
<1>2. Given' = Given
    BY <1>1 DEF Given
<1>3. pending \in Record /\ written \in Seq(Record) /\ RunsTyped(merged)
  <2>1. cursors \in Seq(Cursor) /\ Opened
      BY DEF Shape, Opened, Cursor
  <2>2. 1 \in DOMAIN cursors
      BY <1>1, <2>1, SequenceFacts
  <2>3. cursors[1].head = None
      BY <1>1, <2>2 DEF Heads
  <2>4. pending # None
      BY <2>1, <2>2, <2>3 DEF Opened
  <2> QED
      BY <2>4 DEF Shape, Filed
<1>4. records \in Seq(Record) /\ Len(records) > 0
    BY <1>3, SequenceFacts
<1>5. Marks(records) = TakenMarks
  <2>1. Marks(records) = Marks(written) \union MarksOf(pending)
      BY <1>3, MarksAppend
  <2> QED
      BY <1>1, <2>1 DEF Carried
<1> HIDE DEF records
<1>6. RunMarks(merged', 1) = RunMarks(merged, 1) \union TakenMarks
  <2>1. Len(merged) \in Nat /\ 1 \in 1 .. Len(merged) + 1
      BY <1>3, RunsFacts
  <2> QED
      BY <1>1, <1>3, <1>4, <1>5, <2>1, AppendRun
<1>7. RunMarks(runs, start) = TakenMarks \union RunMarks(runs, start + FanIn)
    BY <1>1, GroupMarks
<1>8. RunMarks(merged', 1) \union RunMarks(runs', start') = Given'
  <2>1. RunMarks(merged, 1) \union RunMarks(runs, start) = Given
      BY <1>1 DEF Carried
  <2> QED
      BY <1>1, <1>2, <1>6, <1>7, <2>1
<1>9. Marks(written') \union MarksOf(pending') = TakenMarks'
  <2>1. TakenMarks' = {}
      BY <1>1 DEF TakenMarks
  <2> QED
      BY <1>1, <2>1, NoMarks
<1> QED
    BY <1>1, <1>8, <1>9 DEF Carried, Pushing, OneRun

LEMMA CarriedEndPass == ASSUME Shape, Carried, EndPass PROVE Carried'
<1>1. /\ state = "merging" /\ start > Len(runs)
      /\ listed' = listed /\ walked' = walked /\ runs' = merged /\ start' = 1
      /\ cursors' = cursors /\ pending' = pending /\ written' = written /\ state' = state
      /\ merged' = <<>>
    BY DEF EndPass, inputVars
<1>2. Given' = Given /\ TakenMarks' = TakenMarks
    BY <1>1 DEF Given, TakenMarks
<1>3. RunMarks(runs, start) = {}
  <2>1. DOMAIN runs = 1 .. Len(runs) /\ Len(runs) \in Nat /\ start \in Nat
      BY RunsFacts DEF Shape, Filed, Constant
  <2>2. \A i \in DOMAIN runs : ~(start <= i)
      BY <1>1, <2>1
  <2> QED
      BY <2>2 DEF RunMarks
<1>4. RunMarks(merged', 1) \union RunMarks(runs', start') = Given'
  <2>1. RunMarks(merged', 1) = {}
      BY <1>1, RunsFacts
  <2>2. RunMarks(merged, 1) \union RunMarks(runs, start) = Given
      BY <1>1 DEF Carried
  <2> QED
      BY <1>1, <1>2, <1>3, <2>1, <2>2
<1>5. Marks(written') \union MarksOf(pending') = TakenMarks'
    BY <1>1, <1>2 DEF Carried
<1> QED
    BY <1>1, <1>4, <1>5 DEF Carried, Pushing, OneRun

\* Steps that move no record.
LEMMA CarriedRest ==
  ASSUME Shape, Carried,
         \/ EndListing \/ BeginCheck \/ CheckEnds \/ NextEnds
         \/ PushClashes \/ LastClashes \/ MergeFails \/ CheckFails \/ PageChanged
         \/ Interrupt \/ Decay \/ CheckPage \/ LoadPage \/ NextRecord \/ UNCHANGED vars
  PROVE  Carried'
<1>1. /\ listed' = listed /\ walked' = walked /\ runs' = runs /\ start' = start
      /\ cursors' = cursors /\ pending' = pending /\ written' = written /\ merged' = merged
      /\ chunk' = chunk
    BY DEF EndListing, BeginCheck, CheckEnds, NextEnds, PushClashes, LastClashes, MergeFails,
           CheckFails, PageChanged, Interrupt, Decay, CheckPage, LoadPage, NextRecord, Fail,
           vars, inputVars, passVars
<1>2. Given' = Given /\ TakenMarks' = TakenMarks
    BY <1>1 DEF Given, TakenMarks
<1>3. CASE state' = state \/ state' = "failed"
    BY <1>1, <1>2, <1>3 DEF Carried, Pushing, OneRun
<1>4. CASE EndListing
    BY <1>1, <1>2, <1>4 DEF EndListing, Goto, Carried, Pushing, OneRun
<1>5. CASE BeginCheck
  <2>1. /\ state = "merging" /\ state' = "checking" /\ Len(runs) <= 1
      BY <1>5 DEF BeginCheck, Goto
  <2>2. merged = <<>> /\ start = 1
      BY <2>1 DEF Shape, Phased, Carried
  <2>3. RunMarks(merged, 1) = {}
      BY <2>2, RunsFacts
  <2>4. RunMarks(runs, 1) = Given
      BY <2>1, <2>2, <2>3 DEF Carried
  <2> QED
      BY <1>1, <1>2, <2>1, <2>4 DEF Carried, Pushing, OneRun
<1>6. CASE CheckEnds \/ NextEnds
    BY <1>1, <1>2, <1>6 DEF CheckEnds, NextEnds, Goto, Carried, Pushing, OneRun
<1> QED
    BY <1>3, <1>4, <1>5, <1>6
    DEF PushClashes, LastClashes, MergeFails, CheckFails, PageChanged, Interrupt, Decay,
        CheckPage, LoadPage, NextRecord, Fail, vars

LEMMA CarriedStep == Shape /\ Carried /\ [Next]_vars => Carried'
<1> SUFFICES ASSUME Shape, Carried, [Next]_vars PROVE Carried'
    OBVIOUS
<1> QED
    BY CarriedPush, CarriedFlushLast, CarriedOpenGroup, CarriedMergeRecord, CarriedCloseGroup,
       CarriedEndPass, CarriedRest
    DEF Next, Building, Merging, Checking, Offering, Done

-----------------------------------------------------------------------------
(* The check, and what is offered after it.                                 *)

LEMMA DivMod ==
  ASSUME NEW a \in Nat, NEW n \in Nat \ {0}
  PROVE  a \div n \in Nat /\ a % n \in 0 .. n - 1 /\ a = (a \div n) * n + (a % n)
<1>1. n \in Int /\ n > 0
    OBVIOUS
<1>2. a \div n \in Int /\ a % n \in 0 .. n - 1 /\ a = n * (a \div n) + (a % n)
    BY <1>1
<1>3. a \div n >= 0
    BY <1>1, <1>2
<1> QED
    BY <1>2, <1>3

\* The page of a record, and its place there.
LEMMA PlaceFacts ==
  ASSUME NEW i \in Nat \ {0}
  PROVE  /\ Page(i) \in Nat \ {0} /\ ((i - 1) % PageRecords) + 1 \in 1 .. PageRecords
         /\ (Page(i) - 1) * PageRecords + (((i - 1) % PageRecords) + 1) = i
<1>1. i - 1 \in Nat /\ PageRecords \in Nat \ {0}
    BY InventoryAssumption
<1> DEFINE q == (i - 1) \div PageRecords
           m == (i - 1) % PageRecords
<1>2. q \in Nat /\ m \in 0 .. PageRecords - 1 /\ i - 1 = q * PageRecords + m
    BY <1>1, DivMod
<1>3. Page(i) = q + 1
    BY DEF Page
<1> HIDE DEF q, m
<1>4. Page(i) - 1 = q /\ Page(i) \in Nat \ {0}
    BY <1>2, <1>3
<1>5. m + 1 \in 1 .. PageRecords /\ q * PageRecords + (m + 1) = i
    BY <1>1, <1>2
<1> QED
    BY <1>4, <1>5 DEF m

LEMMA ToSetAppend ==
  ASSUME NEW S, NEW s \in Seq(S), NEW e \in S
  PROVE  ToSet(Append(s, e)) = ToSet(s) \union {e}
<1> DEFINE t == Append(s, e)
<1>1. /\ DOMAIN s = 1 .. Len(s) /\ DOMAIN t = 1 .. Len(s) + 1 /\ Len(s) \in Nat
      /\ \A i \in 1 .. Len(s) : t[i] = s[i]
      /\ t[Len(s) + 1] = e
    BY SequenceFacts
<1> HIDE DEF t
<1>2. \A i : i \in 1 .. Len(s) + 1 <=> i \in 1 .. Len(s) \/ i = Len(s) + 1
    BY <1>1
<1>3. ToSet(t) = ToSet(s) \union {e}
    BY <1>1, <1>2 DEF ToSet
<1> QED
    BY <1>3 DEF t

\* The run that is checked lies at the start of its file.
LEMMA CountFacts ==
  ASSUME Shape
  PROVE  /\ Count \in Nat /\ RunsTyped(runs)
         /\ slots[source] \in Seq(Record) /\ Len(slots[source]) \in Nat
         /\ Count <= Len(slots[source])
         /\ runs = <<>> => Count = 0
         /\ runs # <<>> => /\ Count = runs[1].records /\ runs[1].checksum \in Seq(Record)
                           /\ Len(runs[1].checksum) = Count /\ Count > 0
                           /\ runs[1].offset = 0 /\ 1 \in DOMAIN runs
<1>1. Filed
    BY DEF Shape
<1>2. /\ RunsTyped(runs) /\ slots[source] \in Seq(Record) /\ End(runs) <= Len(slots[source])
    BY <1>1 DEF Filed
<1>3. Len(slots[source]) \in Nat /\ End(runs) \in Nat
    BY <1>2, SequenceFacts, RunsFacts
<1>4. CASE runs = <<>>
  <2>1. Count = 0
      BY <1>4 DEF Count
  <2> QED
      BY <1>2, <1>3, <1>4, <2>1
<1>5. CASE runs # <<>>
  <2>1. runs \in Seq(Run)
      BY <1>2 DEF RunsTyped
  <2>2. 1 \in DOMAIN runs /\ 1 \in 1 .. Len(runs)
      BY <1>5, <2>1, SequenceFacts
  <2>3. /\ runs[1].records \in Nat \ {0} /\ runs[1].checksum \in Seq(Record)
        /\ runs[1].records = Len(runs[1].checksum) /\ runs[1].offset = 0
        /\ runs[1].offset + runs[1].records <= End(runs)
      BY <1>2, <1>5, <2>2, RunsFacts
  <2>4. Count = runs[1].records
      BY <1>5 DEF Count
  <2>5. Count <= Len(slots[source])
      BY <1>2, <1>3, <2>3, <2>4
  <2> QED
      BY <1>2, <1>3, <1>5, <2>2, <2>3, <2>4, <2>5
<1> QED
    BY <1>4, <1>5

\* What a page read from the file holds.
LEMMA PageFacts ==
  ASSUME Shape, NEW k \in Nat \ {0}, (k - 1) * PageRecords < Count
  PROVE  /\ PageOf(k) \in Seq(Record)
         /\ Len(PageOf(k)) = IF k * PageRecords < Count THEN PageRecords
                             ELSE Count - (k - 1) * PageRecords
         /\ Len(PageOf(k)) \in Nat \ {0}
         /\ \A j \in DOMAIN PageOf(k) : PageOf(k)[j] = slots[source][(k - 1) * PageRecords + j]
<1> DEFINE before == (k - 1) * PageRecords
           after == k * PageRecords
           last == IF after < Count THEN after ELSE Count
<1>1. PageRecords \in Nat \ {0} /\ before \in Nat /\ after \in Nat /\ after = before + PageRecords
  <2>1. PageRecords \in Nat \ {0}
      BY InventoryAssumption
  <2> QED
      BY <2>1
<1>2. /\ Count \in Nat /\ slots[source] \in Seq(Record) /\ Len(slots[source]) \in Nat
      /\ Count <= Len(slots[source]) /\ before < Count
    BY CountFacts
<1> HIDE DEF before, after
<1>3. last \in 0 .. Len(slots[source]) /\ last > before
    BY <1>1, <1>2
<1>4. PageOf(k) = SubSeq(slots[source], before + 1, last)
    BY DEF PageOf, before, after
<1> HIDE DEF last
<1>5. before + 1 \in Nat \ {0} /\ before + 1 <= last /\ last \in Nat
    BY <1>1, <1>2, <1>3
<1>6. /\ PageOf(k) \in Seq(Record) /\ Len(PageOf(k)) = last - (before + 1) + 1
      /\ \A j \in 1 .. last - (before + 1) + 1 :
            PageOf(k)[j] = slots[source][before + 1 + j - 1]
    BY <1>2, <1>3, <1>4, <1>5, SubSeqFacts
<1>7. DOMAIN PageOf(k) = 1 .. last - before /\ Len(PageOf(k)) = last - before
    BY <1>1, <1>5, <1>6, SequenceFacts
<1>8. \A j \in DOMAIN PageOf(k) : PageOf(k)[j] = slots[source][before + j]
  <2> SUFFICES ASSUME NEW j \in 1 .. last - before
               PROVE  PageOf(k)[j] = slots[source][before + j]
      BY <1>7
  <2>1. j \in 1 .. last - (before + 1) + 1 /\ before + 1 + j - 1 = before + j
      BY <1>1, <1>5
  <2> QED
      BY <1>6, <2>1
<1>9. last - before = IF after < Count THEN PageRecords ELSE Count - before
    BY <1>1, <1>2 DEF last
<1> QED
    BY <1>1, <1>5, <1>6, <1>7, <1>8, <1>9 DEF before, after

\* The lengths of whole pages.
LEMMA WholePages ==
  ASSUME NEW k \in Nat, NEW l \in Nat, NEW n \in Nat \ {0}
  PROVE  /\ k * n \in Nat /\ (k + 1) * n = k * n + n
         /\ k <= l => k * n <= l * n
<1>1. k * n \in Nat /\ (k + 1) * n = k * n + n /\ l * n \in Nat
    OBVIOUS
<1>2. ASSUME k <= l PROVE k * n <= l * n
  <2>1. l - k \in Nat /\ (l - k) * n \in Nat
      BY <1>2
  <2>2. l * n = k * n + (l - k) * n
      BY <1>1
  <2> QED
      BY <1>1, <2>1, <2>2
<1> QED
    BY <1>1, <1>2

LEMMA MissingFacts ==
  ASSUME NEW s \in Seq(Record), NEW t \in Seq(Record)
  PROVE  /\ Missing(s) <=> \E i \in DOMAIN s : ~s[i].name
         /\ ~Missing(<<>>)
         /\ ~Missing(s) /\ ~Missing(t) => ~Missing(s \o t)
<1>1. \A u : Missing(u) <=> \E i \in DOMAIN u : ~u[i].name
    BY DEF Missing, ToSet
<1>2. ~Missing(<<>>)
    BY <1>1, SequenceFacts
<1>3. ASSUME ~Missing(s), ~Missing(t), NEW i \in DOMAIN (s \o t)
      PROVE  (s \o t)[i].name
  <2>1. /\ DOMAIN s = 1 .. Len(s) /\ DOMAIN t = 1 .. Len(t)
        /\ DOMAIN (s \o t) = 1 .. Len(s) + Len(t)
        /\ Len(s) \in Nat /\ Len(t) \in Nat
        /\ \A j \in 1 .. Len(s) : (s \o t)[j] = s[j]
        /\ \A j \in 1 .. Len(t) : (s \o t)[Len(s) + j] = t[j]
      BY ConcatFacts, SequenceFacts
  <2>2. CASE i \in 1 .. Len(s)
      BY <1>1, <1>3, <2>1, <2>2
  <2>3. CASE i \notin 1 .. Len(s)
    <3> DEFINE j == i - Len(s)
    <3>1. j \in 1 .. Len(t) /\ Len(s) + j = i
        BY <1>3, <2>1, <2>3
    <3> HIDE DEF j
    <3>2. (s \o t)[i] = t[j] /\ j \in DOMAIN t
        BY <2>1, <3>1
    <3> QED
        BY <1>1, <1>3, <3>2
  <2> QED
      BY <2>2, <2>3
<1> QED
    BY <1>1, <1>2, <1>3

LEMMA PagedCheckPage ==
  ASSUME Shape, Paged, CheckPage
  PROVE  Paged'
<1> DEFINE l == Len(pages)
           k == l + 1
           page == PageOf(k)
<1>1. /\ state = "checking" /\ state' = "checking" /\ Len(checked) < Count
      /\ Ascending(checked') /\ ~Missing(page)
      /\ pages' = Append(pages, page) /\ checked' = checked \o page
      /\ runs' = runs
    BY DEF CheckPage
<1>2. Count' = Count /\ Count \in Nat
    BY <1>1, CountFacts DEF Count
<1>3. /\ pages \in Seq(Seq(Record)) /\ checked \in Seq(Record)
      /\ Len(checked) = IF l * PageRecords < Count THEN l * PageRecords ELSE Count
      /\ \A i \in DOMAIN pages :
           /\ (i - 1) * PageRecords < Count
           /\ Len(pages[i]) = IF i * PageRecords < Count THEN PageRecords
                              ELSE Count - (i - 1) * PageRecords
           /\ \A j \in DOMAIN pages[i] : pages[i][j] = checked[(i - 1) * PageRecords + j]
      /\ ~Missing(checked)
    BY <1>1 DEF Paged, OneRun
<1>4. l \in Nat /\ DOMAIN pages = 1 .. l /\ PageRecords \in Nat \ {0}
    BY <1>3, SequenceFacts, InventoryAssumption
<1>5. Len(checked) = l * PageRecords /\ l * PageRecords < Count /\ l * PageRecords \in Nat
    BY <1>1, <1>2, <1>3, <1>4, WholePages
<1>6. k \in Nat \ {0} /\ k - 1 = l
    BY <1>4
<1>7. (k - 1) * PageRecords < Count
    BY <1>5, <1>6
<1> HIDE DEF page, k
<1>8. /\ page \in Seq(Record)
      /\ Len(page) = IF k * PageRecords < Count THEN PageRecords
                     ELSE Count - (k - 1) * PageRecords
    BY ONLY Shape, <1>6, <1>7, PageFacts DEF page
<1>9. k * PageRecords = l * PageRecords + PageRecords /\ k * PageRecords \in Nat
    BY <1>4, WholePages DEF k
<1>10. /\ checked' \in Seq(Record) /\ Len(checked') = Len(checked) + Len(page)
       /\ \A i \in 1 .. Len(checked) : checked'[i] = checked[i]
       /\ \A i \in 1 .. Len(page) : checked'[Len(checked) + i] = page[i]
  <2>1. checked \in Seq(Record) /\ page \in Seq(Record)
      BY <1>3, <1>8
  <2>2. /\ checked \o page \in Seq(Record) /\ Len(checked \o page) = Len(checked) + Len(page)
        /\ \A i \in 1 .. Len(checked) : (checked \o page)[i] = checked[i]
        /\ \A i \in 1 .. Len(page) : (checked \o page)[Len(checked) + i] = page[i]
      BY ONLY <2>1, ConcatFacts
  <2> QED
      BY ONLY <1>1, <2>2
<1>11. /\ pages' \in Seq(Seq(Record)) /\ Len(pages') = k /\ DOMAIN pages' = 1 .. k
       /\ \A i \in 1 .. l : pages'[i] = pages[i]
       /\ pages'[k] = page
  <2>1. /\ Append(pages, page) \in Seq(Seq(Record)) /\ Len(Append(pages, page)) = l + 1
        /\ \A i \in 1 .. l : Append(pages, page)[i] = pages[i]
        /\ Append(pages, page)[l + 1] = page
      BY <1>3, <1>8, SequenceFacts
  <2>2. DOMAIN Append(pages, page) = 1 .. l + 1
      BY <2>1, SequenceFacts
  <2> QED
      BY <1>1, <2>1, <2>2 DEF k
<1>12. Len(checked') = IF k * PageRecords < Count THEN k * PageRecords ELSE Count
  <2>1. (k - 1) * PageRecords = l * PageRecords
      BY <1>6
  <2>2. Len(page) = IF k * PageRecords < Count THEN PageRecords
                    ELSE Count - l * PageRecords
      BY ONLY <1>8, <2>1
  <2> DEFINE a == k * PageRecords
             b == l * PageRecords
  <2>3. /\ a \in Nat /\ b \in Nat /\ a = b + PageRecords /\ PageRecords \in Nat
        /\ Count \in Nat /\ Len(checked') = b + Len(page)
        /\ Len(page) = IF a < Count THEN PageRecords ELSE Count - b
      BY <1>2, <1>4, <1>5, <1>9, <1>10, <2>2
  <2> HIDE DEF a, b
  <2>4. Len(checked') = IF a < Count THEN a ELSE Count
      BY ONLY <2>3
  <2> QED
      BY <2>4 DEF a
<1>13. ASSUME NEW i \in DOMAIN pages'
       PROVE  /\ (i - 1) * PageRecords < Count
              /\ Len(pages'[i]) = IF i * PageRecords < Count THEN PageRecords
                                  ELSE Count - (i - 1) * PageRecords
              /\ \A j \in DOMAIN pages'[i] : pages'[i][j] = checked'[(i - 1) * PageRecords + j]
  <2>1. CASE i \in 1 .. l
    <3>1. pages'[i] = pages[i] /\ i \in DOMAIN pages /\ pages[i] \in Seq(Record)
        BY <1>3, <1>4, <1>11, <2>1, SequenceFacts
    <3>2. i \in Nat \ {0} /\ i <= l /\ i - 1 \in Nat /\ i - 1 + 1 = i
        BY <1>4, <2>1
    <3>3. /\ (i - 1) * PageRecords \in Nat /\ i * PageRecords \in Nat
          /\ i * PageRecords = (i - 1) * PageRecords + PageRecords
          /\ i * PageRecords <= l * PageRecords
        BY <1>4, <3>2, WholePages
    <3>4. i * PageRecords < Count /\ Len(pages[i]) = PageRecords
        BY <1>2, <1>3, <1>5, <3>1, <3>3
    <3>5. ASSUME NEW j \in DOMAIN pages[i]
          PROVE  pages[i][j] = checked'[(i - 1) * PageRecords + j]
      <4>1. j \in 1 .. PageRecords
          BY <3>1, <3>4, SequenceFacts
      <4>2. (i - 1) * PageRecords + j \in 1 .. Len(checked)
          BY <1>4, <1>5, <3>3, <4>1
      <4>3. pages[i][j] = checked[(i - 1) * PageRecords + j]
          BY <1>3, <3>1
      <4> QED
          BY ONLY <1>10, <4>2, <4>3
    <3> QED
        BY <1>3, <3>1, <3>5
  <2>2. CASE i = k
    <3>1. DOMAIN page = 1 .. Len(page)
        BY <1>8, SequenceFacts
    <3>2. \A j \in DOMAIN page : page[j] = checked'[(k - 1) * PageRecords + j]
        BY <1>5, <1>6, <1>10, <3>1
    <3> QED
        BY <1>7, <1>8, <1>11, <2>2, <3>2
  <2>3. i \in 1 .. l \/ i = k
      BY <1>4, <1>11 DEF k
  <2> QED
      BY <2>1, <2>2, <2>3
<1>14. ~Missing(checked')
    BY <1>1, <1>3, <1>8, MissingFacts
<1> QED
    BY <1>1, <1>2, <1>10, <1>11, <1>12, <1>13, <1>14 DEF Paged

\* Apart from CheckPage, what was checked stays until the inventory fails.
LEMMA CheckedStays ==
  ASSUME [Next]_vars, state' \in OneRun
  PROVE  \/ CheckPage \/ BeginCheck
         \/ /\ state \in OneRun
            /\ runs' = runs /\ pages' = pages /\ checked' = checked
<1>1. CASE UNCHANGED vars
    BY <1>1 DEF vars, readVars
<1>2. CASE Building
    BY <1>2 DEF Building, PushName, PushNameAgain, EndListing, PushReference, PushClashes,
                FlushLast, LastClashes, Goto, Fail, OneRun
<1>3. CASE Merging
    BY <1>3 DEF Merging, OpenGroup, MergeRecord, MergeFails, CloseGroup, EndPass, MergePass,
                mergeUnchanged, Fail, OneRun
<1>4. CASE Checking
    BY <1>4 DEF Checking, CheckEnds, CheckFails, Goto, Fail, readVars, OneRun
<1>5. CASE Offering
    BY <1>5 DEF Offering, LoadPage, PageChanged, NextRecord, NextEnds, Goto, Fail, readVars,
                OneRun
<1>6. CASE Interrupt
    BY <1>6 DEF Interrupt, OneRun
<1>7. CASE Decay
    BY <1>7 DEF Decay, readVars, OneRun
<1>8. CASE Done
    BY <1>1, <1>8 DEF Done
<1> QED
    BY <1>1, <1>2, <1>3, <1>4, <1>5, <1>6, <1>7, <1>8 DEF Next

LEMMA PagedStep == Shape /\ Paged /\ [Next]_vars => Paged'
<1> SUFFICES ASSUME Shape, Paged, [Next]_vars PROVE Paged'
    OBVIOUS
<1>1. CASE state' \notin OneRun
    BY <1>1 DEF Paged
<1>2. CASE BeginCheck
  <2>1. state = "merging" /\ pages' = pages /\ checked' = checked /\ runs' = runs
      BY <1>2 DEF BeginCheck, Goto, readVars
  <2>2. pages = <<>> /\ checked = <<>>
      BY <2>1 DEF Shape, Phased
  <2>3. Count' = Count /\ Count \in Nat /\ PageRecords \in Nat \ {0}
      BY <2>1, CountFacts, InventoryAssumption DEF Count
  <2>4. /\ pages' = <<>> /\ checked' = <<>>
        /\ <<>> \in Seq(Seq(Record)) /\ <<>> \in Seq(Record)
        /\ Len(<<>>) = 0 /\ DOMAIN <<>> = {}
      BY <2>1, <2>2, SequenceFacts
  <2>5. Ascending(<<>>) /\ ~Missing(<<>>)
      BY <2>4, MissingFacts DEF Ascending
  <2>6. Len(checked') = IF Len(pages') * PageRecords < Count'
                        THEN Len(pages') * PageRecords ELSE Count'
      BY <2>3, <2>4
  <2> QED
      BY <2>4, <2>5, <2>6 DEF Paged
<1>3. CASE CheckPage
    BY <1>3, PagedCheckPage
<1>4. CASE state' \in OneRun /\ ~BeginCheck /\ ~CheckPage
    BY <1>4, CheckedStays DEF Paged, Count
<1> QED
    BY <1>1, <1>2, <1>3, <1>4

\* The record that `next' reads is the one that was checked.
LEMMA NextRecordFacts ==
  ASSUME Shape, Paged, Read, NextRecord
  PROVE  /\ at \in 1 .. Count /\ at \in DOMAIN checked /\ checked \in Seq(Record)
         /\ checked[at] \in Record
         /\ offered' = IF Candidate(at) THEN Append(offered, checked[at].id) ELSE offered
<1> DEFINE p == Page(at)
           m == ((at - 1) % PageRecords) + 1
           r == loaded[2][m]
<1>1. /\ state = "ready" /\ at <= Count /\ loaded[1] = p
      /\ offered' = IF r.name /\ ~r.ref THEN Append(offered, r.id) ELSE offered
    BY DEF NextRecord
<1>2. at \in Nat \ {0} /\ Count \in Nat
    BY CountFacts DEF Shape, Constant
<1>3. /\ checked \in Seq(Record) /\ Len(checked) = Count
      /\ loaded # <<0, <<>>>> =>
           loaded[1] \in DOMAIN pages /\ loaded = <<loaded[1], pages[loaded[1]]>>
      /\ pages \in Seq(Seq(Record))
      /\ \A i \in DOMAIN pages :
           /\ Len(pages[i]) = IF i * PageRecords < Count THEN PageRecords
                              ELSE Count - (i - 1) * PageRecords
           /\ \A j \in DOMAIN pages[i] : pages[i][j] = checked[(i - 1) * PageRecords + j]
    BY <1>1 DEF Paged, Read, OneRun
<1>4. p \in Nat \ {0} /\ m \in 1 .. PageRecords /\ (p - 1) * PageRecords + m = at
    BY <1>2, PlaceFacts
<1> HIDE DEF p, m
<1>5. loaded[1] # 0
    BY <1>1, <1>4
<1>6. loaded # <<0, <<>>>>
    BY <1>5
<1>7. p \in DOMAIN pages /\ loaded[2] = pages[p]
    BY <1>1, <1>3, <1>6
<1>8. m \in DOMAIN pages[p]
  <2>1. pages[p] \in Seq(Record)
      BY <1>3, <1>7, SequenceFacts
  <2>2. DOMAIN pages[p] = 1 .. Len(pages[p])
      BY <2>1, SequenceFacts
  <2>3. (p - 1) * PageRecords \in Int
      BY <1>4, InventoryAssumption
  <2>4. m <= Len(pages[p]) /\ Len(pages[p]) \in Nat
    <3> DEFINE b == (p - 1) * PageRecords
    <3>1. /\ Len(pages[p]) = PageRecords \/ Len(pages[p]) = Count - b
          /\ b + m = at /\ b \in Int
        BY <1>3, <1>4, <1>7, <2>3
    <3> HIDE DEF b
    <3>2. Len(pages[p]) \in Nat
        BY <2>1, SequenceFacts
    <3> QED
        BY <1>1, <1>2, <1>4, <3>1, <3>2, InventoryAssumption
  <2> QED
      BY <1>4, <2>2, <2>4, InventoryAssumption
<1>9. r = checked[at]
    BY <1>3, <1>4, <1>7, <1>8
<1>10. at \in DOMAIN checked /\ checked[at] \in Record
    BY <1>1, <1>2, <1>3, SequenceFacts
<1> HIDE DEF r
<1> QED
    BY <1>1, <1>2, <1>3, <1>9, <1>10 DEF Candidate

LEMMA ReadNextRecord ==
  ASSUME Shape, Paged, Read, NextRecord
  PROVE  Read'
<1>1. /\ at \in 1 .. Count /\ at \in DOMAIN checked /\ checked \in Seq(Record)
      /\ checked[at] \in Record
      /\ offered' = IF Candidate(at) THEN Append(offered, checked[at].id) ELSE offered
    BY NextRecordFacts
<1>2. /\ state = "ready" /\ state' = "ready" /\ at' = at + 1 /\ checked' = checked
      /\ runs' = runs /\ loaded' = loaded /\ pages' = pages
    BY DEF NextRecord
<1>3. Count' = Count /\ Count \in Nat
    BY <1>2, CountFacts DEF Count
<1>4. /\ Len(checked) = Count /\ offered \in Seq(Object)
      /\ ToSet(offered) = {checked[k].id : k \in {j \in 1 .. at - 1 : Candidate(j)}}
      /\ Len(offered) = Cardinality(ToSet(offered))
      /\ Ascending(checked)
    BY <1>2 DEF Read, Paged, OneRun
<1>5. at' <= Count + 1
    BY <1>1, <1>2, <1>3
<1>6. checked[at].id \in Object
    BY <1>1, RecordFacts
<1>7. offered' \in Seq(Object)
    BY <1>1, <1>4, <1>6, SequenceFacts
<1>8. /\ \A j : j \in 1 .. at' - 1 <=> j \in 1 .. at - 1 \/ j = at
      /\ \A j : Candidate(j)' <=> Candidate(j)
  <2>1. at \in Nat \ {0}
      BY <1>1, <1>3
  <2>2. at' - 1 = at
      BY <1>2, <2>1
  <2>3. \A j : j \in 1 .. at <=> j \in 1 .. at - 1 \/ j = at
      BY <2>1
  <2> QED
      BY <1>2, <2>2, <2>3 DEF Candidate
<1>9. /\ ToSet(offered') = {checked'[k].id : k \in {j \in 1 .. at' - 1 : Candidate(j)'}}
      /\ Len(offered') = Cardinality(ToSet(offered'))
  <2>1. CASE Candidate(at)
    <3>1. ToSet(offered') = ToSet(offered) \union {checked[at].id}
        BY <1>1, <1>4, <1>6, <2>1, ToSetAppend
    <3>2. {checked'[k].id : k \in {j \in 1 .. at' - 1 : Candidate(j)'}}
            = {checked[k].id : k \in {j \in 1 .. at - 1 : Candidate(j)}} \union {checked[at].id}
        BY <1>2, <1>8, <2>1
    <3>3. checked[at].id \notin ToSet(offered)
      <4>1. \A j \in 1 .. at - 1 : checked[j].id < checked[at].id
        <5> SUFFICES ASSUME NEW j \in 1 .. at - 1 PROVE checked[j].id < checked[at].id
            OBVIOUS
        <5>1. DOMAIN checked = 1 .. Len(checked) /\ Len(checked) \in Nat
            BY <1>1, SequenceFacts
        <5>2. j \in DOMAIN checked /\ j < at
            BY <1>1, <5>1
        <5> QED
            BY <1>1, <1>4, <5>2 DEF Ascending
      <4>2. checked[at].id \in Int
          BY <1>6 DEF Object
      <4> QED
          BY <1>4, <4>1, <4>2
    <3>4. IsFiniteSet(ToSet(offered))
      <4>1. ToSet(offered) \subseteq Object
          BY <1>4, SequenceFacts DEF ToSet
      <4> QED
          BY <4>1, SomeObjects
    <3>5. Cardinality(ToSet(offered) \union {checked[at].id}) = Cardinality(ToSet(offered)) + 1
        BY <3>3, <3>4, FS_AddElement
    <3>6. Len(offered') = Len(offered) + 1
        BY <1>1, <1>4, <1>6, <2>1, SequenceFacts
    <3> QED
        BY <1>4, <3>1, <3>2, <3>5, <3>6
  <2>2. CASE ~Candidate(at)
    <3>1. offered' = offered
        BY <1>1, <2>2
    <3>2. {checked'[k].id : k \in {j \in 1 .. at' - 1 : Candidate(j)'}}
            = {checked[k].id : k \in {j \in 1 .. at - 1 : Candidate(j)}}
        BY <1>2, <1>8, <2>2
    <3> QED
        BY <1>4, <3>1, <3>2
  <2> QED
      BY <2>1, <2>2
<1> QED
    BY <1>2, <1>3, <1>4, <1>5, <1>7, <1>9 DEF Read

\* A page that is loaded is one that was checked.
LEMMA ReadLoadPage ==
  ASSUME Shape, Paged, Read, LoadPage
  PROVE  Read'
<1> DEFINE p == Page(at)
           l == Len(pages)
<1>1. /\ state = "ready" /\ state' = "ready" /\ at <= Count /\ PageOf(p) = pages[p]
      /\ loaded' = <<p, PageOf(p)>>
      /\ runs' = runs /\ pages' = pages /\ checked' = checked /\ at' = at /\ offered' = offered
    BY DEF LoadPage, SamePage, historyVars
<1>2. at \in Nat \ {0} /\ Count \in Nat /\ Count' = Count
    BY <1>1, CountFacts DEF Shape, Constant, Count
<1>3. /\ Len(checked) = Count /\ pages \in Seq(Seq(Record))
      /\ Len(checked) = IF l * PageRecords < Count THEN l * PageRecords ELSE Count
    BY <1>1 DEF Read, Paged, OneRun
<1>4. /\ p \in Nat \ {0}
      /\ \E m \in 1 .. PageRecords : (p - 1) * PageRecords + m = at
    BY <1>2, PlaceFacts
<1>5. l \in Nat /\ DOMAIN pages = 1 .. l /\ PageRecords \in Nat \ {0}
    BY <1>3, SequenceFacts, InventoryAssumption
<1> HIDE DEF p
<1>6. p <= l
  <2> SUFFICES ASSUME l <= p - 1 PROVE FALSE
      BY <1>4, <1>5
  <2>1. p - 1 \in Nat
      BY <1>4
  <2>2. /\ l * PageRecords <= (p - 1) * PageRecords
        /\ l * PageRecords \in Nat /\ (p - 1) * PageRecords \in Nat
      BY <1>5, <2>1, WholePages
  <2> DEFINE a == l * PageRecords
             b == (p - 1) * PageRecords
  <2>3. a <= b /\ a \in Nat /\ b \in Nat /\ ~(a < Count)
      BY <1>2, <1>3, <2>2
  <2>4. \E m \in 1 .. PageRecords : b + m = at
      BY <1>4
  <2> HIDE DEF a, b
  <2> QED
      BY <1>1, <1>2, <1>5, <2>3, <2>4
<1>7. p \in DOMAIN pages
    BY <1>4, <1>5, <1>6
<1>8. loaded' = <<p, pages[p]>> /\ loaded'[1] = p
    BY <1>1
<1> QED
    BY <1>1, <1>2, <1>7, <1>8 DEF Read, Candidate

LEMMA ReadStep == Shape /\ Paged /\ Read /\ [Next]_vars => Read'
<1> SUFFICES ASSUME Shape, Paged, Read, [Next]_vars PROVE Read'
    OBVIOUS
<1>1. CASE state' \notin {"ready", "finished"}
    BY <1>1 DEF Read
<1>2. CASE CheckEnds
  <2>1. /\ state = "checking" /\ state' = "ready" /\ Len(checked) = Count /\ ~ChecksumDiffers
        /\ runs' = runs /\ pages' = pages /\ checked' = checked /\ at' = at /\ loaded' = loaded
        /\ offered' = offered
      BY <1>2 DEF CheckEnds, Goto, readVars, historyVars
  <2>2. at = 1 /\ loaded = <<0, <<>>>> /\ offered = <<>>
      BY <2>1 DEF Shape, Phased
  <2>3. Count' = Count /\ Count \in Nat
      BY <2>1, CountFacts DEF Count
  <2>4. runs # <<>> => checked = runs[1].checksum
      BY <2>1 DEF ChecksumDiffers
  <2>5. /\ <<>> \in Seq(Object) /\ Len(<<>>) = 0 /\ ToSet(<<>>) = {} /\ Cardinality({}) = 0
      BY SequenceFacts, FS_EmptySet DEF ToSet
  <2>6. {checked'[k].id : k \in {j \in 1 .. at' - 1 : Candidate(j)'}} = {}
      BY <2>1, <2>2
  <2>7. ToSet(offered') = {} /\ Len(offered') = 0 /\ offered' \in Seq(Object)
      BY <2>1, <2>2, <2>5
  <2>8. Len(offered') = Cardinality(ToSet(offered'))
      BY <2>5, <2>7
  <2>9. ToSet(offered') = {checked'[k].id : k \in {j \in 1 .. at' - 1 : Candidate(j)'}}
      BY <2>6, <2>7
  <2>10. at' <= Count' + 1 /\ Len(checked') = Count' /\ state' # "finished"
      BY <2>1, <2>2, <2>3
  <2>11. loaded' = <<0, <<>>>>
      BY <2>1, <2>2
  <2>12. runs' # <<>> => checked' = runs'[1].checksum
      BY <2>1, <2>4
  <2> QED
      BY <2>7, <2>8, <2>9, <2>10, <2>11, <2>12 DEF Read
<1>3. CASE LoadPage
    BY <1>3, ReadLoadPage
<1>4. CASE NextRecord
    BY <1>4, ReadNextRecord
<1>5. CASE NextEnds
  <2>1. at \in Nat /\ Count \in Nat
      BY CountFacts DEF Shape, Constant
  <2> QED
      BY <1>5, <2>1 DEF NextEnds, Goto, readVars, historyVars, Read, Count, Candidate
<1>6. CASE \/ UNCHANGED vars \/ Done \/ Decay
    BY <1>6 DEF vars, readVars, historyVars, Done, Decay, Read, Count, Candidate
<1>7. CASE Building \/ Merging \/ BeginCheck \/ CheckPage \/ CheckFails \/ PageChanged
             \/ Interrupt
  <2>1. state' \notin {"ready", "finished"}
      BY <1>7 DEF Building, PushName, PushNameAgain, EndListing, PushReference, PushClashes,
                  FlushLast, LastClashes, Goto, Fail, Merging, OpenGroup, MergeRecord,
                  MergeFails, CloseGroup, EndPass, MergePass, mergeUnchanged, BeginCheck,
                  CheckPage, CheckFails, PageChanged, Interrupt
  <2> QED
      BY <1>1, <2>1
<1> QED
    BY <1>2, <1>3, <1>4, <1>5, <1>6, <1>7 DEF Next, Checking, Offering

\* What the checked records mean: every mark that was pushed is in them, and no
\* other; an object without a name would have stopped the check.
LEMMA CheckedMeaning ==
  ASSUME Shape, Carried, Paged, Read, state \in {"ready", "finished"}
  PROVE  /\ protected \subseteq names
         /\ \A k \in 1 .. Count : Candidate(k) => checked[k].id \in names \ protected
         /\ \A n \in names \ protected :
              \E k \in 1 .. Count : Candidate(k) /\ checked[k].id = n
<1>1. /\ checked \in Seq(Record) /\ Len(checked) = Count /\ ~Missing(checked)
      /\ Ascending(checked)
      /\ runs # <<>> => checked = runs[1].checksum
      /\ RunMarks(runs, 1) = Given /\ listed = names /\ walked = protected
      /\ Len(runs) <= 1
    BY DEF Paged, Read, Carried, Shape, Phased, OneRun, Scanned
<1>2. Marks(checked) = Given
  <2>1. CASE runs = <<>>
    <3>1. checked = <<>>
        BY <1>1, <2>1, CountFacts, SequenceFacts
    <3> QED
        BY <1>1, <2>1, <3>1, NoMarks, RunsFacts
  <2>2. CASE runs # <<>>
    <3>1. RunsTyped(runs)
        BY CountFacts
    <3>2. Len(runs) \in Nat /\ DOMAIN runs = 1 .. Len(runs) /\ 1 \in DOMAIN runs
        BY <2>2, <3>1, RunsFacts, CountFacts
    <3>3. Len(runs) = 1
        BY <1>1, <3>2
    <3>4. {j \in DOMAIN runs : 1 <= j} = {1}
        BY <3>2, <3>3
    <3> QED
        BY <1>1, <2>2, <3>4 DEF RunMarks
  <2> QED
      BY <2>1, <2>2
<1>3. /\ \A n : n \in names <=> \E k \in DOMAIN checked : checked[k].id = n /\ checked[k].name
      /\ \A n : n \in protected <=> \E k \in DOMAIN checked : checked[k].id = n /\ checked[k].ref
  <2>1. /\ \A n : n \in names <=> <<n, "name">> \in Marks(checked)
        /\ \A n : n \in protected <=> <<n, "ref">> \in Marks(checked)
      BY <1>1, <1>2 DEF Given
  <2> QED
      BY <1>1, <2>1, MarkOfRecord
<1>4. DOMAIN checked = 1 .. Count /\ \A k \in DOMAIN checked : checked[k].name
    BY <1>1, SequenceFacts, MissingFacts
<1>5. \A j, k \in DOMAIN checked : checked[j].id = checked[k].id => j = k
  <2> SUFFICES ASSUME NEW j \in DOMAIN checked, NEW k \in DOMAIN checked,
                      checked[j].id = checked[k].id, j # k
               PROVE  FALSE
      OBVIOUS
  <2>1. j \in Int /\ k \in Int /\ checked[j].id \in Int /\ checked[k].id \in Int
    <3>1. checked[j] \in Record /\ checked[k] \in Record /\ Count \in Nat
        BY <1>1, SequenceFacts, CountFacts
    <3> QED
        BY <1>4, <3>1, RecordFacts DEF Object
  <2>2. j < k \/ k < j
      BY <2>1
  <2>3. checked[j].id < checked[k].id \/ checked[k].id < checked[j].id
      BY <1>1, <2>2 DEF Ascending
  <2> QED
      BY <2>1, <2>3
<1>6. protected \subseteq names
    BY <1>3, <1>4
<1>7. \A k \in 1 .. Count : Candidate(k) => checked[k].id \in names \ protected
  <2> SUFFICES ASSUME NEW k \in 1 .. Count, Candidate(k), checked[k].id \in protected
               PROVE  FALSE
      BY <1>3, <1>4 DEF Candidate
  <2>1. PICK j \in DOMAIN checked : checked[j].id = checked[k].id /\ checked[j].ref
      BY <1>3
  <2>2. j = k
      BY <1>4, <1>5, <2>1
  <2> QED
      BY <2>1, <2>2 DEF Candidate
<1>8. \A n \in names \ protected : \E k \in 1 .. Count : Candidate(k) /\ checked[k].id = n
    BY <1>3, <1>4 DEF Candidate
<1> QED
    BY <1>6, <1>7, <1>8

LEMMA OfferedStep ==
  Shape /\ Carried /\ Paged /\ Read /\ OnlyGarbageOffered /\ [Next]_vars => OnlyGarbageOffered'
<1> SUFFICES ASSUME Shape, Carried, Paged, Read, OnlyGarbageOffered, [Next]_vars
             PROVE  OnlyGarbageOffered'
    OBVIOUS
<1>1. names' = names /\ protected' = protected
    BY DEF Next, Building, PushName, PushNameAgain, EndListing, PushReference, PushClashes,
           FlushLast, LastClashes, Goto, Fail, Merging, OpenGroup, MergeRecord, MergeFails,
           CloseGroup, EndPass, mergeUnchanged, Checking, BeginCheck, CheckPage, CheckEnds,
           CheckFails, Offering, LoadPage, PageChanged, NextRecord, NextEnds, Interrupt, Decay,
           Done, inputVars, pushUnchanged, vars
<1>2. CASE NextRecord
  <2>1. /\ at \in 1 .. Count /\ checked[at] \in Record
        /\ offered' = IF Candidate(at) THEN Append(offered, checked[at].id) ELSE offered
      BY <1>2, NextRecordFacts
  <2>2. state = "ready"
      BY <1>2 DEF NextRecord
  <2>3. protected \subseteq names /\ Candidate(at) => checked[at].id \in names \ protected
      BY <2>1, <2>2, CheckedMeaning
  <2>4. protected \subseteq names
      BY <2>2, CheckedMeaning
  <2>5. offered \in Seq(Object) /\ checked[at].id \in Object
      BY <2>1, <2>2, RecordFacts DEF Read
  <2>6. ToSet(Append(offered, checked[at].id)) = ToSet(offered) \union {checked[at].id}
      BY <2>5, ToSetAppend
  <2>7. ToSet(offered') \subseteq names \ protected
    <3>1. CASE Candidate(at)
        BY <2>1, <2>3, <2>4, <2>6, <3>1 DEF OnlyGarbageOffered
    <3>2. CASE ~Candidate(at)
        BY <2>1, <3>2 DEF OnlyGarbageOffered
    <3> QED
        BY <3>1, <3>2
  <2> QED
      BY <1>1, <2>4, <2>7 DEF OnlyGarbageOffered
<1>3. CASE ~NextRecord
  <2>1. offered' = offered
      BY <1>3 DEF Next, Building, PushName, PushNameAgain, EndListing, PushReference,
             PushClashes, FlushLast, LastClashes, Goto, Fail, Merging, OpenGroup, MergeRecord,
             MergeFails, CloseGroup, EndPass, mergeUnchanged, Checking, BeginCheck, CheckPage,
             CheckEnds, CheckFails, Offering, LoadPage, PageChanged, NextEnds, Interrupt,
             Decay, Done, historyVars, pushUnchanged, vars
  <2> QED
      BY <1>1, <2>1 DEF OnlyGarbageOffered
<1> QED
    BY <1>2, <1>3

LEMMA ReadInvariant == Spec => [](Shape /\ Carried /\ Paged /\ Read /\ OnlyGarbageOffered)
<1> DEFINE Inv == Shape /\ Carried /\ Paged /\ Read /\ OnlyGarbageOffered
<1>1. Init => Inv
  <2> SUFFICES ASSUME Init PROVE Inv
      OBVIOUS
  <2>1. state = "listing" /\ offered = <<>>
      BY DEF Init
  <2>2. Paged /\ Read
      BY <2>1 DEF Paged, Read, OneRun
  <2>3. ToSet(offered) = {}
      BY <2>1 DEF ToSet
  <2> QED
      BY <2>1, <2>2, <2>3, ShapeInit, CarriedInit DEF OnlyGarbageOffered
<1>2. Inv /\ [Next]_vars => Inv'
    BY ShapeStep, CarriedStep, PagedStep, ReadStep, OfferedStep
<1> QED
    BY <1>1, <1>2, PTL DEF Spec

\* Whatever happens to the scratch files, a candidate is a name that no captured
\* view references, and a referenced object without a name stops everything
\* before the first candidate: every mark pushed is carried through the merge,
\* every record is read from a page that the check has seen.
THEOREM OnlyGarbageIsOffered == Spec => []OnlyGarbageOffered
<1> QED
    BY ReadInvariant, PTL

\* An inventory read to its end offered every name that may go, once each.
THEOREM NothingIsForgotten == Spec => []NothingForgotten
<1>1. Shape /\ Carried /\ Paged /\ Read => NothingForgotten
  <2> SUFFICES ASSUME Shape, Carried, Paged, Read, state = "finished"
               PROVE  /\ ToSet(offered) = names \ protected
                      /\ Len(offered) = Cardinality(ToSet(offered))
      BY DEF NothingForgotten
  <2>1. /\ \A k \in 1 .. Count : Candidate(k) => checked[k].id \in names \ protected
        /\ \A n \in names \ protected :
             \E k \in 1 .. Count : Candidate(k) /\ checked[k].id = n
      BY CheckedMeaning
  <2>2. /\ ToSet(offered) = {checked[k].id : k \in {j \in 1 .. at - 1 : Candidate(j)}}
        /\ Len(offered) = Cardinality(ToSet(offered)) /\ at <= Count + 1 /\ at > Count
      BY DEF Read
  <2>3. at \in Nat /\ Count \in Nat
      BY CountFacts DEF Shape, Constant
  <2>4. at - 1 = Count
      BY <2>2, <2>3
  <2> QED
      BY <2>1, <2>2, <2>4
<1> QED
    BY <1>1, ReadInvariant, PTL

-----------------------------------------------------------------------------
(* What undisturbed files hold.                                             *)

LEMMA ApartMeaning ==
  ASSUME NEW s \in Seq(Record), NEW t \in Seq(Record)
  PROVE  /\ Apart(s, t) <=> \A i \in DOMAIN s, j \in DOMAIN t :
                              ~(s[i].name /\ t[j].name /\ s[i].id = t[j].id)
         /\ Apart(s, t) <=> Apart(t, s)
<1>1. /\ \A n : n \in NamesOf(s) <=> \E i \in DOMAIN s : s[i].id = n /\ s[i].name
      /\ \A n : n \in NamesOf(t) <=> \E i \in DOMAIN t : t[i].id = n /\ t[i].name
  <2>1. /\ \A i \in DOMAIN s : s[i].id \in Object
        /\ \A i \in DOMAIN t : t[i].id \in Object
      BY SequenceFacts, RecordFacts
  <2> QED
      BY <2>1, MarkOfRecord DEF NamesOf
<1>2. Apart(s, t) <=> \A n : ~(n \in NamesOf(s) /\ n \in NamesOf(t))
    BY DEF Apart
<1>3. Apart(t, s) <=> \A n : ~(n \in NamesOf(s) /\ n \in NamesOf(t))
    BY DEF Apart
<1>4. ASSUME Apart(s, t), NEW i \in DOMAIN s, NEW j \in DOMAIN t, s[i].name, t[j].name,
             s[i].id = t[j].id
      PROVE  FALSE
  <2>1. s[i].id \in NamesOf(s) /\ s[i].id \in NamesOf(t)
      BY <1>1, <1>4
  <2> QED
      BY <1>2, <1>4, <2>1
<1>5. ASSUME \A i \in DOMAIN s, j \in DOMAIN t :
               ~(s[i].name /\ t[j].name /\ s[i].id = t[j].id),
             NEW n, n \in NamesOf(s), n \in NamesOf(t)
      PROVE  FALSE
  <2>1. \E i \in DOMAIN s : s[i].id = n /\ s[i].name
      BY <1>1, <1>5
  <2>2. \E j \in DOMAIN t : t[j].id = n /\ t[j].name
      BY <1>1, <1>5
  <2> QED
      BY <1>5, <2>1, <2>2
<1>6. Apart(s, t) <=> \A i \in DOMAIN s, j \in DOMAIN t :
                        ~(s[i].name /\ t[j].name /\ s[i].id = t[j].id)
    BY <1>2, <1>4, <1>5
<1> QED
    BY <1>2, <1>3, <1>6

LEMMA StoredKept ==
  ASSUME NEW rs, RunsTyped(rs), NEW file, NEW new, Stored(rs, file),
         \A i \in 1 .. End(rs) : new[i] = file[i]
  PROVE  Stored(rs, new)
<1> SUFFICES ASSUME NEW i \in DOMAIN rs, NEW k \in 1 .. rs[i].records
             PROVE  new[rs[i].offset + k] = rs[i].checksum[k]
    BY DEF Stored
<1>1. /\ End(rs) \in Nat /\ rs[i].offset \in Nat /\ rs[i].records \in Nat
      /\ rs[i].offset + rs[i].records <= End(rs)
    BY RunsFacts
<1>2. rs[i].offset + k \in 1 .. End(rs)
    BY <1>1
<1>3. file[rs[i].offset + k] = rs[i].checksum[k]
    BY DEF Stored
<1> QED
    BY <1>2, <1>3

\* A run written after the others.
LEMMA AppendKept ==
  ASSUME NEW rs, RunsTyped(rs), NEW records \in Seq(Record), Len(records) > 0,
         NEW file, NEW new, Stored(rs, file), Sorted(rs), Ascending(records),
         \A i \in 1 .. End(rs) : new[i] = file[i],
         \A i \in 1 .. Len(records) : new[End(rs) + i] = records[i]
  PROVE  LET t == Append(rs, RunAt(End(rs), records)) IN Stored(t, new) /\ Sorted(t)
<1> DEFINE t == Append(rs, RunAt(End(rs), records))
<1>1. /\ DOMAIN t = 1 .. Len(rs) + 1 /\ \A i \in 1 .. Len(rs) : t[i] = rs[i]
      /\ t[Len(rs) + 1] = RunAt(End(rs), records)
    BY AppendRun
<1>2. DOMAIN rs = 1 .. Len(rs) /\ Len(rs) \in Nat
    BY RunsFacts
<1>3. Stored(rs, new)
    BY StoredKept
<1>4. /\ t[Len(rs) + 1].offset = End(rs) /\ t[Len(rs) + 1].records = Len(records)
      /\ t[Len(rs) + 1].checksum = records
    BY <1>1 DEF RunAt
<1> HIDE DEF t
<1>5. \A i \in DOMAIN t : i \in DOMAIN rs \/ i = Len(rs) + 1
    BY <1>1, <1>2
<1>6. Stored(t, new)
  <2> SUFFICES ASSUME NEW i \in DOMAIN t, NEW k \in 1 .. t[i].records
               PROVE  new[t[i].offset + k] = t[i].checksum[k]
      BY DEF Stored
  <2>1. CASE i \in DOMAIN rs
    <3>1. t[i] = rs[i]
        BY <1>1, <1>2, <2>1
    <3> QED
        BY <1>3, <2>1, <3>1 DEF Stored
  <2>2. CASE i = Len(rs) + 1
      BY <1>4, <2>2
  <2> QED
      BY <1>5, <2>1, <2>2
<1>7. Sorted(t)
  <2> SUFFICES ASSUME NEW i \in DOMAIN t PROVE Ascending(t[i].checksum)
      BY DEF Sorted
  <2>1. CASE i \in DOMAIN rs
      BY <1>1, <1>2, <2>1 DEF Sorted
  <2>2. CASE i = Len(rs) + 1
      BY <1>4, <2>2
  <2> QED
      BY <1>5, <2>1, <2>2
<1> QED
    BY <1>6, <1>7 DEF t

\* A run that shares no name with the others.
LEMMA AppendApart ==
  ASSUME NEW rs, RunsTyped(rs), NEW records \in Seq(Record), Len(records) > 0,
         ApartFrom(rs, 1), \A i \in DOMAIN rs : Apart(rs[i].checksum, records)
  PROVE  LET t == Append(rs, RunAt(End(rs), records)) IN
         /\ ApartFrom(t, 1)
         /\ \A s : Apart(s, records) /\ (\A i \in DOMAIN rs : Apart(s, rs[i].checksum)) =>
              \A i \in DOMAIN t : Apart(s, t[i].checksum)
<1> DEFINE t == Append(rs, RunAt(End(rs), records))
<1>1. /\ DOMAIN t = 1 .. Len(rs) + 1 /\ \A i \in 1 .. Len(rs) : t[i] = rs[i]
      /\ t[Len(rs) + 1] = RunAt(End(rs), records)
    BY AppendRun
<1>2. DOMAIN rs = 1 .. Len(rs) /\ Len(rs) \in Nat
    BY RunsFacts
<1>3. t[Len(rs) + 1].checksum = records
    BY <1>1 DEF RunAt
<1> HIDE DEF t
<1>4. ASSUME NEW i \in DOMAIN t, NEW j \in DOMAIN t, 1 <= i, i < j
      PROVE  Apart(t[i].checksum, t[j].checksum)
  <2>1. i \in DOMAIN rs /\ t[i] = rs[i]
      BY <1>1, <1>2, <1>4
  <2>2. CASE j \in DOMAIN rs
    <3>1. t[j] = rs[j]
        BY <1>1, <1>2, <2>2
    <3> QED
        BY <1>4, <2>1, <2>2, <3>1 DEF ApartFrom
  <2>3. CASE j = Len(rs) + 1
      BY <1>3, <2>1, <2>3
  <2> QED
      BY <1>1, <1>2, <2>2, <2>3
<1>5. ASSUME NEW s, Apart(s, records), \A i \in DOMAIN rs : Apart(s, rs[i].checksum),
             NEW i \in DOMAIN t
      PROVE  Apart(s, t[i].checksum)
  <2>1. CASE i \in DOMAIN rs
      BY <1>1, <1>2, <1>5, <2>1
  <2>2. CASE i = Len(rs) + 1
      BY <1>3, <1>5, <2>2
  <2> QED
      BY <1>1, <1>2, <2>1, <2>2
<1>6. ApartFrom(t, 1)
    BY <1>4 DEF ApartFrom
<1> QED
    BY <1>5, <1>6 DEF t

\* A file holds the records where they were written, and what came before them.
LEMMA WrittenRecords ==
  ASSUME NEW file \in Seq(Record), NEW records \in Seq(Record), NEW n \in 0 .. Len(file)
  PROVE  /\ \A i \in 1 .. n : Overwrite(file, n, records)[i] = file[i]
         /\ \A i \in 1 .. Len(records) : Overwrite(file, n, records)[n + i] = records[i]
    BY OverwriteFacts

\* A chunk becomes a run: sorted, where it belongs, and apart from the others.
LEMMA FlushKept ==
  ASSUME Shape, Kept, Once, state \in Pushing, disturbed = "nothing", Flushed, chunk # <<>>
  PROVE  /\ Stored(runs', slots'[0]) /\ Sorted(runs') /\ ApartFrom(runs', 1)
         /\ \A s : Apart(s, chunk) /\ (\A i \in DOMAIN runs : Apart(s, runs[i].checksum)) =>
              \A i \in DOMAIN runs' : Apart(s, runs'[i].checksum)
<1> DEFINE run == SortedRun(chunk)
<1>1. Filed /\ source = 0 /\ start = 1
    BY DEF Shape, Phased
<1>2. /\ RunsTyped(runs) /\ chunk \in Seq(Record) /\ End(runs) <= Len(slots[0])
      /\ slots[0] \in Seq(Record)
    BY <1>1 DEF Filed
<1>3. /\ slots'[0] = Overwrite(slots[0], End(runs), run)
      /\ run \in Seq(Record) /\ Len(run) > 0
      /\ runs' = Append(runs, RunAt(End(runs), run))
    BY <1>1, FlushedFacts
<1>4. Ascending(run) /\ Marks(run) = Marks(chunk)
    BY <1>2, SortedRunFacts
<1>5. \A s : (Apart(s, run) <=> Apart(s, chunk)) /\ (Apart(run, s) <=> Apart(chunk, s))
    BY <1>4 DEF Apart, NamesOf
<1> HIDE DEF run
<1>6. End(runs) \in 0 .. Len(slots[0])
    BY <1>2, RunsFacts, SequenceFacts
<1>7. /\ \A i \in 1 .. End(runs) : slots'[0][i] = slots[0][i]
      /\ \A i \in 1 .. Len(run) : slots'[0][End(runs) + i] = run[i]
  <2> DEFINE file == slots[0]
             n == End(runs)
  <2>1. file \in Seq(Record) /\ run \in Seq(Record) /\ n \in 0 .. Len(file)
      BY <1>2, <1>3, <1>6
  <2>2. slots'[0] = Overwrite(file, n, run)
      BY <1>3
  <2> HIDE DEF file, n
  <2>3. /\ \A i \in 1 .. n : Overwrite(file, n, run)[i] = file[i]
        /\ \A i \in 1 .. Len(run) : Overwrite(file, n, run)[n + i] = run[i]
      BY ONLY <2>1, WrittenRecords
  <2> QED
      BY <2>2, <2>3 DEF file, n
<1>8. Stored(runs, slots[0]) /\ Sorted(runs)
    BY <1>1 DEF Kept
<1>9. Stored(runs', slots'[0]) /\ Sorted(runs')
  <2> DEFINE file == slots[0]
             new == slots'[0]
  <2>1. /\ RunsTyped(runs) /\ run \in Seq(Record) /\ Len(run) > 0 /\ Stored(runs, file)
        /\ Sorted(runs) /\ Ascending(run) /\ \A i \in 1 .. End(runs) : new[i] = file[i]
        /\ \A i \in 1 .. Len(run) : new[End(runs) + i] = run[i]
      BY <1>2, <1>3, <1>4, <1>7, <1>8
  <2> HIDE DEF file, new
  <2>2. /\ Stored(Append(runs, RunAt(End(runs), run)), new)
        /\ Sorted(Append(runs, RunAt(End(runs), run)))
      BY ONLY <2>1, AppendKept
  <2> QED
      BY <1>3, <2>2 DEF new
<1>10. ApartFrom(runs, 1) /\ \A i \in DOMAIN runs : Apart(runs[i].checksum, run)
  <2>1. ApartFrom(runs, 1) /\ \A i \in DOMAIN runs : Apart(chunk, runs[i].checksum)
      BY <1>1 DEF Once
  <2>2. \A i \in DOMAIN runs : runs[i].checksum \in Seq(Record)
      BY <1>2, RunsFacts
  <2> QED
      BY <1>2, <1>5, <2>1, <2>2, ApartMeaning
<1>11. /\ ApartFrom(runs', 1)
       /\ \A s : Apart(s, run) /\ (\A i \in DOMAIN runs : Apart(s, runs[i].checksum)) =>
            \A i \in DOMAIN runs' : Apart(s, runs'[i].checksum)
    BY <1>2, <1>3, <1>10, AppendApart
<1> QED
    BY <1>5, <1>9, <1>11

\* A record that brings no name, or one that nothing before it brought.
LEMMA FreshApart ==
  ASSUME NEW r \in Record, NEW s \in Seq(Record), r.name => <<r.id, "name">> \notin Marks(s)
  PROVE  Apart(<<r>>, s)
<1> DEFINE one == <<r>>
<1>1. one \in Seq(Record) /\ DOMAIN one = {1} /\ one[1] = r
    OBVIOUS
<1> HIDE DEF one
<1>2. ASSUME NEW i \in DOMAIN one, NEW j \in DOMAIN s, one[i].name, s[j].name,
             one[i].id = s[j].id
      PROVE  FALSE
  <2>1. one[i] = r
      BY <1>1
  <2>2. <<r.id, "name">> \in Marks(s)
      BY <1>2, <2>1, MarkOfRecord
  <2> QED
      BY <1>2, <2>1, <2>2
<1>3. Apart(one, s)
    BY <1>1, <1>2, ApartMeaning
<1> QED
    BY <1>3 DEF one

LEMMA AppendOne ==
  ASSUME NEW t \in Seq(Record), NEW r \in Record, NEW s, Apart(t, s), Apart(<<r>>, s)
  PROVE  Apart(Append(t, r), s)
<1>1. Marks(Append(t, r)) = Marks(t) \union Marks(<<r>>)
    BY MarksAppend, MarksOfOne
<1>2. NamesOf(Append(t, r)) = NamesOf(t) \union NamesOf(<<r>>)
    BY <1>1 DEF NamesOf
<1> QED
    BY <1>2 DEF Apart

LEMMA NoneApart ==
  /\ ~ClashIn(<<>>) /\ Ascending(<<>>) /\ Sorted(<<>>)
  /\ \A s : Apart(<<>>, s)
  /\ \A k : ApartFrom(<<>>, k)
  /\ \A file : Stored(<<>>, file)
<1>1. \A s : Apart(<<>>, s)
    BY NoMarks DEF Apart, NamesOf
<1>2. ~ClashIn(<<>>) /\ Ascending(<<>>)
    BY SequenceFacts DEF ClashIn, Ascending
<1> QED
    BY <1>1, <1>2 DEF Sorted, ApartFrom, Stored

\* A group that is not open holds nothing back.
LEMMA NothingOpen ==
  ASSUME Shape, state \in Pushing
  PROVE  /\ source = 0 /\ start = 1 /\ cursors = <<>> /\ merged = <<>> /\ pending = None
         /\ written = <<>>
    BY DEF Shape, Opened, Phased

LEMMA KeptPush ==
  ASSUME Shape, Kept, Once, state \in Pushing, NEW r \in Record, Push(r),
         UNCHANGED pushUnchanged, disturbed = "nothing", state' = state
  PROVE  Kept'
<1>1. /\ source = 0 /\ cursors = <<>> /\ merged = <<>> /\ pending = None /\ written = <<>>
      /\ source' = source /\ cursors' = cursors /\ merged' = merged /\ pending' = pending
      /\ written' = written /\ checked' = checked
    BY NothingOpen DEF pushUnchanged, passVars, readVars
<1>2. Sorted(runs') /\ Stored(runs', slots'[0])
  <2>1. CASE Len(chunk) < ChunkRecords
      BY <1>1, <2>1 DEF Push, Kept
  <2>2. CASE ~(Len(chunk) < ChunkRecords)
    <3>1. Flushed
        BY <2>2 DEF Push
    <3>2. chunk # <<>>
        BY <2>2, InventoryAssumption, SequenceFacts
    <3> QED
        BY <3>1, <3>2, FlushKept
  <2> QED
      BY <2>1, <2>2
<1>3. Sorted(merged') /\ Stored(merged', slots'[1 - source']) /\ Ascending(written')
    BY <1>1, NoneApart
<1>4. DOMAIN written' = {} /\ DOMAIN cursors' = {}
    BY <1>1, SequenceFacts
<1>5. source' = 0 /\ pending' = None /\ state' \notin OneRun
    BY <1>1 DEF Pushing, OneRun
<1> QED
    BY <1>2, <1>3, <1>4, <1>5 DEF Kept

LEMMA OncePush ==
  ASSUME Shape, Kept, Once, state \in Pushing, NEW r \in Record, Push(r),
         UNCHANGED pushUnchanged, disturbed = "nothing",
         r.name => <<r.id, "name">> \notin Marks(chunk) \union RunMarks(runs, 1)
  PROVE  Once'
<1>1. /\ start = 1 /\ merged = <<>> /\ start' = start /\ merged' = merged
    BY NothingOpen DEF pushUnchanged, passVars
<1>2. /\ chunk \in Seq(Record) /\ RunsTyped(runs) /\ ~ClashIn(chunk)
      /\ \A i \in DOMAIN runs : Apart(chunk, runs[i].checksum)
      /\ ApartFrom(runs, 1)
    BY <1>1 DEF Shape, Filed, Once
<1>3. Apart(<<r>>, chunk) /\ \A i \in DOMAIN runs : Apart(<<r>>, runs[i].checksum)
  <2>1. Apart(<<r>>, chunk)
      BY <1>2, FreshApart
  <2>2. ASSUME NEW i \in DOMAIN runs PROVE Apart(<<r>>, runs[i].checksum)
    <3>1. runs[i].checksum \in Seq(Record) /\ 1 <= i
        BY <1>2, RunsFacts
    <3>2. Marks(runs[i].checksum) \subseteq RunMarks(runs, 1)
        BY <3>1 DEF RunMarks
    <3> QED
        BY <3>1, <3>2, FreshApart
  <2> QED
      BY <2>1, <2>2
<1>4. /\ ~ClashIn(chunk') /\ ApartFrom(runs', 1)
      /\ \A i \in DOMAIN runs' : Apart(chunk', runs'[i].checksum)
  <2>1. CASE Len(chunk) < ChunkRecords
    <3>1. chunk' = Append(chunk, r) /\ runs' = runs
        BY <2>1 DEF Push
    <3>2. ~ClashIn(chunk')
      <4> SUFFICES ASSUME NEW i \in DOMAIN chunk', NEW j \in DOMAIN chunk', i # j,
                          Clash(chunk'[i], chunk'[j])
                   PROVE  FALSE
          BY DEF ClashIn
      <4> DEFINE n == Len(chunk)
      <4>1. /\ n \in Nat /\ DOMAIN chunk = 1 .. n /\ DOMAIN chunk' = 1 .. n + 1
            /\ \A k \in 1 .. n : chunk'[k] = chunk[k]
            /\ chunk'[n + 1] = r
        <5>1. chunk' \in Seq(Record) /\ Len(chunk') = n + 1
            BY <1>2, <3>1, SequenceFacts
        <5> QED
            BY <1>2, <3>1, <5>1, SequenceFacts
      <4>2. ASSUME NEW k \in 1 .. n PROVE ~Clash(chunk[k], r) /\ ~Clash(r, chunk[k])
        <5>1. r.name /\ chunk[k].name => chunk[k].id # r.id
          <6>1. chunk[k].name => <<chunk[k].id, "name">> \in Marks(chunk)
              BY <1>2, <4>1, MarkOfRecord
          <6> QED
              BY <6>1
        <5> QED
            BY <5>1 DEF Clash
      <4>3. CASE i \in 1 .. n /\ j \in 1 .. n
          BY <1>2, <4>1, <4>3 DEF ClashIn
      <4>4. CASE i = n + 1
        <5>1. j \in 1 .. n
            BY <4>1, <4>4
        <5> QED
            BY <4>1, <4>2, <4>4, <5>1
      <4>5. CASE j = n + 1
        <5>1. i \in 1 .. n
            BY <4>1, <4>5
        <5> QED
            BY <4>1, <4>2, <4>5, <5>1
      <4> QED
          BY <4>1, <4>3, <4>4, <4>5
    <3>3. \A i \in DOMAIN runs : Apart(chunk', runs[i].checksum)
        BY <1>2, <1>3, <3>1, AppendOne
    <3> QED
        BY <1>2, <3>1, <3>2, <3>3
  <2>2. CASE ~(Len(chunk) < ChunkRecords)
    <3>1. Flushed /\ chunk' = <<r>>
        BY <2>2 DEF Push
    <3>2. chunk # <<>>
        BY <2>2, InventoryAssumption, SequenceFacts
    <3>3. /\ ApartFrom(runs', 1)
          /\ \A s : Apart(s, chunk) /\ (\A i \in DOMAIN runs : Apart(s, runs[i].checksum)) =>
               \A i \in DOMAIN runs' : Apart(s, runs'[i].checksum)
        BY <3>1, <3>2, FlushKept
    <3>4. \A i \in DOMAIN runs' : Apart(<<r>>, runs'[i].checksum)
        BY <1>3, <3>3
    <3>5. ~ClashIn(<<r>>)
        BY DEF ClashIn
    <3> QED
        BY <3>1, <3>3, <3>4, <3>5
  <2> QED
      BY <2>1, <2>2
<1>5. ApartFrom(merged', 1) /\ DOMAIN merged' = {}
    BY <1>1, NoneApart, SequenceFacts
<1> QED
    BY <1>1, <1>4, <1>5 DEF Once

\* Every name is pushed once, unless the enumeration returns it again.
LEMMA UndisturbedPush ==
  ASSUME Shape, Carried, Kept, Once, PushName \/ PushNameAgain \/ PushReference
  PROVE  Kept' /\ Once'
<1>1. CASE PushNameAgain
    BY <1>1 DEF PushNameAgain, Kept, Once
<1>2. CASE disturbed # "nothing" /\ ~PushNameAgain
    BY <1>2 DEF PushName, PushReference, Kept, Once
<1>3. CASE disturbed = "nothing" /\ (PushName \/ PushReference)
  <2>1. state \in Pushing /\ state' = state /\ UNCHANGED pushUnchanged
      BY <1>3 DEF PushName, PushReference, Pushing
  <2>2. Marks(chunk) \union RunMarks(runs, 1) = Given
      BY <2>1 DEF Carried
  <2>3. PICK r \in Record : /\ Push(r)
                            /\ r.name => <<r.id, "name">> \notin Given
    <3>1. CASE PushName
      <4>1. PICK n \in names \ listed : Push(Named(n))
          BY <3>1 DEF PushName
      <4>2. n \in Object
          BY DEF Shape, Constant
      <4>3. Named(n) \in Record /\ Named(n).id = n
          BY <4>2, GivenRecords
      <4>4. <<n, "name">> \notin Given
          BY DEF Given
      <4> QED
          BY <4>1, <4>3, <4>4
    <3>2. CASE PushReference
      <4>1. PICK n \in protected : Push(Referenced(n))
          BY <3>2 DEF PushReference
      <4>2. n \in Object
          BY DEF Shape, Constant
      <4>3. Referenced(n) \in Record /\ Referenced(n).name = FALSE
          BY <4>2, GivenRecords
      <4> QED
          BY <4>1, <4>3
    <3> QED
        BY <1>3, <3>1, <3>2
  <2> QED
      BY <1>3, <2>1, <2>2, <2>3, KeptPush, OncePush
<1> QED
    BY <1>1, <1>2, <1>3

LEMMA UndisturbedFlush == ASSUME Shape, Kept, Once, FlushLast PROVE Kept' /\ Once'
<1>1. /\ state = "walking" /\ state' = "merging" /\ chunk' = <<>> /\ disturbed' = disturbed
      /\ source' = source /\ cursors' = cursors /\ merged' = merged /\ pending' = pending
      /\ written' = written /\ start' = start
      /\ chunk = <<>> => slots' = slots /\ runs' = runs
      /\ chunk # <<>> => Flushed
    BY DEF FlushLast, Goto, passVars, historyVars
<1>2. state \in Pushing /\ state' \notin OneRun
    BY <1>1 DEF Pushing, OneRun
<1>3. /\ source = 0 /\ start = 1 /\ cursors = <<>> /\ merged = <<>> /\ pending = None
      /\ written = <<>>
    BY <1>2, NothingOpen
<1>4. CASE disturbed # "nothing"
    BY <1>1, <1>4 DEF Kept, Once
<1>5. CASE disturbed = "nothing"
  <2>1. Stored(runs', slots'[0]) /\ Sorted(runs') /\ ApartFrom(runs', 1)
    <3>1. CASE chunk = <<>>
        BY <1>1, <1>3, <1>5, <3>1 DEF Kept, Once
    <3>2. CASE chunk # <<>>
        BY <1>1, <1>2, <1>5, <3>2, FlushKept
    <3> QED
        BY <3>1, <3>2
  <2>2. /\ Sorted(merged') /\ Stored(merged', slots'[1 - source']) /\ Ascending(written')
        /\ ApartFrom(merged', 1) /\ ~ClashIn(chunk')
        /\ \A i \in DOMAIN runs' : Apart(chunk', runs'[i].checksum)
      BY <1>1, <1>3, NoneApart
  <2>3. DOMAIN written' = {} /\ DOMAIN cursors' = {} /\ DOMAIN merged' = {}
      BY <1>1, <1>3, SequenceFacts
  <2>4. source' = 0 /\ pending' = None /\ start' = 1
      BY <1>1, <1>3
  <2>5. Kept'
      BY <1>2, <2>1, <2>2, <2>3, <2>4 DEF Kept
  <2> QED
      BY <2>1, <2>2, <2>3, <2>4, <2>5 DEF Once
<1> QED
    BY <1>4, <1>5

\* A step of a merge that leaves the runs alone.
LEMMA OnceMerging ==
  ASSUME Once, OpenGroup \/ MergeRecord
  PROVE  Once'
<1>1. /\ chunk' = chunk /\ runs' = runs /\ start' = start /\ merged' = merged
      /\ disturbed' = disturbed
    BY DEF OpenGroup, MergeRecord, mergeUnchanged, historyVars
<1> QED
    BY <1>1 DEF Once

LEMMA KeptOpenGroup == ASSUME Shape, Kept, OpenGroup PROVE Kept'
<1>1. /\ cursors = <<>> /\ start <= Len(runs) /\ state = "merging"
      /\ cursors' = [i \in 1 .. GroupEnd - start + 1 |-> Advanced(NewCursor(runs[start + i - 1]))]
      /\ slots' = slots /\ source' = source /\ runs' = runs /\ merged' = merged
      /\ written' = written /\ pending' = pending /\ state' = state /\ disturbed' = disturbed
    BY DEF OpenGroup, MergePass, mergeUnchanged, historyVars
<1>2. pending = None /\ state \notin OneRun
    BY <1>1 DEF Shape, Opened, OneRun
<1>3. CASE disturbed # "nothing"
    BY <1>1, <1>3 DEF Kept
<1>4. CASE disturbed = "nothing"
  <2>1. GroupEnd \in start .. Len(runs)
      BY <1>1, GroupFacts
  <2>2. Filed /\ DOMAIN runs = 1 .. Len(runs) /\ Len(runs) \in Nat /\ start \in Nat \ {0}
      BY RunsFacts DEF Shape, Filed, Constant
  <2>3. ASSUME NEW i \in DOMAIN cursors', NEW k \in DOMAIN cursors'[i].seen
        PROVE  cursors'[i].seen[k] = cursors'[i].run.checksum[k]
    <3> DEFINE j == start + i - 1
               r == slots[source][runs[j].offset + 1]
    <3>1. i \in 1 .. GroupEnd - start + 1 /\ GroupEnd \in Nat
        BY <1>1, <2>1, <2>2
    <3>2. j \in DOMAIN runs
        BY <2>1, <2>2, <3>1
    <3>3. cursors'[i] = Advanced(NewCursor(runs[j]))
        BY <1>1, <3>1
    <3> HIDE DEF j
    <3>4. cursors'[i].run = runs[j] /\ cursors'[i].seen = <<r>>
        BY <2>2, <3>2, <3>3, NewCursorFacts
    <3>5. k = 1 /\ <<r>>[1] = r
        BY <3>4
    <3>6. 1 \in 1 .. runs[j].records
        BY <2>2, <3>2, RunsFacts DEF Filed
    <3>7. r = runs[j].checksum[1]
        BY <1>4, <3>2, <3>6 DEF Kept, Stored
    <3> QED
        BY <3>4, <3>5, <3>7
  <2>4. pending' = None /\ state' \notin OneRun
      BY <1>1, <1>2
  <2>5. /\ Sorted(runs) /\ Sorted(merged)
        /\ Stored(runs, slots[source]) /\ Stored(merged, slots[1 - source])
        /\ \A k \in DOMAIN written : slots[1 - source][End(merged) + k] = written[k]
        /\ Ascending(written)
      BY <1>4 DEF Kept
  <2>6. /\ Sorted(runs') /\ Sorted(merged')
        /\ Stored(runs', slots'[source']) /\ Stored(merged', slots'[1 - source'])
        /\ \A k \in DOMAIN written' : slots'[1 - source'][End(merged') + k] = written'[k]
        /\ Ascending(written')
      BY <1>1, <2>5
  <2> QED
      BY <2>3, <2>4, <2>6 DEF Kept
<1> QED
    BY <1>3, <1>4

\* A record after all the others.
LEMMA AscendingAppend ==
  ASSUME NEW s \in Seq(Record), NEW r \in Record, Ascending(s),
         \A i \in DOMAIN s : s[i].id < r.id
  PROVE  Ascending(Append(s, r))
<1> DEFINE t == Append(s, r)
           n == Len(s)
<1>1. /\ n \in Nat /\ DOMAIN s = 1 .. n /\ DOMAIN t = 1 .. n + 1
      /\ \A i \in 1 .. n : t[i] = s[i]
      /\ t[n + 1] = r
  <2>1. t \in Seq(Record) /\ Len(t) = n + 1
      BY SequenceFacts
  <2> QED
      BY <2>1, SequenceFacts
<1> HIDE DEF t, n
<1>2. ASSUME NEW i \in DOMAIN t, NEW j \in DOMAIN t, i < j
      PROVE  t[i].id < t[j].id
  <2>1. i \in 1 .. n /\ t[i] = s[i]
      BY <1>1, <1>2
  <2>2. CASE j \in 1 .. n
      BY <1>1, <1>2, <2>1, <2>2 DEF Ascending
  <2>3. CASE j = n + 1
      BY <1>1, <2>1, <2>3
  <2> QED
      BY <1>1, <2>2, <2>3
<1> QED
    BY <1>2 DEF Ascending, t

\* The files after a record of a group was taken.
LEMMA KeptEmit ==
  ASSUME Shape, Kept, disturbed = "nothing", NEW r \in Record, Emit(r)
  PROVE  /\ Stored(runs, slots'[source]) /\ Stored(merged, slots'[1 - source])
         /\ \A k \in DOMAIN written' : slots'[1 - source][End(merged) + k] = written'[k]
<1> DEFINE d == 1 - source
           m == End(merged)
           n == Len(written)
           file == slots[d]
           new == slots'[d]
<1>1. /\ Filed /\ written \in Seq(Record) /\ RunsTyped(merged)
      /\ Stored(runs, slots[source]) /\ Stored(merged, file)
      /\ \A k \in DOMAIN written : file[m + k] = written[k]
    BY DEF Shape, Filed, Kept
<1>2. /\ slots' = [slots EXCEPT ![Target] = Overwrite(@, End(merged) + Len(written), <<r>>)]
      /\ written' = Append(written, r)
    BY DEF Emit
<1>3. /\ slots'[source] = slots[source]
      /\ \A i \in 1 .. m + n : new[i] = file[i]
      /\ new[m + n + 1] = r
    BY <1>1, <1>2, TargetFacts
<1> HIDE DEF d, m, n
<1>4. m \in Nat /\ n \in Nat
    BY <1>1, RunsFacts, SequenceFacts DEF m, n
<1> HIDE DEF file, new
<1>5. Stored(merged, new)
  <2>1. \A i \in 1 .. End(merged) : new[i] = file[i]
    <3>1. \A i \in 1 .. m : i \in 1 .. m + n
        BY <1>4
    <3> QED
        BY <1>3, <3>1 DEF m
  <2> QED
      BY ONLY <1>1, <2>1, StoredKept
<1>6. ASSUME NEW k \in DOMAIN written' PROVE new[m + k] = written'[k]
  <2>1. /\ DOMAIN written = 1 .. n /\ DOMAIN written' = 1 .. n + 1
        /\ \A i \in 1 .. n : written'[i] = written[i]
        /\ written'[n + 1] = r
    <3>1. written' \in Seq(Record) /\ Len(written') = n + 1
        BY <1>1, <1>2, SequenceFacts DEF n
    <3> QED
        BY <1>1, <1>2, <3>1, SequenceFacts DEF n
  <2>2. CASE k \in 1 .. n
    <3>1. m + k \in 1 .. m + n
        BY <1>4, <2>2
    <3> QED
        BY <1>1, <1>3, <2>1, <2>2, <3>1
  <2>3. CASE k = n + 1
    <3>1. m + k = m + n + 1
        BY <1>4, <2>3
    <3> QED
        BY <1>3, <2>1, <2>3, <3>1
  <2> QED
      BY <1>4, <2>1, <2>2, <2>3
<1>7. Stored(runs, slots'[source])
    BY <1>1, <1>3
<1> QED
    BY <1>5, <1>6, <1>7 DEF new, d, m

LEMMA KeptMergeRecord == ASSUME Shape, Kept, MergeRecord PROVE Kept'
<1> DEFINE c == cursors[Least]
           k == start + Least - 1
           r == slots[source][c.run.offset + c.read + 1]
<1>1. /\ state = "merging" /\ state' = state /\ source' = source /\ runs' = runs
      /\ merged' = merged /\ disturbed' = disturbed
    BY DEF MergeRecord, MergePass, mergeUnchanged, historyVars
<1>2. /\ Least \in Heads /\ Heads \subseteq DOMAIN cursors /\ c.head \in Record
      /\ \A j \in Heads : cursors[j].head \in Record /\ c.head.id <= cursors[j].head.id
      /\ CursorTyped(c) /\ c.head # None /\ ~Misread(c)
      /\ k \in DOMAIN runs /\ c.run = runs[k]
      /\ CursorTyped(Advanced(c)) /\ Advanced(c).run = c.run
      /\ DOMAIN cursors' = DOMAIN cursors
      /\ cursors'[Least] = Advanced(c)
      /\ \A j \in DOMAIN cursors : j # Least => cursors'[j] = cursors[j]
      /\ pending' \in Record
      /\ \/ /\ Folds(c.head) /\ pending \in Record
            /\ pending' = Combine(pending, c.head) /\ slots' = slots /\ written' = written
         \/ /\ pending' = c.head /\ pending = None
            /\ slots' = slots /\ written' = written
         \/ /\ ~Folds(c.head) /\ pending' = c.head /\ pending \in Record /\ Emit(pending)
    BY MergeRecordFacts
<1>3. Filed /\ written \in Seq(Record) /\ RunsTyped(runs)
    BY DEF Shape, Filed
<1>4. CASE disturbed # "nothing"
    BY <1>1, <1>4 DEF Kept
<1>5. CASE disturbed = "nothing"
  <2> HIDE DEF c, k
  <2>1. \/ /\ Advanced(c).head = None /\ Advanced(c).seen = c.seen
        \/ /\ r \in Record /\ c.head.id < r.id
           /\ Advanced(c).head = r
           /\ Advanced(c).seen = Append(c.seen, r)
      BY <1>2, <1>3, TakeHead
  <2> HIDE DEF r
  <2>2. /\ \A x \in DOMAIN c.seen : c.seen[x] = c.run.checksum[x]
        /\ Stored(runs, slots[source])
    <3>1. /\ \A i \in DOMAIN cursors : \A x \in DOMAIN cursors[i].seen :
               cursors[i].seen[x] = cursors[i].run.checksum[x]
          /\ Stored(runs, slots[source])
        BY <1>5 DEF Kept
    <3> QED
        BY <1>2, <3>1 DEF c
  <2>3. \A x \in DOMAIN Advanced(c).seen : Advanced(c).seen[x] = c.run.checksum[x]
    <3>1. CASE Advanced(c).seen = c.seen
        BY <2>2, <3>1
    <3>2. CASE Advanced(c).seen = Append(c.seen, r) /\ r \in Record
      <4>1. /\ c.seen \in Seq(Record) /\ c.read = Len(c.seen) /\ c.read \in Nat
            /\ Advanced(c).read = Len(Advanced(c).seen) /\ Advanced(c).read <= c.run.records
          BY <1>2 DEF CursorTyped
      <4>2. /\ Len(Advanced(c).seen) = c.read + 1 /\ DOMAIN c.seen = 1 .. c.read
            /\ DOMAIN Advanced(c).seen = 1 .. c.read + 1
            /\ \A i \in 1 .. c.read : Advanced(c).seen[i] = c.seen[i]
            /\ Advanced(c).seen[c.read + 1] = r
        <5>1. Advanced(c).seen \in Seq(Record)
            BY <3>2, <4>1, SequenceFacts
        <5> QED
            BY <3>2, <4>1, <5>1, SequenceFacts
      <4>3. c.run.records \in Nat /\ c.run.offset \in Nat
          BY <1>2, <1>3, RunsFacts
      <4>4. c.read + 1 \in 1 .. runs[k].records
          BY <1>2, <4>1, <4>2, <4>3
      <4>5. slots[source][runs[k].offset + (c.read + 1)] = runs[k].checksum[c.read + 1]
          BY <1>2, <2>2, <4>4 DEF Stored
      <4>6. c.run.offset + (c.read + 1) = c.run.offset + c.read + 1
          BY <4>1, <4>3
      <4>7. r = c.run.checksum[c.read + 1]
          BY <1>2, <4>5, <4>6 DEF r
      <4>8. \A x \in 1 .. c.read + 1 : x \in 1 .. c.read \/ x = c.read + 1
          BY <4>1
      <4> QED
          BY <2>2, <4>2, <4>7, <4>8
    <3> QED
        BY <2>1, <3>1, <3>2
  <2>4. \A i \in DOMAIN cursors' : \A x \in DOMAIN cursors'[i].seen :
          cursors'[i].seen[x] = cursors'[i].run.checksum[x]
    <3> SUFFICES ASSUME NEW i \in DOMAIN cursors', NEW x \in DOMAIN cursors'[i].seen
                 PROVE  cursors'[i].seen[x] = cursors'[i].run.checksum[x]
        OBVIOUS
    <3>1. CASE i = Least
        BY <1>2, <2>3, <3>1
    <3>2. CASE i # Least
        BY <1>2, <1>5, <3>2 DEF Kept
    <3> QED
        BY <3>1, <3>2
  <2>5. \A i \in Heads' : c.head.id <= cursors'[i].head.id
    <3> SUFFICES ASSUME NEW i \in Heads' PROVE c.head.id <= cursors'[i].head.id
        OBVIOUS
    <3>1. i \in DOMAIN cursors /\ cursors'[i].head # None
        BY <1>2 DEF Heads
    <3>2. CASE i = Least
      <4>1. r \in Record /\ c.head.id < r.id /\ cursors'[i].head = r
          BY <1>2, <2>1, <3>1, <3>2
      <4>2. r.id \in Int /\ c.head.id \in Int
          BY <1>2, <4>1, RecordFacts DEF Object
      <4> QED
          BY <4>1, <4>2
    <3>3. CASE i # Least
      <4>1. cursors'[i] = cursors[i]
          BY <1>2, <3>1, <3>3
      <4>2. i \in Heads
          BY <3>1, <4>1 DEF Heads
      <4> QED
          BY <1>2, <4>1, <4>2
    <3> QED
        BY <3>2, <3>3
  <2>6. c.head.id \in Int
      BY <1>2, RecordFacts DEF Object
  <2>7. /\ Ascending(written)
        /\ pending # None => /\ \A x \in DOMAIN written : written[x].id < pending.id
                             /\ pending.id <= c.head.id
    <3>1. /\ Ascending(written)
          /\ pending # None => /\ \A x \in DOMAIN written : written[x].id < pending.id
                               /\ \A i \in Heads : pending.id <= cursors[i].head.id
        BY <1>5 DEF Kept
    <3> QED
        BY <1>2, <3>1 DEF c
  <2>8. /\ Ascending(written') /\ pending'.id = c.head.id
        /\ \A x \in DOMAIN written' : written'[x].id < pending'.id
        /\ Stored(runs, slots'[source]) /\ Stored(merged, slots'[1 - source])
        /\ \A x \in DOMAIN written' : slots'[1 - source][End(merged) + x] = written'[x]
    <3>1. CASE slots' = slots /\ written' = written
      <4>1. pending'.id = c.head.id /\ \A x \in DOMAIN written' : written'[x].id < pending'.id
        <5>1. CASE pending' = c.head /\ pending = None
          <6>1. written = <<>>
              BY <5>1 DEF Shape, Opened
          <6>2. DOMAIN written' = {}
              BY <3>1, <6>1, SequenceFacts
          <6> QED
              BY <5>1, <6>2
        <5>2. CASE Folds(c.head) /\ pending \in Record /\ pending' = Combine(pending, c.head)
          <6>1. pending.id = c.head.id /\ pending # None
              BY <5>2 DEF Folds
          <6>2. pending'.id = pending.id
              BY <5>2 DEF Combine
          <6> QED
              BY <2>7, <3>1, <6>1, <6>2
        <5>3. CASE ~Folds(c.head) /\ pending' = c.head /\ pending \in Record /\ Emit(pending)
          <6>1. written' = Append(written, pending)
              BY <5>3 DEF Emit
          <6>2. Len(written') = Len(written) + 1 /\ Len(written) \in Nat
              BY <1>3, <5>3, <6>1, SequenceFacts
          <6> QED
              BY <3>1, <6>2
        <5> QED
            BY <1>2, <5>1, <5>2, <5>3
      <4>2. /\ Stored(runs, slots[source]) /\ Stored(merged, slots[1 - source])
            /\ \A x \in DOMAIN written : slots[1 - source][End(merged) + x] = written[x]
          BY <1>5 DEF Kept
      <4> QED
          BY <2>7, <3>1, <4>1, <4>2
    <3>2. CASE ~Folds(c.head) /\ pending' = c.head /\ pending \in Record /\ Emit(pending)
      <4>1. pending # None /\ pending.id \in Int
          BY <3>2, RecordFacts DEF Object
      <4>2. pending.id < c.head.id
          BY <2>6, <2>7, <3>2, <4>1 DEF Folds
      <4>3. written' = Append(written, pending)
          BY <3>2 DEF Emit
      <4>4. Ascending(written')
          BY <1>3, <2>7, <3>2, <4>1, <4>3, AscendingAppend
      <4>5. \A x \in DOMAIN written' : written'[x].id < c.head.id
        <5> SUFFICES ASSUME NEW x \in DOMAIN written' PROVE written'[x].id < c.head.id
            OBVIOUS
        <5>1. /\ Len(written) \in Nat /\ DOMAIN written = 1 .. Len(written)
              /\ DOMAIN written' = 1 .. Len(written) + 1
              /\ \A i \in 1 .. Len(written) : written'[i] = written[i]
              /\ written'[Len(written) + 1] = pending
          <6>1. written' \in Seq(Record) /\ Len(written') = Len(written) + 1
              BY <1>3, <3>2, <4>3, SequenceFacts
          <6> QED
              BY <1>3, <3>2, <4>3, <6>1, SequenceFacts
        <5>2. CASE x = Len(written) + 1
            BY <4>2, <5>1, <5>2
        <5>3. CASE x \in 1 .. Len(written)
          <6>1. written'[x] = written[x] /\ written[x] \in Record
              BY <1>3, <5>1, <5>3, SequenceFacts
          <6>2. written[x].id < pending.id /\ written[x].id \in Int
              BY <2>7, <4>1, <5>1, <5>3, <6>1, RecordFacts DEF Object
          <6> QED
              BY <2>6, <4>1, <4>2, <6>1, <6>2
        <5> QED
            BY <5>1, <5>2, <5>3
      <4>6. /\ Stored(runs, slots'[source]) /\ Stored(merged, slots'[1 - source])
            /\ \A x \in DOMAIN written' : slots'[1 - source][End(merged) + x] = written'[x]
          BY <1>5, <3>2, KeptEmit
      <4> QED
          BY <3>2, <4>4, <4>5, <4>6
    <3> QED
        BY <1>2, <3>1, <3>2
  <2>9. \A i \in Heads' : pending'.id <= cursors'[i].head.id
      BY <2>5, <2>8
  <2>10. Sorted(runs) /\ Sorted(merged)
      BY <1>5 DEF Kept
  <2>11. /\ Sorted(runs') /\ Sorted(merged')
         /\ Stored(runs', slots'[source']) /\ Stored(merged', slots'[1 - source'])
         /\ \A x \in DOMAIN written' : slots'[1 - source'][End(merged') + x] = written'[x]
         /\ Ascending(written') /\ state' \notin OneRun
      BY <1>1, <2>8, <2>10 DEF OneRun
  <2> QED
      BY <2>4, <2>8, <2>9, <2>11 DEF Kept
<1> QED
    BY <1>4, <1>5

\* The run that a group becomes: its records, and the names in them.
LEMMA GroupRecords ==
  ASSUME Shape, Carried, CloseGroup
  PROVE  /\ pending \in Record /\ pending # None /\ written \in Seq(Record)
         /\ RunsTyped(merged) /\ RunsTyped(runs)
         /\ Append(written, pending) \in Seq(Record) /\ Len(Append(written, pending)) > 0
         /\ \A i \in DOMAIN cursors : /\ start + i - 1 \in DOMAIN runs
                                      /\ start + i - 1 < start + FanIn
                                      /\ start <= start + i - 1
         /\ \A s : (\A i \in DOMAIN cursors : Apart(runs[start + i - 1].checksum, s)) =>
                      Apart(Append(written, pending), s)
<1> DEFINE records == Append(written, pending)
<1>1. /\ MergePass /\ cursors # <<>> /\ Heads = {} /\ state = "merging" /\ start <= Len(runs)
    BY DEF CloseGroup, MergePass
<1>2. pending \in Record /\ pending # None /\ written \in Seq(Record) /\ RunsTyped(merged)
      /\ RunsTyped(runs)
  <2>1. cursors \in Seq(Cursor) /\ Opened
      BY DEF Shape, Opened, Cursor
  <2>2. 1 \in DOMAIN cursors
      BY <1>1, <2>1, SequenceFacts
  <2>3. cursors[1].head = None
      BY <1>1, <2>2 DEF Heads
  <2>4. pending # None
      BY <2>1, <2>2, <2>3 DEF Opened
  <2> QED
      BY <2>4 DEF Shape, Filed
<1>3. records \in Seq(Record) /\ Len(records) > 0
    BY <1>2, SequenceFacts
<1>4. Marks(records) = TakenMarks
  <2>1. Marks(records) = Marks(written) \union MarksOf(pending)
      BY <1>2, MarksAppend
  <2> QED
      BY <1>1, <2>1 DEF Carried
<1>5. \A i \in DOMAIN cursors : TakenOf(cursors[i]) = Marks(runs[start + i - 1].checksum)
  <2> SUFFICES ASSUME NEW i \in DOMAIN cursors
               PROVE  TakenOf(cursors[i]) = Marks(runs[start + i - 1].checksum)
      OBVIOUS
  <2>1. CursorTyped(cursors[i]) /\ cursors[i].run = runs[start + i - 1]
      BY DEF Shape, Opened
  <2>2. cursors[i].head = None
      BY <1>1 DEF Heads
  <2> QED
      BY <2>1, <2>2, TakenFacts
<1>6. ASSUME NEW i \in DOMAIN cursors
      PROVE  /\ start + i - 1 \in DOMAIN runs /\ start + i - 1 < start + FanIn
             /\ start <= start + i - 1
  <2>1. /\ start \in Nat \ {0} /\ FanIn \in Nat /\ DOMAIN runs = 1 .. Len(runs)
        /\ Len(runs) \in Nat
      BY <1>2, RunsFacts, InventoryAssumption DEF Shape, Constant
  <2>2. Len(cursors) = GroupEnd - start + 1 /\ Len(cursors) <= FanIn
      BY <1>1 DEF Shape, Opened
  <2>3. DOMAIN cursors = 1 .. Len(cursors) /\ Len(cursors) \in Nat
    <3>1. cursors \in Seq(Cursor)
        BY DEF Shape, Opened, Cursor
    <3> QED
        BY <3>1, SequenceFacts
  <2>4. GroupEnd \in start .. Len(runs)
      BY <1>1, GroupFacts
  <2>5. i \in Nat \ {0} /\ i <= GroupEnd - start + 1 /\ i <= FanIn
    <3>1. i \in Nat \ {0} /\ i <= Len(cursors)
        BY <2>3
    <3> QED
        BY <2>1, <2>2, <2>3, <3>1
  <2>6. GroupEnd \in Nat /\ GroupEnd <= Len(runs) /\ start <= GroupEnd
      BY <2>1, <2>4
  <2>7. start + i - 1 \in 1 .. Len(runs)
      BY <2>1, <2>5, <2>6
  <2> QED
      BY <2>1, <2>5, <2>7
<1> HIDE DEF records
<1>7. ASSUME NEW s, \A i \in DOMAIN cursors : Apart(runs[start + i - 1].checksum, s)
      PROVE  Apart(records, s)
  <2> SUFFICES ASSUME NEW n \in Object, <<n, "name">> \in Marks(records),
                      <<n, "name">> \in Marks(s)
               PROVE  FALSE
      BY DEF Apart, NamesOf
  <2>1. PICK i \in DOMAIN cursors : <<n, "name">> \in TakenOf(cursors[i])
      BY <1>4 DEF TakenMarks
  <2>2. <<n, "name">> \in Marks(runs[start + i - 1].checksum)
      BY <1>5, <2>1
  <2> QED
      BY <1>7, <2>1, <2>2 DEF Apart, NamesOf
<1> QED
    BY <1>2, <1>3, <1>6, <1>7 DEF records

LEMMA KeptCloseGroup == ASSUME Shape, Carried, Kept, CloseGroup PROVE Kept'
<1> DEFINE records == Append(written, pending)
           d == 1 - source
           m == End(merged)
           n == Len(written)
           file == slots[d]
           new == slots'[d]
<1>1. /\ state = "merging" /\ state' = state /\ disturbed' = disturbed
      /\ slots' = [slots EXCEPT ![Target] = Overwrite(@, End(merged) + Len(written), <<pending>>)]
      /\ merged' = Append(merged, RunAt(End(merged), records))
      /\ cursors' = <<>> /\ pending' = None /\ written' = <<>>
      /\ source' = source /\ runs' = runs
    BY DEF CloseGroup, MergePass, mergeUnchanged, historyVars
<1>2. /\ pending \in Record /\ pending # None /\ written \in Seq(Record) /\ RunsTyped(merged)
      /\ records \in Seq(Record) /\ Len(records) > 0
    BY GroupRecords
<1>3. CASE disturbed # "nothing"
    BY <1>1, <1>3 DEF Kept
<1>4. CASE disturbed = "nothing"
  <2>1. /\ slots'[source] = slots[source]
        /\ \A i \in 1 .. m + n : new[i] = file[i]
        /\ new[m + n + 1] = pending
      BY <1>1, <1>2, TargetFacts DEF Shape
  <2>2. /\ Stored(runs, slots[source]) /\ Stored(merged, file)
        /\ Sorted(runs) /\ Sorted(merged) /\ Ascending(written)
        /\ \A k \in DOMAIN written : file[m + k] = written[k]
        /\ \A k \in DOMAIN written : written[k].id < pending.id
      BY <1>2, <1>4 DEF Kept
  <2>3. Ascending(records)
      BY <1>2, <2>2, AscendingAppend
  <2> HIDE DEF m, n, file, new
  <2>4. m \in Nat /\ n \in Nat
      BY <1>2, RunsFacts, SequenceFacts DEF m, n
  <2>5. /\ DOMAIN written = 1 .. n /\ Len(records) = n + 1
        /\ \A i \in 1 .. n : records[i] = written[i]
        /\ records[n + 1] = pending
      BY <1>2, SequenceFacts DEF n
  <2> HIDE DEF records
  <2>6. \A i \in 1 .. m : new[i] = file[i]
    <3>1. \A i \in 1 .. m : i \in 1 .. m + n
        BY <2>4
    <3> QED
        BY <2>1, <3>1
  <2>7. ASSUME NEW i \in 1 .. Len(records) PROVE new[m + i] = records[i]
    <3>1. CASE i \in 1 .. n
      <4>1. m + i \in 1 .. m + n
          BY <2>4, <3>1
      <4> QED
          BY <2>1, <2>2, <2>5, <3>1, <4>1
    <3>2. CASE i = n + 1
      <4>1. m + i = m + n + 1
          BY <2>4, <3>2
      <4> QED
          BY <2>1, <2>5, <3>2, <4>1
    <3> QED
        BY <2>4, <2>5, <3>1, <3>2
  <2>8. Stored(merged', new) /\ Sorted(merged')
    <3>1. /\ RunsTyped(merged) /\ records \in Seq(Record) /\ Len(records) > 0
          /\ Stored(merged, file) /\ Sorted(merged) /\ Ascending(records)
          /\ \A i \in 1 .. End(merged) : new[i] = file[i]
          /\ \A i \in 1 .. Len(records) : new[End(merged) + i] = records[i]
        BY <1>2, <2>2, <2>3, <2>6, <2>7 DEF m
    <3>2. /\ Stored(Append(merged, RunAt(End(merged), records)), new)
          /\ Sorted(Append(merged, RunAt(End(merged), records)))
        BY ONLY <3>1, AppendKept
    <3> QED
        BY <1>1, <3>2
  <2>9. Stored(merged', slots'[1 - source'])
      BY <1>1, <2>8 DEF new, d
  <2>10. DOMAIN written' = {} /\ DOMAIN cursors' = {} /\ Ascending(written')
      BY <1>1, SequenceFacts, NoneApart
  <2>11. state' \notin OneRun /\ Stored(runs', slots'[source']) /\ Sorted(runs')
      BY <1>1, <2>1, <2>2 DEF OneRun
  <2> QED
      BY <1>1, <2>8, <2>9, <2>10, <2>11 DEF Kept
<1> QED
    BY <1>3, <1>4

LEMMA OnceCloseGroup == ASSUME Shape, Carried, Once, CloseGroup PROVE Once'
<1> DEFINE records == Append(written, pending)
<1>1. /\ disturbed' = disturbed /\ runs' = runs /\ chunk' = chunk /\ start' = start + FanIn
      /\ merged' = Append(merged, RunAt(End(merged), records))
    BY DEF CloseGroup, mergeUnchanged, historyVars
<1>2. /\ RunsTyped(merged) /\ RunsTyped(runs)
      /\ records \in Seq(Record) /\ Len(records) > 0
      /\ \A i \in DOMAIN cursors : /\ start + i - 1 \in DOMAIN runs
                                   /\ start + i - 1 < start + FanIn
                                   /\ start <= start + i - 1
      /\ \A s : (\A i \in DOMAIN cursors : Apart(runs[start + i - 1].checksum, s)) =>
                   Apart(records, s)
    BY GroupRecords
<1> HIDE DEF records
<1>3. CASE disturbed # "nothing"
    BY <1>1, <1>3 DEF Once
<1>4. CASE disturbed = "nothing"
  <2>1. /\ ~ClashIn(chunk) /\ \A i \in DOMAIN runs : Apart(chunk, runs[i].checksum)
        /\ ApartFrom(runs, start) /\ ApartFrom(merged, 1)
        /\ \A i \in DOMAIN merged : \A j \in DOMAIN runs :
             start <= j => Apart(merged[i].checksum, runs[j].checksum)
      BY <1>4 DEF Once
  <2>2. /\ \A i \in DOMAIN merged : merged[i].checksum \in Seq(Record)
        /\ \A j \in DOMAIN runs : runs[j].checksum \in Seq(Record)
        /\ DOMAIN runs = 1 .. Len(runs) /\ Len(runs) \in Nat
      BY <1>2, RunsFacts
  <2>3. start \in Nat \ {0} /\ FanIn \in Nat
      BY InventoryAssumption DEF Shape, Constant
  <2>4. ASSUME NEW j \in DOMAIN runs, start + FanIn <= j
        PROVE  Apart(records, runs[j].checksum)
    <3>1. ASSUME NEW i \in DOMAIN cursors
          PROVE  Apart(runs[start + i - 1].checksum, runs[j].checksum)
      <4> DEFINE q == start + i - 1
      <4>1. q \in DOMAIN runs /\ q < start + FanIn /\ start <= q
          BY <1>2
      <4> HIDE DEF q
      <4>2. q < j
        <5>1. q \in Int /\ j \in Int
            BY <2>2, <4>1
        <5> QED
            BY <2>3, <2>4, <4>1, <5>1
      <4>3. Apart(runs[q].checksum, runs[j].checksum)
          BY <2>1, <4>1, <4>2 DEF ApartFrom
      <4> QED
          BY <4>3 DEF q
    <3> QED
        BY <1>2, <3>1
  <2>5. ASSUME NEW p \in DOMAIN merged PROVE Apart(merged[p].checksum, records)
    <3>1. ASSUME NEW i \in DOMAIN cursors
          PROVE  Apart(runs[start + i - 1].checksum, merged[p].checksum)
      <4> DEFINE q == start + i - 1
      <4>1. q \in DOMAIN runs /\ start <= q
          BY <1>2
      <4> HIDE DEF q
      <4>2. Apart(merged[p].checksum, runs[q].checksum)
          BY <2>1, <4>1
      <4>3. Apart(runs[q].checksum, merged[p].checksum)
          BY <2>2, <4>1, <4>2, ApartMeaning
      <4> QED
          BY <4>3 DEF q
    <3>2. Apart(records, merged[p].checksum)
        BY <1>2, <3>1
    <3> QED
        BY <1>2, <2>2, <3>2, ApartMeaning
  <2>6. /\ ApartFrom(merged', 1)
        /\ DOMAIN merged' = 1 .. Len(merged) + 1
        /\ \A i \in 1 .. Len(merged) : merged'[i] = merged[i]
        /\ merged'[Len(merged) + 1].checksum = records
        /\ DOMAIN merged = 1 .. Len(merged) /\ Len(merged) \in Nat
    <3>1. ApartFrom(merged', 1)
        BY <1>1, <1>2, <2>1, <2>5, AppendApart
    <3>2. /\ DOMAIN merged' = 1 .. Len(merged) + 1
          /\ \A i \in 1 .. Len(merged) : merged'[i] = merged[i]
          /\ merged'[Len(merged) + 1] = RunAt(End(merged), records)
        BY <1>1, <1>2, AppendRun
    <3>3. RunAt(End(merged), records).checksum = records
        BY DEF RunAt
    <3> QED
        BY <1>2, <3>1, <3>2, <3>3, RunsFacts
  <2>7. ASSUME NEW i \in DOMAIN merged', NEW j \in DOMAIN runs, start + FanIn <= j
        PROVE  Apart(merged'[i].checksum, runs[j].checksum)
    <3>1. CASE i \in 1 .. Len(merged)
      <4>1. start <= j
          BY <2>2, <2>3, <2>7
      <4> QED
          BY <2>1, <2>6, <3>1, <4>1
    <3>2. CASE i = Len(merged) + 1
        BY <2>4, <2>6, <2>7, <3>2
    <3> QED
        BY <2>6, <3>1, <3>2
  <2>8. ApartFrom(runs, start + FanIn)
    <3> SUFFICES ASSUME NEW i \in DOMAIN runs, NEW j \in DOMAIN runs, start + FanIn <= i, i < j
                 PROVE  Apart(runs[i].checksum, runs[j].checksum)
        BY DEF ApartFrom
    <3>1. start <= i
        BY <2>2, <2>3
    <3> QED
        BY <2>1, <3>1 DEF ApartFrom
  <2> QED
      BY <1>1, <2>1, <2>6, <2>7, <2>8 DEF Once
<1> QED
    BY <1>3, <1>4

LEMMA UndisturbedEndPass == ASSUME Shape, Kept, Once, EndPass PROVE Kept' /\ Once'
<1>1. /\ state = "merging" /\ state' = state /\ disturbed' = disturbed /\ chunk' = chunk
      /\ runs' = merged /\ source' = 1 - source /\ start' = 1 /\ merged' = <<>>
      /\ slots' = slots /\ cursors' = cursors /\ pending' = pending /\ written' = written
      /\ start > Len(runs)
    BY DEF EndPass, Target, historyVars
<1>2. chunk = <<>> /\ cursors = <<>> /\ pending = None /\ written = <<>> /\ state' \notin OneRun
  <2>1. start \in Nat /\ Len(runs) \in Nat
      BY RunsFacts DEF Shape, Constant, Filed
  <2> QED
      BY <1>1, <2>1 DEF Shape, Phased, Opened, Scanned, OneRun
<1>3. CASE disturbed # "nothing"
    BY <1>1, <1>3 DEF Kept, Once
<1>4. CASE disturbed = "nothing"
  <2>1. Sorted(merged) /\ Stored(merged, slots[1 - source]) /\ ApartFrom(merged, 1)
      BY <1>4 DEF Kept, Once
  <2>2. Sorted(runs') /\ Stored(runs', slots'[source']) /\ ApartFrom(runs', start')
      BY <1>1, <2>1
  <2>3. /\ Sorted(merged') /\ Stored(merged', slots'[1 - source']) /\ Ascending(written')
        /\ ApartFrom(merged', 1) /\ ~ClashIn(chunk')
        /\ \A i \in DOMAIN runs' : Apart(chunk', runs'[i].checksum)
      BY <1>1, <1>2, NoneApart
  <2>4. DOMAIN written' = {} /\ DOMAIN cursors' = {} /\ DOMAIN merged' = {}
      BY <1>1, <1>2, SequenceFacts
  <2>5. Kept'
      BY <1>1, <1>2, <2>2, <2>3, <2>4 DEF Kept
  <2> QED
      BY <2>2, <2>3, <2>4, <2>5 DEF Once
<1> QED
    BY <1>3, <1>4

\* The next page is the next part of the one run.
LEMMA NextPage ==
  ASSUME Shape, Paged, Kept, disturbed = "nothing", state = "checking", Len(checked) < Count
  PROVE  LET page == PageOf(Len(pages) + 1) IN
         /\ page \in Seq(Record) /\ checked \o page \in Seq(Record)
         /\ runs # <<>> /\ Len(checked \o page) <= Count
         /\ \A x \in DOMAIN (checked \o page) : (checked \o page)[x] = runs[1].checksum[x]
         /\ \A j \in DOMAIN page : \E x \in DOMAIN runs[1].checksum : page[j] = runs[1].checksum[x]
<1> DEFINE l == Len(pages)
           k == l + 1
           page == PageOf(k)
           all == checked \o page
           sum == runs[1].checksum
<1>1. /\ pages \in Seq(Seq(Record)) /\ checked \in Seq(Record)
      /\ Len(checked) = IF l * PageRecords < Count THEN l * PageRecords ELSE Count
    BY DEF Paged, OneRun
<1>2. /\ Count \in Nat /\ RunsTyped(runs)
      /\ runs = <<>> => Count = 0
      /\ runs # <<>> => /\ Count = runs[1].records /\ sum \in Seq(Record)
                        /\ Len(sum) = Count /\ runs[1].offset = 0 /\ 1 \in DOMAIN runs
    BY CountFacts
<1>3. l \in Nat /\ Len(checked) \in Nat /\ PageRecords \in Nat \ {0}
    BY <1>1, SequenceFacts, InventoryAssumption
<1>4. runs # <<>>
    BY <1>2, <1>3
<1>5. Len(checked) = l * PageRecords
    BY <1>1
<1>6. k \in Nat \ {0} /\ k - 1 = l
    BY <1>3
<1>7. (k - 1) * PageRecords = Len(checked) /\ (k - 1) * PageRecords < Count
    BY <1>5, <1>6
<1> HIDE DEF k
<1>8. /\ page \in Seq(Record)
      /\ Len(page) = IF k * PageRecords < Count THEN PageRecords
                     ELSE Count - (k - 1) * PageRecords
      /\ \A j \in DOMAIN page : page[j] = slots[source][(k - 1) * PageRecords + j]
    BY <1>6, <1>7, PageFacts
<1> HIDE DEF page
<1>9. k * PageRecords = Len(checked) + PageRecords
    BY <1>3, <1>5, WholePages DEF k
<1>10. Len(page) \in Nat /\ DOMAIN page = 1 .. Len(page) /\ Len(checked) + Len(page) <= Count
  <2>1. Len(page) \in Nat /\ DOMAIN page = 1 .. Len(page)
      BY <1>8, SequenceFacts
  <2>2. Len(page) = IF Len(checked) + PageRecords < Count THEN PageRecords
                    ELSE Count - Len(checked)
      BY <1>7, <1>8, <1>9
  <2> QED
      BY <1>2, <1>3, <2>1, <2>2
<1>11. \A j \in 1 .. Len(page) : page[j] = sum[Len(checked) + j] /\ Len(checked) + j \in 1 .. Count
  <2> SUFFICES ASSUME NEW j \in 1 .. Len(page)
               PROVE  page[j] = sum[Len(checked) + j] /\ Len(checked) + j \in 1 .. Count
      OBVIOUS
  <2> DEFINE x == Len(checked) + j
  <2>1. x \in 1 .. Count
      BY <1>2, <1>3, <1>10
  <2>2. page[j] = slots[source][x]
      BY <1>7, <1>8, <1>10
  <2> HIDE DEF x
  <2>3. Stored(runs, slots[source])
      BY DEF Kept
  <2>4. 1 \in DOMAIN runs /\ x \in 1 .. runs[1].records /\ runs[1].offset + x = x
      BY <1>2, <1>4, <2>1
  <2>5. slots[source][runs[1].offset + x] = runs[1].checksum[x]
      BY ONLY <2>3, <2>4 DEF Stored
  <2> QED
      BY <2>1, <2>2, <2>4, <2>5 DEF x
<1>12. /\ all \in Seq(Record) /\ Len(all) = Len(checked) + Len(page)
       /\ \A i \in 1 .. Len(checked) : all[i] = checked[i]
       /\ \A i \in 1 .. Len(page) : all[Len(checked) + i] = page[i]
  <2>1. checked \in Seq(Record) /\ page \in Seq(Record)
      BY <1>1, <1>8
  <2>2. /\ checked \o page \in Seq(Record) /\ Len(checked \o page) = Len(checked) + Len(page)
        /\ \A i \in 1 .. Len(checked) : (checked \o page)[i] = checked[i]
        /\ \A i \in 1 .. Len(page) : (checked \o page)[Len(checked) + i] = page[i]
      BY ONLY <2>1, ConcatFacts
  <2> QED
      BY <2>2
<1> HIDE DEF all
<1>13. DOMAIN all = 1 .. Len(checked) + Len(page) /\ DOMAIN checked = 1 .. Len(checked)
    BY <1>1, <1>12, SequenceFacts
<1>14. \A x \in DOMAIN checked : checked[x] = sum[x]
    BY <1>4 DEF Kept, OneRun
<1>15. ASSUME NEW x \in DOMAIN all PROVE all[x] = sum[x]
  <2>1. CASE x \in 1 .. Len(checked)
      BY <1>12, <1>13, <1>14, <2>1
  <2>2. CASE x \notin 1 .. Len(checked)
    <3> DEFINE j == x - Len(checked)
    <3>1. j \in 1 .. Len(page) /\ Len(checked) + j = x
        BY <1>3, <1>10, <1>13, <2>2
    <3> HIDE DEF j
    <3>2. all[Len(checked) + j] = page[j] /\ page[j] = sum[Len(checked) + j]
        BY <1>11, <1>12, <3>1
    <3> QED
        BY <3>1, <3>2
  <2> QED
      BY <2>1, <2>2
<1>16. DOMAIN sum = 1 .. Count
    BY <1>2, <1>4, SequenceFacts
<1>17. \A j \in DOMAIN page : \E x \in DOMAIN sum : page[j] = sum[x]
    BY <1>10, <1>11, <1>16
<1>18. Len(all) <= Count
    BY <1>10, <1>12
<1> QED
    BY <1>4, <1>8, <1>12, <1>15, <1>17, <1>18 DEF all, page, k

LEMMA KeptCheckPage == ASSUME Shape, Paged, Kept, CheckPage PROVE Kept'
<1>1. /\ state = "checking" /\ Len(checked) < Count /\ state' = state /\ disturbed' = disturbed
      /\ checked' = checked \o PageOf(Len(pages) + 1)
      /\ slots' = slots /\ source' = source /\ runs' = runs /\ merged' = merged
      /\ written' = written /\ cursors' = cursors /\ pending' = pending
    BY DEF CheckPage, passVars, historyVars
<1>2. CASE disturbed # "nothing"
    BY <1>1, <1>2 DEF Kept
<1>3. CASE disturbed = "nothing"
  <2>1. \A x \in DOMAIN checked' : checked'[x] = runs'[1].checksum[x]
      BY <1>1, <1>3, NextPage
  <2>2. Heads' = Heads
      BY <1>1 DEF Heads
  <2> QED
      BY <1>1, <1>3, <2>1, <2>2 DEF Kept
<1> QED
    BY <1>2, <1>3

LEMMA UndisturbedRest ==
  ASSUME Shape, Kept, Once,
         \/ EndListing \/ BeginCheck \/ CheckEnds \/ LoadPage \/ NextRecord \/ NextEnds
         \/ PushClashes \/ LastClashes \/ MergeFails \/ CheckFails \/ PageChanged
         \/ Interrupt \/ Decay \/ UNCHANGED vars
  PROVE  Kept' /\ Once'
<1>1. CASE Interrupt \/ Decay
    BY <1>1 DEF Interrupt, Decay, Kept, Once
<1>2. CASE ~(Interrupt \/ Decay)
  <2>1. /\ disturbed' = disturbed /\ chunk' = chunk /\ start' = start /\ slots' = slots
        /\ source' = source /\ runs' = runs /\ merged' = merged /\ written' = written
        /\ cursors' = cursors /\ pending' = pending /\ checked' = checked
      BY <1>2 DEF EndListing, BeginCheck, CheckEnds, LoadPage, NextRecord, NextEnds,
                  PushClashes, LastClashes, MergeFails, CheckFails, PageChanged, Fail, vars,
                  passVars, readVars, historyVars
  <2>2. state' \in OneRun => state \in OneRun \/ checked = <<>>
    <3>1. CASE BeginCheck
      <4>1. state = "merging"
          BY <3>1 DEF BeginCheck, Goto
      <4> QED
          BY <4>1 DEF Shape, Phased
    <3>2. CASE ~BeginCheck
        BY <1>2, <3>2 DEF EndListing, CheckEnds, LoadPage, NextRecord, NextEnds, PushClashes,
                  LastClashes, MergeFails, CheckFails, PageChanged, Fail, Goto, vars, OneRun
    <3> QED
        BY <3>1, <3>2
  <2>3. checked = <<>> => DOMAIN checked = {}
      BY SequenceFacts
  <2>4. Heads' = Heads
      BY <2>1 DEF Heads
  <2>5. Once'
      BY <2>1 DEF Once
  <2>6. Kept'
      BY <2>1, <2>2, <2>3, <2>4 DEF Kept
  <2> QED
      BY <2>5, <2>6
<1> QED
    BY <1>1, <1>2

LEMMA UndisturbedStep ==
  Shape /\ Carried /\ Paged /\ Kept /\ Once /\ [Next]_vars => Kept' /\ Once'
<1> SUFFICES ASSUME Shape, Carried, Paged, Kept, Once, [Next]_vars PROVE Kept' /\ Once'
    OBVIOUS
<1>1. CASE OpenGroup \/ MergeRecord
    BY <1>1, OnceMerging, KeptOpenGroup, KeptMergeRecord
<1>2. CASE CloseGroup
    BY <1>2, KeptCloseGroup, OnceCloseGroup
<1>3. CASE CheckPage
  <2>1. Once'
      BY <1>3 DEF CheckPage, passVars, historyVars, Once
  <2> QED
      BY <1>3, <2>1, KeptCheckPage
<1>4. CASE EndPass \/ FlushLast
    BY <1>4, UndisturbedEndPass, UndisturbedFlush
<1>5. CASE PushName \/ PushNameAgain \/ PushReference
    BY <1>5, UndisturbedPush
<1>6. CASE \/ EndListing \/ BeginCheck \/ CheckEnds \/ LoadPage \/ NextRecord \/ NextEnds
           \/ PushClashes \/ LastClashes \/ MergeFails \/ CheckFails \/ PageChanged
           \/ Interrupt \/ Decay \/ UNCHANGED vars
    BY <1>6, UndisturbedRest
<1> QED
    BY <1>1, <1>2, <1>3, <1>4, <1>5, <1>6
    DEF Next, Building, Merging, Checking, Offering, Done

\* Sequences are equal when they agree everywhere.
LEMMA SameSequence ==
  ASSUME NEW S, NEW s \in Seq(S), NEW t \in Seq(S), Len(s) = Len(t),
         \A i \in DOMAIN s : s[i] = t[i]
  PROVE  s = t
    OBVIOUS

\* A cursor of the open group reads a run of the source.
LEMMA CursorRun ==
  ASSUME Shape, MergePass, NEW i \in DOMAIN cursors
  PROVE  /\ CursorTyped(cursors[i]) /\ i \in Nat
         /\ start + i - 1 \in DOMAIN runs /\ cursors[i].run = runs[start + i - 1]
         /\ start <= start + i - 1
<1>1. /\ start \in Nat \ {0} /\ DOMAIN runs = 1 .. Len(runs) /\ Len(runs) \in Nat
      /\ start <= Len(runs)
    BY RunsFacts DEF Shape, Constant, Filed, MergePass
<1>2. DOMAIN cursors = 1 .. Len(cursors) /\ Len(cursors) \in Nat
  <2>1. cursors \in Seq(Cursor)
      BY DEF Shape, Opened, Cursor
  <2> QED
      BY <2>1, SequenceFacts
<1>3. Len(cursors) = GroupEnd - start + 1
  <2>1. cursors # <<>>
      BY <1>2, SequenceFacts
  <2> QED
      BY <2>1 DEF Shape, Opened
<1>4. GroupEnd \in start .. Len(runs)
    BY <1>1, GroupFacts
<1>5. GroupEnd \in Nat /\ GroupEnd <= Len(runs)
    BY <1>1, <1>4
<1>6. i \in Nat \ {0} /\ i <= GroupEnd - start + 1
    BY <1>2, <1>3
<1>7. start + i - 1 \in 1 .. Len(runs) /\ start <= start + i - 1
    BY <1>1, <1>5, <1>6
<1>8. CursorTyped(cursors[i]) /\ cursors[i].run = runs[start + i - 1]
    BY DEF Shape, Opened
<1> QED
    BY <1>1, <1>6, <1>7, <1>8

\* Undisturbed, a cursor reads its run in order and to its end.
LEMMA ReadsWell ==
  ASSUME Shape, Kept, disturbed = "nothing", MergePass, NEW i \in Heads
  PROVE  ~Misread(cursors[i])
<1> DEFINE c == cursors[i]
           k == start + i - 1
           sum == runs[k].checksum
<1>1. /\ CursorTyped(c) /\ k \in DOMAIN runs /\ c.run = runs[k]
      /\ c.head # None
    BY CursorRun DEF Heads
<1>2. /\ \A x \in DOMAIN c.seen : c.seen[x] = c.run.checksum[x]
      /\ Stored(runs, slots[source]) /\ Ascending(sum)
    BY <1>1 DEF Kept, Heads, Sorted
<1> HIDE DEF c, k
<1>3. /\ sum \in Seq(Record) /\ runs[k].records = Len(sum) /\ runs[k].records \in Nat \ {0}
      /\ runs[k].offset \in Nat
    BY <1>1, RunsFacts DEF Shape, Filed
<1>4. /\ c.seen \in Seq(Record) /\ c.read = Len(c.seen) /\ c.read \in Nat \ {0}
      /\ c.read <= c.run.records /\ c \in Cursor
    BY <1>1 DEF CursorTyped, Cursor
<1> HIDE DEF sum
<1>5. c.run.checksum = sum
    BY <1>1 DEF sum
<1>6. CASE Exhausted(c)
  <2>1. Len(c.seen) = Len(sum)
      BY <1>1, <1>3, <1>4, <1>6 DEF Exhausted
  <2>2. \A x \in DOMAIN c.seen : c.seen[x] = sum[x]
      BY <1>2, <1>5
  <2>3. c.seen = sum
      BY ONLY <1>3, <1>4, <2>1, <2>2, SameSequence
  <2> QED
      BY <1>5, <1>6, <2>3 DEF Misread, c
<1>7. CASE ~Exhausted(c)
  <2>1. c.read + 1 \in 1 .. runs[k].records /\ c.read # c.run.records
      BY <1>1, <1>3, <1>4, <1>7 DEF Exhausted
  <2>2. Advanced(c).head = slots[source][c.run.offset + c.read + 1]
      BY <1>1, <1>4, <1>7, AdvancedFacts DEF Shape
  <2>3. c.run.offset + c.read + 1 = runs[k].offset + (c.read + 1)
    <3> DEFINE o == runs[k].offset
               e == c.read
    <3>1. c.run.offset = o /\ o \in Nat /\ e \in Nat
        BY <1>1, <1>3, <1>4
    <3> HIDE DEF o, e
    <3>2. o + e + 1 = o + (e + 1)
        BY <3>1
    <3> QED
        BY <3>1, <3>2 DEF o, e
  <2>4. slots[source][runs[k].offset + (c.read + 1)] = sum[c.read + 1]
      BY <1>1, <1>2, <2>1 DEF Stored, sum
  <2>5. Advanced(c).head = sum[c.read + 1]
      BY <2>2, <2>3, <2>4
  <2>6. Last(c.seen) = sum[c.read]
    <3>1. c.read \in DOMAIN c.seen
        BY <1>4, SequenceFacts
    <3> QED
        BY <1>2, <1>4, <1>5, <3>1 DEF Last
  <2>7. DOMAIN sum = 1 .. runs[k].records
      BY <1>3, SequenceFacts
  <2>8. c.read \in DOMAIN sum /\ c.read + 1 \in DOMAIN sum
      BY <1>3, <1>4, <2>1, <2>7
  <2>9. sum[c.read].id < sum[c.read + 1].id
      BY <1>2, <1>4, <2>8 DEF Ascending
  <2>10. sum[c.read].id \in Int /\ sum[c.read + 1].id \in Int
    <3>1. sum[c.read] \in Record /\ sum[c.read + 1] \in Record
        BY <1>3, <2>8, SequenceFacts
    <3> QED
        BY <3>1, RecordFacts DEF Object
  <2>11. ~(Last(c.seen).id >= Advanced(c).head.id)
      BY <2>5, <2>6, <2>9, <2>10
  <2> QED
      BY <1>7, <2>11 DEF Misread, c
<1> QED
    BY <1>6, <1>7

\* Undisturbed, no two records of a group name one object.
LEMMA MergesWell ==
  ASSUME Shape, Carried, Kept, Once, disturbed = "nothing"
  PROVE  ~MergeFails
<1> SUFFICES ASSUME MergeFails PROVE FALSE
    OBVIOUS
<1> DEFINE c == cursors[Least]
           k == start + Least - 1
<1>1. MergePass /\ Heads # {} /\ ((Folds(c.head) /\ Clash(pending, c.head)) \/ Misread(c))
    BY DEF MergeFails
<1>2. Least \in Heads /\ Least \in DOMAIN cursors /\ c.head \in Record
    BY <1>1, LeastFacts DEF Shape
<1>3. ~Misread(c)
    BY <1>1, <1>2, ReadsWell
<1>4. pending # None /\ pending.id = c.head.id /\ pending.name /\ c.head.name
    BY <1>1, <1>3 DEF Folds, Clash
<1>5. <<c.head.id, "name">> \in TakenMarks
  <2>1. <<c.head.id, "name">> \in MarksOf(pending)
      BY <1>4 DEF MarksOf
  <2> QED
      BY <1>1, <2>1 DEF Carried, MergePass
<1>6. PICK i \in DOMAIN cursors : <<c.head.id, "name">> \in TakenOf(cursors[i])
    BY <1>5 DEF TakenMarks
<1>7. PICK x \in 1 .. Taken(cursors[i]) : <<c.head.id, "name">> \in MarksOf(cursors[i].seen[x])
    BY <1>6 DEF TakenOf
<1>8. cursors[i].seen[x].id = c.head.id /\ cursors[i].seen[x].name
    BY <1>7 DEF MarksOf
<1> DEFINE q == start + i - 1
<1>9. /\ CursorTyped(cursors[i]) /\ q \in DOMAIN runs /\ cursors[i].run = runs[q] /\ start <= q
      /\ i \in Nat
    BY <1>1, CursorRun
<1>10. /\ CursorTyped(c) /\ k \in DOMAIN runs /\ c.run = runs[k] /\ start <= k
       /\ Least \in Nat /\ c.head # None
    BY <1>1, <1>2, CursorRun DEF Heads
<1>11. /\ c.seen \in Seq(Record) /\ c.head = c.seen[Len(c.seen)] /\ c.read = Len(c.seen)
       /\ Len(c.seen) \in Nat \ {0} /\ c.read <= c.run.records
    BY <1>10, SequenceFacts DEF CursorTyped
<1>12. /\ cursors[i].seen \in Seq(Record) /\ Len(cursors[i].seen) \in Nat
       /\ DOMAIN cursors[i].seen = 1 .. Len(cursors[i].seen)
       /\ Taken(cursors[i]) <= Len(cursors[i].seen) /\ Taken(cursors[i]) \in Int
       /\ cursors[i].read = Len(cursors[i].seen) /\ cursors[i].read <= cursors[i].run.records
  <2>1. /\ cursors[i].seen \in Seq(Record) /\ cursors[i].read = Len(cursors[i].seen)
        /\ cursors[i].read <= cursors[i].run.records
      BY <1>9 DEF CursorTyped
  <2>2. Len(cursors[i].seen) \in Nat /\ DOMAIN cursors[i].seen = 1 .. Len(cursors[i].seen)
      BY <2>1, SequenceFacts
  <2> QED
      BY <2>1, <2>2 DEF Taken
<1>13. x \in DOMAIN cursors[i].seen /\ x \in Nat
    BY <1>12
<1>14. \A j \in DOMAIN cursors : \A y \in DOMAIN cursors[j].seen :
         cursors[j].seen[y] = cursors[j].run.checksum[y]
    BY DEF Kept
<1>15. RunsTyped(runs)
    BY DEF Shape, Filed
<1> HIDE DEF c, k, q
<1>16. runs[q].checksum[x] = cursors[i].seen[x] /\ x \in DOMAIN runs[q].checksum
  <2>1. cursors[i].seen[x] = cursors[i].run.checksum[x]
      BY <1>13, <1>14
  <2>2. /\ runs[q].checksum \in Seq(Record) /\ runs[q].records = Len(runs[q].checksum)
        /\ runs[q].records \in Nat
      BY <1>9, <1>15, RunsFacts
  <2>3. DOMAIN runs[q].checksum = 1 .. runs[q].records
      BY <2>2, SequenceFacts
  <2> QED
      BY <1>9, <1>12, <1>13, <2>1, <2>2, <2>3
<1>17. /\ runs[k].checksum[Len(c.seen)] = c.head
       /\ Len(c.seen) \in DOMAIN runs[k].checksum
  <2>1. c.seen[Len(c.seen)] = c.run.checksum[Len(c.seen)]
    <3>1. Len(c.seen) \in DOMAIN c.seen
        BY <1>11, SequenceFacts
    <3> QED
        BY <1>2, <1>14, <3>1 DEF c
  <2>2. /\ runs[k].checksum \in Seq(Record) /\ runs[k].records = Len(runs[k].checksum)
        /\ runs[k].records \in Nat
      BY <1>10, <1>15, RunsFacts
  <2>3. DOMAIN runs[k].checksum = 1 .. runs[k].records
      BY <2>2, SequenceFacts
  <2> QED
      BY <1>10, <1>11, <2>1, <2>2, <2>3
<1>18. /\ runs[q].checksum \in Seq(Record) /\ runs[k].checksum \in Seq(Record)
       /\ Ascending(runs[k].checksum)
    BY <1>9, <1>10, <1>15, RunsFacts DEF Kept, Sorted
<1>19. CASE i # Least
  <2>1. q # k /\ q \in Int /\ k \in Int
    <3>1. start \in Nat /\ i \in Nat /\ Least \in Nat
        BY <1>9, <1>10 DEF Shape, Constant
    <3> HIDE DEF Heads
    <3> DEFINE j == Least
    <3>2. j \in Nat /\ i # j
        BY <1>19, <3>1
    <3> HIDE DEF j
    <3>3. start + i - 1 # start + j - 1 /\ start + i - 1 \in Int /\ start + j - 1 \in Int
        BY <3>1, <3>2
    <3> QED
        BY <3>3 DEF q, k, j
  <2>2. q < k \/ k < q
      BY <2>1
  <2>3. Apart(runs[q].checksum, runs[k].checksum)
    <3>1. ApartFrom(runs, start)
        BY DEF Once
    <3>2. Apart(runs[q].checksum, runs[k].checksum) \/ Apart(runs[k].checksum, runs[q].checksum)
        BY <1>9, <1>10, <2>2, <3>1 DEF ApartFrom
    <3> QED
        BY <1>18, <3>2, ApartMeaning
  <2>4. ~(/\ runs[q].checksum[x].name /\ runs[k].checksum[Len(c.seen)].name
          /\ runs[q].checksum[x].id = runs[k].checksum[Len(c.seen)].id)
      BY ONLY <1>16, <1>17, <1>18, <2>3, ApartMeaning
  <2> QED
      BY <1>4, <1>8, <1>16, <1>17, <2>4
<1>20. CASE i = Least
  <2>1. c = cursors[i] /\ q = k
      BY <1>20 DEF c, q, k
  <2>2. Taken(cursors[i]) = Len(c.seen) - 1
      BY <1>10, <2>1 DEF Taken
  <2>3. x < Len(c.seen)
      BY <1>11, <1>13, <2>2
  <2>4. x \in DOMAIN runs[k].checksum /\ runs[k].checksum[x] = cursors[i].seen[x]
      BY <1>16, <2>1
  <2>5. runs[k].checksum[x].id < runs[k].checksum[Len(c.seen)].id
      BY <1>17, <1>18, <2>3, <2>4 DEF Ascending
  <2>6. c.head.id < c.head.id
      BY <1>8, <1>17, <2>4, <2>5
  <2>7. c.head.id \in Int
      BY <1>2, RecordFacts DEF Object, c
  <2> QED
      BY <2>6, <2>7
<1> QED
    BY <1>19, <1>20

\* The one run of an undisturbed inventory has every record its name.
LEMMA ChecksWell ==
  ASSUME Shape, Carried, Paged, Kept, disturbed = "nothing", protected \subseteq names
  PROVE  ~CheckFails
<1> SUFFICES ASSUME CheckFails PROVE FALSE
    OBVIOUS
<1> DEFINE sum == runs[1].checksum
           page == PageOf(Len(pages) + 1)
<1>1. /\ state = "checking"
      /\ Len(checked) < Count => ~Ascending(checked \o page) \/ Missing(page)
      /\ ~(Len(checked) < Count) => ChecksumDiffers
    BY DEF CheckFails
<1>2. /\ Count \in Nat /\ RunsTyped(runs)
      /\ runs = <<>> => Count = 0
      /\ runs # <<>> => /\ Count = runs[1].records /\ sum \in Seq(Record)
                        /\ Len(sum) = Count /\ 1 \in DOMAIN runs
    BY CountFacts
<1>3. /\ checked \in Seq(Record) /\ Len(checked) \in Nat
      /\ Len(checked) = IF Len(pages) * PageRecords < Count THEN Len(pages) * PageRecords
                        ELSE Count
    BY <1>1, SequenceFacts DEF Paged, OneRun
<1>4. /\ runs # <<>> => Ascending(sum) /\ \A x \in DOMAIN checked : checked[x] = sum[x]
    BY <1>1, <1>2 DEF Kept, Sorted, OneRun
<1>5. CASE Len(checked) < Count
  <2>1. /\ page \in Seq(Record) /\ checked \o page \in Seq(Record)
        /\ runs # <<>> /\ Len(checked \o page) <= Count
        /\ \A x \in DOMAIN (checked \o page) : (checked \o page)[x] = sum[x]
        /\ \A j \in DOMAIN page : \E x \in DOMAIN sum : page[j] = sum[x]
      BY <1>1, <1>5, NextPage
  <2> DEFINE all == checked \o page
  <2> HIDE DEF all, page
  <2>2. Ascending(all)
    <3>1. /\ DOMAIN all = 1 .. Len(all) /\ Len(all) \in Nat /\ DOMAIN sum = 1 .. Count
          /\ Len(all) <= Count /\ \A x \in DOMAIN all : all[x] = sum[x]
        BY <1>2, <2>1, SequenceFacts DEF all
    <3>2. \A x \in DOMAIN all : x \in DOMAIN sum
        BY <1>2, <3>1
    <3>3. Ascending(sum)
        BY <1>4, <2>1
    <3> HIDE DEF sum
    <3> QED
        BY <3>1, <3>2, <3>3 DEF Ascending
  <2>3. ~Missing(page)
    <3> SUFFICES ASSUME Missing(page) PROVE FALSE
        OBVIOUS
    <3>1. PICK j \in DOMAIN page : ~page[j].name
        BY <2>1, MissingFacts
    <3>2. PICK x \in DOMAIN sum : page[j] = sum[x]
        BY <2>1
    <3>3. sum \in Seq(Record) /\ sum[x] \in Record
        BY <1>2, <2>1, SequenceFacts
    <3>4. sum[x].ref /\ ~sum[x].name
        BY <3>1, <3>2, <3>3, RecordFacts
    <3>5. Marks(sum) = Given
      <4>1. Len(runs) \in Nat /\ DOMAIN runs = 1 .. Len(runs) /\ Len(runs) <= 1
          BY <1>1, <1>2, RunsFacts DEF Shape, Phased, OneRun
      <4>2. {j1 \in DOMAIN runs : 1 <= j1} = {1}
          BY <1>2, <2>1, <4>1
      <4>3. RunMarks(runs, 1) = Given
          BY <1>1 DEF Carried, OneRun
      <4> QED
          BY <4>2, <4>3 DEF RunMarks
    <3>6. listed = names /\ walked = protected
        BY <1>1 DEF Shape, Phased, Scanned
    <3>7. <<sum[x].id, "ref">> \in Given
        BY <3>3, <3>4, <3>5, MarkOfRecord
    <3>8. <<sum[x].id, "name">> \in Given
        BY <3>6, <3>7 DEF Given
    <3>9. PICK y \in DOMAIN sum : sum[y].id = sum[x].id /\ sum[y].name
        BY <3>3, <3>5, <3>8, MarkOfRecord
    <3>10. x # y /\ x \in Int /\ y \in Int
      <4>1. DOMAIN sum = 1 .. Len(sum) /\ Len(sum) \in Nat
          BY <3>3, SequenceFacts
      <4> QED
          BY <3>4, <3>9, <4>1
    <3>11. sum[x].id < sum[y].id \/ sum[y].id < sum[x].id
      <4>1. x < y \/ y < x
          BY <3>10
      <4>2. Ascending(sum)
          BY <1>4, <2>1
      <4> HIDE DEF sum
      <4> QED
          BY <4>1, <4>2 DEF Ascending
    <3>12. sum[x].id \in Int
        BY <3>3, RecordFacts DEF Object
    <3> QED
        BY <3>9, <3>11, <3>12
  <2> QED
      BY <1>1, <1>5, <2>2, <2>3 DEF all
<1>6. CASE ~(Len(checked) < Count)
  <2>1. runs # <<>> /\ checked # sum
      BY <1>1, <1>6 DEF ChecksumDiffers
  <2>2. Len(checked) = Len(sum)
      BY <1>2, <1>3, <1>6, <2>1
  <2>3. sum \in Seq(Record) /\ \A x \in DOMAIN checked : checked[x] = sum[x]
      BY <1>2, <1>4, <2>1
  <2> HIDE DEF sum
  <2>4. checked = sum
      BY ONLY <1>3, <2>2, <2>3, SameSequence
  <2> QED
      BY <2>1, <2>4
<1> QED
    BY <1>5, <1>6

\* A page of an undisturbed file is the one that was checked.
LEMMA PagesStay ==
  ASSUME Shape, Paged, Read, Kept, disturbed = "nothing"
  PROVE  ~PageChanged
<1> SUFFICES ASSUME PageChanged PROVE FALSE
    OBVIOUS
<1> DEFINE p == Page(at)
           l == Len(pages)
<1>1. state = "ready" /\ at <= Count /\ PageOf(p) # pages[p]
    BY DEF PageChanged, SamePage
<1>2. /\ at \in Nat \ {0} /\ Count \in Nat /\ RunsTyped(runs)
      /\ runs = <<>> => Count = 0
      /\ runs # <<>> => /\ Count = runs[1].records /\ runs[1].checksum \in Seq(Record)
                        /\ Len(runs[1].checksum) = Count /\ runs[1].offset = 0
                        /\ 1 \in DOMAIN runs
    BY CountFacts DEF Shape, Constant
<1>3. /\ Len(checked) = Count /\ pages \in Seq(Seq(Record))
      /\ Len(checked) = IF l * PageRecords < Count THEN l * PageRecords ELSE Count
      /\ \A i \in DOMAIN pages :
           /\ Len(pages[i]) = IF i * PageRecords < Count THEN PageRecords
                              ELSE Count - (i - 1) * PageRecords
           /\ \A j \in DOMAIN pages[i] : pages[i][j] = checked[(i - 1) * PageRecords + j]
      /\ runs # <<>> => checked = runs[1].checksum
    BY <1>1 DEF Read, Paged, OneRun
<1>4. /\ p \in Nat \ {0}
      /\ \E m \in 1 .. PageRecords : (p - 1) * PageRecords + m = at
    BY <1>2, PlaceFacts
<1>5. l \in Nat /\ DOMAIN pages = 1 .. l /\ PageRecords \in Nat \ {0}
    BY <1>3, SequenceFacts, InventoryAssumption
<1> HIDE DEF p
<1>6. (p - 1) * PageRecords \in Nat /\ (p - 1) * PageRecords < Count
  <2>1. (p - 1) * PageRecords \in Nat
      BY <1>4, <1>5, WholePages
  <2> DEFINE b == (p - 1) * PageRecords
  <2>2. b \in Nat /\ \E m \in 1 .. PageRecords : b + m = at
      BY <1>4, <2>1
  <2> HIDE DEF b
  <2>3. b < Count
      BY <1>1, <1>2, <1>5, <2>2
  <2> QED
      BY <2>2, <2>3 DEF b
<1>7. p <= l
  <2> SUFFICES ASSUME l <= p - 1 PROVE FALSE
      BY <1>4, <1>5
  <2>1. p - 1 \in Nat
      BY <1>4
  <2>2. /\ l * PageRecords <= (p - 1) * PageRecords
        /\ l * PageRecords \in Nat
      BY <1>5, <2>1, WholePages
  <2> DEFINE a == l * PageRecords
             b == (p - 1) * PageRecords
  <2>3. a <= b /\ a \in Nat /\ b \in Nat /\ ~(a < Count) /\ b < Count
      BY <1>2, <1>3, <1>6, <2>2
  <2> HIDE DEF a, b
  <2> QED
      BY <1>2, <2>3
<1>8. p \in DOMAIN pages /\ pages[p] \in Seq(Record)
  <2>1. p \in DOMAIN pages
      BY <1>4, <1>5, <1>7
  <2> QED
      BY <1>3, <2>1, SequenceFacts
<1>9. /\ PageOf(p) \in Seq(Record)
      /\ Len(PageOf(p)) = IF p * PageRecords < Count THEN PageRecords
                          ELSE Count - (p - 1) * PageRecords
      /\ \A j \in DOMAIN PageOf(p) : PageOf(p)[j] = slots[source][(p - 1) * PageRecords + j]
    BY <1>4, <1>6, PageFacts
<1>10. Len(PageOf(p)) = Len(pages[p])
  <2>1. Len(pages[p]) = IF p * PageRecords < Count THEN PageRecords
                        ELSE Count - (p - 1) * PageRecords
      BY <1>3, <1>8
  <2> QED
      BY ONLY <1>9, <2>1
<1>11. p * PageRecords = (p - 1) * PageRecords + PageRecords
  <2>1. p - 1 \in Nat /\ (p - 1) + 1 = p
      BY <1>4
  <2>2. ((p - 1) + 1) * PageRecords = (p - 1) * PageRecords + PageRecords
      BY ONLY <1>5, <2>1, WholePages
  <2> QED
      BY <2>1, <2>2
<1>12. ASSUME NEW j \in DOMAIN PageOf(p) PROVE PageOf(p)[j] = pages[p][j]
  <2> DEFINE b == (p - 1) * PageRecords
             x == b + j
  <2>1. DOMAIN PageOf(p) = 1 .. Len(PageOf(p)) /\ DOMAIN pages[p] = 1 .. Len(pages[p])
      BY <1>8, <1>9, SequenceFacts
  <2>2. Len(PageOf(p)) = IF b + PageRecords < Count THEN PageRecords ELSE Count - b
      BY <1>9, <1>11
  <2>3. pages[p][j] = checked[x] /\ PageOf(p)[j] = slots[source][x]
      BY <1>3, <1>8, <1>9, <1>10, <2>1
  <2>4. b \in Nat /\ b < Count
      BY <1>6
  <2> HIDE DEF b
  <2>5. x \in 1 .. Count
      BY <1>2, <1>5, <2>1, <2>2, <2>4
  <2> HIDE DEF x
  <2>6. runs # <<>>
      BY <1>2, <2>5
  <2>7. Stored(runs, slots[source])
      BY DEF Kept
  <2>8. 1 \in DOMAIN runs /\ x \in 1 .. runs[1].records /\ runs[1].offset + x = x
      BY <1>2, <2>5, <2>6
  <2>9. slots[source][runs[1].offset + x] = runs[1].checksum[x]
      BY ONLY <2>7, <2>8 DEF Stored
  <2> QED
      BY <1>3, <2>3, <2>6, <2>8, <2>9
<1>13. PageOf(p) = pages[p]
    BY ONLY <1>8, <1>9, <1>10, <1>12, SameSequence
<1> QED
    BY <1>1, <1>13

LEMMA FailsStep ==
  /\ Shape /\ Carried /\ Paged /\ Read /\ Kept /\ Once /\ FailsForCause /\ [Next]_vars
  => FailsForCause'
<1> SUFFICES ASSUME Shape, Carried, Paged, Read, Kept, Once, FailsForCause, [Next]_vars,
                    state' = "failed", disturbed' = "nothing", protected' \subseteq names'
             PROVE  FALSE
    BY DEF FailsForCause
<1>1. names' = names /\ protected' = protected
    BY DEF Next, Building, PushName, PushNameAgain, EndListing, PushReference, PushClashes,
           FlushLast, LastClashes, Goto, Fail, Merging, OpenGroup, MergeRecord, MergeFails,
           CloseGroup, EndPass, mergeUnchanged, Checking, BeginCheck, CheckPage, CheckEnds,
           CheckFails, Offering, LoadPage, PageChanged, NextRecord, NextEnds, Interrupt, Decay,
           Done, inputVars, pushUnchanged, vars
<1>2. CASE PushClashes \/ LastClashes \/ MergeFails \/ CheckFails \/ PageChanged
  <2>1. disturbed = "nothing"
      BY <1>2 DEF PushClashes, LastClashes, MergeFails, CheckFails, PageChanged, Fail,
                  historyVars
  <2>2. ~ClashIn(chunk)
      BY <2>1 DEF Once
  <2>3. ~PushClashes /\ ~LastClashes
      BY <2>2 DEF PushClashes, LastClashes
  <2>4. ~MergeFails
      BY <2>1, MergesWell
  <2>5. ~CheckFails
      BY <1>1, <2>1, ChecksWell
  <2>6. ~PageChanged
      BY <2>1, PagesStay
  <2> QED
      BY <1>2, <2>3, <2>4, <2>5, <2>6
<1>3. CASE UNCHANGED vars
    BY <1>3 DEF vars, inputVars, historyVars, FailsForCause
<1>4. CASE /\ ~(PushClashes \/ LastClashes \/ MergeFails \/ CheckFails \/ PageChanged)
           /\ ~UNCHANGED vars
    BY <1>4 DEF Next, Building, PushName, PushNameAgain, EndListing, PushReference, FlushLast,
           Goto, Merging, OpenGroup, MergeRecord, MergePass, CloseGroup, EndPass,
           mergeUnchanged, Checking, BeginCheck, CheckPage, CheckEnds, Offering, LoadPage,
           NextRecord, NextEnds, Interrupt, Decay, Done
<1> QED
    BY <1>2, <1>3, <1>4

\* Undisturbed, reclamation fails only for a referenced object that has no name:
\* no two runs name one object, every file still holds what was written to it,
\* and so no merge, checksum, order or page check can refuse anything else.
THEOREM FailsForCauseOnly == Spec => []FailsForCause
<1> DEFINE Inv == /\ Shape /\ Carried /\ Paged /\ Read /\ OnlyGarbageOffered
                  /\ Kept /\ Once /\ FailsForCause
<1>1. Init => Inv
  <2> SUFFICES ASSUME Init PROVE Inv
      OBVIOUS
  <2>1. /\ state = "listing" /\ offered = <<>> /\ chunk = <<>> /\ runs = <<>> /\ merged = <<>>
        /\ cursors = <<>> /\ written = <<>> /\ pending = None
      BY DEF Init
  <2>2. Paged /\ Read /\ FailsForCause
      BY <2>1 DEF Paged, Read, OneRun, FailsForCause
  <2>3. ToSet(offered) = {}
      BY <2>1 DEF ToSet
  <2>4. OnlyGarbageOffered
      BY <2>1, <2>3 DEF OnlyGarbageOffered
  <2>5. DOMAIN runs = {} /\ DOMAIN merged = {} /\ DOMAIN written = {} /\ DOMAIN cursors = {}
      BY <2>1, SequenceFacts
  <2>6. Kept
      BY <2>1, <2>5, NoneApart DEF Kept, OneRun
  <2>7. Once
      BY <2>1, <2>5, NoneApart DEF Once
  <2> QED
      BY <2>2, <2>4, <2>6, <2>7, ShapeInit, CarriedInit
<1>2. Inv /\ [Next]_vars => Inv'
    BY ShapeStep, CarriedStep, PagedStep, ReadStep, OfferedStep, UndisturbedStep, FailsStep
<1> QED
    BY <1>1, <1>2, PTL DEF Spec
=============================================================================
