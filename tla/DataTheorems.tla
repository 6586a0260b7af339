---------------------------- MODULE DataTheorems -----------------------------
(***************************************************************************)
(* Facts about the data several models share.                               *)
(*                                                                          *)
(* Sums over finite sets, for the accounts that add up what their owners    *)
(* hold.  A sum is defined by taking elements in an order CHOOSE fixes; what *)
(* is proved here does not depend on it.                                    *)
(*                                                                          *)
(* The order of rows, which sorting, grouping, joins and set operations     *)
(* compare by: that it is an order, and that it is the one a query asks for. *)
(*                                                                          *)
(* Folds are functions on the subsets of a finite set.  The induction over  *)
(* them is by a minimal counterexample: a set of subsets that is not empty  *)
(* has a member with no smaller one (MinimalSet), and a set of numbers up   *)
(* to a bound a least one (LeastIn).                                        *)
(***************************************************************************)
EXTENDS RowOrder, FiniteSetTheorems, WellFoundedInduction, TLAPS

-----------------------------------------------------------------------------
(* Sums over finite sets.                                                   *)

\* A set of subsets of a finite set has a minimal member.
LEMMA MinimalSet ==
  ASSUME NEW S, IsFiniteSet(S), NEW B \in SUBSET (SUBSET S), B # {}
  PROVE  \E T \in B : \A U \in B : U \subseteq T => U = T
<1>1. IsWellFoundedOn(StrictSubsetOrdering(S), SUBSET S)
    BY FS_StrictSubsetOrderingWellFounded, FS_FiniteSubsetsOfFinite
<1>2. PICK T \in B : \A U \in B : ~(<<U, T>> \in StrictSubsetOrdering(S))
    BY <1>1, WFMin
<1> QED
    BY <1>2 DEF StrictSubsetOrdering

\* The element a sum takes next, and the function that adds up f.
Next1(s) == CHOOSE x \in s : TRUE

Adds(g, f, S) ==
  g = [s \in SUBSET S |->
         IF s = {} THEN 0 ELSE f[Next1(s)] + g[s \ {Next1(s)}]]

\* Both ways the modules write a sum are that function's value.
LEMMA SumDefined ==
  ASSUME NEW f, NEW S
  PROVE  /\ SumFunctionOnSet(f, S) = (CHOOSE g : Adds(g, f, S))[S]
         /\ MapThenSumSet(LAMBDA x : f[x], S) = (CHOOSE g : Adds(g, f, S))[S]
BY DEF SumFunctionOnSet, FoldFunctionOnSet, MapThenSumSet, MapThenFoldSet, Adds,
       Next1

LEMMA Next1In ==
  ASSUME NEW s, s # {}
  PROVE  Next1(s) \in s
BY DEF Next1

\* Two functions that add up f agree where both are defined.
LEMMA AddsAgree ==
  ASSUME NEW f, NEW S, IsFiniteSet(S), NEW T \in SUBSET S,
         NEW g, Adds(g, f, S), NEW h, Adds(h, f, T)
  PROVE  \A s \in SUBSET T : g[s] = h[s]
<1> DEFINE B == {s \in SUBSET T : g[s] # h[s]}
<1>1. SUFFICES ASSUME B # {} PROVE FALSE
    OBVIOUS
<1>2. IsFiniteSet(T)
    BY FS_Subset
<1>3. PICK s \in B : \A u \in B : u \subseteq s => u = s
  <2>1. B \in SUBSET (SUBSET T)
      OBVIOUS
  <2> HIDE DEF B
  <2> QED
      BY <1>1, <1>2, <2>1, MinimalSet
<1>4. s \in SUBSET S /\ s \in SUBSET T /\ g[s] # h[s]
    OBVIOUS
<1>5. s # {}
    BY <1>4 DEF Adds
<1> DEFINE u == s \ {Next1(s)}
<1>6. u # s /\ u \subseteq s
    BY <1>5, Next1In
<1>7. g[u] = h[u]
    BY <1>3, <1>4, <1>6
<1>8. g[s] = f[Next1(s)] + g[u] /\ h[s] = f[Next1(s)] + h[u]
    BY <1>4, <1>5 DEF Adds
<1> QED
    BY <1>4, <1>7, <1>8

\* A finite set has a function that adds up f over its subsets.
LEMMA AddsExists ==
  ASSUME NEW f, NEW S, IsFiniteSet(S)
  PROVE  \E g : Adds(g, f, S)
<1> DEFINE B == {T \in SUBSET S : ~\E g : Adds(g, f, T)}
<1>1. SUFFICES ASSUME B # {} PROVE FALSE
    OBVIOUS
<1>2. PICK T \in B : \A u \in B : u \subseteq T => u = T
  <2>1. B \in SUBSET (SUBSET S)
      OBVIOUS
  <2> HIDE DEF B
  <2> QED
      BY <1>1, <2>1, MinimalSet
<1>3. T \in SUBSET S /\ ~\E g : Adds(g, f, T)
    OBVIOUS
<1> DEFINE G(u) == CHOOSE g : Adds(g, f, u)
           g == [s \in SUBSET T |->
                   IF s = {} THEN 0
                   ELSE f[Next1(s)] + G(s \ {Next1(s)})[s \ {Next1(s)}]]
<1>4. ASSUME NEW u \in SUBSET T, u # T
      PROVE  Adds(G(u), f, u)
  <2>1. \E h : Adds(h, f, u)
      BY <1>2, <1>3, <1>4
  <2> QED
      BY <2>1
<1>5. ASSUME NEW u \in SUBSET T, u # T
      PROVE  g[u] = G(u)[u]
  <2>1. Adds(G(u), f, u)
      BY <1>4, <1>5
  <2>2. CASE u = {}
      BY <2>1, <2>2 DEF Adds
  <2>3. CASE u # {}
    <3> DEFINE v == u \ {Next1(u)}
    <3>1. v \in SUBSET u /\ v \in SUBSET T /\ v # T /\ v # u
        BY <1>5, <2>3, Next1In
    <3>2. Adds(G(v), f, v)
        BY <1>4, <3>1
    <3>3. IsFiniteSet(u)
        BY <1>3, <1>5, FS_Subset
    <3>4. G(u)[v] = G(v)[v]
      <4> HIDE DEF G, v
      <4> QED
          BY <2>1, <3>1, <3>2, <3>3, AddsAgree
    <3>5. G(u)[u] = f[Next1(u)] + G(u)[v]
      <4> HIDE DEF G
      <4> QED
          BY <2>1, <2>3 DEF Adds
    <3>6. g[u] = f[Next1(u)] + G(v)[v]
      <4> HIDE DEF G
      <4> QED
          BY <1>5, <2>3
    <3> QED
        BY <3>4, <3>5, <3>6
  <2> QED
      BY <2>2, <2>3
<1>6. Adds(g, f, T)
  <2>1. ASSUME NEW s \in SUBSET T, s # {}
        PROVE  g[s] = f[Next1(s)] + g[s \ {Next1(s)}]
    <3>1. s \ {Next1(s)} \in SUBSET T /\ s \ {Next1(s)} # T
        BY <2>1, Next1In
    <3>2. g[s \ {Next1(s)}] = G(s \ {Next1(s)})[s \ {Next1(s)}]
        BY <1>5, <3>1
    <3>3. g[s] = f[Next1(s)] + G(s \ {Next1(s)})[s \ {Next1(s)}]
      <4> HIDE DEF G
      <4> QED
          BY <2>1
    <3> QED
        BY <3>2, <3>3
  <2>2. g[{}] = 0
      OBVIOUS
  <2>3. g = [s \in SUBSET T |-> g[s]]
      OBVIOUS
  <2> HIDE DEF g
  <2> QED
      BY <2>1, <2>2, <2>3 DEF Adds
<1> QED
    BY <1>3, <1>6

\* A sum takes its elements one at a time.
LEMMA SumNext ==
  ASSUME NEW f, NEW S, IsFiniteSet(S)
  PROVE  /\ SumFunctionOnSet(f, {}) = 0
         /\ S # {} => SumFunctionOnSet(f, S) =
                        f[Next1(S)] + SumFunctionOnSet(f, S \ {Next1(S)})
<1> DEFINE G(u) == CHOOSE g : Adds(g, f, u)
<1>1. \A u \in SUBSET S : Adds(G(u), f, u) /\ SumFunctionOnSet(f, u) = G(u)[u]
  <2> TAKE u \in SUBSET S
  <2>1. \E g : Adds(g, f, u)
      BY FS_Subset, AddsExists
  <2> QED
      BY <2>1, SumDefined
<1>2. SumFunctionOnSet(f, {}) = 0
  <2> HIDE DEF G
  <2> QED
      BY <1>1 DEF Adds
<1>3. ASSUME S # {}
      PROVE  SumFunctionOnSet(f, S) = f[Next1(S)] + SumFunctionOnSet(f, S \ {Next1(S)})
  <2> DEFINE v == S \ {Next1(S)}
  <2> HIDE DEF G
  <2>1. G(S)[S] = f[Next1(S)] + G(S)[v]
      BY <1>1, <1>3 DEF Adds
  <2>2. G(S)[v] = G(v)[v]
    <3>1. v \in SUBSET S /\ v \in SUBSET v
        OBVIOUS
    <3> HIDE DEF v
    <3>2. Adds(G(S), f, S) /\ Adds(G(v), f, v)
        BY <1>1, <3>1
    <3> QED
        BY <3>1, <3>2, AddsAgree
  <2> QED
      BY <1>1, <2>1, <2>2
<1> QED
    BY <1>2, <1>3

\* Whichever element is taken first.
LEMMA SumSplit ==
  ASSUME NEW S, IsFiniteSet(S), NEW f, \A x \in S : f[x] \in Nat
  PROVE  /\ SumFunctionOnSet(f, S) \in Nat
         /\ \A x \in S : SumFunctionOnSet(f, S) =
                           f[x] + SumFunctionOnSet(f, S \ {x})
<1> DEFINE Sum(T) == SumFunctionOnSet(f, T)
           Good(T) == /\ Sum(T) \in Nat
                      /\ \A x \in T : Sum(T) = f[x] + Sum(T \ {x})
           B == {T \in SUBSET S : ~Good(T)}
<1>1. SUFFICES ASSUME B # {} PROVE FALSE
    OBVIOUS
<1>2. PICK T \in B : \A u \in B : u \subseteq T => u = T
  <2>1. B \in SUBSET (SUBSET S)
      OBVIOUS
  <2> HIDE DEF B
  <2> QED
      BY <1>1, <2>1, MinimalSet
<1>3. /\ T \in SUBSET S /\ ~Good(T) /\ IsFiniteSet(T)
      /\ \A u \in SUBSET T : u # T => Good(u) /\ IsFiniteSet(u)
  <2>1. T \in SUBSET S /\ ~Good(T)
      OBVIOUS
  <2>2. \A u \in SUBSET S : IsFiniteSet(u)
      BY FS_Subset
  <2>3. \A u \in SUBSET T : u # T => Good(u)
    <3> HIDE DEF Good
    <3> QED
        BY <1>2, <2>1
  <2> HIDE DEF Good
  <2> QED
      BY <2>1, <2>2, <2>3
<1> HIDE DEF B
<1>4. Sum({}) = 0
    BY FS_EmptySet, SumNext
<1>5. T # {}
  <2>1. Good({})
    <3> HIDE DEF Sum
    <3> QED
        BY <1>4
  <2> HIDE DEF Good
  <2> QED
      BY <1>3, <2>1
<1> DEFINE c == Next1(T)
<1>6. c \in T /\ Sum(T) = f[c] + Sum(T \ {c})
    BY <1>3, <1>5, Next1In, SumNext
<1> HIDE DEF c
<1>7. Good(T \ {c}) /\ f[c] \in Nat
  <2> HIDE DEF Good
  <2> QED
      BY <1>3, <1>6
<1>8. Sum(T) \in Nat
  <2> HIDE DEF Sum
  <2> QED
      BY <1>6, <1>7
<1>9. ASSUME NEW x \in T, x # c
      PROVE  Sum(T) = f[x] + Sum(T \ {x})
  <2>1. x \in T \ {c} /\ c \in T \ {x} /\ f[x] \in Nat /\ Good(T \ {x})
    <3> HIDE DEF Good
    <3> QED
        BY <1>3, <1>6, <1>9
  <2>2. (T \ {c}) \ {x} = (T \ {x}) \ {c}
      OBVIOUS
  <2>3. Sum(T \ {c}) = f[x] + Sum((T \ {c}) \ {x})
      BY <1>7, <2>1
  <2>4. Sum(T \ {x}) = f[c] + Sum((T \ {x}) \ {c})
      BY <2>1
  <2>5. Sum((T \ {c}) \ {x}) \in Nat
    <3>1. (T \ {c}) \ {x} \in SUBSET T /\ (T \ {c}) \ {x} # T
        BY <1>6
    <3>2. Good((T \ {c}) \ {x})
      <4> HIDE DEF Good
      <4> QED
          BY <1>3, <3>1
    <3> QED
        BY <3>2
  <2> HIDE DEF Sum
  <2> QED
      BY <1>6, <1>7, <2>1, <2>2, <2>3, <2>4, <2>5
<1>10. Good(T)
  <2> HIDE DEF Sum
  <2> QED
      BY <1>6, <1>8, <1>9
<1> QED
    BY <1>3, <1>10

\* A sum depends on the values at its elements alone.
LEMMA SumSame ==
  ASSUME NEW S, IsFiniteSet(S), NEW f, NEW h, \A x \in S : f[x] = h[x]
  PROVE  SumFunctionOnSet(f, S) = SumFunctionOnSet(h, S)
<1> DEFINE B == {T \in SUBSET S : SumFunctionOnSet(f, T) # SumFunctionOnSet(h, T)}
<1>1. SUFFICES ASSUME B # {} PROVE FALSE
    OBVIOUS
<1>2. PICK T \in B : \A u \in B : u \subseteq T => u = T
  <2>1. B \in SUBSET (SUBSET S)
      OBVIOUS
  <2> HIDE DEF B
  <2> QED
      BY <1>1, <2>1, MinimalSet
<1>3. T \in SUBSET S /\ SumFunctionOnSet(f, T) # SumFunctionOnSet(h, T)
    OBVIOUS
<1>4. IsFiniteSet(T)
    BY <1>3, FS_Subset
<1>5. T # {}
    BY <1>3, FS_EmptySet, SumNext
<1> DEFINE u == T \ {Next1(T)}
<1>6. Next1(T) \in T /\ u # T /\ u \subseteq T
    BY <1>5, Next1In
<1>7. SumFunctionOnSet(f, u) = SumFunctionOnSet(h, u)
    BY <1>2, <1>3, <1>6
<1>8. f[Next1(T)] = h[Next1(T)]
    BY <1>3, <1>6
<1> QED
    BY <1>3, <1>4, <1>5, <1>7, <1>8, SumNext

\* When one value changes, the sum changes by the difference.
LEMMA SumChanged ==
  ASSUME NEW S, IsFiniteSet(S), NEW x \in S, NEW f, NEW h,
         \A y \in S : f[y] \in Nat /\ h[y] \in Nat,
         \A y \in S \ {x} : h[y] = f[y]
  PROVE  /\ SumFunctionOnSet(f, S) \in Nat /\ SumFunctionOnSet(h, S) \in Nat
         /\ f[x] <= SumFunctionOnSet(f, S)
         /\ SumFunctionOnSet(h, S) = SumFunctionOnSet(f, S) - f[x] + h[x]
<1>1. IsFiniteSet(S \ {x})
    BY FS_RemoveElement
<1>2. SumFunctionOnSet(f, S \ {x}) = SumFunctionOnSet(h, S \ {x})
    BY <1>1, SumSame
<1>3. /\ SumFunctionOnSet(f, S) = f[x] + SumFunctionOnSet(f, S \ {x})
      /\ SumFunctionOnSet(h, S) = h[x] + SumFunctionOnSet(h, S \ {x})
      /\ SumFunctionOnSet(f, S) \in Nat /\ SumFunctionOnSet(h, S) \in Nat
    BY SumSplit
<1>4. SumFunctionOnSet(f, S \ {x}) \in Nat
    BY <1>1, SumSplit
<1> QED
    BY <1>2, <1>3, <1>4

\* A sum of zeros.
LEMMA SumZero ==
  ASSUME NEW S, IsFiniteSet(S), NEW f, \A x \in S : f[x] = 0
  PROVE  SumFunctionOnSet(f, S) = 0
<1> DEFINE B == {T \in SUBSET S : SumFunctionOnSet(f, T) # 0}
<1>1. SUFFICES ASSUME B # {} PROVE FALSE
    OBVIOUS
<1>2. PICK T \in B : \A u \in B : u \subseteq T => u = T
  <2>1. B \in SUBSET (SUBSET S)
      OBVIOUS
  <2> HIDE DEF B
  <2> QED
      BY <1>1, <2>1, MinimalSet
<1>3. T \in SUBSET S /\ SumFunctionOnSet(f, T) # 0
    OBVIOUS
<1>4. IsFiniteSet(T)
    BY <1>3, FS_Subset
<1>5. T # {}
    BY <1>3, FS_EmptySet, SumNext
<1> DEFINE u == T \ {Next1(T)}
<1>6. Next1(T) \in T /\ u # T /\ u \subseteq T
    BY <1>5, Next1In
<1>7. SumFunctionOnSet(f, u) = 0 /\ f[Next1(T)] = 0
    BY <1>2, <1>3, <1>6
<1> QED
    BY <1>3, <1>4, <1>5, <1>7, SumNext

\* Both ways the modules write a sum are the same.
LEMMA SumIsFunctionSum ==
  ASSUME NEW f, NEW S
  PROVE  MapThenSumSet(LAMBDA x : f[x], S) = SumFunctionOnSet(f, S)
BY SumDefined

-----------------------------------------------------------------------------
(* The order of values, of rows and of records.                             *)

Value == {Null, NaN} \union [kind : {"number"}, n : Int, bits : {0, 1}]
Item(width) == [column : 1 .. width, descending : BOOLEAN, nullsLast : BOOLEAN]
Order == {-1, 0, 1}

\* What is told of x and y, of y and z and of x and z, fits together.
Chained(xy, yz, xz) ==
  /\ xy <= 0 /\ yz <= 0 => xz <= 0 /\ (xz = 0 => xy = 0 /\ yz = 0)
  /\ xy = 0 /\ yz = 0 => xz = 0

LEMMA CompareFacts ==
  ASSUME NEW a \in Int, NEW b \in Int
  PROVE  /\ Compare(a, b) \in Order /\ Compare(b, a) = -Compare(a, b)
         /\ Compare(a, b) = 0 <=> a = b
         /\ Compare(a, b) = -1 <=> a < b
BY DEF Compare, Order

\* A value is its class and, within a class, its number.
LEMMA ValueParts ==
  ASSUME NEW x \in Value
  PROVE  /\ Class(x) \in Int /\ x.n \in Int
         /\ x = Null <=> Class(x) = 0
         /\ x = NaN <=> Class(x) = 1
         /\ Class(x) \in {0, 1, 2}
         /\ Class(x) \in {0, 1} => x.n = 0
<1>1. CASE x = Null
    BY <1>1 DEF Null, NaN, Class
<1>2. CASE x = NaN
    BY <1>2 DEF Null, NaN, Class
<1>3. CASE x \in [kind : {"number"}, n : Int, bits : {0, 1}]
    BY <1>3 DEF Null, NaN, Class
<1> QED
    BY <1>1, <1>2, <1>3 DEF Value

LEMMA ValueFacts ==
  ASSUME NEW x \in Value, NEW y \in Value
  PROVE  /\ CompareValues(x, y) \in Order
         /\ CompareValues(y, x) = -CompareValues(x, y)
         /\ CompareValues(x, y) = 0 <=> Class(x) = Class(y) /\ x.n = y.n
         /\ CompareValues(x, y) = -1 <=>
              Class(x) < Class(y) \/ (Class(x) = Class(y) /\ x.n < y.n)
<1>1. Class(x) \in Int /\ Class(y) \in Int /\ x.n \in Int /\ y.n \in Int
    BY ValueParts
<1>2. CASE Class(x) = Class(y)
    BY <1>1, <1>2, CompareFacts DEF CompareValues
<1>3. CASE Class(x) # Class(y)
    BY <1>1, <1>3, CompareFacts DEF CompareValues
<1> QED
    BY <1>2, <1>3

LEMMA ValueChain ==
  ASSUME NEW x \in Value, NEW y \in Value, NEW z \in Value
  PROVE  Chained(CompareValues(x, y), CompareValues(y, z), CompareValues(x, z))
<1>1. /\ Class(x) \in Int /\ Class(y) \in Int /\ Class(z) \in Int
      /\ x.n \in Int /\ y.n \in Int /\ z.n \in Int
    BY ValueParts
<1> DEFINE xy == CompareValues(x, y)
           yz == CompareValues(y, z)
           xz == CompareValues(x, z)
<1>2. /\ xy \in Order /\ yz \in Order /\ xz \in Order
      /\ xy = 0 <=> Class(x) = Class(y) /\ x.n = y.n
      /\ yz = 0 <=> Class(y) = Class(z) /\ y.n = z.n
      /\ xz = 0 <=> Class(x) = Class(z) /\ x.n = z.n
      /\ xy = -1 <=> Class(x) < Class(y) \/ (Class(x) = Class(y) /\ x.n < y.n)
      /\ yz = -1 <=> Class(y) < Class(z) \/ (Class(y) = Class(z) /\ y.n < z.n)
      /\ xz = -1 <=> Class(x) < Class(z) \/ (Class(x) = Class(z) /\ x.n < z.n)
    BY ValueFacts
<1> HIDE DEF xy, yz, xz
<1>3. Chained(xy, yz, xz)
    BY <1>1, <1>2 DEF Chained, Order
<1> QED
    BY <1>3 DEF xy, yz, xz

\* Nulls are placed, other values reversed; either way it is an order.
LEMMA FieldFacts ==
  ASSUME NEW k, k.descending \in BOOLEAN, k.nullsLast \in BOOLEAN,
         NEW x \in Value, NEW y \in Value
  PROVE  /\ CompareField(k, x, y) \in Order
         /\ CompareField(k, y, x) = -CompareField(k, x, y)
         /\ CompareField(k, x, y) = 0 <=> CompareValues(x, y) = 0
         /\ CompareField(k, x, y) = -1 <=>
              IF x = Null \/ y = Null
              THEN IF k.nullsLast THEN CompareValues(y, x) = -1 ELSE CompareValues(x, y) = -1
              ELSE IF k.descending THEN CompareValues(y, x) = -1 ELSE CompareValues(x, y) = -1
<1>1. /\ CompareValues(x, y) \in Order /\ CompareValues(y, x) \in Order
      /\ CompareValues(y, x) = -CompareValues(x, y)
    BY ValueFacts
<1> QED
    BY <1>1 DEF CompareField, Order

LEMMA FieldChain ==
  ASSUME NEW k, k.descending \in BOOLEAN, k.nullsLast \in BOOLEAN,
         NEW x \in Value, NEW y \in Value, NEW z \in Value
  PROVE  Chained(CompareField(k, x, y), CompareField(k, y, z), CompareField(k, x, z))
<1>1. /\ Class(x) \in Int /\ Class(y) \in Int /\ Class(z) \in Int
      /\ Class(x) \in {0, 1, 2} /\ Class(y) \in {0, 1, 2} /\ Class(z) \in {0, 1, 2}
      /\ x.n \in Int /\ y.n \in Int /\ z.n \in Int
      /\ Class(x) \in {0, 1} => x.n = 0
      /\ Class(y) \in {0, 1} => y.n = 0
      /\ Class(z) \in {0, 1} => z.n = 0
      /\ x = Null <=> Class(x) = 0
      /\ y = Null <=> Class(y) = 0
      /\ z = Null <=> Class(z) = 0
    BY ValueParts
<1> DEFINE Below(a, b) == IF a = Null \/ b = Null
              THEN IF k.nullsLast THEN CompareValues(b, a) = -1 ELSE CompareValues(a, b) = -1
              ELSE IF k.descending THEN CompareValues(b, a) = -1 ELSE CompareValues(a, b) = -1
           xy == CompareField(k, x, y)
           yz == CompareField(k, y, z)
           xz == CompareField(k, x, z)
<1>2. /\ xy \in Order /\ yz \in Order /\ xz \in Order
      /\ xy = 0 <=> CompareValues(x, y) = 0
      /\ yz = 0 <=> CompareValues(y, z) = 0
      /\ xz = 0 <=> CompareValues(x, z) = 0
      /\ xy = -1 <=> Below(x, y)
      /\ yz = -1 <=> Below(y, z)
      /\ xz = -1 <=> Below(x, z)
    BY FieldFacts
<1>3. \A a, b \in {x, y, z} :
        /\ CompareValues(a, b) = 0 <=> Class(a) = Class(b) /\ a.n = b.n
        /\ CompareValues(a, b) = -1 <=>
             Class(a) < Class(b) \/ (Class(a) = Class(b) /\ a.n < b.n)
    BY ValueFacts
<1>4. /\ xy = 0 <=> Class(x) = Class(y) /\ x.n = y.n
      /\ yz = 0 <=> Class(y) = Class(z) /\ y.n = z.n
      /\ xz = 0 <=> Class(x) = Class(z) /\ x.n = z.n
    BY <1>2, <1>3
<1> DEFINE Under(a, b) ==
             IF Class(a) = 0 \/ Class(b) = 0
             THEN IF k.nullsLast THEN Class(b) < Class(a) ELSE Class(a) < Class(b)
             ELSE IF k.descending
                  THEN Class(b) < Class(a) \/ (Class(a) = Class(b) /\ b.n < a.n)
                  ELSE Class(a) < Class(b) \/ (Class(a) = Class(b) /\ a.n < b.n)
<1>5. /\ Below(x, y) <=> Under(x, y)
      /\ Below(y, z) <=> Under(y, z)
      /\ Below(x, z) <=> Under(x, z)
    BY <1>1, <1>3
<1> HIDE DEF xy, yz, xz, Below
<1>6. Chained(xy, yz, xz)
    BY <1>1, <1>2, <1>4, <1>5 DEF Chained, Order
<1> QED
    BY <1>6 DEF xy, yz, xz

\* The comparator agrees with what the item asks for.
LEMMA FieldAsked ==
  ASSUME NEW k, k.descending \in BOOLEAN, k.nullsLast \in BOOLEAN,
         NEW x \in Value, NEW y \in Value
  PROVE  /\ CompareField(k, x, y) = -1 <=> Ahead(k, x, y)
         /\ CompareField(k, x, y) = 0 <=> Same(x, y)
<1>1. /\ Class(x) \in Int /\ Class(y) \in Int
      /\ Class(x) \in {0, 1, 2} /\ Class(y) \in {0, 1, 2}
      /\ x.n \in Int /\ y.n \in Int
      /\ Class(x) \in {0, 1} => x.n = 0
      /\ Class(y) \in {0, 1} => y.n = 0
      /\ x = Null <=> Class(x) = 0
      /\ y = Null <=> Class(y) = 0
      /\ x = NaN <=> Class(x) = 1
      /\ y = NaN <=> Class(y) = 1
    BY ValueParts
<1>2. /\ CompareValues(x, y) = 0 <=> Class(x) = Class(y) /\ x.n = y.n
      /\ CompareValues(x, y) = -1 <=>
           Class(x) < Class(y) \/ (Class(x) = Class(y) /\ x.n < y.n)
      /\ CompareValues(y, x) = -1 <=>
           Class(y) < Class(x) \/ (Class(x) = Class(y) /\ y.n < x.n)
    BY ValueFacts
<1>3. \A j : Ahead(j, x, y) <=>
        IF Class(x) = 0 \/ Class(y) = 0
        THEN Class(x) # Class(y) /\ (Class(y) = 0 <=> j.nullsLast)
        ELSE IF j.descending THEN CompareValues(y, x) = -1 ELSE CompareValues(x, y) = -1
    BY <1>1, <1>2 DEF Ahead, Smaller
<1>4. \A j : Ahead(j, y, x) <=>
        IF Class(x) = 0 \/ Class(y) = 0
        THEN Class(x) # Class(y) /\ (Class(x) = 0 <=> j.nullsLast)
        ELSE IF j.descending THEN CompareValues(x, y) = -1 ELSE CompareValues(y, x) = -1
    BY <1>1, <1>2 DEF Ahead, Smaller
<1>5. Same(x, y) <=> CompareValues(x, y) = 0
  <2>1. Key(1).nullsLast = FALSE /\ Key(1).descending = FALSE
      BY DEF Key
  <2> QED
      BY <1>1, <1>2, <1>3, <1>4, <2>1 DEF Same
<1>6. CompareField(k, x, y) = 0 <=> CompareValues(x, y) = 0
    BY FieldFacts
<1>7. CompareField(k, x, y) = -1 <=>
        IF x = Null \/ y = Null
        THEN IF k.nullsLast THEN CompareValues(y, x) = -1 ELSE CompareValues(x, y) = -1
        ELSE IF k.descending THEN CompareValues(y, x) = -1 ELSE CompareValues(x, y) = -1
    BY FieldFacts
<1>8. CompareField(k, x, y) = -1 <=> Ahead(k, x, y)
    BY <1>1, <1>2, <1>3, <1>7
<1> QED
    BY <1>5, <1>6, <1>8

LEMMA LeastIn ==
  ASSUME NEW m \in Nat, NEW S \in SUBSET (1 .. m), S # {}
  PROVE  Least(S) \in S /\ \A y \in S : Least(S) <= y
<1> DEFINE B == {1 .. k : k \in S}
<1>1. IsFiniteSet(1 .. m)
    BY FS_Interval
<1>2. PICK T \in B : \A U \in B : U \subseteq T => U = T
  <2>1. B \in SUBSET (SUBSET (1 .. m))
    <3>1. \A k \in S : 1 .. k \subseteq 1 .. m
        OBVIOUS
    <3> QED
        BY <3>1
  <2>2. B # {}
      OBVIOUS
  <2> DEFINE I == 1 .. m
  <2>3. IsFiniteSet(I) /\ B \in SUBSET (SUBSET I)
      BY <1>1, <2>1
  <2> HIDE DEF B, I
  <2> QED
      BY <2>2, <2>3, MinimalSet
<1>3. PICK k \in S : T = 1 .. k
    OBVIOUS
<1>4. ASSUME NEW y \in S PROVE k <= y
  <2>1. SUFFICES ASSUME y < k PROVE FALSE
      OBVIOUS
  <2>2. 1 .. y \in B /\ 1 .. y \subseteq 1 .. k
      BY <2>1
  <2>3. 1 .. y = 1 .. k
      BY <1>2, <1>3, <2>2
  <2>4. k \in 1 .. k /\ k \notin 1 .. y
      BY <2>1
  <2> QED
      BY <2>3, <2>4
<1> QED
    BY <1>4 DEF Least

\* The first position that tells decides, and all of them tell of equality.
LEMMA LexicographicFacts ==
  ASSUME NEW m \in Nat, NEW f \in [1 .. m -> Order]
  PROVE  /\ Lexicographic(f) \in Order
         /\ Lexicographic(f) = 0 <=> \A p \in 1 .. m : f[p] = 0
         /\ \A v \in {-1, 1} : Lexicographic(f) = v <=>
              \E p \in 1 .. m : f[p] = v /\ \A q \in 1 .. p - 1 : f[q] = 0
<1> DEFINE D == {p \in DOMAIN f : f[p] # 0}
<1>1. CASE D = {}
  <2>1. Lexicographic(f) = 0
      BY <1>1 DEF Lexicographic
  <2> QED
      BY <1>1, <2>1 DEF Order
<1>2. CASE D # {}
  <2>1. D \in SUBSET (1 .. m)
      OBVIOUS
  <2> DEFINE l == Least(D)
  <2>2. l \in D /\ \A y \in D : l <= y
    <3> HIDE DEF D
    <3> QED
        BY <1>2, <2>1, LeastIn
  <2>3. Lexicographic(f) = f[l]
      BY <1>2 DEF Lexicographic
  <2>4. l \in 1 .. m /\ f[l] \in {-1, 1} /\ \A q \in 1 .. l - 1 : f[q] = 0
      BY <2>2 DEF Order
  <2>5. ASSUME NEW p \in 1 .. m, f[p] # 0, \A q \in 1 .. p - 1 : f[q] = 0 PROVE p = l
      BY <2>4, <2>5
  <2> HIDE DEF l, D
  <2> QED
      BY <2>3, <2>4, <2>5 DEF Order
<1> QED
    BY <1>1, <1>2

\* Comparing by an order's items makes an order of what they compare.
LEMMA LexicographicSwap ==
  ASSUME NEW m \in Nat, NEW f \in [1 .. m -> Order], NEW g \in [1 .. m -> Order],
         \A p \in 1 .. m : g[p] = -f[p]
  PROVE  Lexicographic(g) = -Lexicographic(f)
<1>1. CASE Lexicographic(f) = 0
    BY <1>1, LexicographicFacts
<1>2. ASSUME NEW v \in {-1, 1}, Lexicographic(f) = v PROVE Lexicographic(g) = -v
  <2>1. PICK p \in 1 .. m : f[p] = v /\ \A q \in 1 .. p - 1 : f[q] = 0
      BY <1>2, LexicographicFacts
  <2>2. g[p] = -v /\ \A q \in 1 .. p - 1 : g[q] = 0
      BY <2>1
  <2>3. -v \in {-1, 1}
      BY <1>2
  <2> QED
      BY <2>2, <2>3, LexicographicFacts
<1> QED
    BY <1>1, <1>2, LexicographicFacts DEF Order

LEMMA LexicographicChain ==
  ASSUME NEW m \in Nat, NEW f \in [1 .. m -> Order], NEW g \in [1 .. m -> Order],
         NEW h \in [1 .. m -> Order], \A p \in 1 .. m : Chained(f[p], g[p], h[p])
  PROVE  Chained(Lexicographic(f), Lexicographic(g), Lexicographic(h))
<1> DEFINE lf == Lexicographic(f)
           lg == Lexicographic(g)
           lh == Lexicographic(h)
<1>1. lf \in Order /\ lg \in Order /\ lh \in Order
    BY LexicographicFacts
<1>2. ASSUME lf = 0, lg = 0 PROVE lh = 0
  <2>1. \A p \in 1 .. m : f[p] = 0 /\ g[p] = 0
      BY <1>2, LexicographicFacts
  <2>2. \A p \in 1 .. m : h[p] = 0
      BY <2>1 DEF Chained
  <2> QED
      BY <2>2, LexicographicFacts
<1>3. ASSUME lf <= 0, lg <= 0, lf # 0 \/ lg # 0 PROVE lh = -1
  <2>1. PICK p \in 1 .. m : /\ f[p] <= 0 /\ g[p] <= 0 /\ (f[p] # 0 \/ g[p] # 0)
                            /\ \A q \in 1 .. p - 1 : f[q] = 0 /\ g[q] = 0
    <3>1. CASE lf = 0
      <4>1. PICK p \in 1 .. m : g[p] = -1 /\ \A q \in 1 .. p - 1 : g[q] = 0
          BY <1>1, <1>3, <3>1, LexicographicFacts DEF Order
      <4>2. \A q \in 1 .. m : f[q] = 0
          BY <3>1, LexicographicFacts
      <4> QED
          BY <4>1, <4>2
    <3>2. CASE lg = 0
      <4>1. PICK p \in 1 .. m : f[p] = -1 /\ \A q \in 1 .. p - 1 : f[q] = 0
          BY <1>1, <1>3, <3>2, LexicographicFacts DEF Order
      <4>2. \A q \in 1 .. m : g[q] = 0
          BY <3>2, LexicographicFacts
      <4> QED
          BY <4>1, <4>2
    <3>3. CASE lf # 0 /\ lg # 0
      <4>1. lf = -1 /\ lg = -1
          BY <1>1, <1>3, <3>3 DEF Order
      <4>2. PICK p \in 1 .. m : f[p] = -1 /\ \A q \in 1 .. p - 1 : f[q] = 0
          BY <4>1, LexicographicFacts
      <4>3. PICK r \in 1 .. m : g[r] = -1 /\ \A q \in 1 .. r - 1 : g[q] = 0
          BY <4>1, LexicographicFacts
      <4>4. CASE p < r
        <5>1. g[p] = 0 /\ \A q \in 1 .. p - 1 : g[q] = 0
            BY <4>3, <4>4
        <5> QED
            BY <4>2, <5>1
      <4>5. CASE p = r
          BY <4>2, <4>3, <4>5
      <4>6. CASE r < p
        <5>1. f[r] = 0 /\ \A q \in 1 .. r - 1 : f[q] = 0
            BY <4>2, <4>6
        <5> QED
            BY <4>3, <5>1
      <4> QED
          BY <4>4, <4>5, <4>6
    <3> QED
        BY <3>1, <3>2, <3>3
  <2>2. h[p] = -1
      BY <2>1 DEF Chained, Order
  <2>3. \A q \in 1 .. p - 1 : h[q] = 0
      BY <2>1 DEF Chained
  <2> QED
      BY <2>2, <2>3, LexicographicFacts
<1> HIDE DEF lf, lg, lh
<1>4. Chained(lf, lg, lh)
    BY <1>1, <1>2, <1>3 DEF Chained, Order
<1> QED
    BY <1>4 DEF lf, lg, lh

-----------------------------------------------------------------------------
(* The layout a list of ORDER BY items makes.                               *)

LEMMA MaxIn ==
  ASSUME NEW n \in Nat, NEW S \in SUBSET (1 .. n), S # {}
  PROVE  Max(S) \in S /\ \A y \in S : y <= Max(S)
<1> DEFINE U == {k \in 1 .. n : S \subseteq 1 .. k}
<1>1. U \in SUBSET (1 .. n) /\ n \in U
  <2>1. PICK y \in S : y \in 1 .. n
      OBVIOUS
  <2>2. n \in 1 .. n
      BY <2>1
  <2> QED
      BY <2>2
<1>2. PICK k \in U : \A j \in U : k <= j
  <2> HIDE DEF U
  <2> QED
      BY <1>1, LeastIn
<1>3. k \in S
  <2>1. SUFFICES ASSUME k \notin S PROVE FALSE
      OBVIOUS
  <2>2. ASSUME NEW y \in S PROVE y \in 1 .. k - 1 /\ k - 1 \in 1 .. n
    <3>1. y \in 1 .. k /\ y # k /\ k \in 1 .. n
        BY <2>1
    <3> QED
        BY <3>1
  <2>3. k - 1 \in U
      BY <2>2
  <2>4. k <= k - 1 /\ k \in Nat
      BY <1>2, <2>3
  <2> QED
      BY <2>4
<1>4. \A y \in S : y <= k
    OBVIOUS
<1> QED
    BY <1>3, <1>4 DEF Max

\* A function that places the items of a set, the last one last.
Lays(it, width, order, S) ==
  it = [s \in SUBSET S |->
          IF s = {} THEN Unplaced(width)
          ELSE Placed(width, it[s \ {Max(s)}], order[Max(s)])]

\* The fold of the definition is such a function's value.
LEMMA LayoutDefined ==
  ASSUME NEW width, NEW order
  PROVE  Layout(width, order) =
           (CHOOSE it : Lays(it, width, order, DOMAIN order))[DOMAIN order]
BY DEF Layout, FoldLeft, MapThenFoldSet, Lays

LEMMA LaysNext ==
  ASSUME NEW width, NEW order, NEW k \in Nat \ {0}, NEW g, Lays(g, width, order, 1 .. k - 1)
  PROVE  \E h : Lays(h, width, order, 1 .. k)
<1> DEFINE h == [s \in SUBSET (1 .. k) |->
                   IF k \in s THEN Placed(width, g[s \ {k}], order[k]) ELSE g[s]]
<1>1. ASSUME NEW s \in SUBSET (1 .. k)
      PROVE  h[s] = IF s = {} THEN Unplaced(width)
                    ELSE Placed(width, h[s \ {Max(s)}], order[Max(s)])
  <2>1. CASE s = {}
    <3>1. h[s] = g[s] /\ s \in SUBSET (1 .. k - 1)
        BY <2>1
    <3> QED
        BY <2>1, <3>1 DEF Lays
  <2>2. CASE s # {} /\ k \in s
    <3>1. Max(s) \in s /\ k <= Max(s)
        BY <2>2, MaxIn
    <3>2. Max(s) = k
      <4>1. Max(s) \in 1 .. k
          BY <3>1
      <4> QED
          BY <3>1, <4>1
    <3>3. h[s \ {k}] = g[s \ {k}]
        OBVIOUS
    <3>4. h[s] = Placed(width, g[s \ {k}], order[k])
        BY <2>2
    <3> QED
        BY <2>2, <3>2, <3>3, <3>4
  <2>3. CASE s # {} /\ k \notin s
    <3>1. s \in SUBSET (1 .. k - 1)
        BY <2>3
    <3>2. h[s] = g[s]
        BY <2>3
    <3>3. g[s] = Placed(width, g[s \ {Max(s)}], order[Max(s)])
        BY <2>3, <3>1 DEF Lays
    <3>4. h[s \ {Max(s)}] = g[s \ {Max(s)}]
      <4>1. s \ {Max(s)} \in SUBSET (1 .. k) /\ k \notin s \ {Max(s)}
          BY <2>3
      <4> QED
          BY <4>1
    <3> QED
        BY <2>3, <3>2, <3>3, <3>4
  <2> QED
      BY <2>1, <2>2, <2>3
<1>2. Lays(h, width, order, 1 .. k)
  <2>1. h = [s \in SUBSET (1 .. k) |-> h[s]]
      OBVIOUS
  <2> HIDE DEF h
  <2> QED
      BY <1>1, <2>1 DEF Lays
<1> QED
    BY <1>2

LEMMA LaysExist ==
  ASSUME NEW width, NEW order, NEW n \in Nat
  PROVE  \E g : Lays(g, width, order, 1 .. n)
<1> DEFINE Bad == {k \in 1 .. n : ~\E g : Lays(g, width, order, 1 .. k)}
<1>1. \E g : Lays(g, width, order, 1 .. 0)
  <2> DEFINE g == [s \in SUBSET (1 .. 0) |-> Unplaced(width)]
  <2>1. \A s \in SUBSET (1 .. 0) : s = {}
      OBVIOUS
  <2>2. g = [s \in SUBSET (1 .. 0) |->
               IF s = {} THEN Unplaced(width)
               ELSE Placed(width, g[s \ {Max(s)}], order[Max(s)])]
      BY <2>1
  <2> HIDE DEF g
  <2> QED
      BY <2>2 DEF Lays
<1>2. Bad = {}
  <2>1. SUFFICES ASSUME Bad # {} PROVE FALSE
      OBVIOUS
  <2>2. PICK k \in Bad : \A j \in Bad : k <= j
    <3>1. Bad \in SUBSET (1 .. n)
        OBVIOUS
    <3> HIDE DEF Bad
    <3> QED
        BY <2>1, <3>1, LeastIn
  <2>3. k \in 1 .. n /\ ~\E g : Lays(g, width, order, 1 .. k)
      OBVIOUS
  <2>4. k - 1 = 0 \/ (k - 1 \in 1 .. n /\ k - 1 \notin Bad)
      BY <2>2, <2>3
  <2>5. \E g : Lays(g, width, order, 1 .. k - 1)
      BY <1>1, <2>4
  <2>6. k \in Nat \ {0}
      BY <2>3
  <2> HIDE DEF Bad
  <2> QED
      BY <2>3, <2>5, <2>6, LaysNext
<1>3. n = 0 \/ n \in 1 .. n
    OBVIOUS
<1> QED
    BY <1>1, <1>2, <1>3

\* The layout is built item by item.
LEMMA LayoutSteps ==
  ASSUME NEW width, NEW X, NEW order \in Seq(X)
  PROVE  \E f : /\ f[0] = Unplaced(width)
                /\ \A k \in 1 .. Len(order) : f[k] = Placed(width, f[k - 1], order[k])
                /\ Layout(width, order) = f[Len(order)]
<1> DEFINE n == Len(order)
<1>1. n \in Nat /\ DOMAIN order = 1 .. n
    OBVIOUS
<1> DEFINE it == CHOOSE g : Lays(g, width, order, 1 .. n)
<1>2. Lays(it, width, order, 1 .. n)
    BY <1>1, LaysExist
<1>3. Layout(width, order) = it[1 .. n]
    BY <1>1, LayoutDefined
<1> HIDE DEF it
<1> DEFINE f == [k \in 0 .. n |-> it[1 .. k]]
<1>4. f[0] = Unplaced(width)
  <2>1. 1 .. 0 = {} /\ 0 \in 0 .. n
      BY <1>1
  <2> QED
      BY <1>2, <2>1 DEF Lays
<1>5. ASSUME NEW k \in 1 .. n PROVE f[k] = Placed(width, f[k - 1], order[k])
  <2>0. k \in Nat \ {0} /\ k <= n
      BY <1>1
  <2>1. 1 .. k \in SUBSET (1 .. n) /\ k \in 1 .. k /\ k \in 0 .. n /\ k - 1 \in 0 .. n
    <3>1. k \in 1 .. k /\ k \in 0 .. n /\ k - 1 \in 0 .. n
        BY <1>1, <2>0
    <3>2. ASSUME NEW j \in 1 .. k PROVE j \in 1 .. n
        BY <1>1, <2>0
    <3> QED
        BY <3>1, <3>2
  <2>2. Max(1 .. k) = k
    <3> DEFINE I == 1 .. k
    <3>1. I \in SUBSET (1 .. n) /\ k \in I
        BY <2>1
    <3>2. Max(I) \in I /\ k <= Max(I)
      <4> HIDE DEF I
      <4> QED
          BY <1>1, <3>1, MaxIn
    <3>3. Max(I) \in 1 .. k
        BY <3>2
    <3> QED
        BY <2>0, <3>2, <3>3
  <2>3. (1 .. k) \ {k} = 1 .. k - 1
      BY <1>1
  <2>4. it[1 .. k] = Placed(width, it[(1 .. k) \ {k}], order[k])
      BY <1>2, <2>0, <2>1, <2>2 DEF Lays
  <2> QED
      BY <2>1, <2>3, <2>4
<1>6. f[n] = it[1 .. n]
    BY <1>1
<1> QED
    BY <1>3, <1>4, <1>5, <1>6

LayoutOf(width) == [columns : [1 .. width -> Item(width)], keys : 0 .. width]

\* An item that names a column no earlier item names.
IsFirst(order, i) == \A j \in 1 .. i - 1 : order[j].column # order[i].column

\* Every column is stored once, and the first n items are its keys: the first
\* item of each column, in their order.
Arranged(width, order, n, l) ==
  /\ l \in LayoutOf(width)
  /\ \A p, q \in 1 .. width : l.columns[p].column = l.columns[q].column => p = q
  /\ \A c \in 1 .. width : \E p \in 1 .. width : l.columns[p].column = c
  /\ \A p \in 1 .. l.keys : \E i \in 1 .. n : l.columns[p] = order[i] /\ IsFirst(order, i)
  /\ \A i \in 1 .. n : \E p \in 1 .. l.keys : l.columns[p].column = order[i].column
  /\ \A p, q \in 1 .. l.keys : \A i, j \in 1 .. n :
       p < q /\ l.columns[p] = order[i] /\ IsFirst(order, i)
             /\ l.columns[q] = order[j] /\ IsFirst(order, j) => i < j

LEMMA ArrangedUnplaced ==
  ASSUME NEW width \in Nat, NEW order
  PROVE  Arranged(width, order, 0, Unplaced(width))
<1> DEFINE l == Unplaced(width)
<1>1. l.keys = 0 /\ l.columns = [p \in 1 .. width |-> Key(p)]
    BY DEF Unplaced
<1>2. \A p \in 1 .. width : Key(p) \in Item(width) /\ Key(p).column = p
    BY DEF Key, Item
<1>3. l \in LayoutOf(width)
    BY <1>1, <1>2 DEF Unplaced, LayoutOf
<1>4. \A p \in 1 .. width : l.columns[p].column = p
    BY <1>1, <1>2
<1> HIDE DEF l
<1>5. Arranged(width, order, 0, l)
    BY <1>1, <1>3, <1>4 DEF Arranged
<1> QED
    BY <1>5 DEF l

LEMMA SwapFacts ==
  ASSUME NEW X, NEW I, NEW f \in [I -> X], NEW at \in I, NEW from \in I, NEW k \in X, NEW g,
         g = [f EXCEPT ![from] = f[at], ![at] = k]
  PROVE  /\ g \in [I -> X] /\ g[at] = k
         /\ from # at => g[from] = f[at]
         /\ \A q \in I : q # at /\ q # from => g[q] = f[q]
<1>1. f[at] \in X
    OBVIOUS
<1> QED
    BY <1>1

\* A repeated item changes nothing; a new one becomes the last key.
LEMMA ArrangedPlaced ==
  ASSUME NEW width \in Nat, NEW order \in Seq(Item(width)), NEW n \in 1 .. Len(order),
         NEW l, Arranged(width, order, n - 1, l)
  PROVE  Arranged(width, order, n, Placed(width, l, order[n]))
<1> DEFINE k == order[n]
<1>a. Len(order) \in Nat
    OBVIOUS
<1>0. /\ n \in Nat \ {0}
      /\ \A i \in 1 .. n - 1 : i \in 1 .. n /\ i < n
      /\ \A i \in 1 .. n : i = n \/ i \in 1 .. n - 1
    BY <1>a
<1>b. k \in Item(width)
  <2> DEFINE X == Item(width)
  <2>1. order \in Seq(X)
      OBVIOUS
  <2> HIDE DEF X
  <2>2. order[n] \in X
      BY <2>1
  <2> QED
      BY <2>2 DEF X
<1>1. k \in Item(width) /\ k.column \in 1 .. width
    BY <1>b DEF Item
<1>2. /\ l.keys \in 0 .. width /\ l.columns \in [1 .. width -> Item(width)]
      /\ \A p, q \in 1 .. width : l.columns[p].column = l.columns[q].column => p = q
      /\ \A c \in 1 .. width : \E p \in 1 .. width : l.columns[p].column = c
      /\ \A p \in 1 .. l.keys : \E i \in 1 .. n - 1 : l.columns[p] = order[i] /\ IsFirst(order, i)
      /\ \A i \in 1 .. n - 1 : \E p \in 1 .. l.keys : l.columns[p].column = order[i].column
      /\ \A p, q \in 1 .. l.keys : \A i, j \in 1 .. n - 1 :
           p < q /\ l.columns[p] = order[i] /\ IsFirst(order, i)
                 /\ l.columns[q] = order[j] /\ IsFirst(order, j) => i < j
    BY DEF Arranged, LayoutOf
<1>3. CASE \E p \in 1 .. l.keys : l.columns[p].column = k.column
  <2>1. Placed(width, l, k) = l
      BY <1>3 DEF Placed
  <2>2. PICK p \in 1 .. l.keys : l.columns[p].column = k.column
      BY <1>3
  <2>3. PICK i \in 1 .. n - 1 : l.columns[p] = order[i]
      BY <1>2
  <2>4. ~IsFirst(order, n)
      BY <2>2, <2>3 DEF IsFirst
  <2>a. l.keys \in Nat
      BY <1>2
  <2>5. \A j \in 1 .. n : j \in 1 .. n - 1 \/ j = n
      BY <1>0
  <2>6. \A r \in 1 .. l.keys : \E j \in 1 .. n : l.columns[r] = order[j] /\ IsFirst(order, j)
      BY <1>0, <1>2
  <2>7. \A j \in 1 .. n : \E r \in 1 .. l.keys : l.columns[r].column = order[j].column
      BY <1>2, <2>2, <2>5
  <2>8. \A r, q \in 1 .. l.keys : \A i1, j1 \in 1 .. n :
          r < q /\ l.columns[r] = order[i1] /\ IsFirst(order, i1)
                /\ l.columns[q] = order[j1] /\ IsFirst(order, j1) => i1 < j1
      BY <1>2, <2>4, <2>5
  <2>9. l \in LayoutOf(width)
      BY DEF Arranged
  <2>b. /\ \A q, r \in 1 .. width : l.columns[q].column = l.columns[r].column => q = r
        /\ \A c \in 1 .. width : \E q \in 1 .. width : l.columns[q].column = c
      BY <1>2
  <2>c. Arranged(width, order, n, l)
      BY ONLY <2>6, <2>7, <2>8, <2>9, <2>b DEF Arranged
  <2> QED
      BY <2>1, <2>c
<1>4. CASE \A p \in 1 .. l.keys : l.columns[p].column # k.column
  <2> DEFINE at == l.keys + 1
             from == CHOOSE p \in at .. width : l.columns[p].column = k.column
             m == Placed(width, l, k)
  <2>1. PICK p \in 1 .. width : l.columns[p].column = k.column
      BY <1>1, <1>2
  <2>2. p \in at .. width
      BY <1>2, <1>4, <2>1
  <2>3. from \in at .. width /\ l.columns[from].column = k.column
      BY <2>1, <2>2
  <2>4. /\ m.columns = [l.columns EXCEPT ![from] = l.columns[at], ![at] = k] /\ m.keys = at
        /\ m = [columns |-> m.columns, keys |-> m.keys]
      BY <1>4 DEF Placed
  <2> HIDE DEF from, m
  <2>5. at \in 1 .. width /\ from \in 1 .. width /\ at \in Nat /\ at > l.keys
    <3>1. l.keys \in Nat
        BY <1>2
    <3> QED
        BY <2>3, <3>1
  <2> HIDE DEF at
  <2>6. /\ m.columns \in [1 .. width -> Item(width)] /\ m.columns[at] = k
        /\ from # at => m.columns[from] = l.columns[at]
        /\ \A q \in 1 .. width : q # at /\ q # from => m.columns[q] = l.columns[q]
    <3> DEFINE X == Item(width)
               I == 1 .. width
               f == l.columns
               g == m.columns
    <3>1. /\ f \in [I -> X] /\ k \in X /\ at \in I /\ from \in I
          /\ g = [f EXCEPT ![from] = f[at], ![at] = k]
        BY <1>1, <1>2, <2>4, <2>5
    <3> HIDE DEF X, I, f, g, k
    <3>2. /\ g \in [I -> X] /\ g[at] = k
          /\ from # at => g[from] = f[at]
          /\ \A q \in I : q # at /\ q # from => g[q] = f[q]
        BY <3>1, SwapFacts
    <3> QED
        BY <3>2 DEF X, I, f, g, k
  <2>7. m \in LayoutOf(width)
    <3> DEFINE C == [1 .. width -> Item(width)]
    <3>1. m.columns \in C /\ m.keys \in 0 .. width
        BY <2>4, <2>5, <2>6
    <3>2. m \in [columns : C, keys : 0 .. width]
      <4> HIDE DEF C
      <4> QED
          BY <2>4, <3>1
    <3> QED
        BY <3>2 DEF LayoutOf
  <2>8. \A q, r \in 1 .. width : m.columns[q].column = m.columns[r].column => q = r
    <3> DEFINE c(q) == m.columns[q].column
               d(q) == l.columns[q].column
    <3>1. /\ c(at) = d(from)
          /\ from # at => c(from) = d(at)
          /\ \A q \in 1 .. width : q # at /\ q # from => c(q) = d(q)
        BY <2>3, <2>6
    <3>2. \A q, r \in 1 .. width : d(q) = d(r) => q = r
        BY <1>2
    <3> HIDE DEF c, d
    <3>3. \A q, r \in 1 .. width : c(q) = c(r) => q = r
        BY <2>5, <3>1, <3>2
    <3> QED
        BY <3>3 DEF c
  <2>9. \A c \in 1 .. width : \E q \in 1 .. width : m.columns[q].column = c
    <3> SUFFICES ASSUME NEW c \in 1 .. width
                 PROVE  \E q \in 1 .. width : m.columns[q].column = c
        OBVIOUS
    <3>1. PICK q \in 1 .. width : l.columns[q].column = c
        BY <1>2
    <3> QED
        BY <2>3, <2>5, <2>6, <3>1
  <2>10. \A q \in 1 .. l.keys : q \in 1 .. width /\ m.columns[q] = l.columns[q]
    <3>1. l.keys \in Nat /\ l.keys <= width /\ from >= at /\ at = l.keys + 1
        BY <1>2, <2>3 DEF at
    <3>2. \A q \in 1 .. l.keys : q \in 1 .. width /\ q # at /\ q # from
        BY <2>3, <2>5, <3>1
    <3> QED
        BY <2>6, <3>2
  <2>11. \A q \in 1 .. m.keys : q \in 1 .. l.keys \/ q = at
      BY <1>2, <2>4 DEF at
  <2>12. IsFirst(order, n)
    <3> SUFFICES ASSUME NEW j \in 1 .. n - 1 PROVE order[j].column # k.column
        BY DEF IsFirst
    <3> QED
        BY <1>2, <1>4
  <2>13. \A q \in 1 .. m.keys : \E i \in 1 .. n : m.columns[q] = order[i] /\ IsFirst(order, i)
    <3> SUFFICES ASSUME NEW q \in 1 .. m.keys
                 PROVE  \E i \in 1 .. n : m.columns[q] = order[i] /\ IsFirst(order, i)
        OBVIOUS
    <3>1. CASE q = at
        BY <1>0, <2>6, <2>12, <3>1
    <3>2. CASE q \in 1 .. l.keys
        BY <1>0, <1>2, <2>10, <3>2
    <3> QED
        BY <2>11, <3>1, <3>2
  <2>14. \A i \in 1 .. n : \E q \in 1 .. m.keys : m.columns[q].column = order[i].column
    <3> SUFFICES ASSUME NEW i \in 1 .. n
                 PROVE  \E q \in 1 .. m.keys : m.columns[q].column = order[i].column
        OBVIOUS
    <3>0. m.keys = l.keys + 1 /\ at = m.keys /\ l.keys \in Nat
        BY <1>2, <2>4 DEF at
    <3>1. m.keys = at /\ at \in 1 .. m.keys /\ \A q \in 1 .. l.keys : q \in 1 .. m.keys
        BY <3>0
    <3>2. CASE i = n
        BY <2>6, <3>1, <3>2
    <3>3. CASE i \in 1 .. n - 1
      <4>1. PICK q \in 1 .. l.keys : l.columns[q].column = order[i].column
          BY <1>2, <3>3
      <4>2. m.columns[q] = l.columns[q] /\ q \in 1 .. m.keys
          BY <2>10, <3>1, <4>1
      <4> QED
          BY <4>1, <4>2
    <3> QED
        BY <1>0, <3>2, <3>3
  <2>15. \A q, r \in 1 .. m.keys : \A i, j \in 1 .. n :
           q < r /\ m.columns[q] = order[i] /\ IsFirst(order, i)
                 /\ m.columns[r] = order[j] /\ IsFirst(order, j) => i < j
    <3> SUFFICES ASSUME NEW q \in 1 .. m.keys, NEW r \in 1 .. m.keys, NEW i \in 1 .. n,
                        NEW j \in 1 .. n, q < r, m.columns[q] = order[i], IsFirst(order, i),
                        m.columns[r] = order[j], IsFirst(order, j)
                 PROVE  i < j
        OBVIOUS
    <3>1. q \in 1 .. l.keys
        BY <1>2, <2>4 DEF at
    <3>2. m.columns[q] = l.columns[q] /\ l.columns[q].column # k.column
        BY <1>4, <2>10, <3>1
    <3>3. i # n /\ i \in 1 .. n - 1
      <4>1. order[i].column # k.column
          BY <3>2
      <4>2. i # n
          BY <4>1
      <4> QED
          BY <1>0, <4>2
    <3>4. CASE r \in 1 .. l.keys
      <4>1. m.columns[r] = l.columns[r] /\ l.columns[r].column # k.column
          BY <1>4, <2>10, <3>4
      <4>a. order[j].column # k.column
          BY <4>1
      <4>b. j # n
          BY <4>a
      <4>2. j # n /\ j \in 1 .. n - 1
          BY <1>0, <4>b
      <4> QED
          BY <1>2, <3>1, <3>2, <3>3, <3>4, <4>1, <4>2
    <3>5. CASE r = at
      <4>1. order[j].column = k.column
          BY <2>6, <3>5
      <4>2. j = n
          BY <1>0, <1>2, <1>4, <4>1
      <4> QED
          BY <1>0, <3>3, <4>2
    <3> QED
        BY <2>11, <3>4, <3>5
  <2>16. Arranged(width, order, n, m)
      BY <2>7, <2>8, <2>9, <2>13, <2>14, <2>15 DEF Arranged
  <2> QED
      BY <2>16 DEF m
<1> QED
    BY <1>3, <1>4

LEMMA LayoutArranged ==
  ASSUME NEW width \in Nat, NEW order \in Seq(Item(width))
  PROVE  Arranged(width, order, Len(order), Layout(width, order))
<1> DEFINE n == Len(order)
<1>1. n \in Nat
    OBVIOUS
<1>2. PICK f : /\ f[0] = Unplaced(width)
               /\ \A k \in 1 .. n : f[k] = Placed(width, f[k - 1], order[k])
               /\ Layout(width, order) = f[n]
    BY LayoutSteps
<1> DEFINE Bad == {k \in 1 .. n : ~Arranged(width, order, k, f[k])}
<1>3. Bad = {}
  <2>1. SUFFICES ASSUME Bad # {} PROVE FALSE
      OBVIOUS
  <2>2. PICK k \in Bad : \A j \in Bad : k <= j
    <3>1. Bad \in SUBSET (1 .. n)
        OBVIOUS
    <3> HIDE DEF Bad
    <3> QED
        BY <1>1, <2>1, <3>1, LeastIn
  <2>3. k \in 1 .. n /\ ~Arranged(width, order, k, f[k])
      OBVIOUS
  <2>4. k - 1 = 0 \/ (k - 1 \in 1 .. n /\ k - 1 \notin Bad)
    <3>1. k - 1 \notin Bad
        BY <2>2, <2>3
    <3> QED
        BY <1>1, <2>3, <3>1
  <2>5. Arranged(width, order, k - 1, f[k - 1])
    <3>1. CASE k - 1 = 0
        BY <1>2, <3>1, ArrangedUnplaced
    <3>2. CASE k - 1 \in 1 .. n /\ k - 1 \notin Bad
        BY <3>2
    <3> QED
        BY <2>4, <3>1, <3>2
  <2> HIDE DEF Bad
  <2>6. Arranged(width, order, k, Placed(width, f[k - 1], order[k]))
      BY <2>3, <2>5, ArrangedPlaced
  <2> QED
      BY <1>2, <2>3, <2>6
<1>4. CASE n = 0
    BY <1>2, <1>4, ArrangedUnplaced
<1>5. CASE n \in 1 .. n
    BY <1>2, <1>3, <1>5
<1> QED
    BY <1>1, <1>4, <1>5

-----------------------------------------------------------------------------
(* Rows and records.                                                        *)

RowOf(width) == {row \in Seq(Value) : Len(row) = width}
RecordOf(width) == [fields : RowOf(width), arguments : Seq(Value), ordinal : Nat]

LEMMA RowFacts ==
  ASSUME NEW width \in Nat, NEW row \in RowOf(width)
  PROVE  row \in Seq(Value) /\ Len(row) = width /\ \A p \in 1 .. width : row[p] \in Value
<1> DEFINE V == Value
<1>1. row \in Seq(V) /\ Len(row) = width
    BY DEF RowOf
<1> HIDE DEF V
<1>2. \A p \in 1 .. width : row[p] \in V
    BY <1>1
<1> QED
    BY <1>1, <1>2 DEF V

\* What the fields of two rows tell, key by key.
Compared(l, a, b) == [p \in 1 .. l.keys |-> CompareField(l.columns[p], a[p], b[p])]

LEMMA KeyFacts ==
  ASSUME NEW width \in Nat, NEW l \in LayoutOf(width)
  PROVE  /\ l.keys \in Nat
         /\ \A p \in 1 .. l.keys : /\ p \in 1 .. width
                                   /\ l.columns[p].descending \in BOOLEAN
                                   /\ l.columns[p].nullsLast \in BOOLEAN
<1>1. l.keys \in 0 .. width /\ l.columns \in [1 .. width -> Item(width)]
    BY DEF LayoutOf
<1>2. \A p \in 1 .. l.keys : p \in 1 .. width
    BY <1>1
<1>3. \A p \in 1 .. width : l.columns[p] \in Item(width)
    BY <1>1
<1>4. \A k \in Item(width) : k.descending \in BOOLEAN /\ k.nullsLast \in BOOLEAN
    BY DEF Item
<1>5. l.keys \in Nat
    BY <1>1
<1> QED
    BY <1>2, <1>3, <1>4, <1>5

LEMMA KeysOrdered ==
  ASSUME NEW width \in Nat, NEW l \in LayoutOf(width),
         NEW a \in RowOf(width), NEW b \in RowOf(width), NEW c \in RowOf(width)
  PROVE  /\ CompareKeys(l, a, b) \in Order
         /\ CompareKeys(l, b, a) = -CompareKeys(l, a, b)
         /\ Chained(CompareKeys(l, a, b), CompareKeys(l, b, c), CompareKeys(l, a, c))
<1> DEFINE m == l.keys
<1>1. /\ m \in Nat
      /\ \A p \in 1 .. m : /\ p \in 1 .. width
                           /\ l.columns[p].descending \in BOOLEAN
                           /\ l.columns[p].nullsLast \in BOOLEAN
    BY KeyFacts
<1>2. \A p \in 1 .. m : a[p] \in Value /\ b[p] \in Value /\ c[p] \in Value
    BY <1>1, RowFacts
<1> DEFINE ab == Compared(l, a, b)
           ba == Compared(l, b, a)
           bc == Compared(l, b, c)
           ac == Compared(l, a, c)
<1>3. \A p \in 1 .. m :
        /\ CompareField(l.columns[p], a[p], b[p]) \in Order
        /\ CompareField(l.columns[p], b[p], a[p]) \in Order
        /\ CompareField(l.columns[p], b[p], c[p]) \in Order
        /\ CompareField(l.columns[p], a[p], c[p]) \in Order
        /\ CompareField(l.columns[p], b[p], a[p]) = -CompareField(l.columns[p], a[p], b[p])
        /\ Chained(CompareField(l.columns[p], a[p], b[p]), CompareField(l.columns[p], b[p], c[p]),
                   CompareField(l.columns[p], a[p], c[p]))
  <2> SUFFICES ASSUME NEW p \in 1 .. m
               PROVE  /\ CompareField(l.columns[p], a[p], b[p]) \in Order
        /\ CompareField(l.columns[p], b[p], a[p]) \in Order
        /\ CompareField(l.columns[p], b[p], c[p]) \in Order
        /\ CompareField(l.columns[p], a[p], c[p]) \in Order
        /\ CompareField(l.columns[p], b[p], a[p]) = -CompareField(l.columns[p], a[p], b[p])
        /\ Chained(CompareField(l.columns[p], a[p], b[p]), CompareField(l.columns[p], b[p], c[p]),
                   CompareField(l.columns[p], a[p], c[p]))
      OBVIOUS
  <2> DEFINE k == l.columns[p]
             x == a[p]
             y == b[p]
             z == c[p]
  <2>1. /\ k.descending \in BOOLEAN /\ k.nullsLast \in BOOLEAN
        /\ x \in Value /\ y \in Value /\ z \in Value
      BY <1>1, <1>2
  <2> HIDE DEF k, x, y, z
  <2>2. /\ CompareField(k, x, y) \in Order /\ CompareField(k, y, x) \in Order
        /\ CompareField(k, y, z) \in Order /\ CompareField(k, x, z) \in Order
        /\ CompareField(k, y, x) = -CompareField(k, x, y)
        /\ Chained(CompareField(k, x, y), CompareField(k, y, z), CompareField(k, x, z))
      BY <2>1, FieldFacts, FieldChain
  <2> QED
      BY <2>2 DEF k, x, y, z
<1>4. /\ ab \in [1 .. m -> Order] /\ ba \in [1 .. m -> Order]
      /\ bc \in [1 .. m -> Order] /\ ac \in [1 .. m -> Order]
      /\ \A p \in 1 .. m : ba[p] = -ab[p] /\ Chained(ab[p], bc[p], ac[p])
    BY <1>3 DEF Compared
<1>5. /\ CompareKeys(l, a, b) = Lexicographic(ab) /\ CompareKeys(l, b, a) = Lexicographic(ba)
      /\ CompareKeys(l, b, c) = Lexicographic(bc) /\ CompareKeys(l, a, c) = Lexicographic(ac)
    BY DEF CompareKeys, ComparePrefix, Compared
<1> HIDE DEF m, ab, ba, bc, ac
<1>6. m \in Nat /\ ab \in [1 .. m -> Order] /\ ba \in [1 .. m -> Order]
    BY <1>1, <1>4
<1>7. Lexicographic(ab) \in Order
    BY <1>6, LexicographicFacts
<1>8. Lexicographic(ba) = -Lexicographic(ab)
  <2>1. \A p \in 1 .. m : ba[p] = -ab[p]
      BY <1>4
  <2> QED
      BY <1>6, <2>1, LexicographicSwap
<1>9. Chained(Lexicographic(ab), Lexicographic(bc), Lexicographic(ac))
  <2>1. bc \in [1 .. m -> Order] /\ ac \in [1 .. m -> Order]
      BY <1>4
  <2>2. \A p \in 1 .. m : Chained(ab[p], bc[p], ac[p])
      BY <1>4
  <2> QED
      BY <1>6, <2>1, <2>2, LexicographicChain
<1> QED
    BY <1>5, <1>7, <1>8, <1>9

\* Keys first, then the ordinal.
LEMMA RecordFacts ==
  ASSUME NEW width \in Nat, NEW l \in LayoutOf(width),
         NEW a \in RecordOf(width), NEW b \in RecordOf(width)
  PROVE  /\ a.fields \in RowOf(width) /\ a.ordinal \in Nat
         /\ CompareRecords(l, a, b) =
              IF CompareKeys(l, a.fields, b.fields) # 0 THEN CompareKeys(l, a.fields, b.fields)
              ELSE Compare(a.ordinal, b.ordinal)
<1>1. /\ a.fields \in RowOf(width) /\ a.ordinal \in Nat
      /\ b.fields \in RowOf(width) /\ b.ordinal \in Nat
    BY DEF RecordOf
<1> DEFINE x == CompareKeys(l, a.fields, b.fields)
           y == Compare(a.ordinal, b.ordinal)
           f == <<x, y>>
<1>2. x \in Order /\ y \in Order
    BY <1>1, KeysOrdered, CompareFacts
<1>3. CompareRecords(l, a, b) = Lexicographic(f)
    BY DEF CompareRecords
<1> HIDE DEF x, y
<1>4. f \in [1 .. 2 -> Order] /\ f[1] = x /\ f[2] = y
    BY <1>2
<1> HIDE DEF f
<1>5. /\ Lexicographic(f) \in Order
      /\ Lexicographic(f) = 0 <=> \A p \in 1 .. 2 : f[p] = 0
      /\ \A v \in {-1, 1} : Lexicographic(f) = v <=>
           \E p \in 1 .. 2 : f[p] = v /\ \A q \in 1 .. p - 1 : f[q] = 0
    BY <1>4, LexicographicFacts
<1>6. CASE x # 0
  <2>1. x \in {-1, 1} /\ 1 \in 1 .. 2 /\ \A q \in 1 .. 1 - 1 : f[q] = 0
      BY <1>2, <1>6 DEF Order
  <2>2. Lexicographic(f) = x
      BY <1>4, <1>5, <2>1
  <2> QED
      BY <1>1, <1>3, <1>6, <2>2 DEF x
<1>7. CASE x = 0 /\ y # 0
  <2>1. y \in {-1, 1} /\ 2 \in 1 .. 2 /\ \A q \in 1 .. 2 - 1 : f[q] = 0
      BY <1>2, <1>4, <1>7 DEF Order
  <2>2. Lexicographic(f) = y
      BY <1>4, <1>5, <2>1
  <2> QED
      BY <1>1, <1>3, <1>7, <2>2 DEF x, y
<1>8. CASE x = 0 /\ y = 0
  <2>1. \A p \in 1 .. 2 : f[p] = 0
      BY <1>4, <1>8
  <2>2. Lexicographic(f) = 0
      BY <1>5, <2>1
  <2> QED
      BY <1>1, <1>3, <1>8, <2>2 DEF x, y
<1> QED
    BY <1>6, <1>7, <1>8

\* The comparator of sorting and merging is a strict total order on the records
\* of an input, for every layout, direction and placement of NULL, with NaN and
\* both zeros among the values: it never contradicts itself or its reverse, it
\* is transitive, and records with different ordinals are never equal.
THEOREM RecordsAreOrdered ==
  ASSUME NEW width \in Nat, NEW l \in LayoutOf(width),
         NEW a \in RecordOf(width), NEW b \in RecordOf(width), NEW c \in RecordOf(width)
  PROVE  /\ CompareRecords(l, a, b) \in {-1, 0, 1}
         /\ CompareRecords(l, b, a) = -CompareRecords(l, a, b)
         /\ CompareRecords(l, a, b) = 0 => a.ordinal = b.ordinal
         /\ CompareRecords(l, a, b) < 0 /\ CompareRecords(l, b, c) < 0 =>
              CompareRecords(l, a, c) < 0
<1> DEFINE K(r, s) == CompareKeys(l, r.fields, s.fields)
           N(r, s) == Compare(r.ordinal, s.ordinal)
           R(r, s) == CompareRecords(l, r, s)
<1>1. \A r, s \in {a, b, c} :
        /\ r.fields \in RowOf(width) /\ r.ordinal \in Nat
        /\ R(r, s) = IF K(r, s) # 0 THEN K(r, s) ELSE N(r, s)
    BY RecordFacts
<1>2. \A r, s \in {a, b, c} :
        /\ K(r, s) \in Order /\ K(s, r) = -K(r, s)
        /\ N(r, s) \in Order /\ N(s, r) = -N(r, s)
        /\ N(r, s) = 0 <=> r.ordinal = s.ordinal
        /\ N(r, s) = -1 <=> r.ordinal < s.ordinal
    BY <1>1, KeysOrdered, CompareFacts
<1>3. Chained(K(a, b), K(b, c), K(a, c))
    BY <1>1, KeysOrdered
<1> HIDE DEF K, N, R
<1>4. /\ R(a, b) \in Order /\ R(b, a) = -R(a, b)
      /\ R(a, b) = 0 => a.ordinal = b.ordinal
    BY <1>1, <1>2 DEF Order
<1>5. R(a, b) < 0 /\ R(b, c) < 0 => R(a, c) < 0
  <2>1. a.ordinal \in Nat /\ b.ordinal \in Nat /\ c.ordinal \in Nat
      BY <1>1
  <2>2. /\ R(a, b) = IF K(a, b) # 0 THEN K(a, b) ELSE N(a, b)
        /\ R(b, c) = IF K(b, c) # 0 THEN K(b, c) ELSE N(b, c)
        /\ R(a, c) = IF K(a, c) # 0 THEN K(a, c) ELSE N(a, c)
      BY <1>1
  <2>3. /\ K(a, b) \in Order /\ K(b, c) \in Order /\ K(a, c) \in Order
        /\ N(a, b) \in Order /\ N(b, c) \in Order /\ N(a, c) \in Order
        /\ N(a, b) = -1 <=> a.ordinal < b.ordinal
        /\ N(b, c) = -1 <=> b.ordinal < c.ordinal
        /\ N(a, c) = -1 <=> a.ordinal < c.ordinal
      BY <1>2
  <2> QED
      BY <1>3, <2>1, <2>2, <2>3 DEF Chained, Order
<1> QED
    BY <1>4, <1>5 DEF R, Order

LEMMA EncodeFacts ==
  ASSUME NEW width \in Nat, NEW l \in LayoutOf(width), NEW row \in RowOf(width)
  PROVE  /\ Encode(l, row) \in RowOf(width)
         /\ \A p \in 1 .. width : /\ l.columns[p].column \in 1 .. width
                                 /\ Encode(l, row)[p] = row[l.columns[p].column]
<1>1. row \in Seq(Value) /\ Len(row) = width /\ \A p \in 1 .. width : row[p] \in Value
    BY RowFacts
<1>2. \A p \in 1 .. width : l.columns[p] \in Item(width)
    BY DEF LayoutOf
<1>3. \A p \in 1 .. width : l.columns[p].column \in 1 .. width
    BY <1>2 DEF Item
<1>4. Encode(l, row) = [p \in 1 .. width |-> row[l.columns[p].column]]
    BY <1>1 DEF Encode
<1> DEFINE V == Value
           e == Encode(l, row)
<1>5. e \in [1 .. width -> V]
    BY <1>1, <1>3, <1>4
<1>6. e \in Seq(V) /\ Len(e) = width
  <2> HIDE DEF V, e
  <2> QED
      BY <1>5
<1> QED
    BY <1>3, <1>4, <1>6 DEF RowOf

LEMMA RowsEqual ==
  ASSUME NEW width \in Nat, NEW a \in RowOf(width), NEW b, b = [c \in 1 .. width |-> a[c]]
  PROVE  b = a
<1> DEFINE V == Value
<1>1. a \in Seq(V) /\ Len(a) = width
    BY DEF RowOf
<1> HIDE DEF V
<1>2. a = [c \in 1 .. width |-> a[c]]
    BY <1>1
<1> QED
    BY <1>2

\* Rows compared item by item, as the query lists them.
ItemByItem(order, a, b) ==
  [i \in 1 .. Len(order) |->
     CompareField(order[i], a[order[i].column], b[order[i].column])]

LEMMA ItemFacts ==
  ASSUME NEW width \in Nat, NEW order \in Seq(Item(width)),
         NEW a \in RowOf(width), NEW b \in RowOf(width)
  PROVE  /\ Len(order) \in Nat
         /\ \A i \in 1 .. Len(order) :
              /\ order[i].column \in 1 .. width
              /\ order[i].descending \in BOOLEAN /\ order[i].nullsLast \in BOOLEAN
              /\ a[order[i].column] \in Value /\ b[order[i].column] \in Value
<1> DEFINE X == Item(width)
<1>1. order \in Seq(X)
    OBVIOUS
<1> HIDE DEF X
<1>2. Len(order) \in Nat /\ \A i \in 1 .. Len(order) : order[i] \in X
    BY <1>1
<1>3. \A i \in 1 .. Len(order) : /\ order[i].column \in 1 .. width
                                  /\ order[i].descending \in BOOLEAN
                                  /\ order[i].nullsLast \in BOOLEAN
    BY <1>2 DEF X, Item
<1>4. \A p \in 1 .. width : a[p] \in Value /\ b[p] \in Value
    BY RowFacts
<1> QED
    BY <1>2, <1>3, <1>4

\* The layout's keys tell what the items tell: an item that names a column again
\* cannot tell apart what the first one did not.
LEMMA KeysCompareItems ==
  ASSUME NEW width \in Nat, NEW order \in Seq(Item(width)),
         NEW a \in RowOf(width), NEW b \in RowOf(width), NEW l, l = Layout(width, order)
  PROVE  CompareKeys(l, Encode(l, a), Encode(l, b)) = Lexicographic(ItemByItem(order, a, b))
<1> DEFINE n == Len(order)
           m == l.keys
           f == Compared(l, Encode(l, a), Encode(l, b))
           g == ItemByItem(order, a, b)
<1>a. Arranged(width, order, n, l)
    BY LayoutArranged
<1>1. Arranged(width, order, n, l) /\ l \in LayoutOf(width)
    BY <1>a DEF Arranged
<1>2. /\ \A p \in 1 .. m : \E i \in 1 .. n : l.columns[p] = order[i] /\ IsFirst(order, i)
      /\ \A i \in 1 .. n : \E p \in 1 .. m : l.columns[p].column = order[i].column
      /\ \A p, q \in 1 .. m : \A i, j \in 1 .. n :
           p < q /\ l.columns[p] = order[i] /\ IsFirst(order, i)
                 /\ l.columns[q] = order[j] /\ IsFirst(order, j) => i < j
    BY <1>1 DEF Arranged
<1>3. m \in Nat /\ \A p \in 1 .. m : p \in 1 .. width
    BY <1>1, KeyFacts
<1>4. /\ n \in Nat
      /\ \A i \in 1 .. n :
           /\ order[i].column \in 1 .. width
           /\ order[i].descending \in BOOLEAN /\ order[i].nullsLast \in BOOLEAN
           /\ a[order[i].column] \in Value /\ b[order[i].column] \in Value
    BY ItemFacts
<1>5. g \in [1 .. n -> Order]
  <2>1. \A i \in 1 .. n : CompareField(order[i], a[order[i].column], b[order[i].column]) \in Order
      BY <1>4, FieldFacts
  <2> QED
      BY <2>1 DEF ItemByItem
<1>6. \A p \in 1 .. m :
        f[p] = CompareField(l.columns[p], a[l.columns[p].column], b[l.columns[p].column])
    BY <1>1, <1>3, EncodeFacts DEF Compared
<1>7. \A p \in 1 .. m : \A i \in 1 .. n : l.columns[p] = order[i] => f[p] = g[i]
    BY <1>6 DEF ItemByItem
<1>8. f \in [1 .. m -> Order]
  <2>1. \A p \in 1 .. m : f[p] \in Order
      BY <1>2, <1>5, <1>7
  <2>2. f = [p \in 1 .. m |-> f[p]]
      BY DEF Compared
  <2> HIDE DEF f
  <2> QED
      BY <2>1, <2>2
<1>9. \A i, j \in 1 .. n : order[i].column = order[j].column => (g[i] = 0 <=> g[j] = 0)
  <2> SUFFICES ASSUME NEW i \in 1 .. n, NEW j \in 1 .. n, order[i].column = order[j].column
               PROVE  g[i] = 0 <=> g[j] = 0
      OBVIOUS
  <2> DEFINE x == a[order[i].column]
             y == b[order[i].column]
  <2>1. g[i] = CompareField(order[i], x, y) /\ g[j] = CompareField(order[j], x, y)
      BY DEF ItemByItem
  <2>2. /\ CompareField(order[i], x, y) = 0 <=> CompareValues(x, y) = 0
        /\ CompareField(order[j], x, y) = 0 <=> CompareValues(x, y) = 0
      BY <1>4, FieldFacts
  <2> QED
      BY <2>1, <2>2
<1>10. CompareKeys(l, Encode(l, a), Encode(l, b)) = Lexicographic(f)
    BY DEF CompareKeys, ComparePrefix, Compared
<1> HIDE DEF f, g, m, n
<1>11. CASE \A i \in 1 .. n : g[i] = 0
  <2>1. \A p \in 1 .. m : f[p] = 0
      BY <1>2, <1>7, <1>11
  <2>2. Lexicographic(f) = 0
      BY <1>3, <1>8, <2>1, LexicographicFacts
  <2>3. Lexicographic(g) = 0
      BY <1>4, <1>5, <1>11, LexicographicFacts
  <2> QED
      BY <1>10, <2>2, <2>3 DEF g
<1>12. CASE ~\A i \in 1 .. n : g[i] = 0
  <2>1. PICK v \in {-1, 1} : Lexicographic(g) = v
    <3>1. Lexicographic(g) \in Order /\ Lexicographic(g) # 0
        BY <1>4, <1>5, <1>12, LexicographicFacts
    <3> QED
        BY <3>1 DEF Order
  <2>2. PICK i \in 1 .. n : g[i] = v /\ \A j \in 1 .. i - 1 : g[j] = 0
      BY <1>4, <1>5, <2>1, LexicographicFacts
  <2>3. \A j \in 1 .. n : j < i => j \in 1 .. i - 1
      BY <1>4
  <2>4. IsFirst(order, i)
    <3> SUFFICES ASSUME NEW j \in 1 .. i - 1 PROVE order[j].column # order[i].column
        BY DEF IsFirst
    <3>1. j \in 1 .. n /\ g[j] = 0 /\ g[i] # 0
        BY <1>4, <2>1, <2>2
    <3> QED
        BY <1>9, <3>1
  <2>5. PICK p \in 1 .. m : l.columns[p].column = order[i].column
      BY <1>2
  <2>6. PICK k \in 1 .. n : l.columns[p] = order[k] /\ IsFirst(order, k)
      BY <1>2
  <2>7. k = i
    <3>1. order[k].column = order[i].column
        BY <2>5, <2>6
    <3>2. CASE k < i
      <4>1. k \in 1 .. i - 1
          BY <1>4, <3>2
      <4> QED
          BY <2>4, <3>1, <4>1 DEF IsFirst
    <3>3. CASE i < k
      <4>1. i \in 1 .. k - 1
          BY <1>4, <3>3
      <4> QED
          BY <2>6, <3>1, <4>1 DEF IsFirst
    <3> QED
        BY <1>4, <3>2, <3>3
  <2>8. f[p] = v
      BY <1>7, <2>2, <2>6, <2>7
  <2>9. ASSUME NEW q \in 1 .. p - 1 PROVE f[q] = 0
    <3>1. q \in 1 .. m /\ q < p
        BY <1>3
    <3>2. PICK j \in 1 .. n : l.columns[q] = order[j] /\ IsFirst(order, j)
        BY <1>2, <3>1
    <3>3. j < i
        BY <1>2, <2>4, <2>6, <2>7, <3>1, <3>2
    <3>4. f[q] = g[j] /\ g[j] = 0
        BY <1>7, <2>2, <2>3, <3>1, <3>2, <3>3
    <3> QED
        BY <3>4
  <2>10. Lexicographic(f) = v
      BY <1>3, <1>8, <2>8, <2>9, LexicographicFacts
  <2> QED
      BY <1>10, <2>1, <2>10 DEF g
<1> QED
    BY <1>11, <1>12

\* Item by item is what the order of a query says.
LEMMA ItemsAsked ==
  ASSUME NEW width \in Nat, NEW order \in Seq(Item(width)),
         NEW a \in RowOf(width), NEW b \in RowOf(width)
  PROVE  /\ Lexicographic(ItemByItem(order, a, b)) \in Order
         /\ Lexicographic(ItemByItem(order, a, b)) = -1 <=> Precedes(order, a, b)
         /\ Lexicographic(ItemByItem(order, a, b)) = 0 <=> Peers(order, a, b)
         /\ Lexicographic(ItemByItem(order, b, a)) = -Lexicographic(ItemByItem(order, a, b))
<1> DEFINE n == Len(order)
           g == ItemByItem(order, a, b)
           h == ItemByItem(order, b, a)
<1>1. /\ n \in Nat
      /\ \A i \in 1 .. n :
           /\ order[i].descending \in BOOLEAN /\ order[i].nullsLast \in BOOLEAN
           /\ a[order[i].column] \in Value /\ b[order[i].column] \in Value
    BY ItemFacts
<1>2. \A i \in 1 .. n :
        /\ CompareField(order[i], a[order[i].column], b[order[i].column]) \in Order
        /\ CompareField(order[i], b[order[i].column], a[order[i].column]) \in Order
        /\ CompareField(order[i], b[order[i].column], a[order[i].column]) =
             -CompareField(order[i], a[order[i].column], b[order[i].column])
    BY <1>1, FieldFacts
<1>3. \A i \in 1 .. n :
        /\ g[i] = -1 <=> Ahead(order[i], a[order[i].column], b[order[i].column])
        /\ g[i] = 0 <=> Same(a[order[i].column], b[order[i].column])
    BY <1>1, FieldAsked DEF ItemByItem
<1>4. /\ g \in [1 .. n -> Order] /\ h \in [1 .. n -> Order]
      /\ \A i \in 1 .. n : h[i] = -g[i]
    BY <1>2 DEF ItemByItem
<1>5. Precedes(order, a, b) <=> \E p \in 1 .. n : g[p] = -1 /\ \A q \in 1 .. p - 1 : g[q] = 0
  <2>1. \A p \in 1 .. n : \A q \in 1 .. p - 1 : q \in 1 .. n
      BY <1>1
  <2> HIDE DEF g
  <2> QED
      BY <1>3, <2>1 DEF Precedes
<1>6. Peers(order, a, b) <=> \A p \in 1 .. n : g[p] = 0
  <2> HIDE DEF g
  <2> QED
      BY <1>3 DEF Peers
<1> HIDE DEF g, h, n
<1>7. /\ Lexicographic(g) \in Order
      /\ Lexicographic(g) = 0 <=> \A p \in 1 .. n : g[p] = 0
      /\ \A v \in {-1, 1} : Lexicographic(g) = v <=>
           \E p \in 1 .. n : g[p] = v /\ \A q \in 1 .. p - 1 : g[q] = 0
    BY <1>1, <1>4, LexicographicFacts
<1>8. Lexicographic(h) = -Lexicographic(g)
  <2>1. \A i \in 1 .. n : h[i] = -g[i]
      BY <1>4
  <2> QED
      BY <1>1, <1>4, <2>1, LexicographicSwap
<1>9. -1 \in {-1, 1}
    OBVIOUS
<1> QED
    BY <1>5, <1>6, <1>7, <1>8, <1>9 DEF g, h

\* What the sorter compares is what ORDER BY asks for: with the layout of any
\* list of items, however columns repeat in it and whatever their policies, two
\* encoded rows compare as the items say, and a stored row is given back as it
\* came (RowLayout::for_order, SortRecord::encode_row, SortedInput::read_values).
THEOREM SortsAsAsked ==
  ASSUME NEW width \in Nat, NEW order \in Seq(Item(width)),
         NEW a \in RowOf(width), NEW b \in RowOf(width)
  PROVE  LET l == Layout(width, order)
             told == CompareKeys(l, Encode(l, a), Encode(l, b)) IN
         /\ told < 0 <=> Precedes(order, a, b)
         /\ told = 0 <=> Peers(order, a, b)
         /\ told > 0 <=> Precedes(order, b, a)
         /\ Decode(l, Encode(l, a)) = a
<1> DEFINE l == Layout(width, order)
           told == CompareKeys(l, Encode(l, a), Encode(l, b))
           ab == Lexicographic(ItemByItem(order, a, b))
           ba == Lexicographic(ItemByItem(order, b, a))
<1>1. told = ab
    BY KeysCompareItems
<1>2. /\ ab \in Order /\ ba = -ab
      /\ ab = -1 <=> Precedes(order, a, b)
      /\ ab = 0 <=> Peers(order, a, b)
      /\ ba = -1 <=> Precedes(order, b, a)
    BY ItemsAsked
<1>3. /\ told < 0 <=> Precedes(order, a, b)
      /\ told = 0 <=> Peers(order, a, b)
      /\ told > 0 <=> Precedes(order, b, a)
  <2> HIDE DEF told, ab, ba
  <2> QED
      BY <1>1, <1>2 DEF Order
<1>4. Decode(l, Encode(l, a)) = a
  <2>1. Arranged(width, order, Len(order), l)
      BY LayoutArranged
  <2>2. /\ l \in LayoutOf(width)
        /\ \A p, q \in 1 .. width : l.columns[p].column = l.columns[q].column => p = q
        /\ \A c \in 1 .. width : \E p \in 1 .. width : l.columns[p].column = c
      BY <2>1 DEF Arranged
  <2> HIDE DEF l
  <2> DEFINE e == Encode(l, a)
             d == Decode(l, e)
  <2>3. /\ e \in RowOf(width)
        /\ \A p \in 1 .. width : e[p] = a[l.columns[p].column]
      BY <2>2, EncodeFacts
  <2>4. Len(e) = width
      BY <2>3, RowFacts
  <2>5. d = [c \in 1 .. width |-> e[CHOOSE p \in 1 .. width : l.columns[p].column = c]]
      BY <2>4 DEF Decode
  <2>6. ASSUME NEW c \in 1 .. width PROVE d[c] = a[c]
    <3> DEFINE at == CHOOSE p \in 1 .. width : l.columns[p].column = c
    <3>1. at \in 1 .. width /\ l.columns[at].column = c
        BY <2>2
    <3> QED
        BY <2>3, <2>5, <3>1
  <2>7. d = [c \in 1 .. width |-> a[c]]
    <3>1. d = [c \in 1 .. width |-> d[c]]
        BY <2>5
    <3> HIDE DEF d
    <3> QED
        BY <2>6, <3>1
  <2> HIDE DEF d
  <2>8. d = a
      BY <2>7, RowsEqual
  <2> QED
      BY <2>8 DEF d
<1> QED
    BY <1>3, <1>4
=============================================================================
