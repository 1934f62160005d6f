------------------------- MODULE Projection_proofs -------------------------
(***************************************************************************)
(* What the projections promise, for any facts, budgets, page size and     *)
(* number of clients: a reader that followed its cursor has its snapshot   *)
(* whole and in order, and a collector is refused for nothing but its own  *)
(* facts.                                                                  *)
(***************************************************************************)
EXTENDS Projection, FiniteSetTheorems, SequenceTheorems, WellFoundedInduction, TLAPS

-----------------------------------------------------------------------------
(* Numbers, finite sets and sorted sequences.                              *)

\* A nonempty set of numbers has a least one.
LEMMA LeastNumber ==
  ASSUME NEW T, T \subseteq Nat, T # {}
  PROVE  \E x \in T : \A y \in T : x <= y
<1>1. PICK x \in T : \A y \in T : ~(<<y, x>> \in OpToRel(<, Nat))
  BY NatLessThanWellFounded, WFMin
<1>2. \A y \in T : ~(y < x)
  BY <1>1 DEF OpToRel
<1>3. \A y \in T : x <= y
  BY <1>2
<1> QED BY <1>3

LEMMA MaxWithin ==
  ASSUME NEW l \in Nat, NEW S, S \subseteq 0 .. l, S # {}
  PROVE  Max(S) \in 0 .. l
<1>1. PICK T : T = {l - x : x \in S}
  OBVIOUS
<1>2. T \subseteq Nat /\ T # {}
  <2>1. \A x \in S : l - x \in Nat /\ l - x \in T
    BY <1>1
  <2>2. T \subseteq Nat
    BY <1>1, <2>1
  <2> QED BY <2>1, <2>2
<1>3. PICK t \in T : \A u \in T : t <= u
  BY <1>2, LeastNumber
<1>4. PICK x \in S : t = l - x
  BY <1>1, <1>3
<1>5. \A y \in S : l - y \in T /\ y \in Int /\ x \in Int
  BY <1>1
<1>6. \A y \in S : x >= y
  BY <1>3, <1>4, <1>5
<1>7. Max(S) \in S
  BY <1>6 DEF Max
<1> QED BY <1>7

\* In a finite strict order every place from the first to the last is taken, once.
LEMMA Ranked ==
  ASSUME NEW S, IsFiniteSet(S), NEW R,
         \A x \in S : <<x, x>> \notin R,
         \A x, y \in S : x # y => <<x, y>> \in R \/ <<y, x>> \in R,
         \A x, y, z \in S : <<x, y>> \in R /\ <<y, z>> \in R => <<x, z>> \in R
  PROVE  /\ Cardinality(S) \in Nat
         /\ \A k \in 1 .. Cardinality(S) : \E x \in S : Cardinality({y \in S : <<y, x>> \in R}) = k - 1
         /\ \A x \in S : Cardinality({y \in S : <<y, x>> \in R}) + 1 \in 1 .. Cardinality(S)
         /\ \A x, z \in S : Cardinality({y \in S : <<y, x>> \in R}) < Cardinality({y \in S : <<y, z>> \in R})
                              <=> <<x, z>> \in R
         /\ \A x, z \in S : Cardinality({y \in S : <<y, x>> \in R}) = Cardinality({y \in S : <<y, z>> \in R}) => x = z
<1> DEFINE Below(x) == {y \in S : <<y, x>> \in R}
           n == Cardinality(S)
<1>1. n \in Nat
  BY FS_CardinalityType
<1>2. ASSUME NEW x \in S PROVE IsFiniteSet(Below(x)) /\ Cardinality(Below(x)) \in Nat /\ Cardinality(Below(x)) < n
  <2>1. IsFiniteSet(Below(x)) /\ Cardinality(Below(x)) <= n /\ (n = Cardinality(Below(x)) => S = Below(x))
    BY FS_Subset
  <2>2. Cardinality(Below(x)) \in Nat
    BY <2>1, FS_CardinalityType
  <2>3. S # Below(x)
    OBVIOUS
  <2> QED BY <1>1, <2>1, <2>2, <2>3
<1>3. ASSUME NEW x \in S, NEW z \in S, <<x, z>> \in R PROVE Cardinality(Below(x)) < Cardinality(Below(z))
  <2>1. Below(x) \in SUBSET Below(z)
    BY <1>3
  <2>2. x \in Below(z) /\ x \notin Below(x)
    BY <1>3
  <2>3. Cardinality(Below(x)) <= Cardinality(Below(z)) /\ (Cardinality(Below(z)) = Cardinality(Below(x)) => Below(z) = Below(x))
    BY <1>2, <2>1, FS_Subset
  <2> HIDE DEF Below
  <2> QED BY <1>2, <2>2, <2>3
<1>4. ASSUME NEW x \in S, NEW z \in S, Cardinality(Below(x)) = Cardinality(Below(z)) PROVE x = z
  <2> SUFFICES ASSUME x # z PROVE FALSE
    OBVIOUS
  <2>1. <<x, z>> \in R \/ <<z, x>> \in R
    OBVIOUS
  <2>2. Cardinality(Below(x)) < Cardinality(Below(z)) \/ Cardinality(Below(z)) < Cardinality(Below(x))
    BY <1>3, <2>1
  <2> HIDE DEF Below
  <2> QED BY <1>2, <1>4, <2>2
<1>5. ASSUME NEW x \in S, NEW z \in S, Cardinality(Below(x)) < Cardinality(Below(z)) PROVE <<x, z>> \in R
  <2> SUFFICES ASSUME <<x, z>> \notin R PROVE FALSE
    OBVIOUS
  <2>1. x = z \/ <<z, x>> \in R
    OBVIOUS
  <2>2. x = z \/ Cardinality(Below(z)) < Cardinality(Below(x))
    BY <1>3, <2>1
  <2> HIDE DEF Below
  <2> QED BY <1>2, <1>5, <2>2
<1>6. PICK rank : rank = [x \in S |-> Cardinality(Below(x)) + 1]
  OBVIOUS
<1>7. ASSUME NEW k \in 1 .. n PROVE \E x \in S : Cardinality(Below(x)) = k - 1
  <2> HIDE DEF Below, n
  <2>1. rank \in [S -> 1 .. n]
    BY <1>1, <1>2, <1>6
  <2>2. \A x, z \in S : rank[x] = rank[z] => x = z
    BY <1>2, <1>4, <1>6
  <2>3. rank \in Injection(S, 1 .. n)
    BY <2>1, <2>2 DEF Injection, IsInjective
  <2>4. IsFiniteSet(1 .. n) /\ Cardinality(1 .. n) = n
    BY <1>1, FS_Interval
  <2>5. rank \in Surjection(S, 1 .. n)
    BY <2>3, <2>4, FS_Injection DEF n
  <2>6. PICK x \in S : rank[x] = k
    BY <1>7, <2>5 DEF Surjection
  <2> QED BY <1>2, <1>6, <2>6
<1>8. \A x \in S : Cardinality(Below(x)) + 1 \in 1 .. n
  <2> HIDE DEF Below, n
  <2> QED BY <1>1, <1>2
<1>9. \A x, z \in S : Cardinality(Below(x)) < Cardinality(Below(z)) <=> <<x, z>> \in R
  BY <1>3, <1>5
<1> QED BY <1>1, <1>4, <1>7, <1>8, <1>9

\* A receive time as text, and the order of texts.
Text == [at : Int, unit : Int]

LEMMA TextFacts ==
  ASSUME NEW s, NEW t \in Int
  PROVE  ReceivedText(s, t) \in Text
<1>1. PICK S : S = {u \in Units : t % u = 0}
  BY Zenon
<1>2. t % 1 = 0
  BY SMT
<1>3. PICK l \in Nat : l = 1000000000
  BY SMT
<1>4. ASSUME NEW u \in Units PROVE u \in 0 .. l
  <2>1. u \in Nat /\ u <= 1000000000
    BY <1>4, SMT DEF Units
  <2>2. u <= l
    BY <1>3, <2>1
  <2> QED BY <2>1, <2>2
<1>5. 1 \in Units
  BY SMT DEF Units
<1>6. S \subseteq 0 .. l /\ S # {}
  BY <1>1, <1>2, <1>4, <1>5, SMT
<1>7. Max(S) \in 0 .. l
  BY <1>6, MaxWithin, Zenon
<1>8. RFC3339Nano(t) \in Text
  BY <1>1, <1>7, SMT DEF RFC3339Nano, Text
<1>9. FixedUTC(t) \in Text
  BY SMT DEF FixedUTC, Text
<1> QED BY <1>8, <1>9, Zenon DEF ReceivedText

LEMMA TextOrder ==
  /\ \A x \in Text : ~TextBefore(x, x)
  /\ \A x, y \in Text : x # y => TextBefore(x, y) \/ TextBefore(y, x)
  /\ \A x, y, z \in Text : TextBefore(x, y) /\ TextBefore(y, z) => TextBefore(x, z)
<1>1. ASSUME NEW x \in Text PROVE ~TextBefore(x, x) /\ x.at \in Int /\ x.unit \in Int /\ x = [at |-> x.at, unit |-> x.unit]
  BY DEF Text, TextBefore
<1>2. ASSUME NEW x \in Text, NEW y \in Text, x # y PROVE TextBefore(x, y) \/ TextBefore(y, x)
  <2>1. x.at # y.at \/ x.unit # y.unit
    BY <1>1, <1>2
  <2> QED BY <1>1, <2>1 DEF TextBefore
<1>3. ASSUME NEW x \in Text, NEW y \in Text, NEW z \in Text, TextBefore(x, y), TextBefore(y, z) PROVE TextBefore(x, z)
  BY <1>1, <1>3 DEF TextBefore
<1> QED BY <1>1, <1>2, <1>3

\* What the order of entries compares.
Keyed(e) == e.source \in Sources /\ e.id \in Int /\ e.start \in Int /\ e.received \in Text

SameFact(d, e) == d.source = e.source /\ d.id = e.id

LEMMA KeyOrder ==
  ASSUME NEW S, \A e \in S : Keyed(e), \A d, e \in S : SameFact(d, e) => d = e
  PROVE  /\ \A e \in S : ~KeyBefore(e, e)
         /\ \A d, e \in S : d # e => KeyBefore(d, e) \/ KeyBefore(e, d)
<1>1. \A s \in Sources : TypeRank(s) \in Int
  BY DEF TypeRank, Sources
<1>2. \A s, t \in Sources : s # t => TypeRank(s) < TypeRank(t) \/ TypeRank(t) < TypeRank(s)
  BY DEF TypeRank, Sources
<1>3. ASSUME NEW e \in S PROVE ~KeyBefore(e, e)
  BY <1>1, TextOrder DEF KeyBefore, Keyed
<1>4. ASSUME NEW d \in S, NEW e \in S, d # e PROVE KeyBefore(d, e) \/ KeyBefore(e, d)
  <2>1. d.source # e.source \/ d.id # e.id
    BY <1>4 DEF SameFact
  <2>2. Keyed(d) /\ Keyed(e)
    OBVIOUS
  <2>3. d.received # e.received => TextBefore(d.received, e.received) \/ TextBefore(e.received, d.received)
    BY <2>2, TextOrder DEF Keyed
  <2>4. CASE d.source # e.source
    <3>1. TypeRank(d.source) < TypeRank(e.source) \/ TypeRank(e.source) < TypeRank(d.source)
      BY <1>2, <2>2, <2>4 DEF Keyed
    <3> QED BY <2>2, <2>3, <3>1 DEF KeyBefore, Keyed
  <2>5. CASE d.source = e.source /\ d.id # e.id
    BY <2>2, <2>3, <2>5 DEF KeyBefore, Keyed
  <2> QED BY <2>1, <2>4, <2>5
<1> QED BY <1>3, <1>4

LEMMA KeyTransitive ==
  ASSUME NEW c, NEW d, NEW e, Keyed(c), Keyed(d), Keyed(e), KeyBefore(c, d), KeyBefore(d, e)
  PROVE  KeyBefore(c, e)
<1>1. \A s \in Sources : TypeRank(s) \in Int
  BY DEF TypeRank, Sources
<1>2. PICK rc, rd, re : rc = TypeRank(c.source) /\ rd = TypeRank(d.source) /\ re = TypeRank(e.source)
                        /\ rc \in Int /\ rd \in Int /\ re \in Int
  BY <1>1 DEF Keyed
<1>3. TextBefore(c.received, d.received) /\ TextBefore(d.received, e.received) => TextBefore(c.received, e.received)
  BY TextOrder DEF Keyed
<1> QED BY <1>2, <1>3 DEF KeyBefore, Keyed

\* A listing of the elements of S, from the lowest rank to the highest.
Lists(f, S) ==
  /\ f \in [1 .. Cardinality(S) -> S] /\ f \in Seq(S) /\ Len(f) = Cardinality(S)
  /\ \A m, n \in 1 .. Len(f) : f[m] = f[n] => m = n
  /\ \A x \in S : \E k \in 1 .. Len(f) : f[k] = x

LEMMA RanksList ==
  ASSUME NEW S, IsFiniteSet(S), NEW R,
         \A x \in S : <<x, x>> \notin R,
         \A x, y \in S : x # y => <<x, y>> \in R \/ <<y, x>> \in R,
         \A x, y, z \in S : <<x, y>> \in R /\ <<y, z>> \in R => <<x, z>> \in R,
         NEW f \in [1 .. Cardinality(S) -> S],
         \A k \in 1 .. Cardinality(S) : Cardinality({y \in S : <<y, f[k]>> \in R}) = k - 1
  PROVE  Cardinality(S) \in Nat /\ Lists(f, S) /\ \A m, n \in 1 .. Len(f) : m < n => <<f[m], f[n]>> \in R
<1> DEFINE Rank(x) == Cardinality({y \in S : <<y, x>> \in R})
<1>1. PICK l : l = Cardinality(S) /\ l \in Nat
  BY FS_CardinalityType
<1>2. /\ \A x \in S : Rank(x) + 1 \in 1 .. l
      /\ \A x, z \in S : Rank(x) < Rank(z) <=> <<x, z>> \in R
      /\ \A x, z \in S : Rank(x) = Rank(z) => x = z
  <2>1. /\ \A x \in S : Rank(x) + 1 \in 1 .. Cardinality(S)
        /\ \A x, z \in S : Rank(x) < Rank(z) <=> <<x, z>> \in R
        /\ \A x, z \in S : Rank(x) = Rank(z) => x = z
    BY ONLY Ranked, IsFiniteSet(S), \A x \in S : <<x, x>> \notin R,
         \A x, y \in S : x # y => <<x, y>> \in R \/ <<y, x>> \in R,
         \A x, y, z \in S : <<x, y>> \in R /\ <<y, z>> \in R => <<x, z>> \in R
  <2> HIDE DEF Rank
  <2> QED BY <1>1, <2>1
<1>3. \A k \in 1 .. l : f[k] \in S /\ Rank(f[k]) = k - 1
  BY <1>1
<1>4. f \in [1 .. l -> S]
  BY <1>1, <1>3
<1>5. f \in Seq(S) /\ Len(f) = l
  BY <1>1, <1>4, SeqDef
<1> HIDE DEF Rank
<1>6. \A m, n \in 1 .. l : f[m] = f[n] => m = n
  BY <1>1, <1>3
<1>7. \A m, n \in 1 .. l : m < n => <<f[m], f[n]>> \in R
  BY <1>1, <1>2, <1>3
<1>8. ASSUME NEW x \in S PROVE \E k \in 1 .. l : f[k] = x
  <2>1. PICK r : r = Rank(x)
    OBVIOUS
  <2>2. \E j \in 1 .. l : j = r + 1
    BY <1>2, <2>1
  <2>3. PICK j \in 1 .. l : j = r + 1
    BY <2>2
  <2>4. IsFiniteSet({y \in S : <<y, x>> \in R})
    BY FS_Subset
  <2>5. r \in Nat
    BY <2>1, <2>4, FS_CardinalityType DEF Rank
  <2>6. Rank(f[j]) = r
    BY <1>1, <1>3, <2>3, <2>5
  <2> QED BY <1>2, <1>3, <2>1, <2>3, <2>6
<1> QED BY <1>1, <1>4, <1>5, <1>6, <1>7, <1>8 DEF Lists

KeySort(S) == Sorted(S, KeyBefore)
RowSort(S) == Sorted(S, RowBefore)

\* A page's rows, in the order of the sort key.
LEMMA KeySorted ==
  ASSUME NEW S, IsFiniteSet(S), \A e \in S : Keyed(e), \A d, e \in S : SameFact(d, e) => d = e
  PROVE  /\ Cardinality(S) \in Nat /\ Lists(KeySort(S), S)
         /\ \A m, n \in 1 .. Len(KeySort(S)) :
              m < n => KeyBefore(KeySort(S)[m], KeySort(S)[n])
<1>1. PICK R : R = {p \in S \X S : KeyBefore(p[1], p[2])}
  OBVIOUS
<1>2. \A x, y \in S : <<x, y>> \in R <=> KeyBefore(x, y)
  BY <1>1
<1>3. \A x \in S : <<x, x>> \notin R
  BY <1>2, KeyOrder
<1>4. \A x, y \in S : x # y => <<x, y>> \in R \/ <<y, x>> \in R
  BY <1>2, KeyOrder
<1>5. \A x, y, z \in S : <<x, y>> \in R /\ <<y, z>> \in R => <<x, z>> \in R
  <2> SUFFICES ASSUME NEW x \in S, NEW y \in S, NEW z \in S, KeyBefore(x, y), KeyBefore(y, z) PROVE KeyBefore(x, z)
    BY <1>2
  <2> QED BY KeyTransitive
<1>6. ASSUME NEW x \in S PROVE {y \in S : KeyBefore(y, x)} = {y \in S : <<y, x>> \in R}
  BY <1>2
<1>7. Cardinality(S) \in Nat /\ \A k \in 1 .. Cardinality(S) : \E x \in S : Cardinality({y \in S : <<y, x>> \in R}) = k - 1
  BY <1>3, <1>4, <1>5, Ranked
<1>8. PICK f : f = KeySort(S)
  OBVIOUS
<1>9. ASSUME NEW k \in 1 .. Cardinality(S) PROVE f[k] \in S /\ Cardinality({y \in S : <<y, f[k]>> \in R}) = k - 1
  <2>1. \E x \in S : Cardinality({y \in S : KeyBefore(y, x)}) = k - 1
    BY <1>6, <1>7
  <2>2. f[k] = CHOOSE x \in S : Cardinality({y \in S : KeyBefore(y, x)}) = k - 1
    BY <1>8 DEF Sorted, KeySort
  <2>3. f[k] \in S /\ Cardinality({y \in S : KeyBefore(y, f[k])}) = k - 1
    BY <2>1, <2>2
  <2> QED BY <1>6, <2>3
<1>10. f \in [1 .. Cardinality(S) -> S]
  BY <1>8, <1>9 DEF Sorted, KeySort
<1>11. Lists(f, S) /\ \A m, n \in 1 .. Len(f) : m < n => <<f[m], f[n]>> \in R
  BY <1>3, <1>4, <1>5, <1>9, <1>10, RanksList
<1>12. \A m, n \in 1 .. Len(f) : m < n => KeyBefore(f[m], f[n])
  <2>1. \A m \in 1 .. Len(f) : f[m] \in S
    BY <1>11 DEF Lists
  <2> QED BY <1>2, <1>11, <2>1
<1> QED BY <1>7, <1>8, <1>11, <1>12

\* The rows of a query, which are of one table.
LEMMA RowsSorted ==
  ASSUME NEW S, IsFiniteSet(S), \A e \in S : Keyed(e), \A d, e \in S : d.source = e.source,
         \A d, e \in S : SameFact(d, e) => d = e
  PROVE  Cardinality(S) \in Nat /\ Lists(RowSort(S), S)
<1>1. PICK R : R = {p \in S \X S : RowBefore(p[1], p[2])}
  OBVIOUS
<1>2. \A x, y \in S : <<x, y>> \in R <=> RowBefore(x, y)
  BY <1>1
<1>3. \A x \in S : <<x, x>> \notin R
  BY <1>2 DEF RowBefore, Keyed
<1>4. \A x, y \in S : x # y => <<x, y>> \in R \/ <<y, x>> \in R
  BY <1>2 DEF RowBefore, Keyed, SameFact
<1>5. \A x, y, z \in S : <<x, y>> \in R /\ <<y, z>> \in R => <<x, z>> \in R
  <2> SUFFICES ASSUME NEW x \in S, NEW y \in S, NEW z \in S, RowBefore(x, y), RowBefore(y, z) PROVE RowBefore(x, z)
    BY <1>2
  <2> QED BY DEF RowBefore, Keyed
<1>6. ASSUME NEW x \in S PROVE {y \in S : RowBefore(y, x)} = {y \in S : <<y, x>> \in R}
  BY <1>2
<1>7. Cardinality(S) \in Nat /\ \A k \in 1 .. Cardinality(S) : \E x \in S : Cardinality({y \in S : <<y, x>> \in R}) = k - 1
  BY <1>3, <1>4, <1>5, Ranked
<1>8. PICK f : f = RowSort(S)
  OBVIOUS
<1>9. ASSUME NEW k \in 1 .. Cardinality(S) PROVE f[k] \in S /\ Cardinality({y \in S : <<y, f[k]>> \in R}) = k - 1
  <2>1. \E x \in S : Cardinality({y \in S : RowBefore(y, x)}) = k - 1
    BY <1>6, <1>7
  <2>2. f[k] = CHOOSE x \in S : Cardinality({y \in S : RowBefore(y, x)}) = k - 1
    BY <1>8 DEF Sorted, RowSort
  <2>3. f[k] \in S /\ Cardinality({y \in S : RowBefore(y, f[k])}) = k - 1
    BY <2>1, <2>2
  <2> QED BY <1>6, <2>3
<1>10. f \in [1 .. Cardinality(S) -> S]
  BY <1>8, <1>9 DEF Sorted, RowSort
<1>11. Lists(f, S)
  BY <1>3, <1>4, <1>5, <1>9, <1>10, RanksList
<1> QED BY <1>7, <1>8, <1>11

-----------------------------------------------------------------------------
(* The inductive invariant.                                                *)

Facts == UNION {UNION {d.pool[s] : s \in Sources} : d \in Setups}

\* The record of a projection.
Entry ==
  [source : Sources, id : Nat, collector : {f.collector : f \in Facts}, kind : {f.kind : f \in Facts},
   size : {f.size : f \in Facts}, received : Text, start : Int, end : Int,
   flags : SUBSET ((UNION {f.flags : f \in Facts}) \cup {"incomplete", "clock_uncertain"})]

\* A fact by its table and id, and what every projection of it says.
FactIds == {p \in Sources \X Nat : p[2] \in DOMAIN tables[p[1]]}
FactAt(p) == tables[p[1]][p[2]]
StartAt(p) == FactAt(p).start + FactAt(p).offset
EndAt(p) == (IF FactAt(p).kind \in {"point", "incomplete"} THEN FactAt(p).start ELSE FactAt(p).end) + FactAt(p).offset
Id(e) == <<e.source, e.id>>

Shown(e) ==
  /\ Id(e) \in FactIds /\ e.collector = FactAt(Id(e)).collector
  /\ e.received = ReceivedText(e.source, FactAt(Id(e)).received)
  /\ e.start = StartAt(Id(e)) /\ e.end = EndAt(Id(e))

BaseInv ==
  /\ setup \in Setups /\ tables \in [Sources -> Seq(Facts)]
  /\ \A s \in Sources : \A id \in DOMAIN tables[s] : tables[s][id] \in Pool[s]
  /\ uncertainAfter \in UncertainSettings /\ coverageDegraded \in BOOLEAN /\ trouble \in 0 .. MaxTrouble

\* An entry shows a fact, and a fact has one entry.
EntriesInv(es) ==
  /\ es \in Seq(Entry) /\ \A k \in DOMAIN es : Shown(es[k])
  /\ \A m, n \in DOMAIN es : SameFact(es[m], es[n]) => m = n

TimelineJob ==
  [pc : {"collect", "upsert", "page"}, kind : {"timeline"}, reader : Readers, range : Ranges, todo : {<<"">>},
   query : 1 .. 4, got : Seq(Entry)]

CoverageJob ==
  [pc : {"collect", "upsert", "build", "answer"}, kind : {"coverage"}, range : Ranges, now : Clock,
   todo : Seq(Range(Collectors)), asked : Seq(Range(Collectors)), query : 1 .. 7, got : Seq(Entry), before : SUBSET Entry]

JobInv ==
  \/ job = Idle
  \/ /\ job \in TimelineJob \cup CoverageJob
     /\ job.pc = "collect" => job.query \in DOMAIN Queries
     /\ job.kind = "coverage" /\ job.pc # "answer" => job.todo # <<>>
     /\ \A k \in DOMAIN job.got : Shown(job.got[k])

\* The ids of a sequence of entries.
Holds(es, p) == \E k \in DOMAIN es : Id(es[k]) = p

\* A sync for a reader: what was due when it began has been read, then written.
SyncInv ==
  job # Idle /\ job.kind = "timeline" =>
    /\ reader[job.reader].pc = "new"
    /\ \A p \in reader[job.reader].due :
         /\ p \in FactIds /\ job.range.from <= StartAt(p) /\ StartAt(p) < job.range.to
         /\ job.pc = "collect" /\ (\E j \in 1 .. job.query - 1 : Queries[j].source = p[1]) => Holds(job.got, p)
         /\ job.pc = "upsert" => Holds(job.got, p) \/ Holds(entries, p)
         /\ job.pc = "page" => Holds(entries, p)

\* The entries of a snapshot that a reader asked for.
InRange(e, range) == range.from <= e.start /\ e.start < range.to
Asked(es, snapshot, range) == {k \in 1 .. snapshot : InRange(es[k], range)}

\* Pages so far: what the snapshot has up to the cursor, in order.
Served(es, got, last, snapshot, range) ==
  /\ got \in Seq(Entry) /\ \A m \in DOMAIN got : Shown(got[m])
  /\ \A m, n \in DOMAIN got : m < n => KeyBefore(got[m], got[n])
  /\ IF last = <<>> THEN got = <<>> ELSE got # <<>> /\ last = <<got[Len(got)]>>
  /\ \A m \in DOMAIN got : \E k \in Asked(es, snapshot, range) : Id(got[m]) = Id(es[k])
  /\ \A k \in Asked(es, snapshot, range) :
       Holds(got, Id(es[k])) \/ \A d \in Range(last) : KeyBefore(d, es[k])

\* What the snapshot has of the range.
FrozenAt(es, snapshot, range) == {Id(es[k]) : k \in Asked(es, snapshot, range)}

ReaderInv(r) ==
  /\ reader[r].pc \in {"new", "paging", "refused", "done"} /\ reader[r].snapshot \in 0 .. Len(entries)
  /\ reader[r].pc = "new" => reader[r].got = <<>>
  /\ reader[r].pc = "paging" =>
       /\ reader[r].range \in Ranges /\ reader[r].last # <<>>
       /\ Served(entries, reader[r].got, reader[r].last, reader[r].snapshot, reader[r].range)
       /\ reader[r].frozen = FrozenAt(entries, reader[r].snapshot, reader[r].range)
       /\ reader[r].due \subseteq reader[r].frozen
  /\ reader[r].pc = "done" =>
       /\ \A k \in 1 .. Len(reader[r].got) - 1 : KeyBefore(reader[r].got[k], reader[r].got[k + 1])
       /\ Ids(Range(reader[r].got)) = reader[r].frozen /\ reader[r].due \subseteq reader[r].frozen

ReaderRecord ==
  [pc : {"new", "paging", "refused", "done"}, range : Ranges \cup {NoRange}, snapshot : Nat, last : Seq(Entry), got : Seq(Entry),
   due : SUBSET (Sources \X Nat), frozen : SUBSET (Sources \X Nat)]

ReadersInv == reader \in [Readers -> ReaderRecord] /\ \A r \in Readers : ReaderInv(r)

TimelineInv == BaseInv /\ EntriesInv(entries) /\ JobInv /\ SyncInv /\ ReadersInv

\* The facts of a collector that a rebuild for a range may count.
Meets(p, c, range) ==
  /\ FactAt(p).collector = c /\ EndAt(p) > StartAt(p) /\ StartAt(p) < range.to
  /\ StartAt(p) >= range.from - OfflineAfter \/ EndAt(p) > range.from - OfflineAfter
OwnIds(c, range) == {p \in FactIds : Meets(p, c, range)}

ProjectionState ==
  [status : {"none", "fresh", "stale"}, generation : Nat,
   error : {"", "QUERY_FAILED", "TIMELINE_FACT_LIMIT", "TIMELINE_BYTE_LIMIT"}, watermark : Nat, range : Ranges \cup {NoRange}]

\* A collector that was refused has that many facts of its own.
LimitInv ==
  /\ projection \in [Range(Collectors) -> ProjectionState]
  /\ \A c \in Range(Collectors) :
       /\ projection[c].generation <= MaxRebuilds /\ projection[c].watermark <= Len(entries)
       /\ projection[c].error = "TIMELINE_FACT_LIMIT" => Cardinality(OwnIds(c, projection[c].range)) > MaxFacts

\* What was read for a collector is its own, no fact twice: a query's rows are of
\* its table, and start in the range or before it.
ReadFor(e, q) == e.source = q.source /\ (q.part = "starts" <=> e.start >= From - Slack(e.source))
CountInv ==
  job # Idle /\ job.kind = "coverage" /\ job.pc = "collect" =>
    /\ \A k \in DOMAIN job.got : Meets(Id(job.got[k]), Head(job.todo), job.range)
    /\ \A k \in DOMAIN job.got : \E j \in 1 .. job.query - 1 : ReadFor(job.got[k], Queries[j])
    /\ \A m, n \in DOMAIN job.got : Id(job.got[m]) = Id(job.got[n]) => m = n

\* The collectors asked for that are no longer to do were rebuilt or refused.
Finished(c) ==
  /\ projection[c].range = job.range
  /\ projection[c].status = "fresh" \/ projection[c].error \in {"TIMELINE_FACT_LIMIT", "TIMELINE_BYTE_LIMIT"}
DoneInv ==
  job # Idle /\ job.kind = "coverage" =>
    /\ Len(job.todo) <= Len(job.asked) /\ (job.pc = "answer" <=> job.todo = <<>>)
    /\ \A m, n \in DOMAIN job.asked : job.asked[m] = job.asked[n] => m = n
    /\ \A k \in DOMAIN job.todo : job.todo[k] = job.asked[Len(job.asked) - Len(job.todo) + k]
    /\ \A k \in DOMAIN job.todo : projection[job.todo[k]].generation < MaxRebuilds
    /\ trouble = 0 => \A k \in 1 .. Len(job.asked) - Len(job.todo) : Finished(job.asked[k])

CoverageInv == TimelineInv /\ LimitInv /\ CountInv /\ DoneInv

-----------------------------------------------------------------------------
(* Facts and their projections.                                            *)

LEMMA SetupFacts ==
  ASSUME setup \in Setups
  PROVE  /\ MaxFacts \in Nat /\ ChunkSize \in Nat /\ ChunkSize >= 1 /\ PageSize \in Nat /\ PageSize >= 1
         /\ MaxRebuilds \in Nat /\ MaxTrouble \in Nat /\ OfflineAfter \in Nat
         /\ \A r \in Ranges : r.from \in Int /\ r.to \in Int
         /\ Collectors \in Seq(Range(Collectors))
         /\ \A m, n \in DOMAIN Collectors : Collectors[m] = Collectors[n] => m = n
         /\ \A s \in Sources : \A f \in Pool[s] :
              /\ f \in Facts /\ f.start \in Int /\ f.end \in Int /\ f.offset \in Int /\ f.received \in Int
              /\ s # "raw_event" => f.kind \notin {"point", "incomplete"} /\ f.start < f.end
<1>1. \A s \in Sources : \A f \in Pool[s] : f \in Facts
  BY DEF Facts, Pool
<1> QED BY <1>1, ProjectionAssumption, CoverageAssumption
        DEF MaxFacts, ChunkSize, MaxRebuilds, MaxTrouble, Ranges, Collectors, Pool

LEMMA FactFacts ==
  ASSUME BaseInv, NEW p \in FactIds
  PROVE  /\ p[1] \in Sources /\ p[2] \in Nat /\ p = <<p[1], p[2]>> /\ FactAt(p) \in Pool[p[1]] /\ FactAt(p) \in Facts
         /\ StartAt(p) \in Int /\ EndAt(p) \in Int /\ FactAt(p).received \in Int
         /\ p[1] # "raw_event" => EndAt(p) > StartAt(p)
<1>1. p[1] \in Sources /\ p[2] \in Nat /\ p = <<p[1], p[2]>> /\ p[2] \in DOMAIN tables[p[1]]
  BY DEF FactIds
<1>2. PICK f : f = FactAt(p)
  OBVIOUS
<1>3. f \in Pool[p[1]]
  BY <1>1, <1>2 DEF BaseInv, FactAt
<1>4. /\ f \in Facts /\ f.start \in Int /\ f.end \in Int /\ f.offset \in Int /\ f.received \in Int
      /\ p[1] # "raw_event" => f.kind \notin {"point", "incomplete"} /\ f.start < f.end
  BY <1>1, <1>3, SetupFacts DEF BaseInv
<1>5. StartAt(p) = f.start + f.offset /\ EndAt(p) = (IF f.kind \in {"point", "incomplete"} THEN f.start ELSE f.end) + f.offset
  BY <1>2 DEF StartAt, EndAt
<1> QED BY <1>1, <1>2, <1>3, <1>4, <1>5

\* A projection shows its fact, whatever the clock is trusted with.
LEMMA ProjectFacts ==
  ASSUME BaseInv, NEW s \in Sources, NEW id \in DOMAIN tables[s], NEW u
  PROVE  Project(s, id, u) \in Entry /\ Shown(Project(s, id, u)) /\ Id(Project(s, id, u)) = <<s, id>> /\ <<s, id>> \in FactIds
<1>1. id \in Nat /\ tables[s] \in Seq(Facts)
  BY DEF BaseInv
<1>2. <<s, id>> \in FactIds
  BY <1>1 DEF FactIds
<1>3. PICK p : p = <<s, id>> /\ p \in FactIds /\ p[1] = s /\ p[2] = id
  BY <1>2
<1>4. PICK f : f = tables[s][id]
  OBVIOUS
<1>5. f = FactAt(p)
  BY <1>3, <1>4 DEF FactAt
<1>6. f \in Facts /\ StartAt(p) \in Int /\ EndAt(p) \in Int /\ f.received \in Int
  BY <1>3, <1>5, FactFacts
<1>7. StartAt(p) = f.start + f.offset /\ EndAt(p) = (IF f.kind \in {"point", "incomplete"} THEN f.start ELSE f.end) + f.offset
  BY <1>5 DEF StartAt, EndAt
<1>8. PICK flags : flags = f.flags \cup (IF f.kind = "incomplete" THEN {"incomplete"} ELSE {})
                                   \cup (IF f.error > u THEN {"clock_uncertain"} ELSE {})
  OBVIOUS
<1>9. flags \in SUBSET ((UNION {g.flags : g \in Facts}) \cup {"incomplete", "clock_uncertain"})
  BY <1>6, <1>8
<1>10. PICK e : e = Project(s, id, u)
  OBVIOUS
<1>11. e = [source |-> s, id |-> id, collector |-> f.collector, kind |-> f.kind, size |-> f.size, received |-> ReceivedText(s, f.received),
            start |-> StartAt(p), end |-> EndAt(p), flags |-> flags]
  BY <1>4, <1>7, <1>8, <1>10 DEF Project
<1>12. e \in Entry
  <2>1. f.collector \in {g.collector : g \in Facts} /\ f.kind \in {g.kind : g \in Facts} /\ f.size \in {g.size : g \in Facts}
    BY <1>6
  <2>2. ReceivedText(s, f.received) \in Text
    BY <1>6, TextFacts
  <2> QED BY <1>1, <1>6, <1>9, <1>11, <2>1, <2>2 DEF Entry
<1>13. Shown(e) /\ Id(e) = <<s, id>>
  BY <1>3, <1>5, <1>11 DEF Shown, Id
<1> QED BY <1>2, <1>10, <1>12, <1>13

LEMMA ShownFacts ==
  ASSUME BaseInv, NEW e, Shown(e)
  PROVE  /\ Keyed(e) /\ e.end \in Int /\ Id(e) \in FactIds
         /\ e.start = StartAt(Id(e)) /\ e.end = EndAt(Id(e))
<1>1. PICK p : p = Id(e) /\ p \in FactIds /\ p[1] = e.source /\ p[2] = e.id
  BY DEF Shown, Id
<1>2. e.source \in Sources /\ e.id \in Int /\ StartAt(p) \in Int /\ EndAt(p) \in Int /\ FactAt(p).received \in Int
  BY <1>1, FactFacts
<1>3. e.received \in Text
  BY <1>1, <1>2, TextFacts DEF Shown
<1> QED BY <1>1, <1>2, <1>3 DEF Shown, Keyed

\* Two projections of a fact have the same place in the order.
SameKey(d, e) == d.source = e.source /\ d.id = e.id /\ d.start = e.start /\ d.received = e.received

LEMMA SameIdSameKey ==
  ASSUME NEW d, NEW e, Shown(d), Shown(e), Id(d) = Id(e)
  PROVE  SameKey(d, e) /\ d.end = e.end
<1>1. d.source = e.source /\ d.id = e.id
  BY DEF Id
<1> QED BY <1>1 DEF Shown, SameKey

LEMMA SameKeyOrder ==
  ASSUME NEW c, NEW d, NEW e, SameKey(d, e)
  PROVE  (KeyBefore(c, d) <=> KeyBefore(c, e)) /\ (KeyBefore(d, c) <=> KeyBefore(e, c))
BY DEF SameKey, KeyBefore

-----------------------------------------------------------------------------
(* Writing entries: a fact keeps its position and its place in the order.  *)

\* Induction up to a bound, for a property given as a set.
LEMMA CountTo ==
  ASSUME NEW S, NEW N \in Nat, 0 \in S, \A n \in 0 .. N : n # N /\ n \in S => n + 1 \in S
  PROVE  \A n \in 0 .. N : n \in S
<1> SUFFICES ASSUME NEW k \in 0 .. N, k \notin S PROVE FALSE
  OBVIOUS
<1>1. PICK T : T = {n \in Nat : n <= N /\ n \notin S}
  OBVIOUS
<1>2. T \subseteq Nat /\ k \in T
  BY <1>1
<1>3. PICK x \in T : \A y \in T : x <= y
  BY <1>2, LeastNumber
<1>4. x \in Nat /\ x <= N /\ x \notin S /\ x # 0
  BY <1>1, <1>3
<1>5. x - 1 \in 0 .. N /\ x - 1 # N /\ (x - 1) + 1 = x /\ x - 1 < x /\ x - 1 \in Nat
  BY <1>4
<1>6. x - 1 \in T
  BY <1>1, <1>4, <1>5
<1> QED BY <1>3, <1>4, <1>5, <1>6

\* The entries after each of the first n projections was written.
Run(es, items, f, n) == f = [k \in 0 .. n |-> IF k = 0 THEN es ELSE Upsert(f[k - 1], items[k])]

LEMMA RunLonger ==
  ASSUME NEW es, NEW items, NEW n \in Nat, NEW f, Run(es, items, f, n)
  PROVE  \E g : Run(es, items, g, n + 1)
<1>1. PICK g : g = [k \in 0 .. n + 1 |-> IF k \in 0 .. n THEN f[k] ELSE Upsert(f[n], items[n + 1])]
  OBVIOUS
<1>2. DOMAIN f = 0 .. n /\ DOMAIN g = 0 .. n + 1 /\ \A k \in 0 .. n : g[k] = f[k]
  BY <1>1 DEF Run
<1>3. f[0] = es /\ \A k \in 0 .. n : k # 0 => f[k] = Upsert(f[k - 1], items[k])
  BY DEF Run
<1>4. ASSUME NEW k \in 0 .. n + 1
      PROVE  g[k] = IF k = 0 THEN es ELSE Upsert(g[k - 1], items[k])
  <2>1. CASE k = 0
    BY <1>2, <1>3, <2>1
  <2>2. CASE k # 0
    <3>1. k - 1 \in 0 .. n
      BY <1>4, <2>2
    <3>2. g[k - 1] = f[k - 1]
      BY <1>2, <3>1
    <3>3. CASE k \in 0 .. n
      BY <1>2, <1>3, <2>2, <3>2, <3>3
    <3>4. CASE k = n + 1
      <4>1. k \notin 0 .. n /\ k - 1 = n
        BY <3>4
      <4> QED BY <1>1, <1>4, <2>2, <3>2, <3>4, <4>1
    <3> QED BY <1>4, <3>3, <3>4
  <2> QED BY <2>1, <2>2
<1>5. g = [k \in 0 .. n + 1 |-> IF k = 0 THEN es ELSE Upsert(g[k - 1], items[k])]
  <2>1. g = [k \in 0 .. n + 1 |-> g[k]]
    BY <1>1
  <2> QED BY <1>4, <2>1
<1> QED BY <1>5 DEF Run

LEMMA UpsertedRun ==
  ASSUME NEW es, NEW items, NEW n \in Nat
  PROVE  \E f : Run(es, items, f, n) /\ Upserted(es, items, n) = f[n]
<1>1. PICK S : S = {k \in Nat : \E f : Run(es, items, f, k)}
  OBVIOUS
<1>2. 0 \in S
  <2>1. PICK f : f = [k \in 0 .. 0 |-> es]
    OBVIOUS
  <2>2. \A k \in 0 .. 0 : k = 0
    OBVIOUS
  <2>3. Run(es, items, f, 0)
    BY <2>1, <2>2 DEF Run
  <2> QED BY <1>1, <2>3
<1>3. \A k \in 0 .. n : k # n /\ k \in S => k + 1 \in S
  BY <1>1, RunLonger
<1>4. n \in S
  BY <1>2, <1>3, CountTo
<1>5. \E f : Run(es, items, f, n)
  BY <1>1, <1>4
<1> QED BY <1>5 DEF Run, Upserted

Evolved(es, fs) == Len(es) <= Len(fs) /\ \A k \in DOMAIN es : SameKey(es[k], fs[k])

LEMMA UpsertOne ==
  ASSUME BaseInv, NEW es, EntriesInv(es), NEW e \in Entry, Shown(e), NEW fs, fs = Upsert(es, e)
  PROVE  EntriesInv(fs) /\ Evolved(es, fs) /\ Holds(fs, Id(e))
<1>1. PICK same : same = {k \in DOMAIN es : es[k].source = e.source /\ es[k].id = e.id}
  OBVIOUS
<1>2. es \in Seq(Entry) /\ (\A k \in DOMAIN es : Shown(es[k]) /\ es[k] \in Entry) /\ DOMAIN es = 1 .. Len(es) /\ Len(es) \in Nat
  BY DEF EntriesInv
<1>3. CASE same = {}
  <2>1. fs = Append(es, e)
    BY <1>1, <1>3 DEF Upsert
  <2>2. fs \in Seq(Entry) /\ Len(fs) = Len(es) + 1 /\ fs[Len(es) + 1] = e /\ \A k \in 1 .. Len(es) : fs[k] = es[k]
    BY <1>2, <2>1
  <2>3. DOMAIN fs = 1 .. Len(es) + 1 /\ \A k \in 1 .. Len(es) + 1 : k \in 1 .. Len(es) \/ k = Len(es) + 1
    BY <1>2, <2>2
  <2>4. \A k \in DOMAIN fs : Shown(fs[k])
    BY <1>2, <2>2, <2>3
  <2>5. \A k \in 1 .. Len(es) : ~SameFact(es[k], e) /\ ~SameFact(e, es[k])
    BY <1>1, <1>2, <1>3 DEF SameFact
  <2>6. \A m, n \in DOMAIN fs : SameFact(fs[m], fs[n]) => m = n
    BY <1>2, <2>2, <2>3, <2>5 DEF EntriesInv
  <2>7. Evolved(es, fs)
    BY <1>2, <2>2 DEF Evolved, SameKey
  <2>8. Holds(fs, Id(e))
    BY <1>2, <2>2, <2>3 DEF Holds
  <2> QED BY <2>2, <2>4, <2>6, <2>7, <2>8 DEF EntriesInv
<1>4. CASE same # {}
  <2>1. fs = [k \in DOMAIN es |-> IF k \in same THEN e ELSE es[k]]
    BY <1>1, <1>4 DEF Upsert
  <2>2. fs \in [1 .. Len(es) -> Entry]
    BY <1>2, <2>1
  <2>3. fs \in Seq(Entry) /\ Len(fs) = Len(es) /\ DOMAIN fs = DOMAIN es
    BY <1>2, <2>2, SeqDef
  <2>4. \A k \in DOMAIN es : Shown(fs[k]) /\ Id(fs[k]) = Id(es[k])
    BY <1>1, <1>2, <2>1 DEF Id
  <2>5. \A m, n \in DOMAIN fs : SameFact(fs[m], fs[n]) => m = n
    BY <2>3, <2>4 DEF EntriesInv, SameFact, Id
  <2>6. Evolved(es, fs)
    BY <1>2, <2>3, <2>4, SameIdSameKey DEF Evolved
  <2>7. Holds(fs, Id(e))
    BY <1>1, <1>4, <2>1, <2>3 DEF Holds
  <2> QED BY <2>3, <2>4, <2>5, <2>6, <2>7 DEF EntriesInv
<1> QED BY <1>3, <1>4

LEMMA EvolvedTwice ==
  ASSUME NEW es, NEW fs, NEW gs, Evolved(es, fs), Evolved(fs, gs), es \in Seq(Entry), fs \in Seq(Entry), gs \in Seq(Entry)
  PROVE  Evolved(es, gs)
<1>1. DOMAIN es = 1 .. Len(es) /\ DOMAIN fs = 1 .. Len(fs) /\ Len(es) \in Nat /\ Len(fs) \in Nat /\ Len(gs) \in Nat
  OBVIOUS
<1> QED BY <1>1 DEF Evolved, SameKey

LEMMA HoldsEvolved ==
  ASSUME NEW es, NEW fs, Evolved(es, fs), es \in Seq(Entry), fs \in Seq(Entry), NEW p, Holds(es, p)
  PROVE  Holds(fs, p)
<1>1. PICK k \in DOMAIN es : Id(es[k]) = p
  BY DEF Holds
<1>2. k \in DOMAIN fs
  BY <1>1 DEF Evolved
<1> QED BY <1>1, <1>2 DEF Holds, Evolved, SameKey, Id

\* A chunk: every fact in it has an entry, and no entry moved.
LEMMA UpsertedFacts ==
  ASSUME BaseInv, NEW es, EntriesInv(es), NEW items \in Seq(Entry), \A k \in DOMAIN items : Shown(items[k]),
         NEW n \in 0 .. Len(items), NEW fs, fs = Upserted(es, items, n)
  PROVE  EntriesInv(fs) /\ Evolved(es, fs) /\ \A k \in 1 .. n : Holds(fs, Id(items[k]))
<1>1. n \in Nat /\ Len(items) \in Nat
  OBVIOUS
<1>2. PICK f : Run(es, items, f, n) /\ fs = f[n]
  BY <1>1, UpsertedRun
<1>3. f[0] = es /\ \A k \in 0 .. n : k # 0 => f[k] = Upsert(f[k - 1], items[k])
  BY <1>1, <1>2 DEF Run
<1> DEFINE Good(k) == EntriesInv(f[k]) /\ Evolved(es, f[k]) /\ \A j \in 1 .. k : Holds(f[k], Id(items[j]))
<1>4. PICK S : S = {k \in 0 .. n : Good(k)}
  OBVIOUS
<1>5. 0 \in S
  <2>1. Evolved(es, es)
    BY DEF Evolved, SameKey, EntriesInv
  <2>2. \A j \in 1 .. 0 : FALSE
    OBVIOUS
  <2>3. Good(0)
    BY <1>3, <2>1, <2>2
  <2> QED BY <1>1, <1>4, <2>3
<1>6. ASSUME NEW k \in 0 .. n, k # n, k \in S PROVE k + 1 \in S
  <2>1. k + 1 \in 0 .. n /\ k + 1 # 0 /\ (k + 1) - 1 = k /\ k + 1 \in 1 .. Len(items)
    BY <1>1, <1>6
  <2>2. Good(k)
    BY <1>4, <1>6
  <2>3. f[k + 1] = Upsert(f[k], items[k + 1])
    BY <1>3, <2>1
  <2>4. items[k + 1] \in Entry /\ Shown(items[k + 1])
    BY <2>1
  <2>5. EntriesInv(f[k + 1]) /\ Evolved(f[k], f[k + 1]) /\ Holds(f[k + 1], Id(items[k + 1]))
    BY <2>2, <2>3, <2>4, UpsertOne
  <2>6. es \in Seq(Entry) /\ f[k] \in Seq(Entry) /\ f[k + 1] \in Seq(Entry)
    BY <2>2, <2>5 DEF EntriesInv
  <2>7. Evolved(es, f[k + 1])
    BY <2>2, <2>5, <2>6, EvolvedTwice
  <2>8. ASSUME NEW j \in 1 .. k + 1 PROVE Holds(f[k + 1], Id(items[j]))
    <3>1. CASE j = k + 1
      BY <2>5, <3>1
    <3>2. CASE j \in 1 .. k
      <4>1. Holds(f[k], Id(items[j]))
        BY <2>2, <3>2
      <4> QED BY <2>5, <2>6, <4>1, HoldsEvolved
    <3> QED BY <1>6, <3>1, <3>2
  <2>9. Good(k + 1)
    BY <2>5, <2>7, <2>8
  <2> QED BY <1>4, <2>1, <2>9
<1>7. n \in S
  <2> HIDE DEF Good
  <2>1. \A k \in 0 .. n : k # n /\ k \in S => k + 1 \in S
    BY <1>6
  <2>2. \A k \in 0 .. n : k \in S
    BY <1>1, <1>5, <2>1, CountTo
  <2> QED BY <1>1, <2>2
<1>8. Good(n)
  BY <1>4, <1>7
<1> QED BY <1>2, <1>8

-----------------------------------------------------------------------------
(* A page.                                                                 *)

LEMMA ImageFinite ==
  ASSUME NEW D, IsFiniteSet(D), NEW f, NEW S, S = {f[k] : k \in D}
  PROVE  IsFiniteSet(S)
<1>1. PICK g : g = [k \in D |-> f[k]]
  OBVIOUS
<1>2. g \in [D -> S] /\ \A x \in S : \E k \in D : g[k] = x
  BY <1>1
<1>3. g \in Surjection(D, S)
  BY <1>2 DEF Surjection
<1> QED BY <1>3, FS_Surjection

LEMMA MinOfTwo ==
  ASSUME NEW a \in Nat, NEW b \in Nat
  PROVE  Min({a, b}) = (IF a <= b THEN a ELSE b) /\ Min({a, b}) \in 0 .. b
<1>1. Min({a, b}) = IF a <= b THEN a ELSE b
  BY DEF Min
<1> QED BY <1>1

\* What the snapshot has after the cursor.
Rest(es, last, snapshot, range) ==
  {e \in {es[k] : k \in {i \in DOMAIN es : i <= snapshot}} :
     Matches(e, range.from, range.to, FALSE) /\ \A d \in Range(last) : AfterCursor(d, e)}

AfterAll(last, e) == \A d \in Range(last) : KeyBefore(d, e)

\* The rows of that, in order.
Remaining(rows, last, snapshot, range) ==
  /\ rows \in Seq(Entry)
  /\ \A j \in DOMAIN rows : Shown(rows[j]) /\ AfterAll(last, rows[j]) /\ \E k \in Asked(entries, snapshot, range) : rows[j] = entries[k]
  /\ \A k \in Asked(entries, snapshot, range) : AfterAll(last, entries[k]) => \E j \in DOMAIN rows : rows[j] = entries[k]
  /\ \A m, n \in DOMAIN rows : m < n => KeyBefore(rows[m], rows[n])

LEMMA AskedFacts ==
  ASSUME BaseInv, EntriesInv(entries), NEW range, NEW snapshot \in 0 .. Len(entries), NEW k \in Asked(entries, snapshot, range)
  PROVE  k \in DOMAIN entries /\ entries[k] \in Entry /\ Shown(entries[k]) /\ Keyed(entries[k])
<1>1. entries \in Seq(Entry) /\ \A j \in DOMAIN entries : Shown(entries[j])
  BY DEF EntriesInv
<1>2. k \in DOMAIN entries
  BY <1>1 DEF Asked
<1> QED BY <1>1, <1>2, ShownFacts

LEMMA RestRows ==
  ASSUME BaseInv, EntriesInv(entries), NEW range, range.from \in Int, range.to \in Int, NEW snapshot \in 0 .. Len(entries),
         NEW last
  PROVE  Remaining(KeySort(Rest(entries, last, snapshot, range)), last, snapshot, range)
<1>1. Len(entries) \in Nat /\ DOMAIN entries = 1 .. Len(entries) /\ snapshot \in Nat
  BY DEF EntriesInv
<1>2. PICK A : A = Asked(entries, snapshot, range)
  OBVIOUS
<1>3. A \subseteq 1 .. Len(entries) /\ \A k \in A : entries[k] \in Entry /\ Shown(entries[k]) /\ Keyed(entries[k])
  BY <1>1, <1>2, AskedFacts
<1>4. PICK D : D = {k \in A : AfterAll(last, entries[k])}
  OBVIOUS
<1>5. PICK S : S = {entries[k] : k \in D}
  OBVIOUS
<1>6. Rest(entries, last, snapshot, range) = S
  <2>1. ASSUME NEW k \in DOMAIN entries, k <= snapshot
        PROVE  k \in D <=> /\ Matches(entries[k], range.from, range.to, FALSE)
                           /\ \A d \in Range(last) : AfterCursor(d, entries[k])
    <3>1. entries[k].start \in Int
      BY <2>1, ShownFacts DEF EntriesInv, Keyed
    <3>2. InRange(entries[k], range) <=> Matches(entries[k], range.from, range.to, FALSE)
      BY <3>1 DEF InRange, Matches
    <3>3. k \in A <=> InRange(entries[k], range)
      BY <1>1, <1>2, <2>1 DEF Asked
    <3>4. AfterAll(last, entries[k]) <=> \A d \in Range(last) : AfterCursor(d, entries[k])
      BY DEF AfterCursor, AfterAll
    <3> QED BY <1>4, <3>2, <3>3, <3>4
  <2>2. D \subseteq {i \in DOMAIN entries : i <= snapshot}
    BY <1>1, <1>2, <1>4 DEF Asked
  <2> QED BY <1>5, <2>1, <2>2 DEF Rest
<1>7. IsFiniteSet(S)
  <2>1. D \in SUBSET (1 .. Len(entries))
    BY <1>3, <1>4
  <2>2. IsFiniteSet(1 .. Len(entries))
    BY <1>1, FS_Interval
  <2>3. IsFiniteSet(D)
    BY <2>1, <2>2, FS_Subset
  <2> QED BY <1>5, <2>3, ImageFinite
<1>8. \A e \in S : e \in Entry /\ Shown(e) /\ Keyed(e) /\ AfterAll(last, e) /\ \E k \in A : e = entries[k]
  BY <1>3, <1>4, <1>5
<1>9. \A d, e \in S : SameFact(d, e) => d = e
  <2> SUFFICES ASSUME NEW a \in A, NEW b \in A, SameFact(entries[a], entries[b]) PROVE entries[a] = entries[b]
    BY <1>8
  <2> QED BY <1>1, <1>3 DEF EntriesInv
<1>10. PICK rows : rows = KeySort(S)
  OBVIOUS
<1>11. Cardinality(S) \in Nat /\ Lists(rows, S) /\ \A m, n \in 1 .. Len(rows) : m < n => KeyBefore(rows[m], rows[n])
  BY <1>7, <1>8, <1>9, <1>10, KeySorted
<1>12. DOMAIN rows = 1 .. Len(rows) /\ rows \in Seq(S) /\ \A j \in DOMAIN rows : rows[j] \in S
  BY <1>11 DEF Lists
<1>13. rows \in Seq(Entry)
  <2>1. S \subseteq Entry
    BY <1>8
  <2> QED BY <1>12, <2>1
<1>14. \A k \in A : AfterAll(last, entries[k]) => \E j \in DOMAIN rows : rows[j] = entries[k]
  <2> SUFFICES ASSUME NEW k \in A, AfterAll(last, entries[k]) PROVE \E j \in DOMAIN rows : rows[j] = entries[k]
    OBVIOUS
  <2>1. entries[k] \in S
    BY <1>4, <1>5
  <2> QED BY <1>11, <1>12, <2>1 DEF Lists
<1> QED BY <1>2, <1>6, <1>8, <1>10, <1>11, <1>12, <1>13, <1>14 DEF Remaining

\* What was got, followed by the first c rows.
Joined(next, got, rows, c) ==
  /\ next \in Seq(Entry) /\ Len(next) = Len(got) + c
  /\ \A m \in 1 .. Len(got) : next[m] = got[m]
  /\ \A j \in 1 .. c : next[Len(got) + j] = rows[j]

\* After c more rows: in order, of the snapshot, and with nothing left out before the rest.
LEMMA PageAppended ==
  ASSUME BaseInv, EntriesInv(entries), NEW range, NEW snapshot \in 0 .. Len(entries),
         NEW got, NEW last, Served(entries, got, last, snapshot, range),
         NEW rows, Remaining(rows, last, snapshot, range), NEW c \in 0 .. Len(rows),
         NEW next, Joined(next, got, rows, c)
  PROVE  /\ \A m \in DOMAIN next : Shown(next[m]) /\ \E k \in Asked(entries, snapshot, range) : Id(next[m]) = Id(entries[k])
         /\ \A m, n \in DOMAIN next : m < n => KeyBefore(next[m], next[n])
         /\ \A k \in Asked(entries, snapshot, range) :
              Holds(next, Id(entries[k])) \/ \E j \in DOMAIN rows : j > c /\ rows[j] = entries[k]
<1>1. PICK A : A = Asked(entries, snapshot, range)
  OBVIOUS
<1>2. PICK g : g = Len(got) /\ g \in Nat
  BY DEF Served
<1>3. /\ DOMAIN got = 1 .. g /\ \A m \in 1 .. g : Shown(got[m]) /\ Keyed(got[m]) /\ \E k \in A : Id(got[m]) = Id(entries[k])
  <2>1. DOMAIN got = 1 .. g /\ \A m \in 1 .. g : Shown(got[m]) /\ \E k \in A : Id(got[m]) = Id(entries[k])
    BY <1>1, <1>2 DEF Served
  <2> QED BY <2>1, ShownFacts
<1>4. PICK l : l = Len(rows) /\ l \in Nat /\ DOMAIN rows = 1 .. l
  BY DEF Remaining
<1>5. \A j \in 1 .. l : Shown(rows[j]) /\ Keyed(rows[j]) /\ AfterAll(last, rows[j]) /\ \E k \in A : Id(rows[j]) = Id(entries[k])
  <2>1. \A j \in 1 .. l : Shown(rows[j]) /\ AfterAll(last, rows[j]) /\ \E k \in A : Id(rows[j]) = Id(entries[k])
    BY <1>1, <1>4 DEF Remaining
  <2> QED BY <2>1, ShownFacts
<1>6. DOMAIN next = 1 .. g + c /\ c \in 0 .. l /\ c \in Nat
  BY <1>2, <1>4 DEF Joined
<1>7. /\ \A m \in 1 .. g : next[m] = got[m] /\ m \in DOMAIN next
      /\ \A m \in 1 .. g + c : m \in 1 .. g \/ \E j \in 1 .. c : m = g + j
      /\ \A j \in 1 .. c : j \in 1 .. l /\ next[g + j] = rows[j] /\ g + j \in DOMAIN next
  <2>1. \A m \in 1 .. g : m \in 1 .. g + c
    BY <1>2, <1>6
  <2>2. \A m \in 1 .. g + c : m \in 1 .. g \/ (m - g \in 1 .. c /\ m = g + (m - g))
    BY <1>2, <1>6
  <2>3. \A j \in 1 .. c : j \in 1 .. l /\ g + j \in 1 .. g + c
    BY <1>2, <1>4, <1>6
  <2>4. (\A m \in 1 .. g : next[m] = got[m]) /\ \A j \in 1 .. c : next[g + j] = rows[j]
    BY <1>2 DEF Joined
  <2>5. \A m \in 1 .. g + c : m \in 1 .. g \/ \E j \in 1 .. c : m = g + j
    BY <2>2
  <2> QED BY <1>6, <2>1, <2>3, <2>4, <2>5
<1>8. \A m \in DOMAIN next : Shown(next[m]) /\ \E k \in A : Id(next[m]) = Id(entries[k])
  BY <1>3, <1>5, <1>6, <1>7
<1>9. ASSUME NEW m \in 1 .. g, NEW j \in 1 .. l PROVE KeyBefore(got[m], rows[j])
  <2>1. g \in 1 .. g
    BY <1>2, <1>9
  <2>2. got # <<>> /\ last = <<got[g]>>
    BY <1>2, <1>3, <1>9 DEF Served
  <2>3. got[g] \in Range(last)
    BY <2>2 DEF Range
  <2>4. KeyBefore(got[g], rows[j])
    BY <1>5, <2>3 DEF AfterAll
  <2>5. m = g \/ KeyBefore(got[m], got[g])
    BY <1>2, <1>3, <1>9, <2>1 DEF Served
  <2>6. CASE KeyBefore(got[m], got[g])
    BY <1>3, <1>5, <2>1, <2>4, <2>6, KeyTransitive
  <2> QED BY <2>4, <2>5, <2>6
<1>10. ASSUME NEW m \in DOMAIN next, NEW n \in DOMAIN next, m < n PROVE KeyBefore(next[m], next[n])
  <2>1. CASE n \in 1 .. g
    <3>1. m \in 1 .. g
      BY <1>2, <1>6, <1>10, <2>1
    <3> QED BY <1>3, <1>7, <1>10, <2>1, <3>1 DEF Served
  <2>2. CASE \E j \in 1 .. c : n = g + j
    <3>1. PICK j \in 1 .. c : n = g + j
      BY <2>2
    <3>2. CASE m \in 1 .. g
      BY <1>7, <1>9, <3>1, <3>2
    <3>3. CASE \E i \in 1 .. c : m = g + i
      <4>1. PICK i \in 1 .. c : m = g + i
        BY <3>3
      <4>2. i < j
        BY <1>2, <1>6, <1>10, <3>1, <4>1
      <4>3. KeyBefore(rows[i], rows[j])
        <5>1. i \in DOMAIN rows /\ j \in DOMAIN rows
          BY <1>4, <1>7
        <5> QED BY <4>2, <5>1 DEF Remaining
      <4> QED BY <1>7, <3>1, <4>1, <4>3
    <3> QED BY <1>6, <1>7, <1>10, <3>2, <3>3
  <2> QED BY <1>6, <1>7, <1>10, <2>1, <2>2
<1>11. ASSUME NEW k \in A PROVE Holds(next, Id(entries[k])) \/ \E j \in DOMAIN rows : j > c /\ rows[j] = entries[k]
  <2>1. CASE Holds(got, Id(entries[k]))
    <3>1. PICK m \in 1 .. g : Id(got[m]) = Id(entries[k])
      BY <1>3, <2>1 DEF Holds
    <3> QED BY <1>7, <3>1 DEF Holds
  <2>2. CASE AfterAll(last, entries[k])
    <3>1. PICK j \in 1 .. l : rows[j] = entries[k]
      BY <1>1, <1>4, <1>11, <2>2 DEF Remaining
    <3>2. CASE j \in 1 .. c
      <4>1. g + j \in DOMAIN next /\ next[g + j] = entries[k]
        BY <1>7, <3>1, <3>2
      <4> QED BY <4>1 DEF Holds
    <3>3. CASE j > c
      BY <1>4, <3>1, <3>3
    <3> QED BY <1>6, <3>2, <3>3
  <2> QED BY <1>1, <1>11, <2>1, <2>2 DEF Served, AfterAll
<1> QED BY <1>1, <1>8, <1>10, <1>11

\* The page after a cursor takes the reader a page further, or to the end.
LEMMA PageServed ==
  ASSUME BaseInv, EntriesInv(entries), NEW range, NEW snapshot \in 0 .. Len(entries),
         NEW got, NEW last, Served(entries, got, last, snapshot, range),
         NEW rows, Remaining(rows, last, snapshot, range), NEW c \in 0 .. Len(rows),
         NEW next, Joined(next, got, rows, c)
  PROVE  /\ c >= 1 => Served(entries, next, <<rows[c]>>, snapshot, range)
         /\ c = Len(rows) =>
              /\ \A k \in 1 .. Len(next) - 1 : KeyBefore(next[k], next[k + 1])
              /\ Ids(Range(next)) = FrozenAt(entries, snapshot, range)
<1>1. PICK A : A = Asked(entries, snapshot, range)
  OBVIOUS
<1>2. /\ \A m \in DOMAIN next : Shown(next[m]) /\ \E k \in A : Id(next[m]) = Id(entries[k])
      /\ \A m, n \in DOMAIN next : m < n => KeyBefore(next[m], next[n])
      /\ \A k \in A : Holds(next, Id(entries[k])) \/ \E j \in DOMAIN rows : j > c /\ rows[j] = entries[k]
  BY <1>1, PageAppended
<1>3. PICK l : l = Len(rows) /\ l \in Nat /\ DOMAIN rows = 1 .. l /\ c \in 0 .. l
  BY DEF Remaining
<1>4. next \in Seq(Entry) /\ Len(next) \in Nat /\ DOMAIN next = 1 .. Len(next)
  BY DEF Joined
<1>5. ASSUME c >= 1 PROVE Served(entries, next, <<rows[c]>>, snapshot, range)
  <2>1. Len(got) \in Nat /\ Len(next) = Len(got) + c /\ c \in 1 .. c
    BY <1>3, <1>5 DEF Served, Joined
  <2>2. next # <<>> /\ next[Len(next)] = rows[c]
    BY <1>3, <1>5, <2>1 DEF Joined
  <2>3. <<rows[c]>> # <<>> /\ <<rows[c]>> = <<next[Len(next)]>>
    BY <2>2
  <2>4. \A d \in Range(<<rows[c]>>) : d = rows[c]
    BY DEF Range
  <2>5. ASSUME NEW j \in DOMAIN rows, j > c PROVE KeyBefore(rows[c], rows[j])
    <3>1. c \in DOMAIN rows
      BY <1>3, <1>5
    <3> QED BY <2>5, <3>1 DEF Remaining
  <2>6. \A k \in A : Holds(next, Id(entries[k])) \/ \A d \in Range(<<rows[c]>>) : KeyBefore(d, entries[k])
    BY <1>2, <2>4, <2>5
  <2> QED BY <1>1, <1>2, <1>4, <2>2, <2>3, <2>6 DEF Served
<1>6. ASSUME c = Len(rows)
      PROVE  /\ \A k \in 1 .. Len(next) - 1 : KeyBefore(next[k], next[k + 1])
             /\ Ids(Range(next)) = FrozenAt(entries, snapshot, range)
  <2>1. \A k \in A : Holds(next, Id(entries[k]))
    BY <1>2, <1>3, <1>6
  <2>2. \A k \in 1 .. Len(next) - 1 : k \in DOMAIN next /\ k + 1 \in DOMAIN next /\ k < k + 1
    BY <1>4
  <2>3. \A k \in 1 .. Len(next) - 1 : KeyBefore(next[k], next[k + 1])
    BY <1>2, <2>2
  <2>4. Ids(Range(next)) = {Id(next[m]) : m \in DOMAIN next}
    BY DEF Ids, Range, Id
  <2>5. FrozenAt(entries, snapshot, range) = {Id(entries[k]) : k \in A}
    BY <1>1 DEF FrozenAt
  <2>6. {Id(next[m]) : m \in DOMAIN next} = {Id(entries[k]) : k \in A}
    BY <1>2, <2>1 DEF Holds
  <2> QED BY <2>3, <2>4, <2>5, <2>6
<1> QED BY <1>5, <1>6

\* The reader a request leaves behind.
PageOf(r, range, snapshot, last, x) ==
  LET rows == PageRows(range, snapshot, last)
      page == SubSeq(rows, 1, Min({PageSize, Len(rows)}))
      more == Len(rows) > PageSize
  IN  x = [reader[r] EXCEPT !.pc = IF more THEN "paging" ELSE "done", !.range = range, !.snapshot = snapshot,
                  !.last = IF more THEN <<Last(page)>> ELSE <<>>, !.got = @ \o page,
                  !.frozen = IF last = <<>> THEN Ids({e \in Range(entries) : Matches(e, range.from, range.to, FALSE)}) ELSE @]

\* What a first page freezes.
FrozenNow(range) == Ids({e \in Range(entries) : Matches(e, range.from, range.to, FALSE)})

LEMMA PageOutcome ==
  ASSUME BaseInv, EntriesInv(entries), NEW r \in Readers, reader[r] \in ReaderRecord, NEW range \in Ranges,
         NEW snapshot \in 0 .. Len(entries), NEW last, Served(entries, reader[r].got, last, snapshot, range),
         NEW x, PageOf(r, range, snapshot, last, x)
  PROVE  /\ x \in ReaderRecord /\ x.pc \in {"paging", "done"} /\ x.range = range /\ x.snapshot = snapshot /\ x.due = reader[r].due
         /\ last # <<>> => x.frozen = reader[r].frozen
         /\ last = <<>> => x.frozen = FrozenNow(range)
         /\ x.pc = "paging" => x.last # <<>> /\ Served(entries, x.got, x.last, snapshot, range)
         /\ x.pc = "done" => /\ \A k \in 1 .. Len(x.got) - 1 : KeyBefore(x.got[k], x.got[k + 1])
                             /\ Ids(Range(x.got)) = FrozenAt(entries, snapshot, range)
<1>1. PICK rows : rows = PageRows(range, snapshot, last)
  OBVIOUS
<1>2. Remaining(rows, last, snapshot, range)
  <2>1. rows = KeySort(Rest(entries, last, snapshot, range))
    BY <1>1 DEF PageRows, KeySort, Rest
  <2> QED BY <2>1, RestRows, SetupFacts DEF BaseInv
<1>3. rows \in Seq(Entry) /\ Len(rows) \in Nat /\ PageSize \in Nat /\ PageSize >= 1
  BY <1>2, SetupFacts DEF Remaining, BaseInv
<1>4. PICK c : c = (IF PageSize <= Len(rows) THEN PageSize ELSE Len(rows))
  OBVIOUS
<1>5. c \in 0 .. Len(rows) /\ (Len(rows) > PageSize => c = PageSize /\ c >= 1) /\ (~(Len(rows) > PageSize) => c = Len(rows))
  BY <1>3, <1>4
<1>6. PICK page : page = SubSeq(rows, 1, c)
  OBVIOUS
<1>7. page \in Seq(Entry) /\ Len(page) = c /\ \A k \in 1 .. c : page[k] = rows[k]
  <2>1. \A k \in 1 .. c : rows[k] \in Entry
    BY <1>3, <1>5
  <2>2. /\ page \in Seq(Entry) /\ Len(page) = (IF 1 <= c THEN c - 1 + 1 ELSE 0)
        /\ \A k \in 1 .. c - 1 + 1 : page[k] = rows[1 + k - 1]
    BY <1>3, <1>5, <1>6, <2>1, SubSeqProperties
  <2> QED BY <1>5, <2>2
<1>8. PICK got, next : got = reader[r].got /\ next = got \o page
  OBVIOUS
<1>9. Joined(next, got, rows, c)
  <2>1. got \in Seq(Entry) /\ Len(got) \in Nat
    BY <1>8 DEF Served
  <2>2. next \in Seq(Entry) /\ Len(next) = Len(got) + Len(page)
    BY <1>7, <1>8, <2>1, ConcatProperties
  <2>3. \A m \in 1 .. Len(got) + Len(page) : next[m] = IF m <= Len(got) THEN got[m] ELSE page[m - Len(got)]
    BY <1>7, <1>8, <2>1, ConcatProperties
  <2>4. \A m \in 1 .. Len(got) : next[m] = got[m]
    BY <1>5, <1>7, <2>1, <2>3
  <2>5. ASSUME NEW j \in 1 .. c PROVE next[Len(got) + j] = rows[j]
    <3>1. Len(got) + j \in 1 .. Len(got) + Len(page) /\ ~(Len(got) + j <= Len(got)) /\ (Len(got) + j) - Len(got) = j
      BY <1>5, <1>7, <2>1
    <3>2. next[Len(got) + j] = page[j]
      BY <2>3, <3>1
    <3> QED BY <1>7, <3>2
  <2> QED BY <1>7, <2>2, <2>4, <2>5 DEF Joined
<1>10. PICK more : more = (Len(rows) > PageSize)
  OBVIOUS
<1>11. PICK cursor, frozen :
         /\ cursor = (IF more THEN <<Last(page)>> ELSE <<>>)
         /\ frozen = (IF last = <<>> THEN FrozenNow(range) ELSE reader[r].frozen)
  OBVIOUS
<1>12. x = [reader[r] EXCEPT !.pc = IF more THEN "paging" ELSE "done", !.range = range, !.snapshot = snapshot,
                  !.last = cursor, !.got = next, !.frozen = frozen]
  <2>1. page = SubSeq(rows, 1, Min({PageSize, Len(rows)}))
    BY <1>3, <1>4, <1>6, MinOfTwo
  <2> QED BY <1>1, <1>8, <1>10, <1>11, <2>1 DEF PageOf, FrozenNow
<1>13. /\ x.pc = (IF more THEN "paging" ELSE "done") /\ x.range = range /\ x.snapshot = snapshot /\ x.last = cursor
       /\ x.got = next /\ x.frozen = frozen /\ x.due = reader[r].due
  BY <1>12 DEF ReaderRecord
<1>14. more => cursor = <<rows[c]>> /\ cursor # <<>>
  BY <1>5, <1>7, <1>10, <1>11 DEF Last
<1>15. more => Served(entries, next, cursor, snapshot, range)
  BY <1>2, <1>5, <1>8, <1>9, <1>10, <1>14, PageServed
<1>16. ~more => /\ \A k \in 1 .. Len(next) - 1 : KeyBefore(next[k], next[k + 1])
                /\ Ids(Range(next)) = FrozenAt(entries, snapshot, range)
  BY <1>2, <1>5, <1>8, <1>9, <1>10, PageServed
<1>17. frozen \in SUBSET (Sources \X Nat)
  <2>1. \A e \in Range(entries) : <<e.source, e.id>> \in Sources \X Nat
    BY DEF EntriesInv, Shown, Id, FactIds, Range
  <2>2. FrozenNow(range) \in SUBSET (Sources \X Nat)
    BY <2>1 DEF Ids, FrozenNow
  <2> QED BY <1>11, <2>2 DEF ReaderRecord
<1>18. cursor \in Seq(Entry) /\ next \in Seq(Entry) /\ snapshot \in Nat
  <2>1. ASSUME more PROVE rows[c] \in Entry
    <3>1. Len(rows) > PageSize
      BY <1>10, <2>1
    <3>2. c \in 1 .. Len(rows)
      BY <1>3, <1>5, <3>1
    <3> QED BY <1>3, <3>2
  <2> QED BY <1>9, <1>11, <1>14, <2>1 DEF Joined, EntriesInv
<1>19. x \in ReaderRecord
  BY <1>12, <1>17, <1>18 DEF ReaderRecord
<1> QED BY <1>11, <1>13, <1>14, <1>15, <1>16, <1>19

-----------------------------------------------------------------------------
(* What a query returns.                                                   *)

LEMMA CommittedFacts ==
  ASSUME BaseInv, NEW s \in Sources
  PROVE  /\ IsFiniteSet(Projections(s))
         /\ \A e \in Projections(s) : e \in Entry /\ Shown(e) /\ Keyed(e) /\ e.source = s
         /\ \A d, e \in Projections(s) : SameFact(d, e) => d = e
         /\ \A p \in FactIds : p[1] = s => \E e \in Projections(s) : Id(e) = p
<1>1. tables[s] \in Seq(Facts) /\ Len(tables[s]) \in Nat /\ DOMAIN tables[s] = 1 .. Len(tables[s])
  BY DEF BaseInv
<1>2. PICK f : f = [id \in DOMAIN tables[s] |-> Project(s, id, uncertainAfter)]
  OBVIOUS
<1>3. \A id \in DOMAIN tables[s] : f[id] \in Entry /\ Shown(f[id]) /\ Id(f[id]) = <<s, id>>
  BY <1>2, ProjectFacts
<1>4. PICK S : S = Projections(s) /\ S = {f[id] : id \in DOMAIN tables[s]}
  BY <1>2 DEF Projections
<1>5. IsFiniteSet(S)
  <2>1. IsFiniteSet(DOMAIN tables[s])
    BY <1>1, FS_Interval
  <2> QED BY <1>4, <2>1, ImageFinite
<1>6. \A e \in S : e \in Entry /\ Shown(e) /\ e.source = s /\ e.id \in DOMAIN tables[s] /\ e = f[e.id]
  BY <1>3, <1>4 DEF Id
<1>7. \A d, e \in S : SameFact(d, e) => d = e
  BY <1>6 DEF SameFact
<1>8. \A p \in FactIds : p[1] = s => \E e \in S : Id(e) = p
  <2> SUFFICES ASSUME NEW p \in FactIds, p[1] = s PROVE \E e \in S : Id(e) = p
    OBVIOUS
  <2>1. p = <<s, p[2]>> /\ p[2] \in DOMAIN tables[s]
    BY DEF FactIds
  <2> QED BY <1>3, <1>4, <2>1
<1> QED BY <1>4, <1>5, <1>6, <1>7, <1>8, ShownFacts

\* What a query keeps.
Kept(q) == {e \in Candidates(q) : Matches(e, From, job.range.to, Overlapping)}

LEMMA QueryKeeps ==
  ASSUME BaseInv, NEW q, q.source \in Sources
  PROVE  /\ Rows(q) \in Seq(Entry) /\ (\A k \in DOMAIN Rows(q) : Rows(q)[k] \in Kept(q) /\ Shown(Rows(q)[k]) /\ Rows(q)[k].source = q.source)
         /\ \A m, n \in DOMAIN Rows(q) : Id(Rows(q)[m]) = Id(Rows(q)[n]) => m = n
         /\ \A e \in Kept(q) : Holds(Rows(q), Id(e))
<1>1. PICK S : S = Kept(q)
  OBVIOUS
<1>2. S \in SUBSET Projections(q.source)
  BY <1>1 DEF Kept, Candidates
<1>3. IsFiniteSet(S)
  BY <1>2, CommittedFacts, FS_Subset
<1>4. \A e \in S : e \in Entry /\ Shown(e) /\ Keyed(e) /\ e.source = q.source
  BY <1>2, CommittedFacts
<1>5. \A d, e \in S : SameFact(d, e) => d = e
  BY <1>2, CommittedFacts
<1>6. PICK rows : rows = RowSort(S)
  OBVIOUS
<1>7. Lists(rows, S)
  BY <1>3, <1>4, <1>5, <1>6, RowsSorted
<1>8. rows \in Seq(S) /\ DOMAIN rows = 1 .. Len(rows) /\ (\A k \in DOMAIN rows : rows[k] \in S)
      /\ (\A m, n \in DOMAIN rows : rows[m] = rows[n] => m = n) /\ \A x \in S : \E k \in DOMAIN rows : rows[k] = x
  BY <1>7 DEF Lists
<1>9. rows \in Seq(Entry)
  <2>1. S \subseteq Entry
    BY <1>4
  <2> QED BY <1>8, <2>1
<1>10. \A m, n \in DOMAIN rows : Id(rows[m]) = Id(rows[n]) => m = n
  BY <1>5, <1>8 DEF Id, SameFact
<1>11. \A e \in S : Holds(rows, Id(e))
  BY <1>8 DEF Holds
<1>12. Rows(q) = rows
  BY <1>1, <1>6 DEF Rows, Kept, RowSort
<1> QED BY <1>1, <1>4, <1>8, <1>9, <1>10, <1>11, <1>12

LEMMA QueriesFacts ==
  ASSUME job.kind \in {"timeline", "coverage"}
  PROVE  /\ job.kind = "timeline" => /\ Len(Queries) = 3 /\ DOMAIN Queries = 1 .. 3
                                     /\ \A s \in Sources : \E j \in 1 .. 3 : Queries[j].source = s
                                     /\ \A j \in 1 .. 3 : Queries[j].part = "starts"
         /\ job.kind = "coverage" => Len(Queries) = 6 /\ DOMAIN Queries = 1 .. 6
         /\ \A j \in DOMAIN Queries : Queries[j].source \in Sources /\ Queries[j].part \in {"starts", "reaches"}
         /\ \A i, j \in DOMAIN Queries : Queries[i].source = Queries[j].source /\ Queries[i].part = Queries[j].part => i = j
<1>1. CASE job.kind = "timeline"
  <2>1. Queries = <<[source |-> "raw_event", part |-> "starts"], [source |-> "heartbeat", part |-> "starts"],
                    [source |-> "media_segment", part |-> "starts"]>>
    BY <1>1 DEF Queries, Overlapping
  <2> QED BY <1>1, <2>1 DEF Sources
<1>2. CASE job.kind = "coverage"
  <2>1. Queries = <<[source |-> "raw_event", part |-> "starts"], [source |-> "raw_event", part |-> "reaches"],
                    [source |-> "heartbeat", part |-> "starts"], [source |-> "heartbeat", part |-> "reaches"],
                    [source |-> "media_segment", part |-> "starts"], [source |-> "media_segment", part |-> "reaches"]>>
    BY <1>2 DEF Queries, Overlapping
  <2> QED BY <1>2, <2>1 DEF Sources
<1> QED BY <1>1, <1>2

-----------------------------------------------------------------------------
(* Tables grow and entries evolve: what was true of a fact stays true.     *)

Growth == \A p \in FactIds : p \in FactIds' /\ FactAt(p)' = FactAt(p)

LEMMA SameTables == ASSUME tables' = tables PROVE Growth
BY DEF Growth, FactIds, FactAt

LEMMA GrowthKeeps ==
  ASSUME Growth
  PROVE  /\ \A p \in FactIds : p \in FactIds' /\ FactAt(p)' = FactAt(p) /\ StartAt(p)' = StartAt(p) /\ EndAt(p)' = EndAt(p)
         /\ \A e : Shown(e) => Shown(e)'
<1>1. \A p \in FactIds : p \in FactIds' /\ FactAt(p)' = FactAt(p) /\ StartAt(p)' = StartAt(p) /\ EndAt(p)' = EndAt(p)
  BY DEF Growth, StartAt, EndAt
<1>2. ASSUME NEW e, Shown(e) PROVE Shown(e)'
  <2>1. Id(e) \in FactIds /\ Id(e)' = Id(e)
    BY <1>2 DEF Shown, Id
  <2> QED BY <1>1, <1>2, <2>1 DEF Shown
<1> QED BY <1>1, <1>2

LEMMA EvolvedSelf == ASSUME EntriesInv(entries), entries' = entries PROVE Evolved(entries, entries')
BY DEF EntriesInv, Evolved, SameKey

LEMMA AppendGrows ==
  ASSUME BaseInv, setup' = setup, NEW s \in Sources, NEW f \in Pool[s], AppendFact(s, f)
  PROVE  Growth /\ BaseInv'
<1>1. tables \in [Sources -> Seq(Facts)] /\ f \in Facts
  BY SetupFacts DEF BaseInv
<1>2. tables' = [tables EXCEPT ![s] = Append(tables[s], f)]
  BY DEF AppendFact
<1>3. \A t \in Sources : t # s => tables'[t] = tables[t]
  BY <1>1, <1>2
<1>4. /\ tables'[s] = Append(tables[s], f) /\ tables[s] \in Seq(Facts) /\ tables'[s] \in Seq(Facts)
      /\ Len(tables'[s]) = Len(tables[s]) + 1 /\ tables'[s][Len(tables[s]) + 1] = f
      /\ \A id \in 1 .. Len(tables[s]) : tables'[s][id] = tables[s][id]
  BY <1>1, <1>2
<1>5. tables' \in [Sources -> Seq(Facts)]
  BY <1>1, <1>2, <1>4
<1>6. \A t \in Sources : \A id \in DOMAIN tables[t] : id \in DOMAIN tables'[t] /\ tables'[t][id] = tables[t][id]
  BY <1>1, <1>3, <1>4
<1>7. Growth
  <2> SUFFICES ASSUME NEW p \in FactIds PROVE p \in FactIds' /\ FactAt(p)' = FactAt(p)
    BY DEF Growth
  <2>1. p \in Sources \X Nat /\ p[1] \in Sources /\ p[2] \in DOMAIN tables[p[1]]
    BY DEF FactIds
  <2> QED BY <1>6, <2>1 DEF FactIds, FactAt
<1>8. \A t \in Sources : \A id \in DOMAIN tables'[t] : tables'[t][id] \in Pool'[t]
  <2>1. Pool' = Pool /\ \A t \in Sources : \A id \in DOMAIN tables[t] : tables[t][id] \in Pool[t]
    BY DEF Pool, BaseInv
  <2>2. \A id \in DOMAIN tables'[s] : id \in 1 .. Len(tables[s]) \/ id = Len(tables[s]) + 1
    BY <1>4
  <2>3. DOMAIN tables[s] = 1 .. Len(tables[s])
    BY <1>4
  <2> QED BY <1>3, <1>4, <2>1, <2>2, <2>3
<1>9. UncertainSettings' = UncertainSettings /\ MaxTrouble' = MaxTrouble
  BY DEF UncertainSettings, MaxTrouble
<1>10. uncertainAfter' = uncertainAfter /\ coverageDegraded' = coverageDegraded /\ trouble' = trouble
  BY DEF AppendFact
<1>11. setup' \in Setups
  BY DEF BaseInv
<1>12. uncertainAfter' \in UncertainSettings' /\ coverageDegraded' \in BOOLEAN /\ trouble' \in 0 .. MaxTrouble'
  BY <1>9, <1>10 DEF BaseInv
<1> QED BY <1>5, <1>7, <1>8, <1>11, <1>12 DEF BaseInv

LEMMA BaseKept ==
  ASSUME BaseInv, setup' = setup, tables' = tables, uncertainAfter' \in UncertainSettings, coverageDegraded' \in BOOLEAN,
         trouble' \in 0 .. MaxTrouble
  PROVE  BaseInv'
BY DEF BaseInv, Pool, UncertainSettings, MaxTrouble

LEMMA EntriesKept ==
  ASSUME Growth, EntriesInv(entries), entries' = entries
  PROVE  EntriesInv(entries)'
<1>1. entries' \in Seq(Entry) /\ \A m, n \in DOMAIN entries' : SameFact(entries'[m], entries'[n]) => m = n
  BY DEF EntriesInv
<1>2. \A k \in DOMAIN entries' : Shown(entries[k])'
  BY GrowthKeeps DEF EntriesInv
<1> QED BY <1>1, <1>2 DEF EntriesInv

LEMMA AskedEvolved ==
  ASSUME NEW es, NEW fs, es \in Seq(Entry), fs \in Seq(Entry), Evolved(es, fs), NEW snapshot \in 0 .. Len(es), NEW range
  PROVE  /\ Asked(es, snapshot, range) = Asked(fs, snapshot, range)
         /\ \A k \in Asked(es, snapshot, range) : SameKey(es[k], fs[k]) /\ Id(es[k]) = Id(fs[k])
<1>1. \A k \in 1 .. snapshot : SameKey(es[k], fs[k])
  BY DEF Evolved
<1> QED BY <1>1 DEF Asked, InRange, SameKey, Id

\* Pages and their snapshot survive a sync that rewrites entries.
LEMMA ServedEvolved ==
  ASSUME Growth, entries \in Seq(Entry), entries' \in Seq(Entry), Evolved(entries, entries'),
         NEW got, NEW last, NEW range, NEW snapshot \in 0 .. Len(entries), Served(entries, got, last, snapshot, range)
  PROVE  Served(entries, got, last, snapshot, range)' /\ FrozenAt(entries, snapshot, range)' = FrozenAt(entries, snapshot, range)
<1>1. PICK A : A = Asked(entries, snapshot, range) /\ A = Asked(entries', snapshot, range)
               /\ \A k \in A : SameKey(entries[k], entries'[k]) /\ Id(entries[k]) = Id(entries'[k])
  BY AskedEvolved
<1>2. Asked(entries, snapshot, range)' = A
  BY <1>1 DEF Asked, InRange
<1>3. \A m \in DOMAIN got : Shown(got[m])'
  BY GrowthKeeps DEF Served
<1>4. \A m \in DOMAIN got : \E k \in A : Id(got[m]) = Id(entries'[k])
  BY <1>1 DEF Served
<1>5. \A k \in A : Holds(got, Id(entries'[k])) \/ \A d \in Range(last) : KeyBefore(d, entries'[k])
  BY <1>1, SameKeyOrder DEF Served
<1>6. Served(entries, got, last, snapshot, range)'
  BY <1>2, <1>3, <1>4, <1>5 DEF Served
<1>7. FrozenAt(entries, snapshot, range)' = FrozenAt(entries, snapshot, range)
  BY <1>1, <1>2 DEF FrozenAt, Id
<1> QED BY <1>6, <1>7

LEMMA ReaderKept ==
  ASSUME Growth, setup' = setup, EntriesInv(entries), EntriesInv(entries)', Evolved(entries, entries'),
         NEW r \in Readers, ReaderInv(r), reader'[r] = reader[r]
  PROVE  ReaderInv(r)'
<1>1. entries \in Seq(Entry) /\ entries' \in Seq(Entry) /\ Len(entries) \in Nat /\ Len(entries') \in Nat /\ Len(entries) <= Len(entries')
  BY DEF EntriesInv, Evolved
<1>2. PICK x : x = reader[r] /\ x = reader'[r]
  OBVIOUS
<1>3. x.pc \in {"new", "paging", "refused", "done"} /\ x.snapshot \in 0 .. Len(entries) /\ x.snapshot \in 0 .. Len(entries')
  BY <1>1, <1>2 DEF ReaderInv
<1>4. ASSUME x.pc = "paging"
      PROVE  /\ Served(entries, x.got, x.last, x.snapshot, x.range)'
             /\ x.frozen = FrozenAt(entries, x.snapshot, x.range)'
             /\ x.range \in Ranges' /\ x.last # <<>> /\ x.due \subseteq x.frozen
  <2>1. /\ Served(entries, x.got, x.last, x.snapshot, x.range) /\ x.frozen = FrozenAt(entries, x.snapshot, x.range)
        /\ x.range \in Ranges /\ x.last # <<>> /\ x.due \subseteq x.frozen
    BY <1>2, <1>4 DEF ReaderInv
  <2> QED BY <1>1, <1>3, <2>1, ServedEvolved DEF Ranges
<1>5. /\ x.pc = "new" => x.got = <<>>
      /\ x.pc = "done" => /\ \A k \in 1 .. Len(x.got) - 1 : KeyBefore(x.got[k], x.got[k + 1])
                          /\ Ids(Range(x.got)) = x.frozen /\ x.due \subseteq x.frozen
  BY <1>2 DEF ReaderInv
<1> QED BY <1>2, <1>3, <1>4, <1>5 DEF ReaderInv

LEMMA ReadersKept ==
  ASSUME Growth, setup' = setup, EntriesInv(entries), EntriesInv(entries)', Evolved(entries, entries'), ReadersInv, reader' = reader
  PROVE  ReadersInv'
<1>1. Readers' = Readers /\ Ranges' = Ranges
  BY DEF Readers, Ranges
<1>2. ReaderRecord' = ReaderRecord
  BY <1>1 DEF ReaderRecord
<1>3. \A r \in Readers : ReaderInv(r)'
  BY ReaderKept DEF ReadersInv
<1> QED BY <1>1, <1>2, <1>3 DEF ReadersInv

LEMMA JobTypes ==
  ASSUME setup' = setup
  PROVE  TimelineJob' = TimelineJob /\ CoverageJob' = CoverageJob /\ Ranges' = Ranges /\ Readers' = Readers
         /\ Collectors' = Collectors /\ Clock' = Clock
BY DEF TimelineJob, CoverageJob, Ranges, Readers, Collectors, Clock

LEMMA JobKept ==
  ASSUME Growth, setup' = setup, JobInv, job' = job
  PROVE  JobInv'
<1>1. Queries' = Queries
  BY DEF Queries, Overlapping
<1>2. CASE job = Idle
  BY <1>2 DEF JobInv, Idle
<1>3. CASE job # Idle
  <2>1. \A k \in DOMAIN job.got : Shown(job.got[k])'
    BY <1>3, GrowthKeeps DEF JobInv
  <2> QED BY <1>1, <1>3, <2>1, JobTypes DEF JobInv
<1> QED BY <1>2, <1>3

LEMMA SyncKept ==
  ASSUME Growth, setup' = setup, JobInv, SyncInv, job' = job, entries \in Seq(Entry), entries' \in Seq(Entry),
         Evolved(entries, entries'), job # Idle /\ job.kind = "timeline" => reader'[job.reader] = reader[job.reader]
  PROVE  SyncInv'
<1> SUFFICES ASSUME job # Idle, job.kind = "timeline"
             PROVE  SyncInv'
  BY DEF SyncInv, Idle
<1>1. Queries' = Queries
  BY DEF Queries, Overlapping
<1>2. PICK x : x = reader[job.reader] /\ x = reader'[job.reader]
  OBVIOUS
<1>3. x.pc = "new"
  BY <1>2 DEF SyncInv
<1>4. ASSUME NEW p \in x.due
      PROVE  /\ p \in FactIds' /\ job.range.from <= StartAt(p)' /\ StartAt(p)' < job.range.to
             /\ job.pc = "collect" /\ (\E j \in 1 .. job.query - 1 : Queries[j].source = p[1]) => Holds(job.got, p)
             /\ job.pc = "upsert" => Holds(job.got, p) \/ Holds(entries', p)
             /\ job.pc = "page" => Holds(entries', p)
  <2>1. /\ p \in FactIds /\ job.range.from <= StartAt(p) /\ StartAt(p) < job.range.to
        /\ job.pc = "collect" /\ (\E j \in 1 .. job.query - 1 : Queries[j].source = p[1]) => Holds(job.got, p)
        /\ job.pc = "upsert" => Holds(job.got, p) \/ Holds(entries, p)
        /\ job.pc = "page" => Holds(entries, p)
    BY <1>2, <1>4 DEF SyncInv
  <2>2. p \in FactIds' /\ StartAt(p)' = StartAt(p)
    BY <2>1, GrowthKeeps
  <2>3. Holds(entries, p) => Holds(entries', p)
    BY HoldsEvolved
  <2> QED BY <2>1, <2>2, <2>3
<1> QED BY <1>1, <1>2, <1>3, <1>4 DEF SyncInv, Holds

\* Steps that leave tables, entries, readers and the request alone, or append a fact.
LEMMA AppendKeeps ==
  ASSUME TimelineInv, setup' = setup, Growth, BaseInv', entries' = entries, reader' = reader, job' = job
  PROVE  TimelineInv'
<1>1. EntriesInv(entries)' /\ Evolved(entries, entries') /\ EntriesInv(entries)
  BY EntriesKept, EvolvedSelf DEF TimelineInv
<1>2. entries \in Seq(Entry) /\ entries' \in Seq(Entry)
  BY <1>1 DEF EntriesInv
<1>3. ReadersInv' /\ JobInv' /\ SyncInv'
  BY <1>1, <1>2, ReadersKept, JobKept, SyncKept DEF TimelineInv
<1> QED BY <1>1, <1>3 DEF TimelineInv

\* The request ends or goes on to no more reading.
LEMMA IdleInvs ==
  ASSUME job' = Idle
  PROVE  JobInv' /\ SyncInv'
BY DEF JobInv, SyncInv, Idle

\* A request in hand is one for a timeline or one for coverage.
LEMMA JobIs ==
  ASSUME JobInv, job.pc # "idle"
  PROVE  /\ job # Idle /\ job.kind \in {"timeline", "coverage"} /\ job.range \in Ranges /\ job.got \in Seq(Entry)
         /\ job.kind = "timeline" => job \in TimelineJob /\ job.reader \in Readers
         /\ job.kind = "coverage" => job \in CoverageJob /\ (job.pc # "answer" => job.todo # <<>>)
         /\ job.pc = "collect" => job.query \in DOMAIN Queries
         /\ \A k \in DOMAIN job.got : Shown(job.got[k])
<1>1. job # Idle
  BY DEF Idle
<1>2. job \in TimelineJob \/ job \in CoverageJob
  BY <1>1 DEF JobInv
<1>3. job \in TimelineJob => job.kind = "timeline" /\ job.range \in Ranges /\ job.got \in Seq(Entry) /\ job.reader \in Readers
  BY DEF TimelineJob
<1>4. job \in CoverageJob => job.kind = "coverage" /\ job.range \in Ranges /\ job.got \in Seq(Entry)
  BY DEF CoverageJob
<1> QED BY <1>1, <1>2, <1>3, <1>4 DEF JobInv

LEMMA NoReaderFacts == NoReader \in ReaderRecord
BY DEF NoReader, ReaderRecord

\* Each reader stays as it is, or is as a request leaves it.
LEMMA ReadersStep ==
  ASSUME Growth, setup' = setup, EntriesInv(entries), EntriesInv(entries)', Evolved(entries, entries'), ReadersInv,
         reader' \in [Readers -> ReaderRecord], \A r \in Readers : reader'[r] = reader[r] \/ reader'[r] = NoReader \/ ReaderInv(r)'
  PROVE  ReadersInv'
<1>1. Readers' = Readers /\ Ranges' = Ranges
  BY DEF Readers, Ranges
<1>2. ReaderRecord' = ReaderRecord
  BY <1>1 DEF ReaderRecord
<1>3. ASSUME NEW r \in Readers, reader'[r] = NoReader PROVE ReaderInv(r)'
  <2>1. 0 \in 0 .. Len(entries')
    BY DEF EntriesInv
  <2> QED BY <1>3, <2>1 DEF ReaderInv, NoReader
<1>4. \A r \in Readers : ReaderInv(r)'
  BY <1>3, ReaderKept DEF ReadersInv
<1> QED BY <1>1, <1>2, <1>4 DEF ReadersInv

LEMMA TailFacts ==
  ASSUME NEW S, NEW t \in Seq(S), t # <<>>
  PROVE  Tail(t) \in Seq(S) /\ (Len(t) # 1 => Tail(t) # <<>>)
<1>1. Tail(t) \in Seq(S) /\ Len(Tail(t)) = Len(t) - 1
  BY HeadTailProperties
<1>2. PICK u : u = Tail(t)
  OBVIOUS
<1>3. Len(t) # 1 => Len(u) # 0
  BY <1>1, <1>2
<1>4. Len(<<>>) = 0
  OBVIOUS
<1> QED BY <1>1, <1>2, <1>3, <1>4

\* The request goes on with the next collector: nothing was read for it.
LEMMA NextCollectorInvs ==
  ASSUME setup' = setup, JobInv, job.kind = "coverage", job.pc \in {"collect", "upsert", "build"}, NextCollector
  PROVE  JobInv' /\ SyncInv'
<1>1. job \in CoverageJob /\ job.todo # <<>> /\ job.todo \in Seq(Range(Collectors))
  BY JobIs DEF CoverageJob
<1>2. PICK rest : rest = Tail(job.todo)
  OBVIOUS
<1>3. rest \in Seq(Range(Collectors)) /\ (Len(job.todo) # 1 => rest # <<>>)
  BY <1>1, <1>2, TailFacts
<1>4. PICK pc : pc = (IF Len(job.todo) = 1 THEN "answer" ELSE "collect")
  OBVIOUS
<1>5. /\ job'.pc = pc /\ job'.kind = "coverage" /\ job'.todo = rest /\ job'.query = 1 /\ job'.got = <<>>
      /\ job' \in CoverageJob
  <2>1. job' = [job EXCEPT !.todo = rest, !.pc = pc, !.query = 1, !.got = <<>>]
    BY <1>2, <1>4 DEF NextCollector
  <2>2. pc \in {"answer", "collect"} /\ <<>> \in Seq(Entry) /\ 1 \in 1 .. 7
    BY <1>4
  <2> QED BY <1>1, <1>3, <2>1, <2>2 DEF CoverageJob
<1>6. job' # Idle
  BY <1>4, <1>5 DEF Idle
<1>7. 1 \in DOMAIN Queries'
  BY <1>5 DEF Queries, Overlapping
<1>8. JobInv'
  BY <1>3, <1>4, <1>5, <1>7, JobTypes DEF JobInv
<1>9. SyncInv'
  BY <1>5 DEF SyncInv
<1> QED BY <1>8, <1>9

\* Steps that leave entries and readers alone, but for readers whose request ended.
LEMMA RestKept ==
  ASSUME TimelineInv, setup' = setup, tables' = tables, entries' = entries, uncertainAfter' \in UncertainSettings,
         coverageDegraded' \in BOOLEAN, trouble' \in 0 .. MaxTrouble, JobInv', SyncInv',
         reader' \in [Readers -> ReaderRecord], \A r \in Readers : reader'[r] = reader[r] \/ reader'[r] = NoReader
  PROVE  TimelineInv'
<1>1. Growth /\ BaseInv'
  BY SameTables, BaseKept DEF TimelineInv
<1>2. EntriesInv(entries) /\ EntriesInv(entries)' /\ Evolved(entries, entries')
  BY <1>1, EntriesKept, EvolvedSelf DEF TimelineInv
<1>3. ReadersInv'
  BY <1>1, <1>2, ReadersStep DEF TimelineInv
<1> QED BY <1>1, <1>2, <1>3 DEF TimelineInv

LEMMA TroubleKept ==
  ASSUME BaseInv, trouble' = trouble \/ Trouble
  PROVE  trouble' \in 0 .. MaxTrouble
<1>1. MaxTrouble \in Nat /\ trouble \in 0 .. MaxTrouble
  BY SetupFacts DEF BaseInv
<1> QED BY <1>1 DEF Trouble

LEMMA FailKeeps ==
  ASSUME TimelineInv, setup' = setup, job.pc \in {"collect", "upsert", "page", "build"}, trouble' = trouble \/ Trouble,
         NEW code, NEW saved, FailSync(code, saved)
  PROVE  TimelineInv'
<1>1. BaseInv /\ JobInv /\ ReadersInv
  BY DEF TimelineInv
<1>2. tables' = tables /\ entries' = entries /\ uncertainAfter' \in UncertainSettings /\ coverageDegraded' \in BOOLEAN
      /\ trouble' \in 0 .. MaxTrouble
  BY <1>1, TroubleKept DEF FailSync, BaseInv
<1>3. reader \in [Readers -> ReaderRecord] /\ NoReader \in ReaderRecord
  BY <1>1, NoReaderFacts DEF ReadersInv
<1>4. CASE job.kind = "timeline"
  <2>1. job' = Idle /\ reader' = [reader EXCEPT ![job.reader] = NoReader]
    BY <1>4 DEF FailSync
  <2>2. reader' \in [Readers -> ReaderRecord] /\ \A r \in Readers : reader'[r] = reader[r] \/ reader'[r] = NoReader
    BY <1>3, <2>1
  <2>3. JobInv' /\ SyncInv'
    BY <2>1, IdleInvs
  <2> QED BY <1>2, <2>2, <2>3, RestKept
<1>5. CASE job.kind = "coverage"
  <2>1. NextCollector /\ reader' = reader
    BY <1>5 DEF FailSync
  <2>2. job.pc \in {"collect", "upsert", "build"}
    <3>1. job \in CoverageJob
      BY <1>1, <1>5, JobIs
    <3> QED BY <3>1 DEF CoverageJob
  <2>3. JobInv' /\ SyncInv'
    BY <1>1, <1>5, <2>1, <2>2, NextCollectorInvs
  <2> QED BY <1>2, <1>3, <2>1, <2>3, RestKept
<1> QED BY <1>4, <1>5 DEF FailSync

LEMMA CancelKeeps ==
  ASSUME TimelineInv, setup' = setup, Cancel
  PROVE  TimelineInv'
<1>1. BaseInv /\ JobInv /\ ReadersInv
  BY DEF TimelineInv
<1>2. tables' = tables /\ entries' = entries /\ uncertainAfter' \in UncertainSettings /\ trouble' \in 0 .. MaxTrouble /\ job' = Idle
  BY <1>1, TroubleKept DEF Cancel, BaseInv
<1>3. coverageDegraded' \in BOOLEAN
  BY <1>1 DEF Cancel, BaseInv
<1>4. reader \in [Readers -> ReaderRecord] /\ NoReader \in ReaderRecord
  BY <1>1, NoReaderFacts DEF ReadersInv
<1>5. reader' = [reader EXCEPT ![job.reader] = NoReader] \/ reader' = reader
  BY DEF Cancel
<1>6. reader' \in [Readers -> ReaderRecord] /\ \A r \in Readers : reader'[r] = reader[r] \/ reader'[r] = NoReader
  BY <1>4, <1>5
<1>7. JobInv' /\ SyncInv'
  BY <1>2, IdleInvs
<1> QED BY <1>2, <1>3, <1>6, <1>7, RestKept

LEMMA RestartKeeps ==
  ASSUME TimelineInv, setup' = setup, NEW u \in UncertainSettings, Restart(u)
  PROVE  TimelineInv'
<1>1. BaseInv /\ JobInv /\ ReadersInv
  BY DEF TimelineInv
<1>2. tables' = tables /\ entries' = entries /\ uncertainAfter' \in UncertainSettings /\ trouble' \in 0 .. MaxTrouble /\ job' = Idle
      /\ coverageDegraded' \in BOOLEAN
  BY <1>1, TroubleKept DEF Restart
<1>3. reader \in [Readers -> ReaderRecord] /\ NoReader \in ReaderRecord
  BY <1>1, NoReaderFacts DEF ReadersInv
<1>4. reader' = [r \in Readers |-> IF job.pc # "idle" /\ job.kind = "timeline" /\ job.reader = r THEN NoReader ELSE reader[r]]
  BY DEF Restart
<1>5. reader' \in [Readers -> ReaderRecord] /\ \A r \in Readers : reader'[r] = reader[r] \/ reader'[r] = NoReader
  BY <1>3, <1>4
<1>6. JobInv' /\ SyncInv'
  BY <1>2, IdleInvs
<1> QED BY <1>2, <1>5, <1>6, RestKept

LEMMA AnswerKeeps ==
  ASSUME TimelineInv, setup' = setup, AnswerCoverage
  PROVE  TimelineInv'
<1>1. tables' = tables /\ entries' = entries /\ uncertainAfter' \in UncertainSettings /\ coverageDegraded' \in BOOLEAN
      /\ trouble' \in 0 .. MaxTrouble /\ job' = Idle /\ reader' = reader
  BY DEF AnswerCoverage, TimelineInv, BaseInv
<1>2. reader' \in [Readers -> ReaderRecord] /\ \A r \in Readers : reader'[r] = reader[r]
  BY <1>1 DEF TimelineInv, ReadersInv
<1>3. JobInv' /\ SyncInv'
  BY <1>1, IdleInvs
<1> QED BY <1>1, <1>2, <1>3, RestKept

LEMMA RebuildKeeps ==
  ASSUME TimelineInv, setup' = setup, RebuildCollector
  PROVE  TimelineInv'
<1>1. tables' = tables /\ entries' = entries /\ uncertainAfter' \in UncertainSettings /\ coverageDegraded' \in BOOLEAN
      /\ trouble' \in 0 .. MaxTrouble /\ reader' = reader
  BY DEF RebuildCollector, TimelineInv, BaseInv
<1>2. job.pc = "build" /\ NextCollector
  BY DEF RebuildCollector
<1>3. job.kind = "coverage"
  <2>1. job.kind = "timeline" => job \in TimelineJob
    BY <1>2, JobIs DEF TimelineInv
  <2>2. job.kind \in {"timeline", "coverage"}
    BY <1>2, JobIs DEF TimelineInv
  <2> QED BY <1>2, <2>1, <2>2 DEF TimelineJob
<1>4. reader' \in [Readers -> ReaderRecord] /\ \A r \in Readers : reader'[r] = reader[r]
  BY <1>1 DEF TimelineInv, ReadersInv
<1>5. JobInv' /\ SyncInv'
  BY <1>2, <1>3, NextCollectorInvs DEF TimelineInv
<1> QED BY <1>1, <1>4, <1>5, RestKept

LEMMA BeginTimelineKeeps ==
  ASSUME TimelineInv, setup' = setup, NEW r \in Readers, NEW range \in Ranges, BeginTimeline(r, range)
  PROVE  TimelineInv'
<1>1. BaseInv /\ EntriesInv(entries) /\ ReadersInv /\ reader \in [Readers -> ReaderRecord] /\ ReaderInv(r)
  BY DEF TimelineInv, ReadersInv
<1>2. tables' = tables /\ entries' = entries /\ uncertainAfter' = uncertainAfter /\ coverageDegraded' = coverageDegraded
      /\ trouble' = trouble /\ reader[r].pc = "new"
  BY DEF BeginTimeline
<1>3. Growth /\ BaseInv'
  BY <1>1, <1>2, SameTables, BaseKept DEF BaseInv
<1>4. EntriesInv(entries)' /\ Evolved(entries, entries')
  BY <1>1, <1>2, <1>3, EntriesKept, EvolvedSelf
<1>5. PICK due : due = Ids({e \in Committed : Matches(e, range.from, range.to, FALSE)})
  OBVIOUS
<1>6. ASSUME NEW p \in due PROVE p \in FactIds /\ range.from <= StartAt(p) /\ StartAt(p) < range.to
  <2>1. PICK e \in Committed : Matches(e, range.from, range.to, FALSE) /\ Id(e) = p
    BY <1>5, <1>6 DEF Ids, Id
  <2>2. Shown(e)
    BY <1>1, CommittedFacts DEF Committed
  <2>3. Id(e) \in FactIds /\ e.start = StartAt(p) /\ e.start \in Int
    BY <1>1, <2>1, <2>2, ShownFacts DEF Keyed
  <2>4. range.from \in Int /\ range.to \in Int
    BY <1>1, SetupFacts DEF BaseInv
  <2> QED BY <2>1, <2>3, <2>4 DEF Matches
<1>7. due \in SUBSET (Sources \X Nat)
  BY <1>6 DEF FactIds
<1>8. reader' = [reader EXCEPT ![r] = [reader[r] EXCEPT !.due = due]]
  BY <1>5 DEF BeginTimeline
<1>9. PICK x : x = [reader[r] EXCEPT !.due = due]
  OBVIOUS
<1>10. x \in ReaderRecord /\ x.due = due /\ x.pc = "new" /\ x.got = reader[r].got /\ x.snapshot = reader[r].snapshot
  BY <1>1, <1>2, <1>7, <1>9 DEF ReaderRecord
<1>11. reader' \in [Readers -> ReaderRecord] /\ reader'[r] = x /\ \A s \in Readers : s # r => reader'[s] = reader[s]
  BY <1>1, <1>8, <1>9, <1>10
<1>12. ReaderInv(r)'
  BY <1>1, <1>2, <1>10, <1>11 DEF ReaderInv
<1>13. ReadersInv'
  BY <1>1, <1>3, <1>4, <1>11, <1>12, ReadersStep
<1>14. PICK todo :
         /\ job' = [pc |-> "collect", kind |-> "timeline", reader |-> r, range |-> range, todo |-> todo, query |-> 1, got |-> <<>>]
         /\ TimelineJob = [pc : {"collect", "upsert", "page"}, kind : {"timeline"}, reader : Readers, range : Ranges,
                           todo : {todo}, query : 1 .. 4, got : Seq(Entry)]
  BY DEF BeginTimeline, TimelineJob
<1>15. JobInv'
  <2>1. job' \in TimelineJob
    BY <1>14
  <2>2. 1 \in DOMAIN Queries'
    BY <1>14 DEF Queries, Overlapping
  <2>3. \A k \in DOMAIN job'.got : FALSE
    BY <1>14
  <2> QED BY <1>14, <2>1, <2>2, <2>3, JobTypes DEF JobInv
<1>16. SyncInv'
  <2>1. \A p \in due : p \in FactIds' /\ StartAt(p)' = StartAt(p)
    BY <1>3, <1>6, GrowthKeeps
  <2>2. \A j \in 1 .. 1 - 1 : FALSE
    OBVIOUS
  <2> QED BY <1>6, <1>10, <1>11, <1>14, <2>1, <2>2 DEF SyncInv
<1> QED BY <1>3, <1>4, <1>13, <1>15, <1>16 DEF TimelineInv

LEMMA BeginCoverageKeeps ==
  ASSUME TimelineInv, setup' = setup, NEW range \in Ranges, NEW now \in Clock, NEW todo \in Seq(Range(Collectors)),
         todo # <<>>, BeginCoverage(range, now, todo)
  PROVE  TimelineInv'
<1>1. BaseInv /\ reader \in [Readers -> ReaderRecord]
  BY DEF TimelineInv, ReadersInv
<1>2. tables' = tables /\ entries' = entries /\ uncertainAfter' \in UncertainSettings /\ coverageDegraded' \in BOOLEAN
      /\ trouble' \in 0 .. MaxTrouble /\ reader' = reader
  BY <1>1 DEF BeginCoverage, BaseInv
<1>3. PICK before : before = {e \in Committed : Usable(e)}
  OBVIOUS
<1>4. before \in SUBSET Entry
  BY <1>1, <1>3, CommittedFacts DEF Committed
<1>5. job' = [pc |-> "collect", kind |-> "coverage", range |-> range, now |-> now, todo |-> todo, asked |-> todo, query |-> 1,
              got |-> <<>>, before |-> before]
  BY <1>3 DEF BeginCoverage
<1>6. JobInv'
  <2>1. job' \in CoverageJob
    BY <1>4, <1>5 DEF CoverageJob
  <2>2. 1 \in DOMAIN Queries'
    BY <1>5 DEF Queries, Overlapping
  <2>3. \A k \in DOMAIN job'.got : FALSE
    BY <1>5
  <2>4. job'.pc = "collect" /\ job'.todo = todo /\ job'.query = 1
    BY <1>5
  <2> QED BY <2>1, <2>2, <2>3, <2>4, JobTypes DEF JobInv
<1>7. SyncInv'
  BY <1>5 DEF SyncInv
<1> QED BY <1>1, <1>2, <1>6, <1>7, RestKept

LEMMA ServeIsPage ==
  ASSUME NEW r, NEW range, NEW snapshot, NEW last, ServePage(r, range, snapshot, last)
  PROVE  \E x : PageOf(r, range, snapshot, last, x) /\ reader' = [reader EXCEPT ![r] = x]
<1>1. PICK rows : rows = PageRows(range, snapshot, last)
  OBVIOUS
<1>2. PICK page : page = SubSeq(rows, 1, Min({PageSize, Len(rows)}))
  OBVIOUS
<1>3. PICK pc, cursor, frozen :
        /\ pc = IF Len(rows) > PageSize THEN "paging" ELSE "done"
        /\ cursor = IF Len(rows) > PageSize THEN <<Last(page)>> ELSE <<>>
        /\ frozen = IF last = <<>> THEN FrozenNow(range) ELSE reader[r].frozen
  OBVIOUS
<1>4. PICK x : x = [reader[r] EXCEPT !.pc = pc, !.range = range, !.snapshot = snapshot, !.last = cursor,
                                     !.got = @ \o page, !.frozen = frozen]
  OBVIOUS
<1>5. PageOf(r, range, snapshot, last, x)
  BY <1>1, <1>2, <1>3, <1>4 DEF PageOf, FrozenNow
<1>6. reader' = [reader EXCEPT ![r] = x]
  BY <1>1, <1>2, <1>3, <1>4 DEF ServePage, FrozenNow
<1> QED BY <1>5, <1>6

\* The reader's request is answered with a page.
LEMMA PageKeeps ==
  ASSUME TimelineInv, setup' = setup, tables' = tables, entries' = entries, uncertainAfter' = uncertainAfter,
         coverageDegraded' = coverageDegraded, trouble' = trouble, JobInv', SyncInv',
         NEW r \in Readers, NEW range \in Ranges, NEW snapshot \in 0 .. Len(entries), NEW last,
         Served(entries, reader[r].got, last, snapshot, range), ServePage(r, range, snapshot, last),
         last # <<>> => reader[r].frozen = FrozenAt(entries, snapshot, range),
         last = <<>> => snapshot = Len(entries), reader[r].due \subseteq FrozenAt(entries, snapshot, range)
  PROVE  TimelineInv'
<1>1. BaseInv /\ EntriesInv(entries) /\ ReadersInv /\ reader \in [Readers -> ReaderRecord]
  BY DEF TimelineInv, ReadersInv
<1>2. Growth /\ BaseInv'
  BY <1>1, SameTables, BaseKept DEF BaseInv
<1>3. EntriesInv(entries)' /\ Evolved(entries, entries')
  BY <1>1, <1>2, EntriesKept, EvolvedSelf
<1>4. PICK x : PageOf(r, range, snapshot, last, x) /\ reader' = [reader EXCEPT ![r] = x]
  BY ServeIsPage
<1>5. /\ x \in ReaderRecord /\ x.pc \in {"paging", "done"} /\ x.range = range /\ x.snapshot = snapshot /\ x.due = reader[r].due
      /\ last # <<>> => x.frozen = reader[r].frozen
      /\ last = <<>> => x.frozen = FrozenNow(range)
      /\ x.pc = "paging" => x.last # <<>> /\ Served(entries, x.got, x.last, snapshot, range)
      /\ x.pc = "done" => /\ \A k \in 1 .. Len(x.got) - 1 : KeyBefore(x.got[k], x.got[k + 1])
                          /\ Ids(Range(x.got)) = FrozenAt(entries, snapshot, range)
  BY <1>1, <1>4, PageOutcome
<1>6. x.frozen = FrozenAt(entries, snapshot, range)
  <2>1. CASE last # <<>>
    BY <1>5, <2>1
  <2>2. CASE last = <<>>
    <3>1. entries \in Seq(Entry) /\ snapshot = Len(entries) /\ \A k \in DOMAIN entries : Keyed(entries[k])
      BY <1>1, <2>2, ShownFacts DEF EntriesInv
    <3>2. range.from \in Int /\ range.to \in Int
      BY <1>1, SetupFacts DEF BaseInv
    <3>3. \A k \in 1 .. snapshot : Matches(entries[k], range.from, range.to, FALSE) <=> InRange(entries[k], range)
      BY <3>1, <3>2 DEF Matches, InRange, Keyed
    <3>4. Range(entries) = {entries[k] : k \in 1 .. snapshot}
      BY <3>1 DEF Range
    <3>5. FrozenNow(range) = {Id(entries[k]) : k \in {j \in 1 .. snapshot : Matches(entries[j], range.from, range.to, FALSE)}}
      BY <3>4 DEF FrozenNow, Ids, Id
    <3>6. {j \in 1 .. snapshot : Matches(entries[j], range.from, range.to, FALSE)} = Asked(entries, snapshot, range)
      BY <3>3 DEF Asked
    <3> QED BY <1>5, <2>2, <3>5, <3>6 DEF FrozenAt
  <2> QED BY <2>1, <2>2
<1>7. reader' \in [Readers -> ReaderRecord] /\ reader'[r] = x /\ \A s \in Readers : s # r => reader'[s] = reader[s]
  BY <1>1, <1>4, <1>5
<1>8. ReaderInv(r)'
  <2>1. Served(entries, x.got, x.last, snapshot, range) => Served(entries, x.got, x.last, snapshot, range)'
    BY DEF Served, Asked, Shown, FactIds, FactAt, StartAt, EndAt, InRange
  <2>2. FrozenAt(entries, snapshot, range)' = FrozenAt(entries, snapshot, range)
    BY DEF FrozenAt, Asked, InRange, Id
  <2>3. Ranges' = Ranges /\ snapshot \in 0 .. Len(entries')
    BY DEF Ranges
  <2> QED BY <1>5, <1>6, <1>7, <2>1, <2>2, <2>3 DEF ReaderInv
<1>9. ReadersInv'
  BY <1>1, <1>2, <1>3, <1>7, <1>8, ReadersStep
<1> QED BY <1>2, <1>3, <1>9 DEF TimelineInv

LEMMA FirstPageKeeps ==
  ASSUME TimelineInv, setup' = setup, FirstPage
  PROVE  TimelineInv'
<1>1. BaseInv /\ EntriesInv(entries) /\ JobInv /\ SyncInv /\ reader \in [Readers -> ReaderRecord]
  BY DEF TimelineInv, ReadersInv
<1>2. /\ job.pc = "page" /\ ServePage(job.reader, job.range, Len(entries), <<>>) /\ job' = Idle
      /\ tables' = tables /\ entries' = entries /\ uncertainAfter' = uncertainAfter
      /\ coverageDegraded' = coverageDegraded /\ trouble' = trouble
  BY DEF FirstPage
<1>3. job # Idle /\ job.kind = "timeline" /\ job.reader \in Readers /\ job.range \in Ranges
  <2>1. job.kind = "coverage" => job \in CoverageJob
    BY <1>1, <1>2, JobIs
  <2>2. job.kind # "coverage"
    BY <1>2, <2>1 DEF CoverageJob
  <2> QED BY <1>1, <1>2, <2>2, JobIs
<1>4. PICK r, range, snapshot : r = job.reader /\ range = job.range /\ snapshot = Len(entries)
  OBVIOUS
<1>5. entries \in Seq(Entry) /\ snapshot \in 0 .. Len(entries) /\ snapshot \in Nat
  BY <1>1, <1>4 DEF EntriesInv
<1>6. reader[r].got = <<>>
  <2>1. reader[r].pc = "new"
    BY <1>1, <1>3, <1>4 DEF SyncInv
  <2> QED BY <1>3, <1>4, <2>1 DEF TimelineInv, ReadersInv, ReaderInv
<1>7. Served(entries, reader[r].got, <<>>, snapshot, range)
  <2>1. <<>> \in Seq(Entry) /\ DOMAIN <<>> = {} /\ Range(<<>>) = {}
    BY DEF Range
  <2> QED BY <1>6, <2>1 DEF Served
<1>8. ASSUME NEW p \in reader[r].due PROVE p \in FrozenAt(entries, snapshot, range)
  <2>1. range.from <= StartAt(p) /\ StartAt(p) < range.to /\ Holds(entries, p)
    BY <1>1, <1>2, <1>3, <1>4, <1>8 DEF SyncInv
  <2>2. PICK k \in DOMAIN entries : Id(entries[k]) = p
    BY <2>1 DEF Holds
  <2>3. entries[k].start = StartAt(p)
    BY <1>1, <2>2, ShownFacts DEF EntriesInv
  <2>4. k \in Asked(entries, snapshot, range)
    BY <1>4, <1>5, <2>1, <2>2, <2>3 DEF Asked, InRange
  <2> QED BY <2>2, <2>4 DEF FrozenAt
<1>9. JobInv' /\ SyncInv'
  BY <1>2, IdleInvs
<1> QED BY <1>2, <1>3, <1>4, <1>5, <1>7, <1>8, <1>9, PageKeeps

LEMMA NextPageKeeps ==
  ASSUME TimelineInv, setup' = setup, NEW r \in Readers, NextPage(r)
  PROVE  TimelineInv'
<1>1. EntriesInv(entries) /\ JobInv /\ SyncInv /\ reader \in [Readers -> ReaderRecord] /\ ReaderInv(r)
  BY DEF TimelineInv, ReadersInv
<1>2. /\ reader[r].pc = "paging" /\ ServePage(r, reader[r].range, reader[r].snapshot, reader[r].last) /\ job' = job
      /\ tables' = tables /\ entries' = entries /\ uncertainAfter' = uncertainAfter
      /\ coverageDegraded' = coverageDegraded /\ trouble' = trouble
  BY DEF NextPage
<1>3. PICK range, snapshot, last : range = reader[r].range /\ snapshot = reader[r].snapshot /\ last = reader[r].last
  OBVIOUS
<1>4. /\ snapshot \in 0 .. Len(entries) /\ range \in Ranges /\ last # <<>> /\ Served(entries, reader[r].got, last, snapshot, range)
      /\ reader[r].frozen = FrozenAt(entries, snapshot, range) /\ reader[r].due \subseteq reader[r].frozen
  BY <1>1, <1>2, <1>3 DEF ReaderInv
<1>5. Growth /\ entries \in Seq(Entry) /\ Evolved(entries, entries')
  BY <1>1, <1>2, SameTables, EvolvedSelf DEF EntriesInv
<1>6. JobInv'
  BY <1>1, <1>2, <1>5, JobKept
<1>7. SyncInv'
  <2>1. \A s \in Readers : s # r => reader'[s] = reader[s]
    BY <1>1, <1>2 DEF ServePage
  <2>2. ASSUME job # Idle, job.kind = "timeline" PROVE reader'[job.reader] = reader[job.reader]
    <3>1. reader[job.reader].pc = "new"
      BY <1>1, <2>2 DEF SyncInv
    <3>2. job.reader \in Readers
      BY <1>1, <2>2 DEF JobInv, TimelineJob, CoverageJob
    <3> QED BY <1>2, <2>1, <3>1, <3>2
  <2> QED BY <1>1, <1>2, <1>5, <2>2, SyncKept
<1> QED BY <1>2, <1>3, <1>4, <1>6, <1>7, PageKeeps

LEMMA RefuseCursorKeeps ==
  ASSUME TimelineInv, setup' = setup, NEW r \in Readers, RefuseCursor(r)
  PROVE  TimelineInv'
<1>1. /\ BaseInv /\ EntriesInv(entries) /\ JobInv /\ SyncInv /\ reader \in [Readers -> ReaderRecord]
      /\ \A s \in Readers : ReaderInv(s)
  BY DEF TimelineInv, ReadersInv
<1>2. /\ reader[r].pc = "paging" /\ reader' = [reader EXCEPT ![r].pc = "refused"] /\ job' = job
      /\ tables' = tables /\ entries' = entries /\ uncertainAfter' = uncertainAfter
      /\ coverageDegraded' = coverageDegraded /\ trouble' = trouble
  BY DEF RefuseCursor
<1>3. Growth /\ entries \in Seq(Entry) /\ Evolved(entries, entries')
  BY <1>1, <1>2, SameTables, EvolvedSelf DEF EntriesInv
<1>4. BaseInv' /\ EntriesInv(entries)' /\ JobInv'
  BY <1>1, <1>2, <1>3, BaseKept, EntriesKept, JobKept DEF BaseInv
<1>5. \A s \in Readers : s # r => reader'[s] = reader[s]
  BY <1>1, <1>2
<1>6. SyncInv'
  <2>1. ASSUME job # Idle, job.kind = "timeline" PROVE reader'[job.reader] = reader[job.reader]
    <3>1. reader[job.reader].pc = "new"
      BY <1>1, <2>1 DEF SyncInv
    <3>2. job.reader \in Readers
      BY <1>1, <2>1 DEF JobInv, TimelineJob, CoverageJob
    <3> QED BY <1>2, <1>5, <3>1, <3>2
  <2> QED BY <1>1, <1>2, <1>3, <2>1, SyncKept
<1>7. PICK x : x = [reader[r] EXCEPT !.pc = "refused"]
  OBVIOUS
<1>8. reader' = [reader EXCEPT ![r] = x]
  BY <1>2, <1>7
<1>9. x \in ReaderRecord /\ x.pc = "refused" /\ x.snapshot = reader[r].snapshot
  BY <1>1, <1>7 DEF ReaderRecord
<1>10. ReaderInv(r)'
  <2>1. x.snapshot \in 0 .. Len(entries')
    BY <1>1, <1>2, <1>9 DEF ReaderInv
  <2>2. reader'[r] = x
    BY <1>1, <1>8
  <2> QED BY <1>9, <2>1, <2>2 DEF ReaderInv
<1>11. \A s \in Readers : s # r => ReaderInv(s)'
  BY <1>1, <1>3, <1>4, <1>5, ReaderKept
<1>12. ReadersInv'
  <2>1. Readers' = Readers /\ Ranges' = Ranges
    BY DEF Readers, Ranges
  <2>2. ReaderRecord' = ReaderRecord
    BY <2>1 DEF ReaderRecord
  <2>3. reader' \in [Readers -> ReaderRecord]
    BY <1>1, <1>8, <1>9
  <2> QED BY <1>10, <1>11, <2>1, <2>2, <2>3 DEF ReadersInv
<1> QED BY <1>4, <1>6, <1>12 DEF TimelineInv

Both(next, got, rows) == next = got \o rows

LEMMA Concatenated ==
  ASSUME NEW got \in Seq(Entry), NEW rows \in Seq(Entry), NEW next, Both(next, got, rows)
  PROVE  /\ Joined(next, got, rows, Len(rows)) /\ DOMAIN next = 1 .. Len(got) + Len(rows)
         /\ \A m \in DOMAIN next : m \in 1 .. Len(got) \/ \E j \in 1 .. Len(rows) : m = Len(got) + j
         /\ \A p : Holds(got, p) \/ Holds(rows, p) => Holds(next, p)
         /\ (\A k \in DOMAIN got : Shown(got[k])) /\ (\A k \in DOMAIN rows : Shown(rows[k])) => \A k \in DOMAIN next : Shown(next[k])
<1>1. PICK g, l : g = Len(got) /\ l = Len(rows) /\ g \in Nat /\ l \in Nat /\ DOMAIN got = 1 .. g /\ DOMAIN rows = 1 .. l
  <2>1. Len(got) \in Nat /\ Len(rows) \in Nat /\ DOMAIN got = 1 .. Len(got) /\ DOMAIN rows = 1 .. Len(rows)
    OBVIOUS
  <2> QED BY <2>1
<1>2. /\ next \in Seq(Entry) /\ Len(next) = g + l
      /\ \A m \in 1 .. g + l : next[m] = IF m <= g THEN got[m] ELSE rows[m - g]
  BY <1>1, ConcatProperties DEF Both
<1>3. DOMAIN next = 1 .. g + l
  BY <1>2
<1>4. \A m \in 1 .. g : m \in 1 .. g + l /\ m <= g
  BY <1>1
<1>5. \A j \in 1 .. l : g + j \in 1 .. g + l /\ ~(g + j <= g) /\ (g + j) - g = j
  BY <1>1
<1>6. (\A m \in 1 .. g : next[m] = got[m]) /\ \A j \in 1 .. l : next[g + j] = rows[j]
  BY <1>2, <1>4, <1>5
<1>7. \A m \in 1 .. g + l : m \in 1 .. g \/ (m - g \in 1 .. l /\ m = g + (m - g))
  BY <1>1
<1>8. \A m \in DOMAIN next : m \in 1 .. g \/ \E j \in 1 .. l : m = g + j
  BY <1>3, <1>7
<1>9. ASSUME NEW p, Holds(got, p) \/ Holds(rows, p) PROVE Holds(next, p)
  <2>1. CASE Holds(got, p)
    BY <1>1, <1>3, <1>4, <1>6, <2>1 DEF Holds
  <2>2. CASE Holds(rows, p)
    BY <1>1, <1>3, <1>5, <1>6, <2>2 DEF Holds
  <2> QED BY <1>9, <2>1, <2>2
<1>10. ASSUME \A k \in DOMAIN got : Shown(got[k]), \A k \in DOMAIN rows : Shown(rows[k]), NEW m \in DOMAIN next PROVE Shown(next[m])
  BY <1>1, <1>6, <1>8, <1>10
<1> QED BY <1>1, <1>2, <1>3, <1>6, <1>8, <1>9, <1>10 DEF Joined

\* A request for a timeline reads what was due of the table it asks.
LEMMA DueRead ==
  ASSUME TimelineInv, job.pc = "collect", job.kind = "timeline", NEW next, Both(next, job.got, Rows(Queries[job.query])),
         NEW p \in reader[job.reader].due, NEW j \in 1 .. job.query, Queries[j].source = p[1]
  PROVE  Holds(next, p)
<1>1. BaseInv /\ JobInv /\ SyncInv
  BY DEF TimelineInv
<1>2. job # Idle /\ job.got \in Seq(Entry) /\ job.query \in 1 .. 3 /\ job.range \in Ranges
  BY <1>1, JobIs, QueriesFacts
<1>3. /\ p \in FactIds /\ job.range.from <= StartAt(p) /\ StartAt(p) < job.range.to
      /\ (\E i \in 1 .. job.query - 1 : Queries[i].source = p[1]) => Holds(job.got, p)
  BY <1>1, <1>2 DEF SyncInv
<1>4. PICK q : q = Queries[job.query] /\ q.source \in Sources /\ q.part = "starts"
  BY <1>2, QueriesFacts
<1>5. PICK rows : rows = Rows(q) /\ rows \in Seq(Entry) /\ \A e \in Kept(q) : Holds(rows, Id(e))
  BY <1>1, <1>4, QueryKeeps
<1>6. Holds(job.got, p) \/ Holds(rows, p) => Holds(next, p)
  BY <1>2, <1>4, <1>5, Concatenated
<1>7. CASE j \in 1 .. job.query - 1
  BY <1>3, <1>6, <1>7
<1>8. CASE j = job.query
  <2>1. q.source = p[1]
    BY <1>4, <1>8
  <2>2. PICK e \in Projections(q.source) : Id(e) = p
    BY <1>1, <1>3, <1>4, <2>1, CommittedFacts
  <2>3. e.start = StartAt(p) /\ e.start \in Int
    <3>1. Shown(e)
      BY <1>1, <1>4, CommittedFacts
    <3> QED BY <1>1, <2>2, <3>1, ShownFacts DEF Keyed
  <2>4. job.range.from \in Int /\ job.range.to \in Int
    BY <1>1, <1>2, SetupFacts DEF BaseInv
  <2>5. Overlapping = FALSE /\ From = job.range.from /\ Slack(q.source) \in {0, 1}
    BY DEF Overlapping, From, Slack
  <2>6. From - Slack(q.source) <= e.start /\ e.start < job.range.to + Slack(q.source)
    BY <1>3, <2>3, <2>4, <2>5
  <2>7. e \in Candidates(q)
    BY <1>4, <2>6 DEF Candidates
  <2>8. Matches(e, From, job.range.to, Overlapping)
    BY <1>3, <2>3, <2>4, <2>5 DEF Matches
  <2>9. e \in Kept(q)
    BY <2>7, <2>8 DEF Kept
  <2> QED BY <1>5, <1>6, <2>2, <2>9
<1> QED BY <1>2, <1>7, <1>8

LEMMA CollectKeeps ==
  ASSUME TimelineInv, setup' = setup, Collect
  PROVE  TimelineInv'
<1>1. BaseInv /\ JobInv /\ SyncInv /\ reader \in [Readers -> ReaderRecord]
  BY DEF TimelineInv, ReadersInv
<1>2. tables' = tables /\ entries' = entries /\ uncertainAfter' \in UncertainSettings /\ coverageDegraded' \in BOOLEAN
      /\ trouble' \in 0 .. MaxTrouble /\ reader' = reader /\ job.pc = "collect"
  BY <1>1 DEF Collect, BaseInv
<1>3. /\ job # Idle /\ job.kind \in {"timeline", "coverage"} /\ job.got \in Seq(Entry) /\ job.query \in DOMAIN Queries
      /\ \A k \in DOMAIN job.got : Shown(job.got[k])
  BY <1>1, <1>2, JobIs
<1>4. PICK q : q = Queries[job.query] /\ q.source \in Sources
  BY <1>3, QueriesFacts
<1>5. PICK rows : rows = Rows(q) /\ rows \in Seq(Entry) /\ \A k \in DOMAIN rows : Shown(rows[k])
  BY <1>1, <1>4, QueryKeeps
<1>6. PICK next : Both(next, job.got, Rows(Queries[job.query])) /\ Both(next, job.got, rows)
  BY <1>4, <1>5 DEF Both
<1>7. next \in Seq(Entry) /\ \A k \in DOMAIN next : Shown(next[k])
  <2>1. Joined(next, job.got, rows, Len(rows))
    BY <1>3, <1>5, <1>6, Concatenated
  <2>2. \A k \in DOMAIN next : Shown(next[k])
    BY <1>3, <1>5, <1>6, Concatenated
  <2> QED BY <2>1, <2>2 DEF Joined
<1>8. PICK last : last = (job.query = Len(Queries))
  OBVIOUS
<1>9. PICK pc : pc = IF ~last THEN "collect" ELSE IF next = <<>> THEN Synced ELSE "upsert"
  OBVIOUS
<1>10. job' = [job EXCEPT !.got = next, !.query = job.query + 1, !.pc = pc]
  BY <1>2, <1>6, <1>8, <1>9 DEF Collect, Both
<1>11. ~last => job.query + 1 \in DOMAIN Queries
  <2>1. DOMAIN Queries = 1 .. Len(Queries) /\ Len(Queries) \in Nat
    BY <1>3, QueriesFacts
  <2>2. job.query # Len(Queries) => job.query + 1 \in DOMAIN Queries
    BY <1>3, <2>1
  <2> QED BY <1>8, <2>2
<1>12. CASE job.kind = "timeline"
  <2>1. job \in TimelineJob /\ job.query \in 1 .. 3 /\ Len(Queries) = 3 /\ Synced = "page"
    BY <1>1, <1>2, <1>3, <1>12, JobIs, QueriesFacts DEF Synced
  <2>2. pc \in {"collect", "page", "upsert"} /\ job.query + 1 \in 1 .. 4
    BY <1>9, <2>1
  <2>3. /\ job' \in TimelineJob /\ job'.pc = pc /\ job'.kind = "timeline" /\ job'.query = job.query + 1 /\ job'.got = next
        /\ job'.reader = job.reader /\ job'.range = job.range
    BY <1>7, <1>10, <2>1, <2>2 DEF TimelineJob
  <2>4. Queries' = Queries
    BY <1>12, <2>3 DEF Queries, Overlapping
  <2>5. pc = "collect" => ~last
    BY <1>9, <2>1
  <2>6. \A k \in DOMAIN next : Shown(next[k])'
    BY <1>2, <1>7, SameTables, GrowthKeeps
  <2>7. JobInv'
    BY <1>11, <2>3, <2>4, <2>5, <2>6, JobTypes DEF JobInv
  <2>8. reader'[job'.reader] = reader[job.reader] /\ reader[job.reader].pc = "new"
    BY <1>1, <1>2, <1>3, <1>12, <2>3 DEF SyncInv
  <2>9. ASSUME NEW p \in reader[job.reader].due
        PROVE  /\ p \in FactIds' /\ job.range.from <= StartAt(p)' /\ StartAt(p)' < job.range.to
               /\ (\E j \in 1 .. job.query : Queries[j].source = p[1]) => Holds(next, p)
               /\ last => Holds(next, p) /\ next # <<>>
    <3>1. p \in FactIds /\ job.range.from <= StartAt(p) /\ StartAt(p) < job.range.to
      BY <1>1, <1>3, <1>12, <2>9 DEF SyncInv
    <3>2. p \in FactIds' /\ StartAt(p)' = StartAt(p) /\ p[1] \in Sources
      BY <1>1, <1>2, <3>1, SameTables, GrowthKeeps, FactFacts
    <3>3. (\E j \in 1 .. job.query : Queries[j].source = p[1]) => Holds(next, p)
      BY <1>2, <1>6, <1>12, <2>9, DueRead
    <3>4. ASSUME last PROVE Holds(next, p)
      <4>1. job.query = 3
        BY <1>8, <2>1, <3>4
      <4>2. \E j \in 1 .. 3 : Queries[j].source = p[1]
        BY <1>12, <3>2, QueriesFacts
      <4> QED BY <3>3, <4>1, <4>2
    <3>5. next = <<>> => ~Holds(next, p)
      BY DEF Holds
    <3> QED BY <3>1, <3>2, <3>3, <3>4, <3>5
  <2>10. SyncInv'
    <3>1. (job.query + 1) - 1 = job.query
      BY <2>1
    <3>2. pc = "page" => last /\ next = <<>>
      BY <1>9, <2>1
    <3>3. pc = "upsert" => last
      BY <1>9
    <3>4. ASSUME NEW p \in reader[job.reader].due
          PROVE  /\ p \in FactIds' /\ job.range.from <= StartAt(p)' /\ StartAt(p)' < job.range.to
                 /\ pc = "collect" /\ (\E j \in 1 .. (job.query + 1) - 1 : Queries[j].source = p[1]) => Holds(next, p)
                 /\ pc = "upsert" => Holds(next, p)
                 /\ pc # "page"
      BY <2>9, <3>1, <3>2, <3>3
    <3> QED BY <2>3, <2>4, <2>8, <3>4 DEF SyncInv, Holds
  <2> QED BY <1>1, <1>2, <2>7, <2>10, RestKept
<1>13. CASE job.kind = "coverage"
  <2>1. job \in CoverageJob /\ job.query \in 1 .. 6 /\ Synced = "build" /\ job.todo # <<>>
    BY <1>1, <1>2, <1>3, <1>13, JobIs, QueriesFacts DEF Synced
  <2>2. pc \in {"collect", "build", "upsert"} /\ job.query + 1 \in 1 .. 7
    BY <1>9, <2>1
  <2>3. /\ job' \in CoverageJob /\ job'.pc = pc /\ job'.kind = "coverage" /\ job'.query = job.query + 1 /\ job'.got = next
        /\ job'.todo = job.todo
    BY <1>7, <1>10, <2>1, <2>2 DEF CoverageJob
  <2>4. Queries' = Queries
    BY <1>13, <2>3 DEF Queries, Overlapping
  <2>5. pc = "collect" => ~last
    BY <1>9, <2>1
  <2>6. \A k \in DOMAIN next : Shown(next[k])'
    BY <1>2, <1>7, SameTables, GrowthKeeps
  <2>7. JobInv'
    BY <1>11, <2>1, <2>3, <2>4, <2>5, <2>6, JobTypes DEF JobInv
  <2>8. SyncInv'
    BY <2>3 DEF SyncInv
  <2> QED BY <1>1, <1>2, <2>7, <2>8, RestKept
<1> QED BY <1>3, <1>12, <1>13

\* What is left of a sequence after its first n.
Drops(rest, got, n) == rest = SubSeq(got, n + 1, Len(got))

LEMMA Dropped ==
  ASSUME NEW got \in Seq(Entry), NEW n \in 0 .. Len(got), NEW rest, Drops(rest, got, n)
  PROVE  /\ rest \in Seq(Entry) /\ \A j \in DOMAIN rest : j + n \in DOMAIN got /\ rest[j] = got[j + n]
         /\ \A k \in DOMAIN got : k \in 1 .. n \/ \E j \in DOMAIN rest : rest[j] = got[k]
<1>1. Len(got) \in Nat /\ DOMAIN got = 1 .. Len(got) /\ n \in Nat /\ n <= Len(got)
  OBVIOUS
<1>2. PICK l : l = Len(got) /\ l \in Nat /\ DOMAIN got = 1 .. l /\ n <= l
  BY <1>1
<1>3. \A i \in n + 1 .. l : got[i] \in Entry
  BY <1>1, <1>2
<1>4. /\ rest \in Seq(Entry) /\ Len(rest) = (IF n + 1 <= l THEN l - (n + 1) + 1 ELSE 0)
      /\ \A i \in 1 .. l - (n + 1) + 1 : rest[i] = got[n + 1 + i - 1]
  <2>1. n + 1 \in Int /\ l \in Int
    BY <1>1, <1>2
  <2> QED BY <1>2, <1>3, <2>1, SubSeqProperties DEF Drops
<1>5. DOMAIN rest = 1 .. l - n
  <2>1. ASSUME NEW a \in Nat, NEW b \in Nat, b <= a
        PROVE  (IF b + 1 <= a THEN a - (b + 1) + 1 ELSE 0) = a - b
    BY <2>1
  <2>2. Len(rest) = l - n
    BY <1>1, <1>2, <1>4, <2>1
  <2>3. DOMAIN rest = 1 .. Len(rest)
    BY <1>4
  <2> QED BY <2>2, <2>3
<1>6. \A j \in 1 .. l - n : j + n \in 1 .. l /\ j \in 1 .. l - (n + 1) + 1 /\ n + 1 + j - 1 = j + n
  BY <1>1, <1>2
<1>7. \A j \in DOMAIN rest : j + n \in DOMAIN got /\ rest[j] = got[j + n]
  BY <1>2, <1>4, <1>5, <1>6
<1>8. ASSUME NEW k \in DOMAIN got, k \notin 1 .. n PROVE \E j \in DOMAIN rest : rest[j] = got[k]
  <2>1. k - n \in 1 .. l - n /\ (k - n) + n = k
    BY <1>1, <1>2, <1>8
  <2> QED BY <1>5, <1>7, <2>1
<1> QED BY <1>4, <1>7, <1>8

LEMMA UpsertKeeps ==
  ASSUME TimelineInv, setup' = setup, UpsertChunk
  PROVE  TimelineInv' /\ Evolved(entries, entries')
<1>1. BaseInv /\ EntriesInv(entries) /\ JobInv /\ SyncInv /\ ReadersInv
  BY DEF TimelineInv
<1>2. tables' = tables /\ uncertainAfter' = uncertainAfter /\ coverageDegraded' = coverageDegraded
      /\ trouble' = trouble /\ reader' = reader /\ job.pc = "upsert"
  BY DEF UpsertChunk
<1>3. Growth /\ BaseInv'
  BY <1>1, <1>2, SameTables, BaseKept DEF BaseInv
<1>4. PICK got : got = job.got /\ got \in Seq(Entry) /\ \A k \in DOMAIN got : Shown(got[k])
  BY <1>1, <1>2, JobIs
<1>5. PICK n : n = Min({ChunkSize, Len(got)})
  OBVIOUS
<1>6. n \in 0 .. Len(got) /\ Len(got) \in Nat /\ DOMAIN got = 1 .. Len(got)
  <2>1. ChunkSize \in Nat /\ Len(got) \in Nat /\ DOMAIN got = 1 .. Len(got)
    BY <1>1, <1>4, SetupFacts DEF BaseInv
  <2>2. n \in 0 .. Len(got)
    BY <1>5, <2>1, MinOfTwo
  <2> QED BY <2>1, <2>2
<1>7. entries' = Upserted(entries, got, n)
  BY <1>4, <1>5 DEF UpsertChunk
<1>8. EntriesInv(entries') /\ Evolved(entries, entries') /\ \A k \in 1 .. n : Holds(entries', Id(got[k]))
  BY <1>1, <1>4, <1>6, <1>7, UpsertedFacts
<1>9. EntriesInv(entries)' /\ entries \in Seq(Entry) /\ entries' \in Seq(Entry)
  <2>1. \A k \in DOMAIN entries' : Shown(entries[k])'
    <3>1. ASSUME NEW k \in DOMAIN entries' PROVE Shown(entries[k])'
      <4>1. PICK e : e = entries'[k] /\ Shown(e)
        BY <1>8, <3>1 DEF EntriesInv
      <4>2. Shown(e)'
        BY <1>3, <4>1, GrowthKeeps
      <4> QED BY <4>1, <4>2
    <3> QED BY <3>1
  <2> QED BY <1>1, <1>8, <2>1 DEF EntriesInv
<1>10. ReadersInv'
  BY <1>1, <1>2, <1>3, <1>8, <1>9, ReadersKept
<1>11. PICK rest : Drops(rest, got, n)
  BY DEF Drops
<1>12. /\ rest \in Seq(Entry) /\ \A j \in DOMAIN rest : j + n \in DOMAIN got /\ rest[j] = got[j + n]
       /\ \A k \in DOMAIN got : k \in 1 .. n \/ \E j \in DOMAIN rest : rest[j] = got[k]
  BY <1>4, <1>6, <1>11, Dropped
<1>13. PICK pc : pc = IF n = Len(got) THEN Synced ELSE "upsert"
  OBVIOUS
<1>14. job' = [job EXCEPT !.got = rest, !.pc = pc]
  BY <1>2, <1>4, <1>5, <1>11, <1>13 DEF UpsertChunk, Drops
<1>15. \A j \in DOMAIN rest : Shown(rest[j])'
  BY <1>3, <1>4, <1>12, GrowthKeeps
<1>16. CASE job.kind = "timeline"
  <2>1. job # Idle /\ job \in TimelineJob /\ Synced = "page" /\ pc \in {"upsert", "page"}
    BY <1>1, <1>2, <1>13, <1>16, JobIs DEF Synced
  <2>2. /\ job' \in TimelineJob /\ job'.pc = pc /\ job'.kind = "timeline" /\ job'.got = rest
        /\ job'.reader = job.reader /\ job'.range = job.range /\ pc # "collect"
    BY <1>12, <1>14, <2>1 DEF TimelineJob
  <2>3. JobInv'
    BY <1>15, <2>2, JobTypes DEF JobInv
  <2>4. reader'[job'.reader] = reader[job.reader] /\ reader[job.reader].pc = "new"
    BY <1>1, <1>2, <1>16, <2>1, <2>2 DEF SyncInv
  <2>5. ASSUME NEW p \in reader[job.reader].due
        PROVE  /\ p \in FactIds' /\ job.range.from <= StartAt(p)' /\ StartAt(p)' < job.range.to
               /\ Holds(rest, p) \/ Holds(entries', p)
               /\ pc = "page" => Holds(entries', p)
    <3>1. p \in FactIds /\ job.range.from <= StartAt(p) /\ StartAt(p) < job.range.to /\ (Holds(got, p) \/ Holds(entries, p))
      BY <1>1, <1>2, <1>4, <1>16, <2>1, <2>5 DEF SyncInv
    <3>2. p \in FactIds' /\ StartAt(p)' = StartAt(p)
      BY <1>3, <3>1, GrowthKeeps
    <3>3. Holds(entries, p) => Holds(entries', p)
      BY <1>8, <1>9, HoldsEvolved
    <3>4. CASE Holds(got, p)
      <4>1. PICK k \in DOMAIN got : Id(got[k]) = p
        BY <3>4 DEF Holds
      <4>2. k \in 1 .. n => Holds(entries', p)
        BY <1>8, <4>1
      <4>3. k \in 1 .. n \/ Holds(rest, p)
        BY <1>12, <4>1 DEF Holds
      <4>4. pc = "page" => k \in 1 .. n
        BY <1>6, <1>13, <4>1
      <4> QED BY <3>1, <3>2, <4>2, <4>3, <4>4
    <3> QED BY <3>1, <3>2, <3>3, <3>4
  <2>6. SyncInv'
    BY <2>1, <2>2, <2>4, <2>5 DEF SyncInv, Holds
  <2> QED BY <1>3, <1>8, <1>9, <1>10, <2>3, <2>6 DEF TimelineInv
<1>17. CASE job.kind = "coverage"
  <2>1. job # Idle /\ job \in CoverageJob /\ Synced = "build" /\ pc \in {"upsert", "build"} /\ job.todo # <<>>
    BY <1>1, <1>2, <1>13, <1>17, JobIs DEF Synced
  <2>2. job' \in CoverageJob /\ job'.pc = pc /\ job'.kind = "coverage" /\ job'.got = rest /\ job'.todo = job.todo
    BY <1>12, <1>14, <2>1 DEF CoverageJob
  <2>3. JobInv'
    BY <1>15, <2>1, <2>2, JobTypes DEF JobInv
  <2>4. SyncInv'
    BY <2>2 DEF SyncInv
  <2> QED BY <1>3, <1>8, <1>9, <1>10, <2>3, <2>4 DEF TimelineInv
<1> QED BY <1>1, <1>2, <1>8, <1>16, <1>17, JobIs

-----------------------------------------------------------------------------
(* The timeline.                                                           *)

LEMMA TimelineInit == ASSUME Init PROVE TimelineInv
<1>1. setup \in Setups /\ tables = [s \in Sources |-> <<>>] /\ entries = <<>> /\ uncertainAfter \in UncertainSettings
      /\ coverageDegraded = FALSE /\ job = Idle /\ reader = [r \in Readers |-> NoReader] /\ trouble = 0
  BY DEF Init
<1>2. BaseInv
  <2>1. <<>> \in Seq(Facts) /\ \A s \in Sources : \A id \in DOMAIN tables[s] : FALSE
    BY <1>1
  <2>2. MaxTrouble \in Nat
    BY <1>1, SetupFacts
  <2>3. tables \in [Sources -> Seq(Facts)]
    BY <1>1, <2>1
  <2>4. trouble \in 0 .. MaxTrouble
    BY <1>1, <2>2
  <2>5. coverageDegraded \in BOOLEAN
    BY <1>1
  <2> QED BY <1>1, <2>1, <2>3, <2>4, <2>5 DEF BaseInv
<1>3. EntriesInv(entries)
  BY <1>1 DEF EntriesInv
<1>4. JobInv /\ SyncInv
  BY <1>1 DEF JobInv, SyncInv
<1>5. ReadersInv
  <2>1. NoReader \in ReaderRecord /\ reader \in [Readers -> ReaderRecord]
    BY <1>1, NoReaderFacts
  <2>2. ASSUME NEW r \in Readers PROVE ReaderInv(r)
    <3>1. reader[r] = NoReader /\ 0 \in 0 .. Len(entries)
      BY <1>1
    <3> QED BY <3>1 DEF ReaderInv, NoReader
  <2> QED BY <2>1, <2>2 DEF ReadersInv
<1> QED BY <1>2, <1>3, <1>4, <1>5 DEF TimelineInv

LEMMA TimelineClients ==
  ASSUME TimelineInv, setup' = setup, Clients
  PROVE  TimelineInv'
<1>1. ASSUME NEW s \in Sources, NEW f \in Pool[s], AppendFact(s, f) PROVE TimelineInv'
  <2>1. Growth /\ BaseInv'
    BY <1>1, AppendGrows DEF TimelineInv
  <2>2. entries' = entries /\ reader' = reader /\ job' = job
    BY <1>1 DEF AppendFact
  <2> QED BY <2>1, <2>2, AppendKeeps
<1>2. ASSUME NEW range \in Ranges, NEW r \in Readers, BeginTimeline(r, range) PROVE TimelineInv'
  BY <1>2, BeginTimelineKeeps
<1>3. ASSUME NEW range \in Ranges, NEW now \in Clock, Collectors # <<>>, BeginCoverage(range, now, Collectors) PROVE TimelineInv'
  <2>1. Collectors \in Seq(Range(Collectors))
    BY SetupFacts DEF TimelineInv, BaseInv
  <2> QED BY <1>3, <2>1, BeginCoverageKeeps
<1>4. ASSUME NEW range \in Ranges, NEW now \in Clock, NEW c \in Range(Collectors), BeginCoverage(range, now, <<c>>) PROVE TimelineInv'
  <2>1. <<c>> \in Seq(Range(Collectors)) /\ <<c>> # <<>>
    OBVIOUS
  <2> QED BY <1>4, <2>1, BeginCoverageKeeps
<1>5. ASSUME NEW r \in Readers, NextPage(r) PROVE TimelineInv'
  BY <1>5, NextPageKeeps
<1>9. ASSUME NEW r \in Readers, RefuseCursor(r) PROVE TimelineInv'
  BY <1>9, RefuseCursorKeeps
<1>6. ASSUME NEW saved \in BOOLEAN, StatementFails(saved) PROVE TimelineInv'
  <2>1. job.pc \in {"collect", "upsert", "page", "build"} /\ Trouble /\ FailSync("QUERY_FAILED", saved)
    BY <1>6 DEF StatementFails
  <2> QED BY <2>1, FailKeeps
<1>7. ASSUME Cancel PROVE TimelineInv'
  BY <1>7, CancelKeeps
<1>8. ASSUME NEW u \in UncertainSettings, Restart(u) PROVE TimelineInv'
  BY <1>8, RestartKeeps
<1> QED BY <1>1, <1>2, <1>3, <1>4, <1>5, <1>6, <1>7, <1>8, <1>9 DEF Clients

LEMMA TimelineNext ==
  ASSUME TimelineInv, [Next]_vars
  PROVE  TimelineInv'
<1>1. CASE UNCHANGED vars
  <2>1. setup' = setup /\ tables' = tables /\ entries' = entries /\ reader' = reader /\ job' = job
        /\ uncertainAfter' = uncertainAfter /\ coverageDegraded' = coverageDegraded /\ trouble' = trouble
    BY <1>1 DEF vars
  <2>2. Growth /\ BaseInv'
    BY <2>1, SameTables, BaseKept DEF TimelineInv, BaseInv
  <2> QED BY <2>1, <2>2, AppendKeeps
<1>2. CASE JobStep
  <2>1. setup' = setup
    BY <1>2 DEF JobStep
  <2>2. CASE CollectTooMuch
    <3>1. PICK code : job.pc = "collect" /\ FailSync(code, TRUE) /\ trouble' = trouble
      BY <2>2 DEF CollectTooMuch
    <3> QED BY <2>1, <3>1, FailKeeps
  <2> QED BY <1>2, <2>1, <2>2, CollectKeeps, UpsertKeeps, FirstPageKeeps, RebuildKeeps, AnswerKeeps DEF JobStep
<1>3. CASE Clients /\ UNCHANGED setup
  BY <1>3, TimelineClients
<1> QED BY <1>1, <1>2, <1>3 DEF Next

\* A reader that followed its cursor to the end has every fact of its range that
\* was committed before its first request, each once and in the order of the
\* sort key, and none projected after its snapshot, for any facts, ties, page
\* and chunk sizes, number of clients, failures and restarts (QueryTimeline).
THEOREM TimelineIsExact == Spec => []TimelineExact
<1>1. Init => TimelineInv
  BY TimelineInit
<1>2. TimelineInv /\ [Next]_vars => TimelineInv'
  BY TimelineNext
<1>3. TimelineInv => TimelineExact
  BY DEF TimelineInv, ReadersInv, ReaderInv, TimelineExact
<1> QED BY <1>1, <1>2, <1>3, PTL DEF Spec

-----------------------------------------------------------------------------
(* Counting facts.                                                         *)

\* As many as are told apart.
LEMMA CountedBy ==
  ASSUME NEW S, NEW T, IsFiniteSet(T), NEW f \in [S -> T], \A x, y \in S : f[x] = f[y] => x = y
  PROVE  IsFiniteSet(S) /\ Cardinality(S) \in Nat /\ Cardinality(T) \in Nat /\ Cardinality(S) <= Cardinality(T)
<1>1. f \in Injection(S, T)
  BY DEF Injection, IsInjective
<1>2. IsFiniteSet(S) /\ Cardinality(S) <= Cardinality(T)
  BY <1>1, FS_Injection
<1> QED BY <1>2, FS_CardinalityType

LEMMA UpTo == \A n \in Nat : Cardinality(1 .. n) = n
BY FS_Interval

LEMMA MinOfPositions ==
  ASSUME NEW l \in Nat, NEW S, S \subseteq 1 .. l, S # {}
  PROVE  Min(S) \in 1 .. l
<1>1. S \subseteq Nat
  OBVIOUS
<1>2. PICK x \in S : \A y \in S : x <= y
  BY <1>1, LeastNumber
<1>3. Min(S) \in S
  BY <1>2 DEF Min
<1> QED BY <1>3

\* The facts in the tables are finitely many.
TableIds(ts) == {p \in Sources \X Nat : p[2] \in DOMAIN ts[p[1]]}

LEMMA TablesFinite ==
  ASSUME NEW ts \in [Sources -> Seq(Facts)]
  PROVE  IsFiniteSet(TableIds(ts))
<1>1. PICK At : At = [s \in Sources |-> {<<s, id>> : id \in DOMAIN ts[s]}]
  OBVIOUS
<1>2. ASSUME NEW s \in Sources PROVE IsFiniteSet(At[s])
  <2>1. ts[s] \in Seq(Facts) /\ Len(ts[s]) \in Nat /\ DOMAIN ts[s] = 1 .. Len(ts[s])
    OBVIOUS
  <2>2. IsFiniteSet(DOMAIN ts[s])
    BY <2>1, FS_Interval
  <2>3. PICK f : f = [id \in DOMAIN ts[s] |-> <<s, id>>]
    OBVIOUS
  <2>4. At[s] = {f[id] : id \in DOMAIN ts[s]}
    BY <1>1, <2>3
  <2> QED BY <2>2, <2>4, ImageFinite
<1>3. IsFiniteSet(At["raw_event"]) /\ IsFiniteSet(At["heartbeat"]) /\ IsFiniteSet(At["media_segment"])
  BY <1>2 DEF Sources
<1>4. IsFiniteSet((At["raw_event"] \cup At["heartbeat"]) \cup At["media_segment"])
  BY <1>3, FS_Union
<1>5. TableIds(ts) \in SUBSET ((At["raw_event"] \cup At["heartbeat"]) \cup At["media_segment"])
  <2>1. \A p \in TableIds(ts) : p[1] \in Sources /\ p \in At[p[1]]
    BY <1>1 DEF TableIds
  <2> QED BY <2>1 DEF Sources
<1> QED BY <1>4, <1>5, FS_Subset

LEMMA FactsFinite ==
  /\ BaseInv => IsFiniteSet(FactIds)
  /\ BaseInv' => IsFiniteSet(FactIds')
<1>1. FactIds = TableIds(tables) /\ FactIds' = TableIds(tables')
  BY DEF FactIds, TableIds
<1>2. (BaseInv => tables \in [Sources -> Seq(Facts)]) /\ (BaseInv' => tables' \in [Sources -> Seq(Facts)])
  BY DEF BaseInv
<1> QED BY <1>1, <1>2, TablesFinite

LEMMA OwnFinite ==
  ASSUME BaseInv, NEW c, NEW range
  PROVE  IsFiniteSet(OwnIds(c, range)) /\ Cardinality(OwnIds(c, range)) \in Nat
<1>1. OwnIds(c, range) \in SUBSET FactIds
  BY DEF OwnIds
<1>2. IsFiniteSet(OwnIds(c, range))
  BY <1>1, FactsFinite, FS_Subset
<1> QED BY <1>2, FS_CardinalityType

LEMMA OwnGrows ==
  ASSUME BaseInv, BaseInv', Growth, setup' = setup, NEW c, NEW range, Cardinality(OwnIds(c, range)) > MaxFacts
  PROVE  Cardinality(OwnIds(c, range)') > MaxFacts'
<1>1. PICK T : T = OwnIds(c, range)'
  OBVIOUS
<1>2. IsFiniteSet(T) /\ Cardinality(T) \in Nat
  <2>1. IsFiniteSet(FactIds') /\ T \in SUBSET FactIds'
    BY <1>1, FactsFinite DEF OwnIds
  <2>2. IsFiniteSet(T)
    BY <2>1, FS_Subset
  <2> QED BY <2>2, FS_CardinalityType
<1>3. OwnIds(c, range) \in SUBSET T
  BY <1>1, GrowthKeeps DEF OwnIds, Meets
<1>4. Cardinality(OwnIds(c, range)) <= Cardinality(T) /\ Cardinality(OwnIds(c, range)) \in Nat
  BY <1>2, <1>3, OwnFinite, FS_Subset
<1>5. MaxFacts' = MaxFacts /\ MaxFacts \in Nat
  BY SetupFacts DEF MaxFacts, BaseInv
<1> QED BY <1>1, <1>2, <1>4, <1>5

\* A sequence of that many different facts of its own makes a collector exceed.
LEMMA OwnAtLeast ==
  ASSUME BaseInv, NEW c, NEW range, NEW got \in Seq(Entry), \A k \in DOMAIN got : Shown(got[k]) /\ Meets(Id(got[k]), c, range),
         \A m, n \in DOMAIN got : Id(got[m]) = Id(got[n]) => m = n
  PROVE  Len(got) <= Cardinality(OwnIds(c, range))
<1>1. PICK l : l = Len(got) /\ l \in Nat /\ DOMAIN got = 1 .. l
  OBVIOUS
<1>2. PICK f : f = [k \in 1 .. l |-> Id(got[k])]
  OBVIOUS
<1>3. \A k \in 1 .. l : Id(got[k]) \in OwnIds(c, range)
  BY <1>1, ShownFacts DEF OwnIds
<1>4. f \in [1 .. l -> OwnIds(c, range)] /\ \A m, n \in 1 .. l : f[m] = f[n] => m = n
  BY <1>1, <1>2, <1>3
<1>5. Cardinality(1 .. l) <= Cardinality(OwnIds(c, range))
  BY <1>4, OwnFinite, CountedBy
<1>6. Cardinality(1 .. l) = l
  BY <1>1, UpTo
<1> QED BY <1>1, <1>5, <1>6

\* The entries a rebuild counts are different facts of the collector's own.
LEMMA EntriesAtLeast ==
  ASSUME BaseInv, EntriesInv(entries), NEW c, NEW range, range.from \in Int, range.to \in Int
  PROVE  /\ Cardinality(CoverageEntries(c, range)) \in Nat
         /\ Cardinality(CoverageEntries(c, range)) <= Cardinality(OwnIds(c, range))
<1>1. PICK ids : ids = CoverageEntries(c, range)
  OBVIOUS
<1>2. PICK f : f = [k \in ids |-> Id(entries[k])]
  OBVIOUS
<1>3. ASSUME NEW k \in ids PROVE Id(entries[k]) \in OwnIds(c, range)
  <2>1. PICK e : e = entries[k] /\ Shown(e) /\ e.collector = c /\ e.end > e.start /\ e.start < range.to
                 /\ e.end > range.from - OfflineAfter
    BY <1>1, <1>3 DEF CoverageEntries, EntriesInv, Usable, Lookback
  <2>2. Id(e) \in FactIds /\ e.start = StartAt(Id(e)) /\ e.end = EndAt(Id(e)) /\ FactAt(Id(e)).collector = c
    BY <2>1, ShownFacts DEF Shown
  <2> QED BY <2>1, <2>2 DEF OwnIds, Meets
<1>4. \A m, n \in ids : Id(entries[m]) = Id(entries[n]) => m = n
  BY <1>1 DEF CoverageEntries, EntriesInv, SameFact, Id
<1>5. f \in [ids -> OwnIds(c, range)] /\ \A m, n \in ids : f[m] = f[n] => m = n
  BY <1>2, <1>3, <1>4
<1> QED BY <1>1, <1>5, OwnFinite, CountedBy

\* The committed facts that FactsExceed counts are the collector's own.
LEMMA OwnExceed ==
  ASSUME BaseInv, NEW c, NEW range, range = projection[c].range, range.from \in Int, range.to \in Int,
         Cardinality(OwnIds(c, range)) > MaxFacts
  PROVE  FactsExceed(c)
<1>1. PICK S : S = {e \in Committed : e.collector = c /\ Usable(e) /\ Matches(e, range.from - OfflineAfter, range.to, TRUE)}
  OBVIOUS
<1>2. IsFiniteSet(S) /\ Cardinality(S) \in Nat
  <2>1. PICK P : P = [s \in Sources |-> Projections(s)]
    OBVIOUS
  <2>2. \A s \in Sources : IsFiniteSet(P[s])
    BY <2>1, CommittedFacts
  <2>3. IsFiniteSet((P["raw_event"] \cup P["heartbeat"]) \cup P["media_segment"])
    BY <2>2, FS_Union DEF Sources
  <2>4. S \in SUBSET ((P["raw_event"] \cup P["heartbeat"]) \cup P["media_segment"])
    <3>1. \A e \in S : \E s \in Sources : e \in P[s]
      BY <1>1, <2>1 DEF Committed
    <3> QED BY <3>1 DEF Sources
  <2>5. IsFiniteSet(S)
    BY <2>3, <2>4, FS_Subset
  <2> QED BY <2>5, FS_CardinalityType
<1>3. ASSUME NEW p \in OwnIds(c, range) PROVE \E e \in S : Id(e) = p
  <2>1. p \in FactIds /\ Meets(p, c, range) /\ p[1] \in Sources
    BY FactFacts DEF OwnIds
  <2>2. PICK e \in Projections(p[1]) : Id(e) = p
    BY <2>1, CommittedFacts
  <2>3. Shown(e) /\ e \in Committed
    BY <2>1, <2>2, CommittedFacts DEF Committed
  <2>4. e.start = StartAt(p) /\ e.end = EndAt(p) /\ e.collector = FactAt(p).collector
    BY <2>2, <2>3 DEF Shown
  <2>5. e.collector = c /\ Usable(e) /\ Matches(e, range.from - OfflineAfter, range.to, TRUE)
    BY <2>1, <2>4 DEF Meets, Usable, Matches
  <2> QED BY <1>1, <2>2, <2>3, <2>5
<1>4. PICK f : f = [p \in OwnIds(c, range) |-> CHOOSE e \in S : Id(e) = p]
  OBVIOUS
<1>5. \A p \in OwnIds(c, range) : f[p] \in S /\ Id(f[p]) = p
  BY <1>3, <1>4
<1>6. f \in [OwnIds(c, range) -> S] /\ \A p, q \in OwnIds(c, range) : f[p] = f[q] => p = q
  BY <1>4, <1>5
<1>7. Cardinality(OwnIds(c, range)) <= Cardinality(S)
  BY <1>2, <1>6, CountedBy
<1>8. Cardinality(S) > MaxFacts
  <2>1. Cardinality(OwnIds(c, range)) \in Nat /\ MaxFacts \in Nat
    BY OwnFinite, SetupFacts DEF BaseInv
  <2> QED BY <1>2, <1>7, <2>1
<1> QED BY <1>1, <1>8 DEF FactsExceed

-----------------------------------------------------------------------------
(* Reading for one collector: nothing twice, and nothing of another's.     *)

LEMMA KeptIsOwn ==
  ASSUME BaseInv, JobInv, job.pc = "collect", job.kind = "coverage", NEW q, q.source \in Sources, q.part \in {"starts", "reaches"},
         NEW e \in Kept(q)
  PROVE  Shown(e) /\ Meets(Id(e), Head(job.todo), job.range) /\ ReadFor(e, q)
<1>1. e \in Projections(q.source) /\ e.collector = Head(job.todo) /\ (q.source = "raw_event" => Usable(e))
      /\ Matches(e, From, job.range.to, Overlapping)
      /\ (q.part = "starts" => From - Slack(q.source) <= e.start)
      /\ (q.part = "reaches" => e.start < From - Slack(q.source))
  BY DEF Kept, Candidates
<1>2. Shown(e) /\ e.source = q.source
  BY <1>1, CommittedFacts
<1>3. /\ e.start \in Int /\ e.end \in Int /\ Id(e) \in FactIds /\ e.start = StartAt(Id(e)) /\ e.end = EndAt(Id(e))
      /\ FactAt(Id(e)).collector = e.collector /\ Id(e)[1] = e.source
  BY <1>2, ShownFacts DEF Shown, Keyed, Id
<1>4. job.range.from \in Int /\ job.range.to \in Int /\ OfflineAfter \in Int
  BY JobIs, SetupFacts DEF BaseInv
<1>5. Overlapping = TRUE /\ From = job.range.from - OfflineAfter /\ Slack(e.source) \in {0, 1}
  BY DEF Overlapping, From, Lookback, Slack
<1>6. e.end > e.start
  <2>1. CASE q.source = "raw_event"
    BY <1>1, <2>1 DEF Usable
  <2>2. CASE q.source # "raw_event"
    BY <1>2, <1>3, <2>2, FactFacts
  <2> QED BY <2>1, <2>2
<1>7. e.start < job.range.to /\ (e.start >= job.range.from - OfflineAfter \/ e.end > job.range.from - OfflineAfter)
  BY <1>1, <1>5 DEF Matches
<1>8. Meets(Id(e), Head(job.todo), job.range)
  BY <1>1, <1>3, <1>6, <1>7 DEF Meets
<1>9. q.part = "starts" <=> e.start >= From - Slack(e.source)
  BY <1>1, <1>2, <1>3, <1>4, <1>5
<1> QED BY <1>2, <1>8, <1>9 DEF ReadFor

\* One query more: still the collector's own, each fact once.
LEMMA CountNext ==
  ASSUME BaseInv, JobInv, CountInv, job.pc = "collect", job.kind = "coverage",
         NEW next, Both(next, job.got, Rows(Queries[job.query]))
  PROVE  /\ next \in Seq(Entry) /\ \A k \in DOMAIN next : Shown(next[k]) /\ Meets(Id(next[k]), Head(job.todo), job.range)
         /\ \A k \in DOMAIN next : \E j \in 1 .. job.query : ReadFor(next[k], Queries[j])
         /\ \A m, n \in DOMAIN next : Id(next[m]) = Id(next[n]) => m = n
<1>1. job # Idle /\ job.got \in Seq(Entry) /\ job.query \in 1 .. 6 /\ DOMAIN Queries = 1 .. 6 /\ \A k \in DOMAIN job.got : Shown(job.got[k])
  BY JobIs, QueriesFacts
<1>2. PICK got, g : got = job.got /\ g = Len(got) /\ g \in Nat /\ got \in Seq(Entry) /\ DOMAIN got = 1 .. g
  BY <1>1
<1>3. /\ \A k \in 1 .. g : Shown(got[k]) /\ Meets(Id(got[k]), Head(job.todo), job.range)
      /\ \A k \in 1 .. g : \E j \in 1 .. job.query - 1 : ReadFor(got[k], Queries[j])
      /\ \A m, n \in 1 .. g : Id(got[m]) = Id(got[n]) => m = n
  BY <1>1, <1>2 DEF CountInv
<1>4. PICK q : q = Queries[job.query] /\ q.source \in Sources /\ q.part \in {"starts", "reaches"}
  BY <1>1, QueriesFacts
<1>5. PICK rows, l : /\ rows = Rows(q) /\ rows \in Seq(Entry) /\ l = Len(rows) /\ l \in Nat /\ DOMAIN rows = 1 .. l
                     /\ \A k \in 1 .. l : rows[k] \in Kept(q)
                     /\ \A m, n \in 1 .. l : Id(rows[m]) = Id(rows[n]) => m = n
  <2>1. PICK rows : /\ rows = Rows(q) /\ rows \in Seq(Entry) /\ \A k \in DOMAIN rows : rows[k] \in Kept(q)
                    /\ \A m, n \in DOMAIN rows : Id(rows[m]) = Id(rows[n]) => m = n
    BY <1>4, QueryKeeps
  <2>2. Len(rows) \in Nat /\ DOMAIN rows = 1 .. Len(rows)
    BY <2>1
  <2> QED BY <2>1, <2>2
<1>6. \A k \in 1 .. l : Shown(rows[k]) /\ Meets(Id(rows[k]), Head(job.todo), job.range) /\ ReadFor(rows[k], q)
  BY <1>4, <1>5, KeptIsOwn
<1>7. /\ Joined(next, got, rows, l)
      /\ \A m \in DOMAIN next : m \in 1 .. g \/ \E j \in 1 .. l : m = g + j
  <2>1. Both(next, got, rows)
    BY <1>2, <1>4, <1>5
  <2>2. got \in Seq(Entry) /\ rows \in Seq(Entry)
    BY <1>2, <1>5
  <2>3. Joined(next, got, rows, Len(rows))
    BY <2>1, <2>2, Concatenated
  <2>4. \A m \in DOMAIN next : m \in 1 .. Len(got) \/ \E j \in 1 .. Len(rows) : m = Len(got) + j
    BY <2>1, <2>2, Concatenated
  <2> QED BY <1>2, <1>5, <2>3, <2>4
<1>8. next \in Seq(Entry) /\ (\A m \in 1 .. g : next[m] = got[m]) /\ \A j \in 1 .. l : next[g + j] = rows[j]
  BY <1>2, <1>7 DEF Joined
<1>9. \A k \in DOMAIN next : Shown(next[k]) /\ Meets(Id(next[k]), Head(job.todo), job.range)
  BY <1>3, <1>6, <1>7, <1>8
<1>10. \A i \in 1 .. job.query - 1 : i \in 1 .. job.query /\ i \in 1 .. 6 /\ i # job.query
  BY <1>1
<1>11. job.query \in 1 .. job.query
  BY <1>1
<1>12. ASSUME NEW k \in DOMAIN next PROVE \E j \in 1 .. job.query : ReadFor(next[k], Queries[j])
  <2>1. CASE k \in 1 .. g
    BY <1>3, <1>8, <1>10, <2>1
  <2>2. CASE \E j \in 1 .. l : k = g + j
    BY <1>4, <1>6, <1>8, <1>11, <2>2
  <2> QED BY <1>7, <2>1, <2>2
<1>13. ASSUME NEW m \in 1 .. g, NEW n \in 1 .. l PROVE Id(got[m]) # Id(rows[n])
  <2> SUFFICES ASSUME Id(got[m]) = Id(rows[n]) PROVE FALSE
    OBVIOUS
  <2>1. PICK j \in 1 .. job.query - 1 : ReadFor(got[m], Queries[j])
    BY <1>3
  <2>2. got[m].source = rows[n].source /\ got[m].start = rows[n].start
    BY <1>3, <1>6, SameIdSameKey DEF SameKey
  <2>3. PICK i : i = Queries[j] /\ i.source \in Sources /\ i.part \in {"starts", "reaches"} /\ ReadFor(got[m], i)
    BY <1>1, <1>10, <2>1, QueriesFacts
  <2>4. i.source = q.source /\ (i.part = "starts" <=> q.part = "starts")
    BY <1>6, <2>2, <2>3 DEF ReadFor
  <2>5. i.part = q.part
    BY <1>4, <2>3, <2>4
  <2>6. j = job.query
    BY <1>1, <1>4, <1>10, <2>3, <2>4, <2>5, QueriesFacts
  <2> QED BY <1>10, <2>6
<1>14. ASSUME NEW m \in DOMAIN next, NEW n \in DOMAIN next, Id(next[m]) = Id(next[n]) PROVE m = n
  <2>1. CASE m \in 1 .. g /\ n \in 1 .. g
    BY <1>3, <1>8, <1>14, <2>1
  <2>2. CASE m \in 1 .. g /\ \E j \in 1 .. l : n = g + j
    BY <1>8, <1>13, <1>14, <2>2
  <2>3. CASE n \in 1 .. g /\ \E j \in 1 .. l : m = g + j
    BY <1>8, <1>13, <1>14, <2>3
  <2>4. CASE (\E i \in 1 .. l : m = g + i) /\ \E j \in 1 .. l : n = g + j
    <3>1. PICK i \in 1 .. l, j \in 1 .. l : m = g + i /\ n = g + j
      BY <2>4
    <3>2. i = j
      BY <1>5, <1>8, <1>14, <3>1
    <3> QED BY <3>1, <3>2
  <2> QED BY <1>7, <1>14, <2>1, <2>2, <2>3, <2>4
<1> QED BY <1>8, <1>9, <1>12, <1>14

\* Refused for a number of facts: it has that many.
LEMMA LimitIsOwn ==
  ASSUME BaseInv, JobInv, CountInv, job.pc = "collect", job.kind = "coverage",
         NEW next, Both(next, job.got, Rows(Queries[job.query])), OverBudget(next) # {}, BudgetError(next) = "TIMELINE_FACT_LIMIT"
  PROVE  Cardinality(OwnIds(Head(job.todo), job.range)) > MaxFacts
<1>1. /\ next \in Seq(Entry) /\ \A k \in DOMAIN next : Shown(next[k]) /\ Meets(Id(next[k]), Head(job.todo), job.range)
      /\ \A m, n \in DOMAIN next : Id(next[m]) = Id(next[n]) => m = n
  BY CountNext
<1>2. Len(next) <= Cardinality(OwnIds(Head(job.todo), job.range)) /\ Cardinality(OwnIds(Head(job.todo), job.range)) \in Nat
  BY <1>1, OwnAtLeast, OwnFinite
<1>3. PICK l : l = Len(next) /\ l \in Nat /\ DOMAIN next = 1 .. l
  BY <1>1
<1>4. OverBudget(next) \subseteq 1 .. l
  BY <1>3 DEF OverBudget
<1>5. Min(OverBudget(next)) \in 1 .. l
  BY <1>3, <1>4, MinOfPositions
<1>6. Min(OverBudget(next)) > MaxFacts
  BY DEF BudgetError
<1>7. MaxFacts \in Nat
  BY SetupFacts DEF BaseInv
<1> QED BY <1>2, <1>3, <1>5, <1>6, <1>7

-----------------------------------------------------------------------------
(* The coverage cache.                                                     *)

\* A collector's row keeps what it says while facts and entries are added.
RowInv(c) ==
  /\ projection[c].generation <= MaxRebuilds /\ projection[c].watermark <= Len(entries)
  /\ projection[c].error = "TIMELINE_FACT_LIMIT" => Cardinality(OwnIds(c, projection[c].range)) > MaxFacts

LEMMA LimitStep ==
  ASSUME BaseInv, BaseInv', Growth, setup' = setup, EntriesInv(entries), EntriesInv(entries)', Evolved(entries, entries'), LimitInv,
         projection' \in [Range(Collectors) -> ProjectionState],
         \A c \in Range(Collectors) : projection'[c] = projection[c] \/ RowInv(c)'
  PROVE  LimitInv'
<1>1. Collectors' = Collectors /\ ProjectionState' = ProjectionState /\ MaxRebuilds' = MaxRebuilds
  BY DEF Collectors, ProjectionState, Ranges, MaxRebuilds
<1>2. Len(entries) \in Nat /\ Len(entries') \in Nat /\ Len(entries) <= Len(entries')
  BY DEF EntriesInv, Evolved
<1>3. ASSUME NEW c \in Range(Collectors), projection'[c] = projection[c] PROVE RowInv(c)'
  <2>1. PICK x : x = projection[c] /\ x = projection'[c] /\ x \in ProjectionState
    BY <1>3 DEF LimitInv
  <2>2. x.generation <= MaxRebuilds /\ x.watermark <= Len(entries)
        /\ (x.error = "TIMELINE_FACT_LIMIT" => Cardinality(OwnIds(c, x.range)) > MaxFacts)
    BY <1>3, <2>1 DEF LimitInv
  <2>3. x.watermark <= Len(entries')
    <3>1. x.watermark \in Nat
      BY <2>1 DEF ProjectionState
    <3> QED BY <1>2, <2>2, <3>1
  <2>4. x.error = "TIMELINE_FACT_LIMIT" => Cardinality(OwnIds(c, x.range)') > MaxFacts'
    BY <2>2, OwnGrows
  <2> QED BY <1>1, <2>1, <2>2, <2>3, <2>4 DEF RowInv
<1>4. \A c \in Range(Collectors) : RowInv(c)'
  BY <1>3
<1> QED BY <1>1, <1>4 DEF LimitInv, RowInv

\* No request for coverage, or one that stays as it was.
LEMMA NoCoverage ==
  ASSUME job' = Idle \/ job'.kind = "timeline"
  PROVE  CountInv' /\ DoneInv'
<1>1. CASE job' = Idle
  BY <1>1 DEF CountInv, DoneInv, Idle
<1>2. CASE job'.kind = "timeline"
  BY <1>2 DEF CountInv, DoneInv
<1> QED BY <1>1, <1>2

LEMMA ReadForSame ==
  ASSUME job'.kind = job.kind, job'.range = job.range, NEW e, NEW q
  PROVE  ReadFor(e, q)' <=> ReadFor(e, q)
BY DEF ReadFor, From, Overlapping, Slack

LEMMA CountSame ==
  ASSUME Growth, JobInv, CountInv, job' = job
  PROVE  CountInv'
<1>1. CASE job # Idle /\ job.kind = "coverage" /\ job.pc = "collect"
  <2>1. Queries' = Queries
    BY DEF Queries, Overlapping
  <2>2. \A k \in DOMAIN job.got : Meets(Id(job.got[k]), Head(job.todo), job.range)'
    <3>1. \A k \in DOMAIN job.got : Id(job.got[k]) \in FactIds /\ Meets(Id(job.got[k]), Head(job.todo), job.range)
      BY <1>1, JobIs DEF CountInv, Shown
    <3>2. \A p \in FactIds : Meets(p, Head(job.todo), job.range) => Meets(p, Head(job.todo), job.range)'
      BY GrowthKeeps DEF Meets
    <3> QED BY <3>1, <3>2
  <2>3. \A k \in DOMAIN job.got : \E j \in 1 .. job.query - 1 : ReadFor(job.got[k], Queries[j])'
    BY <1>1, <2>1, ReadForSame DEF CountInv
  <2>4. \A m, n \in DOMAIN job.got : Id(job.got[m]) = Id(job.got[n]) => m = n
    BY <1>1 DEF CountInv
  <2> QED BY <2>1, <2>2, <2>3, <2>4 DEF CountInv, Id
<1>2. CASE ~(job # Idle /\ job.kind = "coverage" /\ job.pc = "collect")
  BY <1>2 DEF CountInv, Idle
<1> QED BY <1>1, <1>2

\* The collectors done and to do stay the same.
LEMMA DoneSame ==
  ASSUME setup' = setup, DoneInv, projection' = projection, trouble' = trouble, job'.kind = "coverage" => job # Idle /\ job.kind = "coverage",
         job'.kind = "coverage" => job'.todo = job.todo /\ job'.asked = job.asked /\ job'.range = job.range
                                   /\ (job'.pc = "answer" <=> job.pc = "answer")
  PROVE  DoneInv'
<1> SUFFICES ASSUME job' # Idle', job'.kind = "coverage" PROVE DoneInv'
  BY DEF DoneInv
<1>1. MaxRebuilds' = MaxRebuilds
  BY DEF MaxRebuilds
<1>2. \A c : Finished(c)' <=> Finished(c)
  BY DEF Finished
<1> QED BY <1>1, <1>2 DEF DoneInv

LEMMA Places ==
  ASSUME NEW a \in Nat, NEW t \in Nat, t >= 1, t <= a
  PROVE  /\ a - t + 1 \in 1 .. a /\ 1 \in 1 .. t
         /\ \A k \in 1 .. a - (t - 1) : k \in 1 .. a /\ (k # a - t + 1 => k \in 1 .. a - t)
OBVIOUS

\* One collector of a request is done with.
LEMMA CollectorDone ==
  ASSUME CoverageInv, setup' = setup, job.kind = "coverage", job.pc \in {"collect", "upsert", "build"}, NextCollector,
         trouble \in Nat, trouble' = 0 => trouble = 0, NEW x \in ProjectionState,
         projection' = [projection EXCEPT ![Head(job.todo)] = x],
         trouble' = 0 => x.range = job.range /\ (x.status = "fresh" \/ x.error \in {"TIMELINE_FACT_LIMIT", "TIMELINE_BYTE_LIMIT"})
  PROVE  CountInv' /\ DoneInv' /\ Head(job.todo) \in Range(Collectors)
<1>1. /\ job # Idle /\ job \in CoverageJob /\ job.todo # <<>> /\ job.todo \in Seq(Range(Collectors)) /\ job.asked \in Seq(Range(Collectors))
  BY JobIs DEF CoverageInv, TimelineInv, CoverageJob
<1>2. PICK todo, rest, asked : todo = job.todo /\ rest = Tail(todo) /\ asked = job.asked
  OBVIOUS
<1>3. PICK t, a : t = Len(todo) /\ a = Len(asked) /\ t \in Nat /\ a \in Nat /\ t >= 1 /\ DOMAIN todo = 1 .. t /\ DOMAIN asked = 1 .. a
  <2>1. Len(todo) \in Nat /\ Len(asked) \in Nat /\ DOMAIN todo = 1 .. Len(todo) /\ DOMAIN asked = 1 .. Len(asked)
    BY <1>1, <1>2
  <2>2. Len(todo) # 0
    BY <1>1, <1>2
  <2>3. Len(todo) >= 1
    BY <2>1, <2>2
  <2> QED BY <2>1, <2>3
<1>4. Len(rest) = t - 1 /\ DOMAIN rest = 1 .. t - 1 /\ rest \in Seq(Range(Collectors)) /\ \A k \in 1 .. t - 1 : rest[k] = todo[k + 1]
  <2>1. rest \in Seq(Range(Collectors)) /\ Len(rest) = Len(todo) - 1 /\ \A k \in 1 .. Len(rest) : rest[k] = todo[k + 1]
    BY <1>1, <1>2, HeadTailProperties
  <2> QED BY <1>3, <2>1
<1>5. PICK c : c = todo[1] /\ c = Head(job.todo) /\ c \in Range(Collectors)
  BY <1>1, <1>2, <1>3
<1>6. PICK pc : pc = (IF t = 1 THEN "answer" ELSE "collect")
  OBVIOUS
<1>7. job' = [job EXCEPT !.todo = rest, !.pc = pc, !.query = 1, !.got = <<>>]
  BY <1>2, <1>3, <1>6 DEF NextCollector
<1>8. /\ job'.pc = pc /\ job'.kind = "coverage" /\ job'.todo = rest /\ job'.query = 1 /\ job'.got = <<>>
      /\ job'.asked = asked /\ job'.range = job.range
  BY <1>1, <1>2, <1>7 DEF CoverageJob
<1>9. CountInv'
  <2>1. DOMAIN job'.got = {}
    BY <1>8
  <2> QED BY <2>1 DEF CountInv
<1>10. /\ t <= a
       /\ \A m, n \in 1 .. a : asked[m] = asked[n] => m = n
       /\ \A k \in 1 .. t : todo[k] = asked[a - t + k]
       /\ \A k \in 1 .. t : projection[todo[k]].generation < MaxRebuilds
       /\ trouble = 0 => \A k \in 1 .. a - t : Finished(asked[k])
  BY <1>1, <1>2, <1>3 DEF CoverageInv, DoneInv
<1>11. projection \in [Range(Collectors) -> ProjectionState]
  BY DEF CoverageInv, LimitInv
<1>12. projection'[c] = x /\ \A d \in Range(Collectors) : d # c => projection'[d] = projection[d]
  BY <1>5, <1>11
<1>13. \A k \in 1 .. a : asked[k] \in Range(Collectors)
  BY <1>1, <1>2, <1>3
<1>14. a - t + 1 \in 1 .. a /\ c = asked[a - t + 1] /\ 1 \in 1 .. t
  <2>1. a - t + 1 \in 1 .. a /\ 1 \in 1 .. t
    BY <1>3, <1>10, Places
  <2>2. todo[1] = asked[a - t + 1]
    BY <1>10, <2>1
  <2> QED BY <1>5, <2>1, <2>2
<1>15. \A k \in 1 .. a : k # a - t + 1 => projection'[asked[k]] = projection[asked[k]]
  BY <1>10, <1>12, <1>13, <1>14
<1>16. ASSUME NEW k \in 1 .. t - 1
       PROVE  rest[k] = asked[a - (t - 1) + k] /\ projection'[rest[k]].generation < MaxRebuilds
  <2>1. k + 1 \in 1 .. t /\ a - t + (k + 1) = a - (t - 1) + k /\ a - t + (k + 1) \in 1 .. a /\ a - t + (k + 1) # a - t + 1
    BY <1>3, <1>10
  <2>2. rest[k] = todo[k + 1] /\ todo[k + 1] = asked[a - t + (k + 1)]
    BY <1>4, <1>10, <2>1
  <2>3. projection[todo[k + 1]].generation < MaxRebuilds
    BY <1>10, <2>1
  <2> QED BY <1>15, <2>1, <2>2, <2>3
<1>17. ASSUME trouble' = 0, NEW k \in 1 .. a - (t - 1) PROVE Finished(asked[k])'
  <2>1. k \in 1 .. a
    BY <1>3, <1>10
  <2>2. CASE k = a - t + 1
    <3>1. projection'[asked[k]] = x
      BY <1>12, <1>14, <2>2
    <3> QED BY <1>8, <1>17, <3>1 DEF Finished
  <2>3. CASE k # a - t + 1
    <3>1. k \in 1 .. a - t
      BY <1>3, <1>10, <2>3, Places
    <3>2. Finished(asked[k])
      BY <1>10, <1>17, <3>1
    <3>3. projection'[asked[k]] = projection[asked[k]]
      BY <1>15, <2>1, <2>3
    <3> QED BY <1>8, <3>2, <3>3 DEF Finished
  <2> QED BY <2>2, <2>3
<1>18. DoneInv'
  <2>1. pc = "answer" <=> rest = <<>>
    <3>1. CASE t = 1
      BY <1>4, <1>6, <3>1
    <3>2. CASE t # 1
      <4>1. Len(rest) # 0
        BY <1>3, <1>4, <3>2
      <4> QED BY <1>6, <3>2, <4>1
    <3> QED BY <3>1, <3>2
  <2>2. t - 1 <= a
    BY <1>3, <1>10
  <2>3. MaxRebuilds' = MaxRebuilds
    BY DEF MaxRebuilds
  <2>4. /\ Len(job'.todo) = t - 1 /\ DOMAIN job'.todo = 1 .. t - 1 /\ Len(job'.asked) = a /\ DOMAIN job'.asked = 1 .. a
    BY <1>2, <1>3, <1>4, <1>8
  <2>5. \A k \in 1 .. t - 1 : job'.todo[k] = job'.asked[a - (t - 1) + k] /\ projection'[job'.todo[k]].generation < MaxRebuilds'
    BY <1>8, <1>16, <2>3
  <2>6. trouble' = 0 => \A k \in 1 .. a - (t - 1) : Finished(job.asked[k])'
    BY <1>2, <1>8, <1>17
  <2>7. \A m, n \in 1 .. a : job'.asked[m] = job'.asked[n] => m = n
    BY <1>8, <1>10
  <2> QED BY <1>8, <2>1, <2>2, <2>4, <2>5, <2>6, <2>7 DEF DoneInv
<1> QED BY <1>5, <1>9, <1>18

LEMMA MaxOfTwo ==
  ASSUME NEW a \in Nat, NEW b \in Nat
  PROVE  Max({a, b}) = IF a >= b THEN a ELSE b
BY DEF Max

\* Steps that write no row.
LEMMA QuietKeeps ==
  ASSUME CoverageInv, TimelineInv', setup' = setup, Growth, Evolved(entries, entries'), projection' = projection, CountInv', DoneInv'
  PROVE  CoverageInv'
<1>1. BaseInv /\ BaseInv' /\ EntriesInv(entries) /\ EntriesInv(entries)' /\ LimitInv
  BY DEF CoverageInv, TimelineInv
<1>2. projection' \in [Range(Collectors) -> ProjectionState] /\ \A c \in Range(Collectors) : projection'[c] = projection[c]
  BY <1>1 DEF LimitInv
<1>3. LimitInv'
  BY <1>1, <1>2, LimitStep
<1> QED BY <1>3 DEF CoverageInv

LEMMA EndsKeeps ==
  ASSUME CoverageInv, TimelineInv', setup' = setup, tables' = tables, entries' = entries, projection' = projection,
         job' = Idle \/ job'.kind = "timeline"
  PROVE  CoverageInv'
<1>1. EntriesInv(entries)
  BY DEF CoverageInv, TimelineInv
<1>2. Growth /\ Evolved(entries, entries') /\ CountInv' /\ DoneInv'
  BY <1>1, SameTables, EvolvedSelf, NoCoverage
<1> QED BY <1>2, QuietKeeps

LEMMA SameJobKeeps ==
  ASSUME CoverageInv, TimelineInv', setup' = setup, Growth, entries' = entries, projection' = projection, job' = job, trouble' = trouble
  PROVE  CoverageInv'
<1>1. EntriesInv(entries) /\ JobInv /\ CountInv /\ DoneInv
  BY DEF CoverageInv, TimelineInv
<1>2. Evolved(entries, entries') /\ CountInv'
  BY <1>1, EvolvedSelf, CountSame
<1>3. DoneInv'
  <2>1. job.kind = "coverage" => job # Idle \/ job = Idle
    OBVIOUS
  <2>2. CASE job = Idle
    BY <2>2, NoCoverage
  <2>3. CASE job # Idle
    BY <1>1, <2>3, DoneSame
  <2> QED BY <2>2, <2>3
<1> QED BY <1>2, <1>3, QuietKeeps

LEMMA BeginCoverageCovers ==
  ASSUME CoverageInv, TimelineInv', setup' = setup, NEW range \in Ranges, NEW now \in Clock, NEW todo \in Seq(Range(Collectors)),
         todo # <<>>, \A m, n \in DOMAIN todo : todo[m] = todo[n] => m = n, BeginCoverage(range, now, todo)
  PROVE  CoverageInv'
<1>1. tables' = tables /\ entries' = entries /\ projection' = projection
      /\ \A c \in Range(todo) : projection[c].generation < MaxRebuilds
  BY DEF BeginCoverage, stored
<1>2. PICK before : job' = [pc |-> "collect", kind |-> "coverage", range |-> range, now |-> now, todo |-> todo, asked |-> todo,
                            query |-> 1, got |-> <<>>, before |-> before]
  BY DEF BeginCoverage
<1>3. job'.pc = "collect" /\ job'.todo = todo /\ job'.asked = todo /\ job'.got = <<>>
  BY <1>2
<1>4. CountInv'
  <2>1. DOMAIN job'.got = {}
    BY <1>3
  <2> QED BY <2>1 DEF CountInv
<1>5. PICK t : t = Len(todo) /\ t \in Nat /\ DOMAIN todo = 1 .. t
  OBVIOUS
<1>6. DoneInv'
  <2>1. \A k \in 1 .. t : t - t + k = k
    BY <1>5
  <2>2. \A k \in 1 .. t - t : FALSE
    BY <1>5
  <2>3. \A k \in 1 .. t : projection'[todo[k]].generation < MaxRebuilds'
    BY <1>1, <1>5 DEF Range, MaxRebuilds
  <2>4. t <= t
    BY <1>5
  <2> QED BY <1>3, <1>5, <2>1, <2>2, <2>3, <2>4 DEF DoneInv
<1>7. Growth /\ Evolved(entries, entries')
  BY <1>1, SameTables, EvolvedSelf DEF CoverageInv, TimelineInv
<1> QED BY <1>1, <1>4, <1>6, <1>7, QuietKeeps

LEMMA CollectCovers ==
  ASSUME CoverageInv, TimelineInv', setup' = setup, Collect
  PROVE  CoverageInv'
<1>1. BaseInv /\ JobInv /\ CountInv /\ DoneInv /\ EntriesInv(entries)
  BY DEF CoverageInv, TimelineInv
<1>2. job.pc = "collect" /\ tables' = tables /\ entries' = entries /\ projection' = projection /\ trouble' = trouble
  BY DEF Collect, stored
<1>3. PICK next : Both(next, job.got, Rows(Queries[job.query]))
  BY DEF Both
<1>4. PICK pc : /\ job' = [job EXCEPT !.got = next, !.query = job.query + 1, !.pc = pc]
                /\ pc = IF ~(job.query = Len(Queries)) THEN "collect" ELSE IF next = <<>> THEN Synced ELSE "upsert"
  BY <1>2, <1>3 DEF Collect, Both
<1>5. pc # "answer"
  BY <1>4 DEF Synced
<1>6. CASE job.kind = "timeline"
  <2>1. job \in TimelineJob
    BY <1>1, <1>2, <1>6, JobIs
  <2>2. job'.kind = "timeline"
    BY <1>4, <1>6, <2>1 DEF TimelineJob
  <2> QED BY <1>2, <2>2, EndsKeeps
<1>7. CASE job.kind = "coverage"
  <2>1. job # Idle /\ job \in CoverageJob /\ job.query \in 1 .. 6
    BY <1>1, <1>2, <1>7, JobIs, QueriesFacts
  <2>2. /\ job'.kind = "coverage" /\ job'.pc = pc /\ job'.got = next /\ job'.query = job.query + 1 /\ job'.todo = job.todo
        /\ job'.asked = job.asked /\ job'.range = job.range
    BY <1>4, <1>7, <2>1 DEF CoverageJob
  <2>3. DoneInv'
    BY <1>1, <1>2, <1>5, <1>7, <2>1, <2>2, DoneSame
  <2>4. CountInv'
    <3>1. Queries' = Queries
      BY <1>7, <2>2 DEF Queries, Overlapping
    <3>2. /\ \A k \in DOMAIN next : Shown(next[k]) /\ Meets(Id(next[k]), Head(job.todo), job.range)
          /\ \A k \in DOMAIN next : \E j \in 1 .. job.query : ReadFor(next[k], Queries[j])
          /\ \A m, n \in DOMAIN next : Id(next[m]) = Id(next[n]) => m = n
      BY <1>1, <1>2, <1>3, <1>7, CountNext
    <3>3. \A k \in DOMAIN next : Meets(Id(next[k]), Head(job.todo), job.range)'
      <4>1. \A p : Meets(p, Head(job.todo), job.range) <=> Meets(p, Head(job.todo), job.range)'
        BY <1>2, <2>2 DEF Meets, FactAt, StartAt, EndAt
      <4> QED BY <2>2, <3>2, <4>1
    <3>4. (job.query + 1) - 1 = job.query
      BY <2>1
    <3>5. \A k \in DOMAIN next : \E j \in 1 .. (job.query + 1) - 1 : ReadFor(next[k], Queries[j])'
      <4>1. \A e, q : ReadFor(e, q) <=> ReadFor(e, q)'
        BY <1>7, <2>2, ReadForSame
      <4> QED BY <3>1, <3>2, <3>4, <4>1
    <3> QED BY <2>2, <3>1, <3>2, <3>3, <3>5 DEF CountInv, Id
  <2>5. Growth /\ Evolved(entries, entries')
    BY <1>1, <1>2, SameTables, EvolvedSelf
  <2> QED BY <1>2, <2>3, <2>4, <2>5, QuietKeeps
<1> QED BY <1>1, <1>2, <1>6, <1>7, JobIs

LEMMA UpsertCovers ==
  ASSUME CoverageInv, TimelineInv', Evolved(entries, entries'), setup' = setup, UpsertChunk
  PROVE  CoverageInv'
<1>1. JobInv /\ DoneInv
  BY DEF CoverageInv, TimelineInv
<1>2. job.pc = "upsert" /\ tables' = tables /\ projection' = projection /\ trouble' = trouble
  BY DEF UpsertChunk, stored
<1>3. PICK rest, pc : job' = [job EXCEPT !.got = rest, !.pc = pc] /\ pc \in {Synced, "upsert"}
  BY <1>2 DEF UpsertChunk
<1>4. pc # "answer" /\ pc # "collect"
  BY <1>3 DEF Synced
<1>5. CASE job.kind = "timeline"
  <2>1. job \in TimelineJob
    BY <1>1, <1>2, <1>5, JobIs
  <2>2. job'.kind = "timeline"
    BY <1>3, <1>5, <2>1 DEF TimelineJob
  <2> QED BY <1>2, <2>2, SameTables, NoCoverage, QuietKeeps
<1>6. CASE job.kind = "coverage"
  <2>1. job # Idle /\ job \in CoverageJob
    BY <1>1, <1>2, <1>6, JobIs
  <2>2. job'.kind = "coverage" /\ job'.pc = pc /\ job'.todo = job.todo /\ job'.asked = job.asked /\ job'.range = job.range
    BY <1>3, <1>6, <2>1 DEF CoverageJob
  <2>3. DoneInv'
    BY <1>1, <1>2, <1>4, <1>6, <2>1, <2>2, DoneSame
  <2>4. CountInv'
    BY <1>4, <2>2 DEF CountInv
  <2> QED BY <1>2, <2>3, <2>4, SameTables, QuietKeeps
<1> QED BY <1>1, <1>2, <1>5, <1>6, JobIs

\* What is written for a collector, in whichever way its turn ends.
LEMMA RowWritten ==
  ASSUME CoverageInv, TimelineInv', setup' = setup, tables' = tables, entries' = entries,
         job.kind = "coverage", job.pc \in {"collect", "upsert", "build"}, NextCollector,
         trouble' = 0 => trouble = 0, NEW x \in ProjectionState, projection' = [projection EXCEPT ![Head(job.todo)] = x],
         trouble' = 0 => x.range = job.range /\ (x.status = "fresh" \/ x.error \in {"TIMELINE_FACT_LIMIT", "TIMELINE_BYTE_LIMIT"}),
         x.generation <= MaxRebuilds, x.watermark <= Len(entries),
         x.error = "TIMELINE_FACT_LIMIT" => Cardinality(OwnIds(Head(job.todo), x.range)) > MaxFacts
  PROVE  CoverageInv'
<1>1. BaseInv /\ BaseInv' /\ EntriesInv(entries) /\ EntriesInv(entries)' /\ LimitInv
  BY DEF CoverageInv, TimelineInv
<1>2. Growth /\ Evolved(entries, entries')
  BY <1>1, SameTables, EvolvedSelf
<1>3. trouble \in Nat
  BY <1>1, SetupFacts DEF BaseInv
<1>4. CountInv' /\ DoneInv' /\ Head(job.todo) \in Range(Collectors)
  BY <1>3, CollectorDone
<1>5. PICK c : c = Head(job.todo) /\ c \in Range(Collectors)
  BY <1>4
<1>6. projection \in [Range(Collectors) -> ProjectionState]
  BY <1>1 DEF LimitInv
<1>7. projection' \in [Range(Collectors) -> ProjectionState] /\ projection'[c] = x
      /\ \A d \in Range(Collectors) : d # c => projection'[d] = projection[d]
  BY <1>5, <1>6
<1>8. RowInv(c)'
  <2>1. MaxRebuilds' = MaxRebuilds
    BY DEF MaxRebuilds
  <2>2. x.error = "TIMELINE_FACT_LIMIT" => Cardinality(OwnIds(c, x.range)') > MaxFacts'
    BY <1>1, <1>2, <1>5, OwnGrows
  <2> QED BY <1>7, <2>1, <2>2 DEF RowInv
<1>9. LimitInv'
  BY <1>1, <1>2, <1>5, <1>7, <1>8, LimitStep
<1> QED BY <1>4, <1>9 DEF CoverageInv

LEMMA NextUp ==
  ASSUME CoverageInv, job.kind = "coverage", job.pc \in {"collect", "upsert", "build"}
  PROVE  /\ Head(job.todo) \in Range(Collectors) /\ projection[Head(job.todo)] \in ProjectionState
         /\ projection[Head(job.todo)].generation < MaxRebuilds /\ projection[Head(job.todo)].generation \in Nat
         /\ projection[Head(job.todo)].watermark \in Nat /\ projection[Head(job.todo)].watermark <= Len(entries)
         /\ projection[Head(job.todo)].error = "TIMELINE_FACT_LIMIT"
              => Cardinality(OwnIds(Head(job.todo), projection[Head(job.todo)].range)) > MaxFacts
         /\ projection = [projection EXCEPT ![Head(job.todo)] = projection[Head(job.todo)]]
<1>1. job # Idle /\ job.todo # <<>> /\ job.todo \in Seq(Range(Collectors))
  BY JobIs DEF CoverageInv, TimelineInv, CoverageJob
<1>2. PICK c : c = Head(job.todo) /\ c \in Range(Collectors) /\ c = job.todo[1] /\ 1 \in DOMAIN job.todo
  BY <1>1
<1>3. projection[c].generation < MaxRebuilds
  BY <1>1, <1>2 DEF CoverageInv, DoneInv
<1>4. projection \in [Range(Collectors) -> ProjectionState] /\ projection[c].watermark <= Len(entries)
      /\ (projection[c].error = "TIMELINE_FACT_LIMIT" => Cardinality(OwnIds(c, projection[c].range)) > MaxFacts)
  BY <1>2 DEF CoverageInv, LimitInv
<1>5. projection[c] \in ProjectionState /\ projection[c].generation \in Nat /\ projection[c].watermark \in Nat
  BY <1>2, <1>4 DEF ProjectionState
<1>6. projection = [projection EXCEPT ![c] = projection[c]]
  BY <1>4
<1> QED BY <1>2, <1>3, <1>4, <1>5, <1>6

LEMMA FailCovers ==
  ASSUME CoverageInv, TimelineInv', setup' = setup, job.pc \in {"collect", "upsert", "page", "build"},
         trouble' = 0 => trouble = 0,
         NEW code \in {"QUERY_FAILED", "TIMELINE_FACT_LIMIT", "TIMELINE_BYTE_LIMIT"}, NEW saved \in BOOLEAN, FailSync(code, saved),
         trouble' = 0 => saved = TRUE /\ code # "QUERY_FAILED",
         job.kind = "coverage" /\ code = "TIMELINE_FACT_LIMIT" => Cardinality(OwnIds(Head(job.todo), job.range)) > MaxFacts
  PROVE  CoverageInv'
<1>1. BaseInv /\ JobInv
  BY DEF CoverageInv, TimelineInv
<1>2. tables' = tables /\ entries' = entries
  BY DEF FailSync
<1>3. CASE job.kind = "timeline"
  <2>1. job' = Idle /\ projection' = projection
    BY <1>3 DEF FailSync
  <2> QED BY <1>2, <2>1, EndsKeeps
<1>4. CASE job.kind = "coverage"
  <2>1. job.pc \in {"collect", "upsert", "build"} /\ job.range \in Ranges
    <3>1. job \in CoverageJob
      BY <1>1, <1>4, JobIs
    <3> QED BY <3>1 DEF CoverageJob
  <2>2. NextCollector
    BY <1>4 DEF FailSync
  <2>3. PICK c, y : c = Head(job.todo) /\ y = projection[c]
    OBVIOUS
  <2>4. /\ c \in Range(Collectors) /\ y \in ProjectionState /\ y.generation < MaxRebuilds /\ y.generation \in Nat
        /\ y.watermark \in Nat /\ y.watermark <= Len(entries) /\ projection = [projection EXCEPT ![c] = y]
        /\ y.error = "TIMELINE_FACT_LIMIT" => Cardinality(OwnIds(c, y.range)) > MaxFacts
    BY <1>4, <2>1, <2>3, NextUp
  <2>5. MaxRebuilds \in Nat
    BY <1>1, SetupFacts DEF BaseInv
  <2>6. CASE saved = TRUE
    <3>1. PICK g : g = Max({1, y.generation})
      OBVIOUS
    <3>2. g \in Nat /\ g <= MaxRebuilds
      <4>1. g = IF 1 >= y.generation THEN 1 ELSE y.generation
        BY <2>4, <3>1, MaxOfTwo
      <4> QED BY <2>4, <2>5, <4>1
    <3>3. PICK x : x = [y EXCEPT !.status = "stale", !.error = code, !.range = job.range, !.generation = g]
      OBVIOUS
    <3>4. projection' = [projection EXCEPT ![c] = x]
      BY <1>4, <2>3, <2>6, <3>1, <3>3 DEF FailSync, MarkStale
    <3>5. x \in ProjectionState /\ x.error = code /\ x.range = job.range /\ x.generation = g /\ x.watermark = y.watermark
      BY <2>1, <2>4, <3>2, <3>3 DEF ProjectionState
    <3>6. trouble' = 0 => x.range = job.range /\ (x.status = "fresh" \/ x.error \in {"TIMELINE_FACT_LIMIT", "TIMELINE_BYTE_LIMIT"})
      BY <3>5
    <3>7. x.error = "TIMELINE_FACT_LIMIT" => Cardinality(OwnIds(Head(job.todo), x.range)) > MaxFacts
      BY <1>4, <3>5
    <3>8. x.generation <= MaxRebuilds /\ x.watermark <= Len(entries)
      BY <2>4, <3>2, <3>5
    <3> QED BY <1>2, <1>4, <2>1, <2>2, <2>3, <3>4, <3>5, <3>6, <3>7, <3>8, RowWritten
  <2>7. CASE saved = FALSE
    <3>1. projection' = [projection EXCEPT ![c] = y]
      BY <1>4, <2>4, <2>7 DEF FailSync
    <3>2. trouble' # 0
      BY <2>7
    <3>3. y.generation <= MaxRebuilds
      BY <2>4, <2>5
    <3> QED BY <1>2, <1>4, <2>1, <2>2, <2>3, <2>4, <3>1, <3>2, <3>3, RowWritten
  <2> QED BY <2>6, <2>7
<1> QED BY <1>3, <1>4 DEF FailSync

LEMMA RebuildCovers ==
  ASSUME CoverageInv, TimelineInv', setup' = setup, RebuildCollector
  PROVE  CoverageInv'
<1>1. BaseInv /\ JobInv /\ EntriesInv(entries)
  BY DEF CoverageInv, TimelineInv
<1>2. job.pc = "build" /\ NextCollector /\ tables' = tables /\ entries' = entries /\ trouble' = trouble
  BY DEF RebuildCollector
<1>3. job.kind = "coverage" /\ job.range \in Ranges /\ job.range.from \in Int /\ job.range.to \in Int
  <2>1. job.kind = "timeline" => job \in TimelineJob
    BY <1>1, <1>2, JobIs
  <2>2. job.kind \in {"timeline", "coverage"} /\ job.range \in Ranges
    BY <1>1, <1>2, JobIs
  <2>3. job.kind = "coverage"
    BY <1>2, <2>1, <2>2 DEF TimelineJob
  <2> QED BY <1>1, <2>2, <2>3, SetupFacts DEF BaseInv
<1>4. PICK c, y, ids : c = Head(job.todo) /\ y = projection[c] /\ ids = CoverageEntries(c, job.range)
  OBVIOUS
<1>5. /\ c \in Range(Collectors) /\ y \in ProjectionState /\ y.generation < MaxRebuilds /\ y.generation \in Nat
      /\ y.watermark \in Nat /\ y.watermark <= Len(entries)
  BY <1>2, <1>3, <1>4, NextUp
<1>6. MaxRebuilds \in Nat /\ MaxFacts \in Nat /\ Len(entries) \in Nat /\ DOMAIN entries = 1 .. Len(entries)
  BY <1>1, SetupFacts DEF BaseInv, EntriesInv
<1>7. CASE Cardinality(ids) > MaxFacts
  <2>1. Cardinality(OwnIds(c, job.range)) > MaxFacts
    <3>1. Cardinality(ids) \in Nat /\ Cardinality(ids) <= Cardinality(OwnIds(c, job.range))
          /\ Cardinality(OwnIds(c, job.range)) \in Nat
      BY <1>1, <1>3, <1>4, EntriesAtLeast, OwnFinite
    <3> QED BY <1>6, <1>7, <3>1
  <2>2. PICK g : g = Max({1, y.generation})
    OBVIOUS
  <2>3. g \in Nat /\ g <= MaxRebuilds
    <3>1. g = IF 1 >= y.generation THEN 1 ELSE y.generation
      BY <1>5, <2>2, MaxOfTwo
    <3> QED BY <1>5, <1>6, <3>1
  <2>4. PICK x : x = [y EXCEPT !.status = "stale", !.error = "TIMELINE_FACT_LIMIT", !.range = job.range, !.generation = g]
    OBVIOUS
  <2>5. projection' = [projection EXCEPT ![c] = x]
    BY <1>4, <1>7, <2>2, <2>4 DEF RebuildCollector, MarkStale
  <2>6. x \in ProjectionState /\ x.error = "TIMELINE_FACT_LIMIT" /\ x.range = job.range /\ x.generation = g /\ x.watermark = y.watermark
    BY <1>3, <1>5, <2>3, <2>4 DEF ProjectionState
  <2> QED BY <1>2, <1>3, <1>4, <1>5, <2>1, <2>3, <2>5, <2>6, RowWritten
<1>8. CASE ~(Cardinality(ids) > MaxFacts)
  <2>1. PICK w : w = Max({0} \cup ids)
    OBVIOUS
  <2>2. w \in Nat /\ w <= Len(entries)
    <3>1. {0} \cup ids \subseteq 0 .. Len(entries)
      BY <1>4, <1>6 DEF CoverageEntries
    <3>2. w \in 0 .. Len(entries)
      BY <1>6, <2>1, <3>1, MaxWithin
    <3> QED BY <1>6, <3>2
  <2>3. PICK g : g = y.generation + 1 /\ g \in Nat /\ g <= MaxRebuilds
    BY <1>5, <1>6
  <2>4. PICK x : x = [status |-> "fresh", generation |-> g, error |-> "", watermark |-> w, range |-> job.range]
    OBVIOUS
  <2>5. projection' = [projection EXCEPT ![c] = x]
    BY <1>4, <1>8, <2>1, <2>3, <2>4 DEF RebuildCollector
  <2>6. x \in ProjectionState /\ x.error = "" /\ x.range = job.range /\ x.generation <= MaxRebuilds /\ x.watermark = w
        /\ x.status = "fresh"
    BY <1>3, <2>2, <2>3, <2>4 DEF ProjectionState
  <2> QED BY <1>2, <1>3, <1>4, <2>2, <2>5, <2>6, RowWritten
<1> QED BY <1>7, <1>8

LEMMA CoverageInit == ASSUME Init PROVE CoverageInv
<1>1. setup \in Setups /\ job = Idle /\ projection = [c \in Range(Collectors) |-> NoProjection] /\ entries = <<>>
  BY DEF Init
<1>2. MaxRebuilds \in Nat
  BY <1>1, SetupFacts
<1>3. NoProjection \in ProjectionState
  BY DEF NoProjection, ProjectionState
<1>4. LimitInv
  <2>1. projection \in [Range(Collectors) -> ProjectionState] /\ \A c \in Range(Collectors) : projection[c] = NoProjection
    BY <1>1, <1>3
  <2>2. NoProjection.generation = 0 /\ NoProjection.watermark = 0 /\ NoProjection.error = ""
    BY DEF NoProjection
  <2>3. ASSUME NEW c \in Range(Collectors)
        PROVE  /\ projection[c].generation <= MaxRebuilds /\ projection[c].watermark <= Len(entries)
               /\ projection[c].error # "TIMELINE_FACT_LIMIT"
    <3>1. PICK x : x = projection[c] /\ x = NoProjection
      BY <2>1
    <3>2. x.generation = 0 /\ x.watermark = 0 /\ x.error = ""
      BY <2>2, <3>1
    <3>3. 0 <= MaxRebuilds
      BY <1>2
    <3>4. 0 <= Len(entries)
      BY <1>1
    <3> QED BY <3>1, <3>2, <3>3, <3>4
  <2> QED BY <2>1, <2>3 DEF LimitInv
<1>5. CountInv /\ DoneInv
  BY <1>1 DEF CountInv, DoneInv
<1> QED BY <1>4, <1>5, TimelineInit DEF CoverageInv

LEMMA TroubleCounts ==
  ASSUME BaseInv, Trouble
  PROVE  trouble' # 0
<1>1. trouble \in Nat
  BY SetupFacts DEF BaseInv
<1> QED BY <1>1 DEF Trouble

LEMMA CoverageClients ==
  ASSUME CoverageInv, TimelineInv', setup' = setup, Clients
  PROVE  CoverageInv'
<1>1. BaseInv /\ TimelineInv
  BY DEF CoverageInv, TimelineInv
<1>2. ASSUME NEW s \in Sources, NEW f \in Pool[s], AppendFact(s, f) PROVE CoverageInv'
  <2>1. Growth
    BY <1>1, <1>2, AppendGrows
  <2>2. entries' = entries /\ projection' = projection /\ job' = job /\ trouble' = trouble
    BY <1>2 DEF AppendFact, stored
  <2> QED BY <2>1, <2>2, SameJobKeeps
<1>3. ASSUME NEW range \in Ranges, NEW r \in Readers, BeginTimeline(r, range) PROVE CoverageInv'
  <2>1. tables' = tables /\ entries' = entries /\ projection' = projection /\ job'.kind = "timeline"
    BY <1>3 DEF BeginTimeline, stored
  <2> QED BY <2>1, EndsKeeps
<1>4. ASSUME NEW range \in Ranges, NEW now \in Clock, Collectors # <<>>, BeginCoverage(range, now, Collectors) PROVE CoverageInv'
  <2>1. Collectors \in Seq(Range(Collectors)) /\ \A m, n \in DOMAIN Collectors : Collectors[m] = Collectors[n] => m = n
    BY <1>1, SetupFacts DEF BaseInv
  <2> QED BY <1>4, <2>1, BeginCoverageCovers
<1>5. ASSUME NEW range \in Ranges, NEW now \in Clock, NEW c \in Range(Collectors), BeginCoverage(range, now, <<c>>) PROVE CoverageInv'
  <2>1. <<c>> \in Seq(Range(Collectors)) /\ <<c>> # <<>> /\ \A m, n \in DOMAIN <<c>> : m = n
    OBVIOUS
  <2> QED BY <1>5, <2>1, BeginCoverageCovers
<1>6. ASSUME NEW r \in Readers, NextPage(r) PROVE CoverageInv'
  <2>1. tables' = tables /\ entries' = entries /\ projection' = projection /\ job' = job /\ trouble' = trouble
    BY <1>6 DEF NextPage, stored
  <2> QED BY <2>1, SameTables, SameJobKeeps
<1>10. ASSUME NEW r \in Readers, RefuseCursor(r) PROVE CoverageInv'
  <2>1. tables' = tables /\ entries' = entries /\ projection' = projection /\ job' = job /\ trouble' = trouble
    BY <1>10 DEF RefuseCursor, stored
  <2> QED BY <2>1, SameTables, SameJobKeeps
<1>7. ASSUME NEW saved \in BOOLEAN, StatementFails(saved) PROVE CoverageInv'
  <2>1. job.pc \in {"collect", "upsert", "page", "build"} /\ Trouble /\ FailSync("QUERY_FAILED", saved)
    BY <1>7 DEF StatementFails
  <2>2. trouble' # 0
    BY <1>1, <2>1, TroubleCounts
  <2> QED BY <2>1, <2>2, FailCovers
<1>8. ASSUME Cancel PROVE CoverageInv'
  <2>1. tables' = tables /\ entries' = entries /\ projection' = projection /\ job' = Idle
    BY <1>8 DEF Cancel, stored
  <2> QED BY <2>1, EndsKeeps
<1>9. ASSUME NEW u \in UncertainSettings, Restart(u) PROVE CoverageInv'
  <2>1. tables' = tables /\ entries' = entries /\ projection' = projection /\ job' = Idle
    BY <1>9 DEF Restart, stored
  <2> QED BY <2>1, EndsKeeps
<1> QED BY <1>2, <1>3, <1>4, <1>5, <1>6, <1>7, <1>8, <1>9, <1>10 DEF Clients

LEMMA TooMuchCovers ==
  ASSUME CoverageInv, TimelineInv', setup' = setup, CollectTooMuch
  PROVE  CoverageInv'
<1>1. PICK next : Both(next, job.got, Rows(Queries[job.query]))
  BY DEF Both
<1>2. job.pc = "collect" /\ OverBudget(next) # {} /\ FailSync(BudgetError(next), TRUE) /\ trouble' = trouble
  BY <1>1 DEF CollectTooMuch, Both
<1>3. BudgetError(next) \in {"TIMELINE_FACT_LIMIT", "TIMELINE_BYTE_LIMIT"}
  BY DEF BudgetError
<1>4. job.kind = "coverage" /\ BudgetError(next) = "TIMELINE_FACT_LIMIT" => Cardinality(OwnIds(Head(job.todo), job.range)) > MaxFacts
  BY <1>1, <1>2, LimitIsOwn DEF CoverageInv, TimelineInv
<1>5. PICK code : code = BudgetError(next)
  OBVIOUS
<1>6. code \in {"QUERY_FAILED", "TIMELINE_FACT_LIMIT", "TIMELINE_BYTE_LIMIT"} /\ code # "QUERY_FAILED" /\ FailSync(code, TRUE)
  BY <1>2, <1>3, <1>5
<1> QED BY <1>2, <1>4, <1>5, <1>6, FailCovers

LEMMA CoverageNext ==
  ASSUME CoverageInv, [Next]_vars
  PROVE  CoverageInv'
<1>1. TimelineInv /\ TimelineInv'
  BY TimelineNext DEF CoverageInv
<1>2. CASE UNCHANGED vars
  <2>1. setup' = setup /\ tables' = tables /\ entries' = entries /\ projection' = projection /\ job' = job /\ trouble' = trouble
    BY <1>2 DEF vars
  <2> QED BY <1>1, <2>1, SameTables, SameJobKeeps
<1>3. CASE JobStep
  <2>1. setup' = setup
    BY <1>3 DEF JobStep
  <2>2. CASE UpsertChunk
    BY <1>1, <2>1, <2>2, UpsertKeeps, UpsertCovers
  <2>3. CASE FirstPage
    <3>1. tables' = tables /\ entries' = entries /\ projection' = projection /\ job' = Idle
      BY <2>3 DEF FirstPage, stored
    <3> QED BY <1>1, <2>1, <3>1, EndsKeeps
  <2>4. CASE AnswerCoverage
    <3>1. tables' = tables /\ entries' = entries /\ projection' = projection /\ job' = Idle
      BY <2>4 DEF AnswerCoverage, stored
    <3> QED BY <1>1, <2>1, <3>1, EndsKeeps
  <2> QED BY <1>1, <1>3, <2>1, <2>2, <2>3, <2>4, CollectCovers, TooMuchCovers, RebuildCovers DEF JobStep
<1>4. CASE Clients /\ UNCHANGED setup
  BY <1>1, <1>4, CoverageClients
<1> QED BY <1>2, <1>3, <1>4 DEF Next

LEMMA CoverageInvariant == Spec => []CoverageInv
<1>1. Init => CoverageInv
  BY CoverageInit
<1>2. CoverageInv /\ [Next]_vars => CoverageInv'
  BY CoverageNext
<1> QED BY <1>1, <1>2, PTL DEF Spec

\* A collector is refused for a number of facts only when that many interval
\* facts of its own meet its range, and no collector of an answered request is
\* left out because of another's failure, for any budgets, facts committed while
\* the request runs, and collectors (appendTimelineProjection, RebuildCoverage).
THEOREM FailuresStayIsolated == Spec => []FailuresIsolated
<1>1. ASSUME CoverageInv PROVE FailuresIsolated
  <2>1. BaseInv /\ JobInv /\ LimitInv /\ DoneInv
    BY <1>1 DEF CoverageInv, TimelineInv
  <2>2. ASSUME NEW c \in Range(Collectors), projection[c].error = "TIMELINE_FACT_LIMIT" PROVE FactsExceed(c)
    <3>1. PICK range : range = projection[c].range /\ range \in Ranges \cup {NoRange} /\ Cardinality(OwnIds(c, range)) > MaxFacts
      BY <2>1, <2>2 DEF LimitInv, ProjectionState
    <3>2. range.from \in Int /\ range.to \in Int
      BY <2>1, <3>1, SetupFacts DEF BaseInv, NoRange
    <3> QED BY <2>1, <3>1, <3>2, OwnExceed
  <2>3. ASSUME job.pc = "answer", trouble = 0, NEW c \in Range(job.asked)
        PROVE  /\ projection[c].range = job.range
               /\ projection[c].status = "fresh" \/ projection[c].error \in {"TIMELINE_FACT_LIMIT", "TIMELINE_BYTE_LIMIT"}
    <3>1. job # Idle /\ job.kind = "coverage" /\ job.asked \in Seq(Range(Collectors))
      <4>1. job.kind = "timeline" => job \in TimelineJob
        BY <2>1, <2>3, JobIs
      <4>2. job.kind = "coverage"
        BY <2>1, <2>3, <4>1, JobIs DEF TimelineJob
      <4> QED BY <2>1, <2>3, <4>2, JobIs DEF CoverageJob
    <3>2. job.todo = <<>>
      BY <2>1, <2>3, <3>1 DEF DoneInv
    <3>3. PICK a : a = Len(job.asked) /\ a \in Nat /\ DOMAIN job.asked = 1 .. a
      BY <3>1
    <3>4. a - Len(job.todo) = a
      BY <3>2, <3>3
    <3>5. \A k \in 1 .. a : Finished(job.asked[k])
      BY <2>1, <2>3, <3>1, <3>3, <3>4 DEF DoneInv
    <3>6. PICK k \in 1 .. a : c = job.asked[k]
      BY <2>3, <3>3 DEF Range
    <3> QED BY <3>5, <3>6 DEF Finished
  <2> QED BY <2>2, <2>3 DEF FailuresIsolated
<1> QED BY <1>1, CoverageInvariant, PTL

\* The shape of the state, with entry ids and generations within their bounds.
THEOREM TypeCorrect == Spec => []TypeOK
<1>1. ASSUME CoverageInv PROVE TypeOK
  <2>1. BaseInv /\ EntriesInv(entries) /\ JobInv /\ ReadersInv /\ LimitInv
    BY <1>1 DEF CoverageInv, TimelineInv
  <2>2. \A s \in Sources : Range(tables[s]) \subseteq Pool[s]
    BY <2>1 DEF BaseInv, Range
  <2>3. \A k \in DOMAIN entries : entries[k].source \in Sources /\ entries[k].id \in DOMAIN tables[entries[k].source]
    BY <2>1 DEF EntriesInv, Shown, Id, FactIds
  <2>4. MaxRebuilds \in Nat /\ Len(entries) \in Nat
    BY <2>1, SetupFacts DEF BaseInv, EntriesInv
  <2>5. ASSUME NEW c \in Range(Collectors)
        PROVE  projection[c].status \in {"none", "fresh", "stale"} /\ projection[c].generation \in 0 .. MaxRebuilds
               /\ projection[c].watermark \in 0 .. Len(entries)
    <3>1. PICK x : x = projection[c] /\ x \in ProjectionState /\ x.generation <= MaxRebuilds /\ x.watermark <= Len(entries)
      BY <2>1 DEF LimitInv
    <3>2. x.status \in {"none", "fresh", "stale"} /\ x.generation \in Nat /\ x.watermark \in Nat
      BY <3>1 DEF ProjectionState
    <3> QED BY <2>4, <3>1, <3>2
  <2>6. job.pc \in {"idle", "collect", "upsert", "page", "build", "answer"}
    <3>1. job = Idle => job.pc = "idle"
      BY DEF Idle
    <3>2. job \in TimelineJob => job.pc \in {"collect", "upsert", "page"}
      BY DEF TimelineJob
    <3>3. job \in CoverageJob => job.pc \in {"collect", "upsert", "build", "answer"}
      BY DEF CoverageJob
    <3>4. job = Idle \/ job \in TimelineJob \/ job \in CoverageJob
      BY <2>1 DEF JobInv
    <3> QED BY <3>1, <3>2, <3>3, <3>4
  <2>7. \A r \in Readers : reader[r].pc \in {"new", "paging", "refused", "done"} /\ reader[r].snapshot \in 0 .. Len(entries)
    BY <2>1 DEF ReadersInv, ReaderInv
  <2> QED BY <2>1, <2>2, <2>3, <2>5, <2>6, <2>7 DEF TypeOK, BaseInv
<1> QED BY <1>1, CoverageInvariant, PTL
=============================================================================
