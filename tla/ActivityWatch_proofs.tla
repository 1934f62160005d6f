------------------------ MODULE ActivityWatch_proofs ------------------------
(***************************************************************************)
(* What a poll of an ActivityWatch bucket promises, for any configuration, *)
(* bucket, page size and schedule of failures: the checkpoint and the      *)
(* heartbeat vouch for what they cover, and rows of one event differ in    *)
(* nothing but a duration that grows.                                      *)
(***************************************************************************)
EXTENDS ActivityWatch, FiniteSetTheorems, SequenceTheorems, WellFoundedInduction, TLAPS

-----------------------------------------------------------------------------
(* Numbers, sets and listings.                                             *)

\* A nonempty set of numbers has a least one.
LEMMA Least ==
  ASSUME NEW T, T \subseteq Nat, T # {}
  PROVE  \E x \in T : \A y \in T : x <= y
<1>1. PICK x \in T : \A y \in T : ~(<<y, x>> \in OpToRel(<, Nat))
  BY NatLessThanWellFounded, WFMin
<1>2. \A y \in T : ~(y < x)
  BY <1>1 DEF OpToRel
<1>3. \A y \in T : x <= y
  BY <1>2
<1> QED BY <1>3

\* Induction up to a bound, for a property given as a set.
LEMMA UpTo ==
  ASSUME NEW S, NEW N \in Nat, 0 \in S, \A n \in 0 .. N : n # N /\ n \in S => n + 1 \in S
  PROVE  \A n \in 0 .. N : n \in S
<1> SUFFICES ASSUME NEW k \in 0 .. N, k \notin S PROVE FALSE
  OBVIOUS
<1>1. PICK T : T = {n \in Nat : n <= N /\ n \notin S}
  OBVIOUS
<1>2. T \subseteq Nat /\ k \in T
  BY <1>1
<1>3. PICK x \in T : \A y \in T : x <= y
  BY <1>2, Least
<1>4. x \in Nat /\ x <= N /\ x \notin S /\ x # 0
  BY <1>1, <1>3
<1>5. x - 1 \in 0 .. N /\ x - 1 # N /\ (x - 1) + 1 = x /\ x - 1 < x /\ x - 1 \in Nat
  BY <1>4
<1>6. x - 1 \in T
  BY <1>1, <1>4, <1>5
<1> QED BY <1>3, <1>4, <1>5, <1>6

\* A listing of a finite set names each of its elements.
LEMMA ListingComplete ==
  ASSUME NEW S, IsFiniteSet(S), NEW f \in [1 .. Cardinality(S) -> S],
         \A m, n \in 1 .. Cardinality(S) : m < n => f[m] # f[n]
  PROVE  /\ Cardinality(S) \in Nat
         /\ \A x \in S : \E n \in 1 .. Cardinality(S) : f[n] = x
<1>1. PICK l : l = Cardinality(S) /\ l \in Nat
  BY FS_CardinalityType
<1>2. IsFiniteSet(1 .. l) /\ Cardinality(1 .. l) = l
  BY <1>1, FS_Interval
<1>3. \A m, n \in 1 .. l : f[m] = f[n] => m = n
  BY <1>1
<1>4. f \in Injection(1 .. l, S)
  BY <1>1, <1>3 DEF Injection, IsInjective
<1>5. f \in Surjection(1 .. l, S)
  BY <1>1, <1>2, <1>4, FS_Injection
<1> QED BY <1>1, <1>5 DEF Surjection

-----------------------------------------------------------------------------
(* The keys of a bucket's rows.                                            *)

LEMMA KeyFacts ==
  ASSUME NEW i, NEW j, NEW d, NEW e
  PROVE  /\ Head(BaseKey(i)) = i /\ Head(RevisionKey(i, d)) = i
         /\ BaseKey(i) = BaseKey(j) => i = j
         /\ RevisionKey(i, d) = RevisionKey(j, e) => i = j /\ d = e
         /\ BaseKey(i) # RevisionKey(j, d)
BY DEF BaseKey, RevisionKey

-----------------------------------------------------------------------------
(* A batch is appended item by item.                                       *)

\* The table and the results after one more item.
Then(w, item) ==
  [rows |-> AppendOne(w.rows, item).rows, results |-> Append(w.results, AppendOne(w.rows, item).result)]

\* What a table looks like after the first n items.
Run(rows, batch, f, n) ==
  f = [k \in 0 .. n |-> IF k = 0 THEN [rows |-> rows, results |-> <<>>] ELSE Then(f[k - 1], batch[k])]

LEMMA RunLonger ==
  ASSUME NEW rows, NEW batch, NEW n \in Nat, NEW f, Run(rows, batch, f, n)
  PROVE  \E g : Run(rows, batch, g, n + 1)
<1>1. PICK g : g = [k \in 0 .. n + 1 |-> IF k \in 0 .. n THEN f[k] ELSE Then(f[n], batch[n + 1])]
  OBVIOUS
<1>2. DOMAIN f = 0 .. n /\ DOMAIN g = 0 .. n + 1 /\ \A k \in 0 .. n : g[k] = f[k]
  BY <1>1 DEF Run
<1>3. f[0] = [rows |-> rows, results |-> <<>>] /\ \A k \in 0 .. n : k # 0 => f[k] = Then(f[k - 1], batch[k])
  BY DEF Run
<1>4. ASSUME NEW k \in 0 .. n + 1
      PROVE  g[k] = IF k = 0 THEN [rows |-> rows, results |-> <<>>] ELSE Then(g[k - 1], batch[k])
  <2>1. CASE k = 0
    BY <1>2, <1>3, <2>1
  <2>2. CASE k # 0
    <3>1. k - 1 \in 0 .. n
      BY <1>4, <2>2
    <3>2. g[k - 1] = f[k - 1]
      BY <1>2, <3>1
    <3>3. CASE k \in 0 .. n
      BY <1>2, <1>3, <2>2, <3>2, <3>3
    <3>4. CASE k = n + 1
      <4>1. k \notin 0 .. n /\ k - 1 = n
        BY <3>4
      <4> QED BY <1>1, <1>4, <2>2, <3>2, <3>4, <4>1
    <3> QED BY <1>4, <3>3, <3>4
  <2> QED BY <2>1, <2>2
<1>5. g = [k \in 0 .. n + 1 |-> IF k = 0 THEN [rows |-> rows, results |-> <<>>] ELSE Then(g[k - 1], batch[k])]
  <2>1. g = [k \in 0 .. n + 1 |-> g[k]]
    BY <1>1
  <2> QED BY <1>4, <2>1
<1> QED BY <1>5 DEF Run

\* So the recursion of AppendBatch has a solution, and it computes that.
LEMMA BatchRun ==
  ASSUME NEW rows, NEW batch, Len(batch) \in Nat
  PROVE  \E f : Run(rows, batch, f, Len(batch)) /\ AppendBatch(rows, batch) = f[Len(batch)]
<1>1. PICK l : l = Len(batch) /\ l \in Nat
  OBVIOUS
<1>2. PICK S : S = {n \in Nat : \E f : Run(rows, batch, f, n)}
  OBVIOUS
<1>3. 0 \in S
  <2>1. PICK f : f = [k \in 0 .. 0 |-> [rows |-> rows, results |-> <<>>]]
    OBVIOUS
  <2>2. \A k \in 0 .. 0 : k = 0
    OBVIOUS
  <2>3. Run(rows, batch, f, 0)
    BY <2>1, <2>2 DEF Run
  <2> QED BY <1>2, <2>3
<1>4. \A n \in 0 .. l : n # l /\ n \in S => n + 1 \in S
  BY <1>2, RunLonger
<1>5. l \in S
  <2>1. \A n \in 0 .. l : n \in S
    BY <1>1, <1>3, <1>4, UpTo
  <2> QED BY <1>1, <2>1
<1>6. \E f : Run(rows, batch, f, l)
  BY <1>2, <1>5
<1> QED BY <1>1, <1>6 DEF Run, AppendBatch, Then

AwKey == {BaseKey(i) : i \in Nat} \cup {RevisionKey(i, d) : i \in Nat, d \in Nat}
AwRow == [collector : {"aw"}, key : AwKey, content : Event]
Base  == {Candidate(k, e) : k \in AwKey, e \in Event}
Verdict == [status : {"accepted", "duplicate", "conflict", "rejected"}, id : Nat]

UniqueKeys(rows) == \A m, n \in DOMAIN rows : rows[m].key = rows[n].key => m = n

LEMMA CandidateFacts ==
  ASSUME NEW item \in Base
  PROVE  /\ item.valid /\ RowOf(item) \in AwRow
         /\ RowOf(item).key = item.key /\ RowOf(item).content = item.content
         /\ KeyOf(item) = <<"aw", item.key>>
         /\ \A row \in AwRow : KeyOf(row) = <<"aw", row.key>>
         /\ \A row \in AwRow : row.key = item.key /\ row.content = item.content => row = RowOf(item)
BY DEF Base, Candidate, RowOf, KeyOf, AwRow

\* What one item does to a table: nothing, when its key is there, or one row more.
Added(rows, item, one) ==
  /\ one.rows \in Seq(AwRow) /\ one.result \in Verdict /\ UniqueKeys(one.rows)
  /\ Len(rows) <= Len(one.rows) /\ \A m \in 1 .. Len(rows) : one.rows[m] = rows[m]
  /\ \A m \in 1 .. Len(one.rows) : m <= Len(rows) \/ one.rows[m] = RowOf(item)
  /\ \E m \in 1 .. Len(one.rows) :
       /\ one.rows[m].key = item.key
       /\ one.result.status = "conflict" <=> one.rows[m] # RowOf(item)

LEMMA OneItem ==
  ASSUME NEW rows \in Seq(AwRow), UniqueKeys(rows), NEW item \in Base, NEW one, one = AppendOne(rows, item)
  PROVE  Added(rows, item, one)
<1>2. CASE KeyOf(item) \in Keys(rows)
  <2>1. PICK id : id = RowId(rows, KeyOf(item))
    OBVIOUS
  <2>2. id \in DOMAIN rows /\ KeyOf(rows[id]) = KeyOf(item)
    BY <1>2, <2>1 DEF Keys, RowId
  <2>3. id \in 1 .. Len(rows) /\ rows[id] \in AwRow
    BY <2>2
  <2>4. rows[id].key = item.key
    BY <2>2, <2>3, CandidateFacts
  <2>5. one = [rows |-> rows,
               result |-> [status |-> IF rows[id].content = item.content THEN "duplicate" ELSE "conflict", id |-> id]]
    BY <1>2, <2>1, CandidateFacts DEF AppendOne, Existing
  <2>6. one.result.status = "conflict" <=> rows[id] # RowOf(item)
    BY <2>3, <2>4, <2>5, CandidateFacts
  <2>7. one.rows = rows /\ one.result \in Verdict
    BY <2>3, <2>5 DEF Verdict
  <2> QED BY <2>3, <2>4, <2>6, <2>7 DEF Added
<1>3. CASE KeyOf(item) \notin Keys(rows)
  <2>1. PICK more, row : more = Append(rows, row) /\ row = RowOf(item)
    OBVIOUS
  <2>2. one = [rows |-> more, result |-> [status |-> "accepted", id |-> Len(rows) + 1]]
    BY <1>3, <2>1, CandidateFacts DEF AppendOne
  <2>3. row \in AwRow /\ row.key = item.key
    BY <2>1, CandidateFacts
  <2>4. /\ more \in Seq(AwRow) /\ Len(more) = Len(rows) + 1 /\ more[Len(rows) + 1] = row
        /\ \A m \in 1 .. Len(rows) : more[m] = rows[m]
    BY <2>1, <2>3
  <2>5. \A m \in 1 .. Len(rows) : rows[m].key # item.key
    <3>1. \A m \in 1 .. Len(rows) : rows[m] \in AwRow /\ KeyOf(rows[m]) # KeyOf(item)
      BY <1>3 DEF Keys
    <3> QED BY <3>1, CandidateFacts
  <2>6. UniqueKeys(more)
    <3> SUFFICES ASSUME NEW m \in 1 .. Len(rows) + 1, NEW n \in 1 .. Len(rows) + 1, more[m].key = more[n].key
                 PROVE  m = n
      BY <2>4 DEF UniqueKeys
    <3>1. CASE m \in 1 .. Len(rows) /\ n \in 1 .. Len(rows)
      BY <2>4, <3>1 DEF UniqueKeys
    <3>2. CASE m = Len(rows) + 1 /\ n \in 1 .. Len(rows)
      BY <2>3, <2>4, <2>5, <3>2
    <3>3. CASE n = Len(rows) + 1 /\ m \in 1 .. Len(rows)
      BY <2>3, <2>4, <2>5, <3>3
    <3> QED BY <3>1, <3>2, <3>3
  <2>7. one.result \in Verdict /\ one.rows = more /\ one.result.status = "accepted"
    BY <2>2 DEF Verdict
  <2>8. \A m \in 1 .. Len(more) : m <= Len(rows) \/ more[m] = row
    BY <2>4
  <2>9. Len(rows) + 1 \in 1 .. Len(more) /\ Len(rows) <= Len(more)
    BY <2>4
  <2>10. one.rows[Len(rows) + 1].key = item.key /\ (one.result.status = "conflict" <=> one.rows[Len(rows) + 1] # RowOf(item))
    BY <2>1, <2>3, <2>4, <2>7
  <2> QED BY <2>1, <2>4, <2>6, <2>7, <2>8, <2>9, <2>10 DEF Added
<1> QED BY <1>2, <1>3

\* A table after the first n items of a batch.
Appended(rows, batch, n, w) ==
  /\ w.rows \in Seq(AwRow) /\ w.results \in Seq(Verdict) /\ UniqueKeys(w.rows)
  /\ Len(w.results) = n
  /\ Len(rows) <= Len(w.rows) /\ \A m \in 1 .. Len(rows) : w.rows[m] = rows[m]
  /\ \A m \in 1 .. Len(w.rows) : m <= Len(rows) \/ \E k \in 1 .. n : w.rows[m] = RowOf(batch[k])
  /\ \A k \in 1 .. n : \E m \in 1 .. Len(w.rows) :
       /\ w.rows[m].key = batch[k].key
       /\ w.results[k].status = "conflict" <=> w.rows[m] # RowOf(batch[k])

LEMMA AppendedMore ==
  ASSUME NEW rows \in Seq(AwRow), NEW batch \in Seq(Base), NEW n \in Nat, n + 1 \in 1 .. Len(batch),
         NEW w, Appended(rows, batch, n, w)
  PROVE  Appended(rows, batch, n + 1, Then(w, batch[n + 1]))
<1>1. PICK item, one, v : item = batch[n + 1] /\ one = AppendOne(w.rows, item) /\ v = Then(w, item)
  OBVIOUS
<1>2. item \in Base
  BY <1>1
<1>3. w.rows \in Seq(AwRow) /\ w.results \in Seq(Verdict) /\ UniqueKeys(w.rows) /\ Len(w.results) = n
  BY DEF Appended
<1>4. /\ one.rows \in Seq(AwRow) /\ one.result \in Verdict /\ UniqueKeys(one.rows)
      /\ Len(w.rows) <= Len(one.rows) /\ \A m \in 1 .. Len(w.rows) : one.rows[m] = w.rows[m]
      /\ \A m \in 1 .. Len(one.rows) : m <= Len(w.rows) \/ one.rows[m] = RowOf(item)
      /\ \E m \in 1 .. Len(one.rows) :
           /\ one.rows[m].key = item.key
           /\ one.result.status = "conflict" <=> one.rows[m] # RowOf(item)
  <2>1. Added(w.rows, item, one)
    BY <1>1, <1>2, <1>3, OneItem
  <2> QED BY <2>1 DEF Added
<1>5. v.rows = one.rows /\ v.results = Append(w.results, one.result)
  BY <1>1 DEF Then
<1>6. /\ v.results \in Seq(Verdict) /\ Len(v.results) = n + 1 /\ v.results[n + 1] = one.result
      /\ \A k \in 1 .. n : v.results[k] = w.results[k]
  BY <1>3, <1>4, <1>5
<1>7. Len(rows) <= Len(v.rows) /\ \A m \in 1 .. Len(rows) : v.rows[m] = rows[m]
  <2>1. Len(rows) \in Nat /\ Len(w.rows) \in Nat /\ Len(one.rows) \in Nat /\ Len(rows) <= Len(w.rows)
    BY <1>3, <1>4 DEF Appended
  <2>2. Len(rows) <= Len(one.rows) /\ \A m \in 1 .. Len(rows) : m \in 1 .. Len(w.rows)
    BY <1>4, <2>1
  <2>3. \A m \in 1 .. Len(rows) : w.rows[m] = rows[m]
    BY DEF Appended
  <2> QED BY <1>4, <1>5, <2>2, <2>3
<1>8. ASSUME NEW m \in 1 .. Len(v.rows), ~(m <= Len(rows))
      PROVE  \E k \in 1 .. n + 1 : v.rows[m] = RowOf(batch[k])
  <2>1. CASE m <= Len(w.rows)
    <3>1. m \in 1 .. Len(w.rows)
      BY <1>3, <1>4, <1>5, <1>8, <2>1
    <3>2. PICK k \in 1 .. n : w.rows[m] = RowOf(batch[k])
      BY <1>8, <3>1 DEF Appended
    <3>3. k \in 1 .. n + 1
      BY <3>2
    <3> QED BY <1>4, <1>5, <3>1, <3>2, <3>3
  <2>2. CASE ~(m <= Len(w.rows))
    <3>1. v.rows[m] = RowOf(batch[n + 1]) /\ n + 1 \in 1 .. n + 1
      BY <1>1, <1>4, <1>5, <1>8, <2>2
    <3> QED BY <3>1
  <2> QED BY <2>1, <2>2
<1>9. ASSUME NEW k \in 1 .. n + 1
      PROVE  \E m \in 1 .. Len(v.rows) :
               /\ v.rows[m].key = batch[k].key
               /\ v.results[k].status = "conflict" <=> v.rows[m] # RowOf(batch[k])
  <2>1. CASE k \in 1 .. n
    <3>1. PICK m \in 1 .. Len(w.rows) :
            /\ w.rows[m].key = batch[k].key
            /\ w.results[k].status = "conflict" <=> w.rows[m] # RowOf(batch[k])
      BY <2>1 DEF Appended
    <3>2. m \in 1 .. Len(v.rows)
      BY <1>3, <1>4, <1>5, <3>1
    <3> QED BY <1>4, <1>5, <1>6, <2>1, <3>1, <3>2
  <2>2. CASE k = n + 1
    BY <1>1, <1>4, <1>5, <1>6, <2>2
  <2> QED BY <1>9, <2>1, <2>2
<1>10. Appended(rows, batch, n + 1, v)
  BY <1>4, <1>5, <1>6, <1>7, <1>8, <1>9 DEF Appended
<1> QED BY <1>1, <1>10

\* A whole batch.
LEMMA BatchAppended ==
  ASSUME NEW rows \in Seq(AwRow), UniqueKeys(rows), NEW batch \in Seq(Base)
  PROVE  Appended(rows, batch, Len(batch), AppendBatch(rows, batch))
<1>1. PICK l : l = Len(batch) /\ l \in Nat
  OBVIOUS
<1>2. PICK f : Run(rows, batch, f, l) /\ AppendBatch(rows, batch) = f[l]
  BY <1>1, BatchRun
<1>3. f[0] = [rows |-> rows, results |-> <<>>] /\ \A n \in 0 .. l : n # 0 => f[n] = Then(f[n - 1], batch[n])
  BY <1>1, <1>2 DEF Run
<1>4. PICK S : S = {n \in Nat : Appended(rows, batch, n, f[n])}
  OBVIOUS
<1>5. 0 \in S
  <2>1. <<>> \in Seq(Verdict) /\ Len(<<>>) = 0 /\ 1 .. 0 = {}
    OBVIOUS
  <2>2. f[0].rows = rows /\ f[0].results = <<>>
    BY <1>3
  <2>3. \A m \in 1 .. Len(rows) : m <= Len(rows)
    OBVIOUS
  <2>4. Appended(rows, batch, 0, f[0])
    BY <2>1, <2>2, <2>3 DEF Appended
  <2> QED BY <1>4, <2>4
<1>6. ASSUME NEW n \in 0 .. l, n # l, n \in S PROVE n + 1 \in S
  <2>1. n \in Nat /\ n + 1 \in 1 .. Len(batch) /\ n + 1 \in 0 .. l /\ n + 1 # 0 /\ (n + 1) - 1 = n
    BY <1>1, <1>6
  <2>2. f[n + 1] = Then(f[n], batch[n + 1])
    BY <1>3, <2>1
  <2>3. Appended(rows, batch, n + 1, f[n + 1])
    BY <1>4, <1>6, <2>1, <2>2, AppendedMore
  <2> QED BY <1>4, <2>1, <2>3
<1>7. l \in S
  <2>1. \A n \in 0 .. l : n \in S
    BY <1>1, <1>5, <1>6, UpTo
  <2> QED BY <1>1, <2>1
<1> QED BY <1>1, <1>2, <1>4, <1>7

-----------------------------------------------------------------------------
(* The inductive invariant: what holds of any bucket.                      *)

EventOf(row) == Head(row.key)
AwItem == [id : Nat, ev : Event]
Seens == UNION {[D -> Event] : D \in SUBSET Nat}

Running ==
  [pc : {"page", "write", "revise", "beat"}, now : Nat, start : Int, pageEnd : Int, pages : Nat,
   seen : Seens, todo : Seq(AwItem), revise : Seq(AwItem), last : (Nat \X Nat) \cup {NoTuple}]

\* Events are of the past.
BucketInv ==
  /\ setup \in Setups /\ clock \in Nat /\ clock <= MaxTime
  /\ source \in Seq(Event) /\ Len(source) <= MaxEvents
  /\ \A i \in DOMAIN source : End(source[i]) <= clock
  /\ budget \in [rewrites : Nat, faults : Nat, crashes : Nat] /\ budget.rewrites <= setup.rewrites
  /\ status \in Outcomes

\* A copy of an event of the bucket, no longer than the event.
CopyOf(i, e) == i \in DOMAIN source /\ e.start = source[i].start /\ e.dur <= source[i].dur

\* Each row is a copy of an event, under its base key or that of its duration, and
\* the base row is the first; later rows differ in a longer duration only.
RowsInv ==
  /\ rawEvents \in Seq(AwRow) /\ UniqueKeys(rawEvents)
  /\ \A n \in DOMAIN rawEvents :
       /\ CopyOf(EventOf(rawEvents[n]), rawEvents[n].content)
       /\ \/ rawEvents[n].key = BaseKey(EventOf(rawEvents[n]))
          \/ rawEvents[n].key = RevisionKey(EventOf(rawEvents[n]), rawEvents[n].content.dur)
       /\ \E m \in DOMAIN rawEvents : m <= n /\ rawEvents[m].key = BaseKey(EventOf(rawEvents[n]))
  /\ \A m, n \in DOMAIN rawEvents :
       m < n /\ EventOf(rawEvents[m]) = EventOf(rawEvents[n]) =>
         /\ rawEvents[m].content.data = rawEvents[n].content.data
         /\ rawEvents[m].content.dur < rawEvents[n].content.dur

\* The last event of a batch, or the one the checkpoint is at.
At(tuple, k) == k \in DOMAIN source /\ tuple = <<source[k].start, k>>

\* A poll reads copies of events from its range, and writes those that ended.
PollInv ==
  poll # Idle =>
    /\ poll \in Running /\ poll.now <= clock
    /\ poll.pc = "beat" => poll.start >= Cutoff
    /\ poll.pc # "revise" => poll.revise = <<>>
    /\ \A i \in DOMAIN poll.seen : CopyOf(i, poll.seen[i]) /\ poll.start <= poll.seen[i].start
    /\ \A n \in DOMAIN poll.todo :
         /\ CopyOf(poll.todo[n].id, poll.todo[n].ev) /\ poll.start <= poll.todo[n].ev.start
         /\ End(poll.todo[n].ev) < Cutoff
    /\ \A n \in DOMAIN poll.revise :
         /\ CopyOf(poll.revise[n].id, poll.revise[n].ev) /\ poll.start <= poll.revise[n].ev.start
         /\ End(poll.revise[n].ev) < Cutoff
    /\ poll.pc = "revise" => \E k \in DOMAIN source : At(poll.last, k) /\ poll.start <= source[k].start

CheckpointInv ==
  checkpoint # NoTuple =>
    /\ \E k \in DOMAIN source : At(checkpoint, k)
    /\ poll # Idle => poll.start <= checkpoint[1]

\* Nobody edited the bucket: every copy of an event says so.
EditInv ==
  Unedited =>
    /\ \A i \in DOMAIN source : source[i].data = 0
    /\ \A n \in DOMAIN rawEvents : rawEvents[n].content.data = 0
    /\ poll # Idle =>
         /\ \A i \in DOMAIN poll.seen : poll.seen[i].data = 0
         /\ \A n \in DOMAIN poll.todo : poll.todo[n].ev.data = 0
         /\ \A n \in DOMAIN poll.revise : poll.revise[n].ev.data = 0

TypeInv == BucketInv /\ RowsInv /\ PollInv /\ CheckpointInv /\ EditInv

-----------------------------------------------------------------------------
(* What holds of a bucket whose events do not overlap.                     *)

Apart ==
  \A i, j \in DOMAIN source : i < j => source[i].start < source[j].start /\ End(source[i]) <= source[j].start

\* Rows of an event are no longer than a copy.
NoLonger(i, e) ==
  \A n \in DOMAIN rawEvents : EventOf(rawEvents[n]) = i => rawEvents[n].content.dur <= e.dur

\* Stored durations ended before any cutoff to come.
EndedInv ==
  \A n \in DOMAIN rawEvents :
    /\ End(rawEvents[n].content) < clock - AllowedLateness
    /\ poll # Idle => End(rawEvents[n].content) < Cutoff

\* Pages follow each other at the start of the oldest event seen.
PageInv ==
  poll # Idle /\ poll.pc = "page" =>
    /\ poll.pageEnd <= Cutoff
    /\ poll.pageEnd = Cutoff \/ \E k \in DOMAIN poll.seen : poll.seen[k].start = poll.pageEnd
    /\ \A i \in DOMAIN poll.seen : NoLonger(i, poll.seen[i])

\* What is left to write is in the order of the bucket and as long as its rows; what
\* is left to revise differs from its base row.
WriteInv ==
  poll # Idle =>
    /\ \A m, n \in DOMAIN poll.todo : m < n => poll.todo[m].id < poll.todo[n].id
    /\ \A m, n \in DOMAIN poll.revise : m < n => poll.revise[m].id < poll.revise[n].id
    /\ \A m \in DOMAIN poll.revise, n \in DOMAIN poll.todo : poll.revise[m].id < poll.todo[n].id
    /\ \A n \in DOMAIN poll.todo : NoLonger(poll.todo[n].id, poll.todo[n].ev)
    /\ \A n \in DOMAIN poll.revise :
         /\ NoLonger(poll.revise[n].id, poll.revise[n].ev)
         /\ \E m \in DOMAIN rawEvents :
              rawEvents[m].key = BaseKey(poll.revise[n].id) /\ rawEvents[m].content # poll.revise[n].ev

\* An event of a poll's range that ended before its cutoff.
Due(i) == poll.start <= source[i].start /\ End(source[i]) < Cutoff

\* Reading: a copy is whole or reaches the cutoff, and nothing due was missed.
ReadInv ==
  poll # Idle /\ poll.pc = "page" =>
    /\ \A i \in DOMAIN poll.seen :
         IF End(source[i]) < Cutoff THEN poll.seen[i].dur = source[i].dur ELSE End(poll.seen[i]) >= Cutoff
    /\ \A i \in DOMAIN source : Due(i) /\ poll.pageEnd <= source[i].start => i \in DOMAIN poll.seen

Ids(items) == {items[n].id : n \in DOMAIN items}

\* Writing: copies are whole, and what is due is stored or still to be written.
ImportInv ==
  poll # Idle /\ poll.pc \in {"write", "revise"} =>
    /\ \A n \in DOMAIN poll.todo : poll.todo[n].ev.dur = source[poll.todo[n].id].dur
    /\ \A n \in DOMAIN poll.revise : poll.revise[n].ev.dur = source[poll.revise[n].id].dur
    /\ \A i \in DOMAIN source : Due(i) => StoredWhole(i) \/ i \in Ids(poll.todo) \/ i \in Ids(poll.revise)
    /\ poll.pc = "revise" =>
         \E k \in DOMAIN source : At(poll.last, k) /\ End(source[k]) < Cutoff /\ \A i \in Ids(poll.todo) : k < i

\* The checkpoint and the heartbeat vouch for what can no longer change.
VouchInv ==
  /\ checkpoint # NoTuple => \E k \in DOMAIN source : At(checkpoint, k) /\ End(source[k]) < clock - AllowedLateness
  /\ \A i \in DOMAIN source : Passed(i) => StoredWhole(i)
  /\ \A b \in beat : b.at \in Nat /\ b.at <= clock /\ b.from \in Int
  /\ \A b \in beat, i \in DOMAIN source :
       source[i].start >= b.from /\ End(source[i]) < b.at - AllowedLateness => StoredWhole(i)

ApartInv ==
  /\ Apart /\ EndedInv /\ PageInv /\ WriteInv
  /\ Unedited => status \notin {"conflict", "invalid"}
  /\ Settled => ReadInv /\ ImportInv /\ VouchInv

-----------------------------------------------------------------------------
(* The bucket grows.                                                       *)

LEMMA SetupFacts ==
  ASSUME BucketInv
  PROVE  /\ MaxEvents \in Nat /\ Pulse \in Nat /\ MaxTime \in Nat /\ AllowedLateness \in Nat
         /\ PageSize \in Nat /\ PageSize >= 1 /\ RescanWindow \in Nat /\ setup.rewrites \in Nat
         /\ InitialLookback \in Nat
BY ConfigAssumption DEF BucketInv, SetupFields, MaxEvents, Pulse, InitialLookback

LEMMA EventFacts ==
  ASSUME BucketInv, NEW e \in Event
  PROVE  /\ e.start \in Nat /\ e.dur \in Nat /\ e.start <= MaxTime /\ e.dur <= MaxTime /\ End(e) = e.start + e.dur
         /\ e = [start |-> e.start, dur |-> e.dur, data |-> e.data] /\ e.data \in {0, 1}
BY SetupFacts DEF Event, End

LEMMA SourceFacts ==
  ASSUME BucketInv, NEW i \in DOMAIN source
  PROVE  /\ i \in Nat /\ i >= 1 /\ i <= Len(source) /\ source[i] \in Event
         /\ source[i].start \in Nat /\ source[i].dur \in Nat /\ End(source[i]) = source[i].start + source[i].dur
         /\ End(source[i]) <= clock
<1>1. i \in Nat /\ i >= 1 /\ i <= Len(source) /\ source[i] \in Event
  BY DEF BucketInv
<1> QED BY <1>1, EventFacts DEF BucketInv

\* Events start late by at most the allowed lateness, keep their start, and when
\* they settle in time are extended only while they are that recent.
Grows ==
  /\ clock' \in Nat /\ clock <= clock' /\ DOMAIN source \subseteq DOMAIN source'
  /\ \A i \in DOMAIN source :
       /\ source'[i].start = source[i].start /\ source[i].dur <= source'[i].dur
       /\ Unedited' => source'[i].data = source[i].data
       /\ Settled => source'[i].dur = source[i].dur \/ End(source[i]) >= clock - AllowedLateness
  /\ \A i \in DOMAIN source' : i \in DOMAIN source \/ (source'[i].start >= clock - AllowedLateness /\ source'[i].data = 0)

LEMMA BucketGrows ==
  ASSUME TypeInv, Bucket, UNCHANGED setup
  PROVE  BucketInv' /\ Grows /\ UNCHANGED core /\ (Unedited' => Unedited)
<1> USE DEF TypeInv
<1>0. /\ source \in Seq(Event) /\ Len(source) \in Nat /\ DOMAIN source = 1 .. Len(source) /\ clock \in Nat
      /\ budget \in [rewrites : Nat, faults : Nat, crashes : Nat]
  BY DEF BucketInv
<1>1. CASE Tick
  <2>1. clock' = clock + 1 /\ source' = source /\ UNCHANGED core /\ budget' = budget /\ clock' \in Nat /\ clock' <= MaxTime
    BY <1>0, <1>1, SetupFacts DEF Tick, BucketInv
  <2>2. UNCHANGED status
    BY <2>1 DEF core
  <2>3. \A i \in DOMAIN source : End(source'[i]) <= clock'
    <3> SUFFICES ASSUME NEW i \in DOMAIN source PROVE End(source[i]) <= clock'
      BY <2>1
    <3> QED BY <1>0, <2>1, SourceFacts
  <2>4. BucketInv'
    BY <2>1, <2>2, <2>3 DEF BucketInv, MaxEvents
  <2>5. Grows
    <3>1. \A i \in DOMAIN source : source[i].dur \in Nat
      BY SourceFacts
    <3> QED BY <1>0, <2>1, <3>1, SetupFacts DEF Grows
  <2> QED BY <2>1, <2>4, <2>5 DEF Unedited
<1>2. ASSUME NEW t \in 0 .. MaxTime, StartEvent(t) PROVE BucketInv' /\ Grows /\ UNCHANGED core /\ (Unedited' => Unedited)
  <2>1. PICK e : e = [start |-> t, dur |-> 0, data |-> 0]
    OBVIOUS
  <2>2. /\ source' = Append(source, e) /\ t >= clock - AllowedLateness /\ t <= clock /\ Len(source) < MaxEvents
        /\ clock' = clock /\ UNCHANGED core /\ budget' = budget
    BY <1>2, <2>1 DEF StartEvent
  <2>3. e \in Event /\ End(e) = t
    BY <2>1, SetupFacts DEF Event, End
  <2>4. /\ source' \in Seq(Event) /\ Len(source') = Len(source) + 1 /\ DOMAIN source' = 1 .. Len(source) + 1
        /\ source'[Len(source) + 1] = e /\ \A i \in DOMAIN source : source'[i] = source[i]
    BY <1>0, <2>2, <2>3
  <2>5. \A i \in DOMAIN source' : i \in DOMAIN source \/ source'[i] = e
    BY <1>0, <2>4
  <2>6. \A i \in DOMAIN source' : End(source'[i]) <= clock'
    BY <2>2, <2>3, <2>4, <2>5 DEF BucketInv
  <2>7. Len(source') <= MaxEvents
    BY <1>0, <2>2, <2>4, SetupFacts
  <2>8. UNCHANGED status
    BY <2>2 DEF core
  <2>9. BucketInv'
    BY <2>2, <2>4, <2>6, <2>7, <2>8 DEF BucketInv, MaxEvents
  <2>10. Grows
    <3>1. \A i \in DOMAIN source : source[i].dur \in Nat
      BY SourceFacts
    <3>2. e.start = t /\ e.data = 0
      BY <2>1
    <3>3. DOMAIN source \subseteq DOMAIN source'
      BY <1>0, <2>4
    <3> QED BY <1>0, <2>2, <2>4, <2>5, <3>1, <3>2, <3>3 DEF Grows
  <2> QED BY <2>2, <2>9, <2>10 DEF Unedited
<1>3. ASSUME NEW i \in DOMAIN source, ExtendEvent(i) PROVE BucketInv' /\ Grows /\ UNCHANGED core /\ (Unedited' => Unedited)
  <2>1. PICK e, s : e = source[i] /\ s = [e EXCEPT !.dur = clock - e.start]
    OBVIOUS
  <2>2. e \in Event /\ e.start \in Nat /\ e.dur \in Nat /\ End(e) = e.start + e.dur
    BY <2>1, SourceFacts
  <2>3. /\ source' = [source EXCEPT ![i].dur = clock - source[i].start] /\ End(e) < clock /\ End(e) >= clock - Pulse
        /\ clock' = clock /\ UNCHANGED core /\ budget' = budget
    BY <1>3, <2>1 DEF ExtendEvent
  <2>4. s \in Event /\ s.start = e.start /\ s.dur = clock - e.start /\ s.data = e.data /\ End(s) = clock /\ e.dur <= s.dur
    <3>1. clock - e.start \in 0 .. MaxTime
      <4>1. clock <= MaxTime
        BY DEF BucketInv
      <4>2. MaxTime \in Nat /\ clock \in Nat /\ e.start \in Nat /\ e.dur \in Nat /\ e.start + e.dur < clock
        <5>1. End(e) < clock /\ End(e) = e.start + e.dur
          BY <2>2, <2>3
        <5> QED BY <1>0, <2>2, <5>1, SetupFacts
      <4>3. \A c, t, s0, d \in Nat : s0 + d < c /\ c <= t => c - s0 \in 0 .. t
        OBVIOUS
      <4> QED BY <4>1, <4>2, <4>3
    <3>2. s.start = e.start /\ s.dur = clock - e.start /\ s.data = e.data /\ s \in Event
      BY <2>1, <2>2, <3>1 DEF Event
    <3> QED BY <1>0, <2>2, <2>3, <3>2 DEF End
  <2>5. source' = [source EXCEPT ![i] = s]
    BY <2>1, <2>3
  <2>6. /\ source' \in Seq(Event) /\ Len(source') = Len(source) /\ DOMAIN source' = DOMAIN source
        /\ source'[i] = s /\ \A j \in DOMAIN source : j # i => source'[j] = source[j]
    BY <1>0, <2>4, <2>5
  <2>7. \A j \in DOMAIN source' : End(source'[j]) <= clock'
    BY <1>0, <2>3, <2>4, <2>6 DEF BucketInv
  <2>8. UNCHANGED status
    BY <2>3 DEF core
  <2>9. BucketInv'
    BY <2>3, <2>6, <2>7, <2>8 DEF BucketInv, MaxEvents
  <2>10. Grows
    <3>1. \A j \in DOMAIN source : source[j].dur \in Nat
      BY SourceFacts
    <3>2. Settled => End(e) >= clock - AllowedLateness
      BY <1>0, <2>2, <2>3, SetupFacts DEF Settled
    <3> QED BY <1>0, <2>1, <2>3, <2>4, <2>6, <3>1, <3>2 DEF Grows
  <2> QED BY <2>3, <2>9, <2>10 DEF Unedited
<1>4. ASSUME NEW i \in DOMAIN source, RewriteEvent(i) PROVE BucketInv' /\ Grows /\ UNCHANGED core /\ (Unedited' => Unedited)
  <2>1. PICK e, s : e = source[i] /\ s = [e EXCEPT !.data = 1 - @]
    OBVIOUS
  <2>2. e \in Event /\ e.start \in Nat /\ e.dur \in Nat /\ End(e) = e.start + e.dur /\ End(e) <= clock
    BY <2>1, SourceFacts
  <2>3. /\ source' = [source EXCEPT ![i].data = 1 - @] /\ budget.rewrites > 0
        /\ budget' = [budget EXCEPT !.rewrites = @ - 1] /\ clock' = clock /\ UNCHANGED core
    BY <1>4 DEF RewriteEvent
  <2>4. s \in Event /\ s.start = e.start /\ s.dur = e.dur /\ End(s) = End(e)
    BY <2>1, <2>2 DEF Event, End
  <2>5. source' = [source EXCEPT ![i] = s]
    BY <2>1, <2>3
  <2>6. /\ source' \in Seq(Event) /\ Len(source') = Len(source) /\ DOMAIN source' = DOMAIN source
        /\ source'[i] = s /\ \A j \in DOMAIN source : j # i => source'[j] = source[j]
    BY <1>0, <2>4, <2>5
  <2>7. \A j \in DOMAIN source' : End(source'[j]) <= clock'
    BY <1>0, <2>2, <2>3, <2>4, <2>6 DEF BucketInv
  <2>8. UNCHANGED status
    BY <2>3 DEF core
  <2>9. /\ budget' \in [rewrites : Nat, faults : Nat, crashes : Nat] /\ budget'.rewrites = budget.rewrites - 1
        /\ budget.rewrites \in Nat /\ budget.rewrites <= setup.rewrites
    BY <1>0, <2>3 DEF BucketInv
  <2>10. ~Unedited' /\ budget'.rewrites <= setup.rewrites
    BY <2>9, SetupFacts DEF Unedited
  <2>11. BucketInv'
    BY <2>3, <2>6, <2>7, <2>8, <2>9, <2>10 DEF BucketInv, MaxEvents
  <2>12. Grows
    <3>1. \A j \in DOMAIN source : source[j].dur \in Nat
      BY SourceFacts
    <3> QED BY <1>0, <2>1, <2>3, <2>4, <2>6, <2>10, <3>1 DEF Grows
  <2> QED BY <2>3, <2>10, <2>11, <2>12
<1> QED BY <1>1, <1>2, <1>3, <1>4 DEF Bucket

\* What a bucket that grows leaves true of the rows and of a poll.
LEMMA GrowKeepsCopies ==
  ASSUME BucketInv, BucketInv', Grows, NEW i, NEW e, e.dur \in Nat, CopyOf(i, e)
  PROVE  i \in DOMAIN source' /\ e.start = source'[i].start /\ e.dur <= source'[i].dur
<1>1. i \in DOMAIN source /\ source'[i].start = source[i].start /\ source[i].dur <= source'[i].dur /\ i \in DOMAIN source'
  BY DEF CopyOf, Grows
<1>2. source[i].dur \in Nat
  BY <1>1, SourceFacts
<1>3. source'[i].dur \in Nat
  <2>1. source' \in Seq(Event)
    BY DEF BucketInv
  <2>2. source'[i] \in Event
    BY <1>1, <2>1
  <2> QED BY <2>2, SetupFacts DEF Event
<1> QED BY <1>1, <1>2, <1>3 DEF CopyOf

LEMMA GrowKeepsAt ==
  ASSUME Grows, NEW tuple, NEW k, At(tuple, k)
  PROVE  k \in DOMAIN source' /\ tuple = <<source'[k].start, k>> /\ source'[k].start = source[k].start
BY DEF Grows, At

LEMMA ItemFacts ==
  ASSUME BucketInv, poll # Idle, poll \in Running
  PROVE  /\ \A i \in DOMAIN poll.seen : poll.seen[i] \in Event /\ poll.seen[i].dur \in Nat
         /\ \A n \in DOMAIN poll.todo : poll.todo[n].id \in Nat /\ poll.todo[n].ev \in Event /\ poll.todo[n].ev.dur \in Nat
         /\ \A n \in DOMAIN poll.revise : poll.revise[n].id \in Nat /\ poll.revise[n].ev \in Event /\ poll.revise[n].ev.dur \in Nat
<1>1. poll.seen \in Seens /\ poll.todo \in Seq(AwItem) /\ poll.revise \in Seq(AwItem)
  BY DEF Running
<1>2. \A i \in DOMAIN poll.seen : poll.seen[i] \in Event
  BY <1>1 DEF Seens
<1>3. \A n \in DOMAIN poll.todo : poll.todo[n] \in AwItem
  BY <1>1
<1>4. \A n \in DOMAIN poll.revise : poll.revise[n] \in AwItem
  BY <1>1
<1> QED BY <1>2, <1>3, <1>4, EventFacts DEF AwItem

LEMMA RowFacts ==
  ASSUME BucketInv, RowsInv, NEW n \in DOMAIN rawEvents
  PROVE  /\ rawEvents[n] \in AwRow /\ rawEvents[n].content \in Event /\ rawEvents[n].content.dur \in Nat
         /\ n \in Nat /\ n >= 1 /\ n <= Len(rawEvents) /\ EventOf(rawEvents[n]) \in DOMAIN source
         /\ rawEvents[n].collector = "aw"
<1>1. rawEvents[n] \in AwRow /\ n \in Nat /\ n >= 1 /\ n <= Len(rawEvents)
  BY DEF RowsInv
<1>2. EventOf(rawEvents[n]) \in DOMAIN source
  BY DEF RowsInv, CopyOf
<1>3. rawEvents[n].content \in Event /\ rawEvents[n].collector = "aw"
  BY <1>1 DEF AwRow
<1> QED BY <1>1, <1>2, <1>3, EventFacts

LEMMA GrowKeepsTypes ==
  ASSUME TypeInv, BucketInv', Grows, UNCHANGED core, Unedited' => Unedited
  PROVE  TypeInv'
<1> USE DEF TypeInv
<1>0. rawEvents' = rawEvents /\ checkpoint' = checkpoint /\ poll' = poll /\ status' = status
  BY DEF core
<1>1. RowsInv'
  <2>1. ASSUME NEW n \in DOMAIN rawEvents PROVE CopyOf(EventOf(rawEvents[n]), rawEvents[n].content)'
    <3>1. CopyOf(EventOf(rawEvents[n]), rawEvents[n].content) /\ rawEvents[n].content.dur \in Nat
      BY RowFacts DEF RowsInv
    <3>2. PICK i, e : i = EventOf(rawEvents[n]) /\ e = rawEvents[n].content
      OBVIOUS
    <3>3. i \in DOMAIN source' /\ e.start = source'[i].start /\ e.dur <= source'[i].dur
      BY <3>1, <3>2, GrowKeepsCopies
    <3> QED BY <1>0, <3>2, <3>3 DEF CopyOf, EventOf
  <2> QED BY <1>0, <2>1 DEF RowsInv, EventOf
<1>2. PollInv'
  <2> SUFFICES ASSUME poll # Idle PROVE PollInv'
    BY <1>0 DEF PollInv
  <2>0. poll \in Running /\ poll.now \in Nat /\ poll.now <= clock /\ clock \in Nat
    BY DEF PollInv, Running, BucketInv
  <2>1. poll.now <= clock'
    BY <2>0 DEF Grows
  <2>2. ASSUME NEW i \in DOMAIN poll.seen PROVE CopyOf(i, poll.seen[i])'
    <3>1. CopyOf(i, poll.seen[i]) /\ poll.seen[i].dur \in Nat
      BY <2>0, ItemFacts DEF PollInv
    <3>2. PICK e : e = poll.seen[i]
      OBVIOUS
    <3>3. i \in DOMAIN source' /\ e.start = source'[i].start /\ e.dur <= source'[i].dur
      BY <3>1, <3>2, GrowKeepsCopies
    <3> QED BY <1>0, <3>2, <3>3 DEF CopyOf
  <2>3. ASSUME NEW n \in DOMAIN poll.todo PROVE CopyOf(poll.todo[n].id, poll.todo[n].ev)'
    <3>1. CopyOf(poll.todo[n].id, poll.todo[n].ev) /\ poll.todo[n].ev.dur \in Nat
      BY <2>0, ItemFacts DEF PollInv
    <3>2. PICK i, e : i = poll.todo[n].id /\ e = poll.todo[n].ev
      OBVIOUS
    <3>3. i \in DOMAIN source' /\ e.start = source'[i].start /\ e.dur <= source'[i].dur
      BY <3>1, <3>2, GrowKeepsCopies
    <3> QED BY <1>0, <3>2, <3>3 DEF CopyOf
  <2>4. ASSUME NEW n \in DOMAIN poll.revise PROVE CopyOf(poll.revise[n].id, poll.revise[n].ev)'
    <3>1. CopyOf(poll.revise[n].id, poll.revise[n].ev) /\ poll.revise[n].ev.dur \in Nat
      BY <2>0, ItemFacts DEF PollInv
    <3>2. PICK i, e : i = poll.revise[n].id /\ e = poll.revise[n].ev
      OBVIOUS
    <3>3. i \in DOMAIN source' /\ e.start = source'[i].start /\ e.dur <= source'[i].dur
      BY <3>1, <3>2, GrowKeepsCopies
    <3> QED BY <1>0, <3>2, <3>3 DEF CopyOf
  <2>5. ASSUME poll.pc = "revise"
        PROVE  \E k \in DOMAIN source' : At(poll.last, k)' /\ poll.start <= source'[k].start
    <3>1. PICK k \in DOMAIN source : At(poll.last, k) /\ poll.start <= source[k].start
      BY <2>5 DEF PollInv
    <3>2. k \in DOMAIN source' /\ poll.last = <<source'[k].start, k>> /\ source'[k].start = source[k].start
      BY <3>1, GrowKeepsAt
    <3> QED BY <1>0, <3>1, <3>2 DEF At
  <2> QED BY <1>0, <2>1, <2>2, <2>3, <2>4, <2>5 DEF PollInv, Cutoff
<1>3. CheckpointInv'
  <2>1. ASSUME checkpoint # NoTuple PROVE \E k \in DOMAIN source' : At(checkpoint, k)'
    <3>1. PICK k \in DOMAIN source : At(checkpoint, k)
      BY <2>1 DEF CheckpointInv
    <3>2. k \in DOMAIN source' /\ checkpoint = <<source'[k].start, k>>
      BY <3>1, GrowKeepsAt
    <3> QED BY <1>0, <3>2 DEF At
  <2> QED BY <1>0, <2>1 DEF CheckpointInv
<1>4. EditInv'
  <2> SUFFICES ASSUME Unedited' PROVE EditInv'
    BY DEF EditInv
  <2>1. \A i \in DOMAIN source' : source'[i].data = 0
    BY DEF EditInv, Grows
  <2> QED BY <1>0, <2>1 DEF EditInv
<1> QED BY <1>1, <1>2, <1>3, <1>4

-----------------------------------------------------------------------------
(* Reading pages.                                                          *)

LEMMA ClipFacts ==
  ASSUME BucketInv, NEW e \in Event, NEW from \in Int, NEW to \in Int, e.start <= to,
         NEW c, c = Clip(e, from, to)
  PROVE  /\ c.start = IF e.start < from THEN from ELSE e.start
         /\ c.start = e.start =>
              /\ c \in Event /\ c.data = e.data
              /\ c.dur = IF End(e) > to THEN to - e.start ELSE e.dur
              /\ c.dur <= e.dur
<1>1. /\ e.start \in Nat /\ e.dur \in Nat /\ e.start <= MaxTime /\ e.dur <= MaxTime /\ End(e) = e.start + e.dur
      /\ e.data \in {0, 1} /\ MaxTime \in Nat
  BY EventFacts, SetupFacts
<1>2. PICK s, t : s = (IF e.start < from THEN from ELSE e.start) /\ t = (IF End(e) > to THEN to ELSE End(e))
  OBVIOUS
<1>3. c = [e EXCEPT !.start = s, !.dur = t - s]
  BY <1>2 DEF Clip
<1>4. DOMAIN e = {"start", "dur", "data"}
  BY DEF Event
<1>5. c.start = s /\ c.dur = t - s /\ c.data = e.data /\ DOMAIN c = {"start", "dur", "data"}
  BY <1>3, <1>4
<1>6. ASSUME c.start = e.start
      PROVE  c \in Event /\ c.dur = (IF End(e) > to THEN to - e.start ELSE e.dur) /\ c.dur <= e.dur
  <2>1. c.dur = IF End(e) > to THEN to - e.start ELSE e.dur
    BY <1>1, <1>2, <1>5, <1>6
  <2>2. c.dur \in 0 .. MaxTime /\ c.dur <= e.dur
    BY <1>1, <2>1
  <2>3. c.start \in 0 .. MaxTime
    BY <1>1, <1>6
  <2>4. c = [start |-> c.start, dur |-> c.dur, data |-> c.data]
    BY <1>3, <1>4
  <2>5. [start |-> c.start, dur |-> c.dur, data |-> c.data] \in Event
    BY <1>1, <1>5, <2>2, <2>3 DEF Event
  <2> QED BY <2>1, <2>2, <2>4, <2>5
<1> QED BY <1>2, <1>5, <1>6

\* A page of the poll in progress, its events inside the range, and what is known
\* with it.
Got(p) == [i \in p |-> Clip(source[i], poll.start - 1, poll.pageEnd)]
Inside(p) == {i \in p : Got(p)[i].start >= poll.start}
Copies(p) == [i \in Inside(p) |-> Got(p)[i]]
SeenWith(p) == Merge(poll.seen, Copies(p))
Full(p) == Cardinality(p) = PageSize /\ Inside(p) = p
Clash(p) == \E i \in Inside(p) \cap DOMAIN poll.seen :
              poll.seen[i].start # Got(p)[i].start \/ poll.seen[i].data # Got(p)[i].data
Oldest(p, t) == (\E k \in p : t = Got(p)[k].start) /\ \A i \in p : t <= Got(p)[i].start

\* What a request for a page may come to.
Finished(p) ==
  \/ \E code \in {"backlog", "stalled"} : EndPoll(code)
  \/ EndPoll("invalid") /\ Clash(p)
ReadAll(p, todo) ==
  /\ ~Full(p) /\ todo \in StablePrefixes(SeenWith(p), Cutoff) /\ UNCHANGED status
  /\ poll' = [poll EXCEPT !.pc = "write", !.todo = todo, !.seen = <<>>, !.pages = 0, !.pageEnd = Cutoff]
ReadOn(p, t) ==
  /\ Full(p) /\ Oldest(p, t) /\ t < poll.pageEnd /\ UNCHANGED status
  /\ poll' = [poll EXCEPT !.pages = @ + 1, !.seen = SeenWith(p), !.pageEnd = t]

LEMMA FetchOutcomes ==
  ASSUME FetchPage
  PROVE  \E p \in Pages(poll.start - 1, poll.pageEnd) :
           Finished(p) \/ (\E todo : ReadAll(p, todo)) \/ (\E t : ReadOn(p, t))
<1>1. PICK p \in Pages(poll.start - 1, poll.pageEnd) :
        \/ EndPoll("invalid") /\ Clash(p)
        \/ EndPoll("backlog")
        \/ EndPoll("stalled")
        \/ /\ ~Full(p) /\ UNCHANGED status
           /\ \E todo \in StablePrefixes(SeenWith(p), Cutoff) :
                poll' = [poll EXCEPT !.pc = "write", !.todo = todo, !.seen = <<>>, !.pages = 0, !.pageEnd = Cutoff]
        \/ /\ Full(p) /\ UNCHANGED status
           /\ \E t \in {u \in {Got(p)[i].start : i \in p} : \A i \in p : u <= Got(p)[i].start} :
                t < poll.pageEnd /\ poll' = [poll EXCEPT !.pages = @ + 1, !.seen = SeenWith(p), !.pageEnd = t]
  BY Zenon DEF FetchPage, Got, Inside, Copies, SeenWith, Full, Clash
<1>2. \A t \in {u \in {Got(p)[i].start : i \in p} : \A i \in p : u <= Got(p)[i].start} : Oldest(p, t)
  BY DEF Oldest
<1> QED BY <1>1, <1>2 DEF Finished, ReadAll, ReadOn

\* An event of a page: inside the range it is a copy, cut at the end of the page.
LEMMA PageCopy ==
  ASSUME BucketInv, poll # Idle, poll \in Running, NEW p \in Pages(poll.start - 1, poll.pageEnd), NEW i \in p
  PROVE  /\ i \in DOMAIN source /\ source[i].start <= poll.pageEnd
         /\ i \in Inside(p) <=> source[i].start >= poll.start
         /\ i \in Inside(p) =>
              /\ Got(p)[i] \in Event /\ CopyOf(i, Got(p)[i]) /\ Got(p)[i].data = source[i].data
              /\ Got(p)[i].dur = IF End(source[i]) > poll.pageEnd THEN poll.pageEnd - source[i].start ELSE source[i].dur
<1>1. i \in DOMAIN source /\ source[i].start <= poll.pageEnd
  BY DEF Pages
<1>2. poll.start \in Int /\ poll.pageEnd \in Int /\ poll.start - 1 \in Int
  BY DEF Running
<1>3. PICK e, c, from : e = source[i] /\ c = Got(p)[i] /\ from = poll.start - 1
  OBVIOUS
<1>4. e \in Event /\ e.start \in Nat /\ c = Clip(e, from, poll.pageEnd)
  BY <1>1, <1>3, SourceFacts DEF Got
<1>5. /\ c.start = IF e.start < from THEN from ELSE e.start
      /\ c.start = e.start =>
           /\ c \in Event /\ c.data = e.data
           /\ c.dur = IF End(e) > poll.pageEnd THEN poll.pageEnd - e.start ELSE e.dur
           /\ c.dur <= e.dur
  BY <1>1, <1>2, <1>3, <1>4, ClipFacts
<1>6. i \in Inside(p) <=> c.start >= poll.start
  BY <1>3 DEF Inside
<1>7. (c.start >= poll.start <=> e.start >= poll.start) /\ (c.start >= poll.start => c.start = e.start)
  BY <1>2, <1>3, <1>4, <1>5
<1>8. i \in Inside(p) => c \in Event /\ c.data = e.data /\ c.start = e.start /\ c.dur <= e.dur
       /\ c.dur = IF End(e) > poll.pageEnd THEN poll.pageEnd - e.start ELSE e.dur
  BY <1>5, <1>6, <1>7
<1> QED BY <1>1, <1>3, <1>6, <1>7, <1>8 DEF CopyOf

\* Of an event that was seen before, the longer copy.
LEMMA SeenFacts ==
  ASSUME BucketInv, PollInv, poll # Idle, NEW p \in Pages(poll.start - 1, poll.pageEnd)
  PROVE  /\ SeenWith(p) \in Seens /\ DOMAIN SeenWith(p) = DOMAIN poll.seen \cup Inside(p)
         /\ \A i \in DOMAIN SeenWith(p) :
              /\ \/ (SeenWith(p)[i] = poll.seen[i] /\ i \in DOMAIN poll.seen)
                 \/ (SeenWith(p)[i] = Got(p)[i] /\ i \in Inside(p))
              /\ i \in DOMAIN poll.seen => SeenWith(p)[i].dur >= poll.seen[i].dur
              /\ CopyOf(i, SeenWith(p)[i]) /\ poll.start <= SeenWith(p)[i].start
<1>1. poll \in Running /\ poll.start \in Int
  BY DEF PollInv, Running
<1>2. PICK old, copies, new, in : old = poll.seen /\ copies = Got(p) /\ new = SeenWith(p) /\ in = Inside(p)
  OBVIOUS
<1>3. old \in Seens /\ \A i \in DOMAIN old : old[i] \in Event /\ old[i].dur \in Nat /\ CopyOf(i, old[i]) /\ poll.start <= old[i].start
  BY <1>1, <1>2, ItemFacts DEF Running, PollInv
<1>4. \A i \in in : /\ i \in p /\ copies[i] \in Event /\ CopyOf(i, copies[i]) /\ source[i].start >= poll.start
                    /\ i \in DOMAIN source
  BY <1>1, <1>2, PageCopy DEF Inside
<1>5. \A i \in in : copies[i].dur \in Nat /\ poll.start <= copies[i].start
  BY <1>4, EventFacts DEF CopyOf
<1>6. new = [i \in DOMAIN old \cup in |->
               IF i \notin DOMAIN old THEN copies[i]
               ELSE IF i \in in /\ copies[i].dur > old[i].dur THEN copies[i] ELSE old[i]]
  BY <1>2 DEF SeenWith, Merge, Copies
<1>7. DOMAIN old \subseteq Nat /\ in \subseteq Nat
  BY <1>3, <1>4, SourceFacts DEF CopyOf
<1>8. new \in [DOMAIN old \cup in -> Event]
  BY <1>3, <1>4, <1>6
<1>9. new \in Seens
  BY <1>7, <1>8 DEF Seens
<1>10. ASSUME NEW i \in DOMAIN new
       PROVE  /\ (new[i] = old[i] /\ i \in DOMAIN old) \/ (new[i] = copies[i] /\ i \in in)
              /\ i \in DOMAIN old => new[i].dur >= old[i].dur
              /\ CopyOf(i, new[i]) /\ poll.start <= new[i].start
  <2>1. CASE i \notin DOMAIN old
    BY <1>4, <1>5, <1>6, <1>10, <2>1
  <2>2. CASE i \in DOMAIN old /\ i \in in /\ copies[i].dur > old[i].dur
    BY <1>3, <1>4, <1>5, <1>6, <2>2
  <2>3. CASE i \in DOMAIN old /\ ~(i \in in /\ copies[i].dur > old[i].dur)
    BY <1>3, <1>6, <2>3
  <2> QED BY <2>1, <2>2, <2>3
<1>11. DOMAIN new = DOMAIN old \cup in
  BY <1>6
<1> QED BY <1>2, <1>9, <1>10, <1>11

\* The stable prefix lists what it should, in order.
LEMMA PrefixFacts ==
  ASSUME BucketInv, NEW seen \in Seens, DOMAIN seen \subseteq DOMAIN source, NEW cutoff \in Int,
         NEW todo \in StablePrefixes(seen, cutoff)
  PROVE  /\ todo \in Seq(AwItem)
         /\ \A n \in DOMAIN todo :
              /\ todo[n].id \in DOMAIN seen /\ todo[n].ev = seen[todo[n].id] /\ End(todo[n].ev) < cutoff
         /\ \A m, n \in DOMAIN todo :
              m < n => Before(Tuple(todo[m].id, todo[m].ev), Tuple(todo[n].id, todo[n].ev))
         /\ \A i \in DOMAIN seen :
              (\A j \in DOMAIN seen : Before(Tuple(i, seen[i]), Tuple(j, seen[j])) \/ End(seen[j]) < cutoff)
                => i \in Ids(todo)
<1>1. PICK S : S = {i \in DOMAIN seen : \A j \in DOMAIN seen :
                      Before(Tuple(i, seen[i]), Tuple(j, seen[j])) \/ End(seen[j]) < cutoff}
  OBVIOUS
<1>2. PICK l : l = Cardinality(S)
  OBVIOUS
<1>3. \E ids \in {f \in [1 .. l -> S] : \A m, n \in DOMAIN f :
                    m < n => Before(Tuple(f[m], seen[f[m]]), Tuple(f[n], seen[f[n]]))} :
        todo = [n \in DOMAIN ids |-> [id |-> ids[n], ev |-> seen[ids[n]]]]
  BY <1>1, <1>2, Zenon DEF StablePrefixes, Listings
<1>4. PICK ids \in [1 .. l -> S] :
        /\ \A m, n \in 1 .. l : m < n => Before(Tuple(ids[m], seen[ids[m]]), Tuple(ids[n], seen[ids[n]]))
        /\ todo = [n \in 1 .. l |-> [id |-> ids[n], ev |-> seen[ids[n]]]]
  BY <1>3
<1>5. \A i \in DOMAIN seen : i \in Nat /\ seen[i] \in Event /\ seen[i].start \in Nat
  BY EventFacts, SourceFacts DEF Seens
<1>6. \A i \in DOMAIN seen : ~Before(Tuple(i, seen[i]), Tuple(i, seen[i]))
  <2> SUFFICES ASSUME NEW i \in DOMAIN seen PROVE ~Before(Tuple(i, seen[i]), Tuple(i, seen[i]))
    OBVIOUS
  <2>1. PICK t : t = Tuple(i, seen[i])
    OBVIOUS
  <2>2. t[1] \in Nat /\ t[2] \in Nat
    BY <1>5, <2>1 DEF Tuple
  <2>3. ~Before(t, t)
    BY <2>2 DEF Before
  <2> QED BY <2>1, <2>3
<1>7. IsFiniteSet(S)
  <2>1. S \subseteq 1 .. Len(source) /\ Len(source) \in Nat
    BY <1>1 DEF BucketInv
  <2>2. IsFiniteSet(1 .. Len(source))
    BY <2>1, FS_Interval
  <2> QED BY <2>1, <2>2, FS_Subset
<1>8. \A m, n \in 1 .. l : m < n => ids[m] # ids[n]
  BY <1>1, <1>4, <1>6
<1>9. l \in Nat /\ \A x \in S : \E n \in 1 .. l : ids[n] = x
  BY <1>2, <1>4, <1>7, <1>8, ListingComplete
<1>10. \A n \in 1 .. l : ids[n] \in S /\ ids[n] \in DOMAIN seen /\ [id |-> ids[n], ev |-> seen[ids[n]]] \in AwItem
  BY <1>1, <1>4, <1>5 DEF AwItem
<1>11. todo \in [1 .. l -> AwItem]
  BY <1>4, <1>10
<1>12. todo \in Seq(AwItem) /\ DOMAIN todo = 1 .. l
  BY <1>9, <1>11, SeqDef
<1>13. \A n \in 1 .. l : todo[n].id = ids[n] /\ todo[n].ev = seen[ids[n]]
  BY <1>4
<1>14. \A i \in S : End(seen[i]) < cutoff
  BY <1>1, <1>6
<1>15. \A n \in DOMAIN todo : todo[n].id \in DOMAIN seen /\ todo[n].ev = seen[todo[n].id] /\ End(todo[n].ev) < cutoff
  BY <1>10, <1>12, <1>13, <1>14
<1>16. \A m, n \in DOMAIN todo :
         m < n => Before(Tuple(todo[m].id, todo[m].ev), Tuple(todo[n].id, todo[n].ev))
  BY <1>4, <1>12, <1>13
<1>17. \A i \in S : i \in Ids(todo)
  BY <1>9, <1>12, <1>13 DEF Ids
<1> QED BY <1>1, <1>12, <1>15, <1>16, <1>17

-----------------------------------------------------------------------------
(* The steps of a poll keep the types.                                     *)

LEMMA EmptyFacts ==
  <<>> \in Seens /\ DOMAIN <<>> = {} /\ \A T : <<>> \in Seq(T)
<1>1. DOMAIN <<>> = {} /\ \A T : <<>> \in Seq(T)
  OBVIOUS
<1>2. <<>> \in [{} -> Event]
  <2>1. \A f : f = [x \in DOMAIN f |-> f[x]] /\ DOMAIN f = {} => f \in [{} -> Event]
    BY Zenon
  <2>2. <<>> = [x \in DOMAIN <<>> |-> <<>>[x]]
    OBVIOUS
  <2> QED BY <1>1, <2>1, <2>2
<1> QED BY <1>1, <1>2 DEF Seens

LEMMA BucketKept ==
  ASSUME BucketInv, UNCHANGED <<setup, clock, source>>, status' \in Outcomes,
         budget' \in [rewrites : Nat, faults : Nat, crashes : Nat], budget'.rewrites = budget.rewrites
  PROVE  BucketInv' /\ Unedited' = Unedited
BY DEF BucketInv, MaxEvents, Unedited, End

\* A poll that ends loses what it had in memory.
LEMMA EndKeepsTypes ==
  ASSUME TypeInv, UNCHANGED <<setup, clock, source, rawEvents, checkpoint>>, poll' = Idle, status' \in Outcomes,
         budget' \in [rewrites : Nat, faults : Nat, crashes : Nat], budget'.rewrites = budget.rewrites
  PROVE  TypeInv'
<1> USE DEF TypeInv
<1>1. BucketInv' /\ Unedited' = Unedited
  BY BucketKept
<1>2. RowsInv'
  BY DEF RowsInv, CopyOf, EventOf, UniqueKeys
<1>3. PollInv' /\ CheckpointInv'
  BY DEF PollInv, CheckpointInv, At
<1>4. EditInv'
  BY <1>1 DEF EditInv
<1> QED BY <1>1, <1>2, <1>3, <1>4

\* The other steps of a poll, of which each leaves some of this to be shown.
LEMMA StepKeepsTypes ==
  ASSUME TypeInv, UNCHANGED <<setup, clock, source, status, budget>>, RowsInv', PollInv', CheckpointInv', EditInv'
  PROVE  TypeInv'
<1>1. status' \in Outcomes /\ budget' \in [rewrites : Nat, faults : Nat, crashes : Nat] /\ budget'.rewrites = budget.rewrites
  BY DEF TypeInv, BucketInv
<1>2. BucketInv'
  BY <1>1, BucketKept DEF TypeInv
<1> QED BY <1>2 DEF TypeInv

LEMMA RowsKept ==
  ASSUME RowsInv, UNCHANGED <<source, rawEvents>>
  PROVE  RowsInv'
BY DEF RowsInv, CopyOf, EventOf, UniqueKeys

LEMMA BeginTypes ==
  ASSUME TypeInv, BeginPoll, UNCHANGED setup
  PROVE  TypeInv' /\ poll'.start \in Int /\ (checkpoint # NoTuple => poll'.start <= checkpoint[1])
<1>1. PICK start, pc : start = PollStart /\ pc = IF PollStart >= clock - AllowedLateness THEN "beat" ELSE "page"
  OBVIOUS
<1>2. /\ UNCHANGED <<clock, source, rawEvents, checkpoint, status, beat, floor, budget>>
      /\ poll' = [pc |-> pc, now |-> clock, start |-> start, pageEnd |-> clock - AllowedLateness,
                  pages |-> 0, seen |-> <<>>, todo |-> <<>>, revise |-> <<>>, last |-> NoTuple]
  BY <1>1 DEF BeginPoll
<1>3. clock \in Nat /\ AllowedLateness \in Nat /\ InitialLookback \in Nat /\ RescanWindow \in Nat
  BY SetupFacts DEF TypeInv, BucketInv
<1>4. start \in Int /\ (checkpoint # NoTuple => start <= checkpoint[1])
  <2>1. CASE checkpoint = NoTuple
    BY <1>1, <1>3, <2>1 DEF PollStart
  <2>2. CASE checkpoint # NoTuple
    <3>1. PICK k \in DOMAIN source : checkpoint = <<source[k].start, k>>
      BY <2>2 DEF TypeInv, CheckpointInv, At
    <3>2. checkpoint[1] \in Nat
      BY <3>1, SourceFacts DEF TypeInv
    <3>3. start = checkpoint[1] - RescanWindow
      BY <1>1, <2>2 DEF PollStart
    <3> QED BY <1>3, <3>2, <3>3
  <2> QED BY <2>1, <2>2
<1>5. poll' \in Running
  <2>1. /\ pc \in {"page", "write", "revise", "beat"} /\ clock - AllowedLateness \in Int /\ 0 \in Nat
        /\ <<>> \in Seens /\ <<>> \in Seq(AwItem) /\ NoTuple \in (Nat \X Nat) \cup {NoTuple}
    BY <1>1, <1>3, EmptyFacts
  <2> QED BY <1>2, <1>3, <1>4, <2>1 DEF Running
<1>6. /\ poll'.start = start /\ poll'.now = clock /\ poll'.pc = pc /\ poll'.seen = <<>> /\ poll'.todo = <<>>
      /\ poll'.revise = <<>> /\ pc # "revise"
  BY <1>1, <1>2
<1>7. RowsInv'
  BY <1>2, RowsKept DEF TypeInv
<1>8. PollInv'
  <2>1. poll'.now <= clock'
    BY <1>2, <1>3, <1>6
  <2>2. poll'.pc = "beat" => poll'.start >= Cutoff'
    BY <1>1, <1>6 DEF Cutoff
  <2> QED BY <1>5, <1>6, <2>1, <2>2, EmptyFacts DEF PollInv
<1>9. CheckpointInv'
  BY <1>2, <1>4, <1>6 DEF TypeInv, CheckpointInv, At
<1>10. EditInv'
  BY <1>2, <1>6, EmptyFacts DEF TypeInv, EditInv, Unedited
<1>11. TypeInv'
  BY <1>2, <1>7, <1>8, <1>9, <1>10, StepKeepsTypes
<1> QED BY <1>4, <1>6, <1>11

\* A poll in progress.
LEMMA RunningFacts ==
  ASSUME TypeInv, poll # Idle
  PROVE  /\ poll \in Running /\ poll.now \in Nat /\ poll.now <= clock /\ clock \in Nat /\ Cutoff \in Int
         /\ Cutoff = poll.now - AllowedLateness /\ poll.start \in Int /\ poll.pageEnd \in Int /\ poll.pages \in Nat
         /\ poll.seen \in Seens /\ poll.todo \in Seq(AwItem) /\ poll.revise \in Seq(AwItem)
         /\ AllowedLateness \in Nat /\ Cutoff <= clock - AllowedLateness
<1>1. /\ poll \in Running /\ poll.now \in Nat /\ poll.now <= clock /\ clock \in Nat /\ poll.start \in Int
      /\ poll.pageEnd \in Int /\ poll.pages \in Nat
      /\ poll.seen \in Seens /\ poll.todo \in Seq(AwItem) /\ poll.revise \in Seq(AwItem)
  BY DEF TypeInv, PollInv, Running, BucketInv
<1>2. AllowedLateness \in Nat
  BY SetupFacts DEF TypeInv
<1> QED BY <1>1, <1>2 DEF Cutoff

LEMMA FetchStart ==
  ASSUME TypeInv, FetchPage
  PROVE  /\ poll # Idle /\ poll \in Running /\ poll.pc = "page" /\ poll.revise = <<>>
         /\ UNCHANGED <<clock, source, rawEvents, checkpoint, beat, floor, budget>>
<1>1. poll.pc = "page" /\ UNCHANGED <<clock, source, rawEvents, checkpoint, beat, floor, budget>>
  BY DEF FetchPage
<1>2. poll # Idle
  BY <1>1 DEF Idle
<1> QED BY <1>1, <1>2, RunningFacts DEF TypeInv, PollInv

LEMMA SeenUnedited ==
  ASSUME TypeInv, Unedited, poll # Idle, NEW p \in Pages(poll.start - 1, poll.pageEnd)
  PROVE  /\ ~Clash(p) /\ \A i \in DOMAIN SeenWith(p) : SeenWith(p)[i].data = 0
<1>1. poll \in Running
  BY RunningFacts
<1>2. /\ \A i \in DOMAIN source : source[i].data = 0
      /\ \A i \in DOMAIN poll.seen : poll.seen[i].data = 0 /\ poll.seen[i].start = source[i].start
  BY DEF TypeInv, EditInv, PollInv, CopyOf
<1>3. \A i \in Inside(p) : i \in DOMAIN source /\ Got(p)[i].data = 0 /\ Got(p)[i].start = source[i].start
  BY <1>1, <1>2, PageCopy DEF TypeInv, Inside, CopyOf
<1>4. \A i \in DOMAIN SeenWith(p) :
        (SeenWith(p)[i] = poll.seen[i] /\ i \in DOMAIN poll.seen) \/ (SeenWith(p)[i] = Got(p)[i] /\ i \in Inside(p))
  BY SeenFacts DEF TypeInv
<1> QED BY <1>2, <1>3, <1>4 DEF Clash

LEMMA FetchTypes ==
  ASSUME TypeInv, FetchPage, UNCHANGED setup
  PROVE  TypeInv'
<1>1. /\ poll # Idle /\ poll \in Running /\ poll.pc = "page" /\ poll.revise = <<>>
      /\ UNCHANGED <<clock, source, rawEvents, checkpoint, beat, floor, budget>>
  BY FetchStart
<1>2. PICK p \in Pages(poll.start - 1, poll.pageEnd) :
        Finished(p) \/ (\E todo : ReadAll(p, todo)) \/ (\E t : ReadOn(p, t))
  BY FetchOutcomes
<1>3. /\ poll.now \in Nat /\ poll.now <= clock /\ Cutoff \in Int /\ poll.start \in Int /\ poll.pageEnd \in Int
      /\ poll.pages \in Nat /\ poll.seen \in Seens /\ poll.todo \in Seq(AwItem)
  BY <1>1, RunningFacts
<1>4. PICK seen : seen = SeenWith(p)
  OBVIOUS
<1>5. /\ seen \in Seens
      /\ \A i \in DOMAIN seen : CopyOf(i, seen[i]) /\ poll.start <= seen[i].start
  BY <1>1, <1>4, SeenFacts DEF TypeInv
<1>6. CASE Finished(p)
  <2>1. poll' = Idle /\ status' \in Outcomes
    BY <1>6 DEF Finished, EndPoll, Outcomes
  <2> QED BY <1>1, <2>1, EndKeepsTypes DEF TypeInv, BucketInv
<1>7. ASSUME NEW todo, ReadAll(p, todo) PROVE TypeInv'
  <2>1. /\ UNCHANGED status /\ todo \in StablePrefixes(seen, Cutoff)
        /\ poll' = [poll EXCEPT !.pc = "write", !.todo = todo, !.seen = <<>>, !.pages = 0, !.pageEnd = Cutoff]
    BY <1>4, <1>7 DEF ReadAll
  <2>2. DOMAIN seen \subseteq DOMAIN source
    BY <1>5 DEF CopyOf
  <2>3. /\ todo \in Seq(AwItem)
        /\ \A n \in DOMAIN todo : todo[n].id \in DOMAIN seen /\ todo[n].ev = seen[todo[n].id] /\ End(todo[n].ev) < Cutoff
    BY <1>3, <1>5, <2>1, <2>2, PrefixFacts DEF TypeInv
  <2>4. /\ poll'.pc = "write" /\ poll'.todo = todo /\ poll'.seen = <<>> /\ poll'.start = poll.start /\ poll'.now = poll.now
        /\ poll'.revise = <<>>
    BY <1>1, <2>1 DEF Running
  <2>5. poll' \in Running
    BY <1>1, <1>3, <2>1, <2>3, EmptyFacts DEF Running
  <2>6. Cutoff' = Cutoff
    BY <2>4 DEF Cutoff
  <2>7. PollInv'
    <3>1. \A n \in DOMAIN todo : CopyOf(todo[n].id, todo[n].ev) /\ poll.start <= todo[n].ev.start
      BY <1>5, <2>3
    <3>2. \A n \in DOMAIN todo : CopyOf(todo[n].id, todo[n].ev)'
      BY <1>1, <3>1, <2>4 DEF CopyOf
    <3>3. poll'.now <= clock'
      BY <1>1, <1>3, <2>4
    <3> QED BY <2>3, <2>4, <2>5, <2>6, <3>1, <3>2, <3>3, EmptyFacts DEF PollInv
  <2>8. CheckpointInv'
    BY <1>1, <2>4 DEF TypeInv, CheckpointInv, At
  <2>9. EditInv'
    <3> SUFFICES ASSUME Unedited PROVE EditInv'
      BY <1>1 DEF EditInv, Unedited
    <3>1. \A n \in DOMAIN todo : todo[n].ev.data = 0
      BY <1>1, <1>4, <2>3, SeenUnedited
    <3> QED BY <1>1, <2>4, <3>1, EmptyFacts DEF TypeInv, EditInv
  <2>10. RowsInv'
    BY <1>1, RowsKept DEF TypeInv
  <2> QED BY <1>1, <2>1, <2>7, <2>8, <2>9, <2>10, StepKeepsTypes
<1>8. ASSUME NEW t, ReadOn(p, t) PROVE TypeInv'
  <2>1. /\ UNCHANGED status /\ Full(p) /\ Oldest(p, t)
        /\ poll' = [poll EXCEPT !.pages = @ + 1, !.seen = seen, !.pageEnd = t]
    BY <1>4, <1>8 DEF ReadOn
  <2>2. t \in Int
    <3>1. PICK k \in p : t = Got(p)[k].start
      BY <2>1 DEF Oldest
    <3>2. k \in Inside(p)
      BY <2>1, <3>1 DEF Full
    <3>3. Got(p)[k] \in Event
      BY <1>1, <3>1, <3>2, PageCopy DEF TypeInv
    <3> QED BY <3>1, <3>3, EventFacts DEF TypeInv
  <2>3. /\ poll'.pc = "page" /\ poll'.todo = poll.todo /\ poll'.seen = seen /\ poll'.start = poll.start
        /\ poll'.now = poll.now /\ poll'.revise = <<>>
    BY <1>1, <2>1 DEF Running
  <2>4. poll' \in Running
    <3>1. PICK n : n = poll.pages + 1 /\ n \in Nat
      BY <1>3
    <3>2. poll' = [poll EXCEPT !.pages = n, !.seen = seen, !.pageEnd = t]
      BY <2>1, <3>1
    <3> QED BY <1>1, <1>5, <2>2, <3>1, <3>2 DEF Running
  <2>5. Cutoff' = Cutoff
    BY <2>3 DEF Cutoff
  <2>6. PollInv'
    <3>1. \A i \in DOMAIN seen : CopyOf(i, seen[i])'
      BY <1>1, <1>5, <2>3 DEF CopyOf
    <3>2. \A n \in DOMAIN poll.todo :
            /\ CopyOf(poll.todo[n].id, poll.todo[n].ev)' /\ poll.start <= poll.todo[n].ev.start
            /\ End(poll.todo[n].ev) < Cutoff
      BY <1>1, <2>3 DEF TypeInv, PollInv, CopyOf
    <3>3. poll'.now <= clock'
      BY <1>1, <1>3, <2>3
    <3> QED BY <1>5, <2>3, <2>4, <2>5, <3>1, <3>2, <3>3, EmptyFacts DEF PollInv
  <2>7. CheckpointInv'
    BY <1>1, <2>3 DEF TypeInv, CheckpointInv, At
  <2>8. EditInv'
    <3> SUFFICES ASSUME Unedited PROVE EditInv'
      BY <1>1 DEF EditInv, Unedited
    <3>1. \A i \in DOMAIN seen : seen[i].data = 0
      BY <1>1, <1>4, SeenUnedited
    <3> QED BY <1>1, <2>3, <3>1, EmptyFacts DEF TypeInv, EditInv
  <2>9. RowsInv'
    BY <1>1, RowsKept DEF TypeInv
  <2> QED BY <1>1, <2>1, <2>6, <2>7, <2>8, <2>9, StepKeepsTypes
<1> QED BY <1>2, <1>6, <1>7, <1>8

\* What a batch does to the table: the first n events to write have base rows, and
\* those whose base row differs are listed again to be revised.
Written(n, again, rest, rows) ==
  /\ n \in 1 .. Len(poll.todo)
  /\ rows \in Seq(AwRow) /\ UniqueKeys(rows) /\ Len(rawEvents) <= Len(rows)
  /\ \A m \in 1 .. Len(rawEvents) : rows[m] = rawEvents[m]
  /\ \A m \in 1 .. Len(rows) : m <= Len(rawEvents) \/
       \E k \in 1 .. n : rows[m].key = BaseKey(poll.todo[k].id) /\ rows[m].content = poll.todo[k].ev
  /\ again \in Seq(1 .. n) /\ \A a, b \in DOMAIN again : a < b => again[a] < again[b]
  /\ \A k \in 1 .. n : \E m \in 1 .. Len(rows) :
       /\ rows[m].key = BaseKey(poll.todo[k].id)
       /\ rows[m].content # poll.todo[k].ev <=> \E a \in DOMAIN again : again[a] = k
  /\ rest \in Seq(AwItem) /\ Len(rest) = Len(poll.todo) - n
  /\ \A k \in 1 .. Len(rest) : rest[k] = poll.todo[n + k]

BatchSize == IF Len(poll.todo) < PageSize THEN Len(poll.todo) ELSE PageSize
Part == SubSeq(poll.todo, 1, BatchSize)
Batch == [k \in 1 .. BatchSize |-> Candidate(BaseKey(Part[k].id), Part[k].ev)]
Conflicts == {k \in 1 .. BatchSize : AppendBatch(rawEvents, Batch).results[k].status = "conflict"}

LEMMA WriteParts ==
  ASSUME WriteBatch
  PROVE  /\ rawEvents' = AppendBatch(rawEvents, Batch).rows
         /\ \E again \in {f \in [1 .. Cardinality(Conflicts) -> Conflicts] : \A a, b \in DOMAIN f : a < b => f[a] < f[b]} :
              poll' = [poll EXCEPT !.pc = "revise",
                         !.todo = SubSeq(poll.todo, BatchSize + 1, Len(poll.todo)),
                         !.revise = [a \in DOMAIN again |-> Part[again[a]]],
                         !.last = BatchTuple(poll.todo, BatchSize)]
BY Zenon DEF WriteBatch, BatchSize, Part, Batch, Conflicts, Listings

LEMMA WriteOutcome ==
  ASSUME TypeInv, WriteBatch
  PROVE  /\ poll # Idle /\ poll.pc = "write" /\ UNCHANGED <<clock, source, checkpoint, status, beat, floor, budget>>
         /\ \E n, again, rest, rows :
              /\ Written(n, again, rest, rows) /\ rawEvents' = rows
              /\ poll' = [poll EXCEPT !.pc = "revise", !.todo = rest,
                            !.revise = [a \in DOMAIN again |-> poll.todo[again[a]]],
                            !.last = <<poll.todo[n].ev.start, poll.todo[n].id>>]
<1>1. poll.pc = "write" /\ poll.todo # <<>> /\ UNCHANGED <<clock, source, checkpoint, status, beat, floor, budget>>
  BY DEF WriteBatch
<1>2. poll # Idle
  BY <1>1 DEF Idle
<1>3. poll.todo \in Seq(AwItem) /\ PageSize \in Nat /\ PageSize >= 1
  BY <1>2, RunningFacts, SetupFacts DEF TypeInv
<1>4. PICK todo, n, part, rest :
        /\ todo = poll.todo /\ n = (IF Len(todo) < PageSize THEN Len(todo) ELSE PageSize)
        /\ part = SubSeq(todo, 1, n) /\ rest = SubSeq(todo, n + 1, Len(todo))
  OBVIOUS
<1>5. todo \in Seq(AwItem) /\ Len(todo) \in Nat /\ n \in 1 .. Len(todo) /\ n \in Nat
  <2>1. todo \in Seq(AwItem) /\ Len(todo) \in Nat /\ Len(todo) >= 1
    BY <1>1, <1>3, <1>4, EmptySeq
  <2> QED BY <1>3, <1>4, <2>1
<1>6. /\ part \in Seq(AwItem) /\ Len(part) = n /\ \A k \in 1 .. n : part[k] = todo[k]
  <2>1. \A k \in 1 .. n : todo[k] \in AwItem
    BY <1>5
  <2>2. /\ part \in Seq(AwItem) /\ Len(part) = (IF 1 <= n THEN n - 1 + 1 ELSE 0)
        /\ \A k \in 1 .. n - 1 + 1 : part[k] = todo[1 + k - 1]
    BY <1>4, <1>5, <2>1, SubSeqProperties
  <2> QED BY <1>5, <2>2
<1>7. rest \in Seq(AwItem) /\ Len(rest) = Len(todo) - n /\ \A k \in 1 .. Len(rest) : rest[k] = todo[n + k]
  <2>1. \A k \in n + 1 .. Len(todo) : todo[k] \in AwItem
    BY <1>5
  <2>2. /\ rest \in Seq(AwItem) /\ Len(rest) = (IF n + 1 <= Len(todo) THEN Len(todo) - (n + 1) + 1 ELSE 0)
        /\ \A k \in 1 .. Len(todo) - (n + 1) + 1 : rest[k] = todo[n + 1 + k - 1]
    BY <1>4, <1>5, <2>1, SubSeqProperties
  <2> QED BY <1>5, <2>2
<1>8. PICK batch : batch = [k \in 1 .. n |-> Candidate(BaseKey(part[k].id), part[k].ev)]
  OBVIOUS
<1>9. \A k \in 1 .. n : todo[k] \in AwItem /\ todo[k].id \in Nat /\ todo[k].ev \in Event
  <2>1. \A k \in 1 .. n : todo[k] \in AwItem
    BY <1>5
  <2> QED BY <2>1 DEF AwItem
<1>10. /\ batch \in Seq(Base) /\ Len(batch) = n
       /\ \A k \in 1 .. n : batch[k] = Candidate(BaseKey(todo[k].id), todo[k].ev) /\ batch[k] \in Base
  <2>1. ASSUME NEW k \in 1 .. n PROVE Candidate(BaseKey(part[k].id), part[k].ev) \in Base
    <3>1. PICK i, e : i = part[k].id /\ e = part[k].ev /\ i \in Nat /\ e \in Event
      BY <1>6, <1>9
    <3>2. BaseKey(i) \in AwKey
      BY <3>1 DEF AwKey
    <3> QED BY <3>1, <3>2 DEF Base
  <2>2. batch \in [1 .. n -> Base]
    BY <1>8, <2>1
  <2>3. batch \in Seq(Base) /\ Len(batch) = n
    BY <1>5, <2>2, SeqDef
  <2>4. ASSUME NEW k \in 1 .. n PROVE batch[k] = Candidate(BaseKey(todo[k].id), todo[k].ev)
    <3>1. batch[k] = Candidate(BaseKey(part[k].id), part[k].ev)
      BY <1>8
    <3>2. part[k] = todo[k]
      BY <1>6
    <3> QED BY <3>1, <3>2
  <2>5. \A k \in 1 .. n : batch[k] \in Base
    BY <2>2
  <2> QED BY <2>3, <2>4, <2>5
<1>11. PICK write : write = AppendBatch(rawEvents, batch)
  OBVIOUS
<1>12. Appended(rawEvents, batch, n, write)
  BY <1>10, <1>11, BatchAppended DEF TypeInv, RowsInv
<1>13. PICK rows, results, S :
         rows = write.rows /\ results = write.results /\ S = {k \in 1 .. n : results[k].status = "conflict"}
  OBVIOUS
<1>14. n = BatchSize /\ part = Part /\ batch = Batch /\ S = Conflicts
  <2>1. n = BatchSize
    BY <1>4 DEF BatchSize
  <2>2. part = Part
    BY <1>4, <2>1 DEF Part
  <2>3. batch = Batch
    BY <1>8, <2>1, <2>2 DEF Batch
  <2> QED BY <1>11, <1>13, <2>1, <2>2, <2>3 DEF Conflicts
<1>15. PICK l : l = Cardinality(S)
  OBVIOUS
<1>16. /\ rawEvents' = rows
       /\ \E again \in [1 .. l -> S] :
            /\ \A a, b \in 1 .. l : a < b => again[a] < again[b]
            /\ poll' = [poll EXCEPT !.pc = "revise", !.todo = rest,
                            !.revise = [a \in DOMAIN again |-> part[again[a]]],
                            !.last = BatchTuple(todo, n)]
  <2>1. PICK again \in {f \in [1 .. Cardinality(Conflicts) -> Conflicts] : \A a, b \in DOMAIN f : a < b => f[a] < f[b]} :
              poll' = [poll EXCEPT !.pc = "revise",
                         !.todo = SubSeq(poll.todo, BatchSize + 1, Len(poll.todo)),
                         !.revise = [a \in DOMAIN again |-> Part[again[a]]],
                         !.last = BatchTuple(poll.todo, BatchSize)]
    BY WriteParts, Zenon
  <2>2. again \in [1 .. l -> S] /\ \A a, b \in 1 .. l : a < b => again[a] < again[b]
    BY <1>14, <1>15
  <2>4. /\ SubSeq(poll.todo, BatchSize + 1, Len(poll.todo)) = rest /\ BatchTuple(poll.todo, BatchSize) = BatchTuple(todo, n)
        /\ [a \in DOMAIN again |-> Part[again[a]]] = [a \in DOMAIN again |-> part[again[a]]]
    BY <1>4, <1>14
  <2>3. rawEvents' = rows
    BY <1>11, <1>13, <1>14, WriteParts
  <2> QED BY <2>1, <2>2, <2>3, <2>4, Zenon
<1>28. PICK again \in [1 .. l -> S] :
         /\ \A a, b \in 1 .. l : a < b => again[a] < again[b]
         /\ poll' = [poll EXCEPT !.pc = "revise", !.todo = rest,
                            !.revise = [a \in DOMAIN again |-> part[again[a]]],
                            !.last = BatchTuple(todo, n)]
  BY <1>16
<1>17. IsFiniteSet(S)
  <2>1. IsFiniteSet(1 .. n)
    BY <1>5, FS_Interval
  <2>2. S \subseteq 1 .. n
    BY <1>13
  <2> QED BY <2>1, <2>2, FS_Subset
<1>18. l \in Nat /\ \A k \in S : \E a \in 1 .. l : again[a] = k
  <2>1. \A a, b \in 1 .. l : a < b => again[a] # again[b]
    <3>1. \A a \in 1 .. l : again[a] \in S
      BY <1>28
    <3>2. \A k \in S : k \in Nat
      BY <1>5, <1>13
    <3>3. \A i, j \in Nat : i < j => i # j
      OBVIOUS
    <3> QED BY <1>28, <3>1, <3>2, <3>3
  <2>2. again \in [1 .. Cardinality(S) -> S] /\ \A a, b \in 1 .. Cardinality(S) : a < b => again[a] # again[b]
    BY <1>15, <2>1
  <2> QED BY <1>15, <1>17, <2>2, ListingComplete
<1>19. again \in Seq(1 .. n) /\ DOMAIN again = 1 .. l /\ \A a \in 1 .. l : again[a] \in S
  <2>1. \A a \in 1 .. l : again[a] \in S /\ again[a] \in 1 .. n
    BY <1>13, <1>28
  <2>2. again \in [1 .. l -> 1 .. n] /\ DOMAIN again = 1 .. l
    BY <1>28, <2>1
  <2>3. \A T : \A f \in [1 .. l -> T] : f \in Seq(T)
    BY <1>18, SeqDef
  <2> QED BY <2>1, <2>2, <2>3
<1>20. \A k \in 1 .. n : results[k].status = "conflict" <=> \E a \in DOMAIN again : again[a] = k
  BY <1>13, <1>18, <1>19
<1>21. \A k \in 1 .. n : RowOf(batch[k]).key = BaseKey(todo[k].id) /\ RowOf(batch[k]).content = todo[k].ev
                         /\ batch[k].key = BaseKey(todo[k].id) /\ batch[k].content = todo[k].ev
  <2>1. \A key, e : Candidate(key, e).key = key /\ Candidate(key, e).content = e
    BY DEF Candidate
  <2>2. \A k \in 1 .. n : RowOf(batch[k]).key = batch[k].key /\ RowOf(batch[k]).content = batch[k].content
    BY <1>10, CandidateFacts
  <2> QED BY <1>10, <2>1, <2>2
<1>22. /\ rows \in Seq(AwRow) /\ UniqueKeys(rows) /\ Len(rawEvents) <= Len(rows)
       /\ \A m \in 1 .. Len(rawEvents) : rows[m] = rawEvents[m]
       /\ \A m \in 1 .. Len(rows) : m <= Len(rawEvents) \/ \E k \in 1 .. n : rows[m] = RowOf(batch[k])
       /\ \A k \in 1 .. n : \E m \in 1 .. Len(rows) :
            rows[m].key = batch[k].key /\ (results[k].status = "conflict" <=> rows[m] # RowOf(batch[k]))
  BY <1>12, <1>13 DEF Appended
<1>23. ASSUME NEW k \in 1 .. n
       PROVE  \E m \in 1 .. Len(rows) :
                /\ rows[m].key = BaseKey(todo[k].id)
                /\ rows[m].content # todo[k].ev <=> \E a \in DOMAIN again : again[a] = k
  <2>1. PICK m \in 1 .. Len(rows) :
          rows[m].key = batch[k].key /\ (results[k].status = "conflict" <=> rows[m] # RowOf(batch[k]))
    BY <1>22
  <2>2. rows[m] \in AwRow
    BY <1>22
  <2>3. rows[m] # RowOf(batch[k]) <=> rows[m].content # todo[k].ev
    BY <1>10, <1>21, <2>1, <2>2, CandidateFacts
  <2> QED BY <1>20, <1>21, <2>1, <2>3
<1>24. \A m \in 1 .. Len(rows) : m <= Len(rawEvents) \/
         \E k \in 1 .. n : rows[m].key = BaseKey(todo[k].id) /\ rows[m].content = todo[k].ev
  BY <1>21, <1>22
<1>25. Written(n, again, rest, rows)
  BY <1>4, <1>5, <1>7, <1>28, <1>19, <1>22, <1>23, <1>24 DEF Written
<1>26. [a \in DOMAIN again |-> part[again[a]]] = [a \in DOMAIN again |-> poll.todo[again[a]]]
  BY <1>4, <1>6, <1>13, <1>19
<1>27. BatchTuple(todo, n) = <<poll.todo[n].ev.start, poll.todo[n].id>>
  BY <1>4 DEF BatchTuple, Tuple
<1> QED BY <1>1, <1>2, <1>16, <1>28, <1>25, <1>26, <1>27

\* Rows may follow that are copies, longer than the rows of the same event before them.
Longer(rows, n) ==
  /\ CopyOf(EventOf(rows[n]), rows[n].content)
  /\ \/ rows[n].key = BaseKey(EventOf(rows[n]))
     \/ rows[n].key = RevisionKey(EventOf(rows[n]), rows[n].content.dur)
  /\ \E m \in DOMAIN rows : m <= n /\ rows[m].key = BaseKey(EventOf(rows[n]))
  /\ \A m \in DOMAIN rows : m < n /\ EventOf(rows[m]) = EventOf(rows[n]) =>
       rows[m].content.data = rows[n].content.data /\ rows[m].content.dur < rows[n].content.dur

LEMMA RowsMore ==
  ASSUME BucketInv, RowsInv, NEW rows \in Seq(AwRow), UniqueKeys(rows), Len(rawEvents) <= Len(rows),
         \A m \in 1 .. Len(rawEvents) : rows[m] = rawEvents[m],
         \A m \in 1 .. Len(rows) : m <= Len(rawEvents) \/ Longer(rows, m),
         rawEvents' = rows, UNCHANGED source
  PROVE  RowsInv'
<1>1. rawEvents \in Seq(AwRow) /\ DOMAIN rawEvents = 1 .. Len(rawEvents) /\ Len(rawEvents) \in Nat
      /\ DOMAIN rows = 1 .. Len(rows) /\ Len(rows) \in Nat
  BY DEF RowsInv
<1>2. \A m \in 1 .. Len(rawEvents) : m \in 1 .. Len(rows)
  BY <1>1
<1>3. ASSUME NEW n \in 1 .. Len(rows), n <= Len(rawEvents) PROVE Longer(rows, n)
  <2>1. n \in 1 .. Len(rawEvents) /\ rows[n] = rawEvents[n]
    BY <1>1, <1>3
  <2>2. \A m \in 1 .. Len(rows) : m < n => m \in 1 .. Len(rawEvents)
    BY <1>1, <1>3
  <2>3. /\ CopyOf(EventOf(rows[n]), rows[n].content)
        /\ \/ rows[n].key = BaseKey(EventOf(rows[n]))
           \/ rows[n].key = RevisionKey(EventOf(rows[n]), rows[n].content.dur)
        /\ \E m \in DOMAIN rows : m <= n /\ rows[m].key = BaseKey(EventOf(rows[n]))
    BY <1>1, <1>2, <2>1 DEF RowsInv
  <2>4. \A m \in DOMAIN rows : m < n /\ EventOf(rows[m]) = EventOf(rows[n]) =>
          rows[m].content.data = rows[n].content.data /\ rows[m].content.dur < rows[n].content.dur
    BY <1>1, <2>1, <2>2 DEF RowsInv
  <2> QED BY <2>3, <2>4, Zenon DEF Longer
<1>4. \A n \in DOMAIN rows : Longer(rows, n)
  BY <1>1, <1>3
<1>5. /\ \A n \in DOMAIN rows :
           /\ CopyOf(EventOf(rows[n]), rows[n].content)
           /\ \/ rows[n].key = BaseKey(EventOf(rows[n]))
              \/ rows[n].key = RevisionKey(EventOf(rows[n]), rows[n].content.dur)
           /\ \E m \in DOMAIN rows : m <= n /\ rows[m].key = BaseKey(EventOf(rows[n]))
      /\ \A m, n \in DOMAIN rows :
           m < n /\ EventOf(rows[m]) = EventOf(rows[n]) =>
             rows[m].content.data = rows[n].content.data /\ rows[m].content.dur < rows[n].content.dur
  BY <1>4, Zenon DEF Longer
<1>6. \A n \in DOMAIN rows : CopyOf(EventOf(rows[n]), rows[n].content)'
  BY <1>5 DEF CopyOf, EventOf
<1> QED BY <1>5, <1>6 DEF RowsInv, EventOf

LEMMA ItemUnedited ==
  ASSUME TypeInv, Unedited, poll # Idle
  PROVE  /\ \A n \in DOMAIN rawEvents : rawEvents[n].content.data = 0
         /\ \A n \in DOMAIN poll.todo : poll.todo[n].ev.data = 0
         /\ \A n \in DOMAIN poll.revise : poll.revise[n].ev.data = 0
BY DEF TypeInv, EditInv

LEMMA WriteTypes ==
  ASSUME TypeInv, WriteBatch, UNCHANGED setup
  PROVE  TypeInv'
<1>1. poll # Idle /\ poll.pc = "write" /\ UNCHANGED <<clock, source, checkpoint, status, beat, floor, budget>>
  BY WriteOutcome
<1>2. PICK n, again, rest, rows :
        /\ Written(n, again, rest, rows) /\ rawEvents' = rows
        /\ poll' = [poll EXCEPT !.pc = "revise", !.todo = rest,
                      !.revise = [a \in DOMAIN again |-> poll.todo[again[a]]],
                      !.last = <<poll.todo[n].ev.start, poll.todo[n].id>>]
  BY WriteOutcome
<1>3. PICK todo, revise, last : todo = poll.todo /\ revise = [a \in DOMAIN again |-> todo[again[a]]]
        /\ last = <<todo[n].ev.start, todo[n].id>>
  OBVIOUS
<1>4. /\ poll \in Running /\ poll.start \in Int /\ todo \in Seq(AwItem) /\ Len(todo) \in Nat /\ Cutoff \in Int
      /\ poll.now <= clock
  BY <1>1, <1>3, RunningFacts
<1>5. /\ n \in 1 .. Len(todo) /\ rows \in Seq(AwRow) /\ UniqueKeys(rows) /\ Len(rawEvents) <= Len(rows)
      /\ \A m \in 1 .. Len(rawEvents) : rows[m] = rawEvents[m]
      /\ \A m \in 1 .. Len(rows) : m <= Len(rawEvents) \/
           \E k \in 1 .. n : rows[m].key = BaseKey(todo[k].id) /\ rows[m].content = todo[k].ev
  BY <1>2, <1>3 DEF Written
<1>6. /\ again \in Seq(1 .. n) /\ rest \in Seq(AwItem) /\ Len(rest) = Len(todo) - n
      /\ \A k \in 1 .. Len(rest) : rest[k] = todo[n + k]
  BY <1>2, <1>3 DEF Written
<1>7. \A k \in 1 .. Len(todo) :
        /\ todo[k] \in AwItem /\ CopyOf(todo[k].id, todo[k].ev) /\ poll.start <= todo[k].ev.start
        /\ End(todo[k].ev) < Cutoff
  <2>1. DOMAIN poll.todo = 1 .. Len(todo) /\ \A k \in 1 .. Len(todo) : todo[k] \in AwItem
    BY <1>3, <1>4
  <2> QED BY <1>1, <1>3, <2>1 DEF TypeInv, PollInv
<1>8. \A k \in 1 .. n : k \in 1 .. Len(todo)
  BY <1>4, <1>5
<1>9. RowsInv'
  <2>1. ASSUME NEW m \in 1 .. Len(rows), ~(m <= Len(rawEvents)) PROVE Longer(rows, m)
    <3>1. PICK k \in 1 .. n : rows[m].key = BaseKey(todo[k].id) /\ rows[m].content = todo[k].ev
      BY <1>5, <2>1
    <3>2. PICK i : i = todo[k].id
      OBVIOUS
    <3>3. EventOf(rows[m]) = i /\ rows[m].key = BaseKey(i) /\ CopyOf(i, rows[m].content)
      BY <1>7, <1>8, <3>1, <3>2, KeyFacts DEF EventOf
    <3>4. DOMAIN rows = 1 .. Len(rows) /\ Len(rows) \in Nat /\ DOMAIN rawEvents = 1 .. Len(rawEvents) /\ Len(rawEvents) \in Nat
      BY <1>5 DEF TypeInv, RowsInv
    <3>5. m <= m
      BY <3>4
    <3>6. ASSUME NEW o \in DOMAIN rows, o < m, EventOf(rows[o]) = i PROVE FALSE
      <4>1. CASE o <= Len(rawEvents)
        <5>1. o \in DOMAIN rawEvents /\ rows[o] = rawEvents[o]
          BY <1>5, <3>4, <3>6, <4>1
        <5>2. PICK b \in DOMAIN rawEvents : rawEvents[b].key = BaseKey(i)
          BY <3>6, <5>1 DEF TypeInv, RowsInv
        <5>3. b \in DOMAIN rows /\ rows[b].key = BaseKey(i) /\ b # m
          BY <1>5, <2>1, <3>4, <5>2
        <5> QED BY <1>5, <3>3, <3>4, <5>3 DEF UniqueKeys
      <4>2. CASE ~(o <= Len(rawEvents))
        <5>1. PICK j \in 1 .. n : rows[o].key = BaseKey(todo[j].id)
          BY <1>5, <3>4, <3>6, <4>2
        <5>2. rows[o].key = rows[m].key
          BY <3>3, <3>6, <5>1, KeyFacts DEF EventOf
        <5>3. o = m
          BY <1>5, <3>4, <3>6, <5>2 DEF UniqueKeys
        <5> QED BY <3>4, <3>6, <5>3
      <4> QED BY <4>1, <4>2
    <3> QED BY <3>3, <3>4, <3>5, <3>6 DEF Longer
  <2> QED BY <1>1, <1>2, <1>5, <2>1, RowsMore DEF TypeInv
<1>10. /\ DOMAIN again = 1 .. Len(again) /\ Len(again) \in Nat
       /\ \A a \in DOMAIN again : again[a] \in 1 .. n /\ again[a] \in 1 .. Len(todo)
  <2>1. PICK T : T = 1 .. n
    OBVIOUS
  <2>2. again \in Seq(T)
    BY <1>6, <2>1
  <2>3. DOMAIN again = 1 .. Len(again) /\ Len(again) \in Nat /\ \A a \in 1 .. Len(again) : again[a] \in T
    BY <2>2
  <2> QED BY <1>8, <2>1, <2>3
<1>11. revise \in Seq(AwItem) /\ DOMAIN revise = DOMAIN again /\ \A a \in DOMAIN again : revise[a] = todo[again[a]]
  <2>1. revise \in [1 .. Len(again) -> AwItem]
    BY <1>3, <1>7, <1>10
  <2> QED BY <1>3, <1>10, <2>1, SeqDef
<1>12. DOMAIN rest = 1 .. Len(rest) /\ \A k \in 1 .. Len(rest) : rest[k] = todo[n + k] /\ n + k \in 1 .. Len(todo)
  BY <1>4, <1>5, <1>6
<1>13. n \in 1 .. Len(todo) /\ todo[n].id \in Nat /\ todo[n].ev.start \in Nat /\ At(last, todo[n].id)
       /\ poll.start <= source[todo[n].id].start /\ todo[n].id \in DOMAIN source
  <2>1. todo[n] \in AwItem /\ CopyOf(todo[n].id, todo[n].ev) /\ poll.start <= todo[n].ev.start
    BY <1>5, <1>7
  <2>2. todo[n].id \in Nat /\ todo[n].ev \in Event
    BY <2>1 DEF AwItem
  <2>3. todo[n].ev.start \in Nat
    BY <2>2, EventFacts DEF TypeInv
  <2> QED BY <1>3, <1>5, <2>1, <2>2, <2>3 DEF CopyOf, At
<1>14. poll' = [poll EXCEPT !.pc = "revise", !.todo = rest, !.revise = revise, !.last = last]
  BY <1>2, <1>3, Zenon
<1>15. /\ poll'.pc = "revise" /\ poll'.todo = rest /\ poll'.revise = revise /\ poll'.last = last
       /\ poll'.seen = poll.seen /\ poll'.start = poll.start /\ poll'.now = poll.now
  BY <1>4, <1>14 DEF Running
<1>16. poll' \in Running
  <2>1. last \in (Nat \X Nat) \cup {NoTuple}
    BY <1>3, <1>13
  <2> QED BY <1>4, <1>6, <1>11, <1>14, <2>1 DEF Running
<1>17. Cutoff' = Cutoff
  BY <1>15 DEF Cutoff
<1>18. PollInv'
  <2>1. \A i \in DOMAIN poll.seen : CopyOf(i, poll.seen[i])' /\ poll.start <= poll.seen[i].start
    BY <1>1, <1>15 DEF TypeInv, PollInv, CopyOf
  <2>2. \A k \in 1 .. Len(todo) : CopyOf(todo[k].id, todo[k].ev)'
    BY <1>1, <1>7 DEF CopyOf
  <2>3. \A k \in DOMAIN rest :
          /\ CopyOf(rest[k].id, rest[k].ev)' /\ poll.start <= rest[k].ev.start /\ End(rest[k].ev) < Cutoff
    BY <1>7, <1>12, <2>2
  <2>4. \A a \in DOMAIN revise :
          /\ CopyOf(revise[a].id, revise[a].ev)' /\ poll.start <= revise[a].ev.start /\ End(revise[a].ev) < Cutoff
    BY <1>7, <1>10, <1>11, <2>2
  <2>5. \E k \in DOMAIN source' : At(last, k)' /\ poll.start <= source'[k].start
    BY <1>1, <1>13 DEF At
  <2>6. poll'.now <= clock'
    BY <1>1, <1>4, <1>15
  <2> QED BY <1>15, <1>16, <1>17, <2>1, <2>3, <2>4, <2>5, <2>6 DEF PollInv
<1>19. CheckpointInv'
  BY <1>1, <1>15 DEF TypeInv, CheckpointInv, At
<1>20. EditInv'
  <2> SUFFICES ASSUME Unedited PROVE EditInv'
    BY <1>1 DEF EditInv, Unedited
  <2>1. \A k \in 1 .. Len(todo) : todo[k].ev.data = 0
    BY <1>1, <1>3, <1>4, ItemUnedited
  <2>2. (\A k \in DOMAIN rest : rest[k].ev.data = 0) /\ \A a \in DOMAIN revise : revise[a].ev.data = 0
    BY <1>10, <1>11, <1>12, <2>1
  <2>3. \A m \in DOMAIN rows : rows[m].content.data = 0
    <3> SUFFICES ASSUME NEW m \in DOMAIN rows PROVE rows[m].content.data = 0
      OBVIOUS
    <3>1. m \in 1 .. Len(rows) /\ DOMAIN rawEvents = 1 .. Len(rawEvents) /\ Len(rawEvents) \in Nat
      BY <1>5 DEF TypeInv, RowsInv
    <3>2. CASE m <= Len(rawEvents)
      <4>1. m \in DOMAIN rawEvents
        BY <3>1, <3>2
      <4> QED BY <1>1, <1>5, <3>1, <4>1, ItemUnedited
    <3>3. CASE ~(m <= Len(rawEvents))
      <4>1. PICK k \in 1 .. n : rows[m].content = todo[k].ev
        BY <1>5, <3>1, <3>3
      <4> QED BY <1>8, <2>1, <4>1
    <3> QED BY <3>2, <3>3
  <2>4. (\A i \in DOMAIN source : source[i].data = 0) /\ \A i \in DOMAIN poll.seen : poll.seen[i].data = 0
    BY <1>1 DEF TypeInv, EditInv
  <2> QED BY <1>1, <1>2, <1>15, <2>2, <2>3, <2>4 DEF EditInv
<1> QED BY <1>1, <1>9, <1>18, <1>19, <1>20, StepKeepsTypes

\* What a revision does to the table.
Revised(item, rows) ==
  /\ rows \in Seq(AwRow) /\ UniqueKeys(rows) /\ Len(rawEvents) <= Len(rows)
  /\ \A m \in 1 .. Len(rawEvents) : rows[m] = rawEvents[m]
  /\ \A m \in 1 .. Len(rows) : m <= Len(rawEvents) \/
       (rows[m].key = RevisionKey(item.id, item.ev.dur) /\ rows[m].content = item.ev)
  /\ \E m \in 1 .. Len(rows) : rows[m].key = RevisionKey(item.id, item.ev.dur)

LEMMA ReviseOutcome ==
  ASSUME TypeInv, ReviseNext
  PROVE  /\ poll # Idle /\ poll.pc = "revise" /\ poll.revise # <<>>
         /\ UNCHANGED <<clock, source, checkpoint, beat, floor, budget>>
         /\ \E item, rows :
              /\ item = poll.revise[1] /\ item \in AwItem
              /\ \/ /\ Revisable(rawEvents, item.id, item.ev) /\ Revised(item, rows) /\ rawEvents' = rows
                    /\ poll' = [poll EXCEPT !.revise = Tail(poll.revise)] /\ UNCHANGED status
                 \/ ~Revisable(rawEvents, item.id, item.ev) /\ EndPoll("conflict") /\ UNCHANGED rawEvents
<1>1. poll.pc = "revise" /\ poll.revise # <<>> /\ UNCHANGED <<clock, source, checkpoint, beat, floor, budget>>
  BY DEF ReviseNext
<1>2. poll # Idle
  BY <1>1 DEF Idle
<1>3. poll.revise \in Seq(AwItem)
  BY <1>2, RunningFacts
<1>4. PICK item : item = Head(poll.revise)
  OBVIOUS
<1>5. item = poll.revise[1] /\ item \in AwItem
  BY <1>1, <1>3, <1>4, HeadTailProperties
<1>6. PICK i, e, one : i = item.id /\ e = item.ev /\ one = AppendOne(rawEvents, Candidate(RevisionKey(i, e.dur), e))
  OBVIOUS
<1>7. \/ /\ Revisable(rawEvents, i, e) /\ rawEvents' = one.rows
         /\ poll' = [poll EXCEPT !.revise = Tail(poll.revise)] /\ UNCHANGED status
      \/ ~Revisable(rawEvents, i, e) /\ EndPoll("conflict") /\ UNCHANGED rawEvents
  <2>1. IF Revisable(rawEvents, Head(poll.revise).id, Head(poll.revise).ev)
        THEN /\ rawEvents' = AppendOne(rawEvents, Candidate(RevisionKey(Head(poll.revise).id, Head(poll.revise).ev.dur),
                                                            Head(poll.revise).ev)).rows
             /\ poll' = [poll EXCEPT !.revise = Tail(@)]
             /\ UNCHANGED status
        ELSE EndPoll("conflict") /\ UNCHANGED rawEvents
    BY Zenon DEF ReviseNext
  <2> QED BY <1>4, <1>6, <2>1
<1>8. PICK c : c = Candidate(RevisionKey(i, e.dur), e)
  OBVIOUS
<1>9. i \in Nat /\ e \in Event /\ e.dur \in Nat
  BY <1>5, <1>6, EventFacts DEF AwItem, TypeInv
<1>10. c \in Base /\ c.key = RevisionKey(i, e.dur) /\ c.content = e
  <2>1. RevisionKey(i, e.dur) \in AwKey
    BY <1>9 DEF AwKey
  <2>2. c \in Base
    BY <1>8, <1>9, <2>1 DEF Base
  <2> QED BY <1>8, <2>2 DEF Candidate
<1>11. Added(rawEvents, c, one)
  BY <1>6, <1>8, <1>10, OneItem DEF TypeInv, RowsInv
<1>12. RowOf(c).key = RevisionKey(i, e.dur) /\ RowOf(c).content = e
  BY <1>10, CandidateFacts
<1>13. Revised(item, one.rows)
  BY <1>6, <1>10, <1>11, <1>12 DEF Revised, Added
<1> QED BY <1>1, <1>2, <1>5, <1>6, <1>7, <1>13

\* A revision of a family that may be revised is longer than all of it.
LEMMA ReviseRows ==
  ASSUME TypeInv, NEW item \in AwItem, CopyOf(item.id, item.ev), NEW rows, Revised(item, rows),
         Revisable(rawEvents, item.id, item.ev), rawEvents' = rows, UNCHANGED source
  PROVE  RowsInv'
<1>1. PICK i, e : i = item.id /\ e = item.ev
  OBVIOUS
<1>2. i \in Nat /\ e \in Event /\ e.dur \in Nat /\ CopyOf(i, e)
  BY <1>1, EventFacts DEF AwItem, TypeInv
<1>3. /\ rows \in Seq(AwRow) /\ UniqueKeys(rows) /\ Len(rawEvents) <= Len(rows)
      /\ \A m \in 1 .. Len(rawEvents) : rows[m] = rawEvents[m]
      /\ \A m \in 1 .. Len(rows) : m <= Len(rawEvents) \/ (rows[m].key = RevisionKey(i, e.dur) /\ rows[m].content = e)
  BY <1>1 DEF Revised
<1>4. DOMAIN rows = 1 .. Len(rows) /\ Len(rows) \in Nat /\ DOMAIN rawEvents = 1 .. Len(rawEvents) /\ Len(rawEvents) \in Nat
  BY <1>3 DEF TypeInv, RowsInv
<1>5. PICK family : family = QueryEventFamily(rawEvents, i)
  OBVIOUS
<1>6. \A n \in DOMAIN rawEvents : n \in family <=> EventOf(rawEvents[n]) = i
  BY <1>5, RowFacts DEF TypeInv, QueryEventFamily, EventOf
<1>7. /\ \A n \in family : rawEvents[n].content.data = e.data
      /\ \A n \in family : rawEvents[n].content.dur <= e.dur
      /\ \E b \in family :
           /\ rawEvents[b].key = BaseKey(i) /\ e.dur > rawEvents[b].content.dur
           /\ \A n \in family \ {b} : b < n /\ rawEvents[n].key = RevisionKey(i, rawEvents[n].content.dur)
  BY <1>1, <1>5, Zenon DEF Revisable
<1>8. PICK b \in family :
        /\ rawEvents[b].key = BaseKey(i) /\ e.dur > rawEvents[b].content.dur
        /\ \A n \in family \ {b} : b < n /\ rawEvents[n].key = RevisionKey(i, rawEvents[n].content.dur)
  BY <1>7
<1>9. b \in DOMAIN rawEvents /\ family \subseteq DOMAIN rawEvents
  BY <1>5, <1>8 DEF QueryEventFamily
<1>10. ASSUME NEW m \in 1 .. Len(rows), ~(m <= Len(rawEvents)) PROVE Longer(rows, m)
  <2>1. rows[m].key = RevisionKey(i, e.dur) /\ rows[m].content = e /\ EventOf(rows[m]) = i
    BY <1>3, <1>10, KeyFacts DEF EventOf
  <2>2. b \in DOMAIN rows /\ b <= m /\ rows[b].key = BaseKey(i)
    BY <1>3, <1>4, <1>8, <1>9, <1>10
  <2>3. ASSUME NEW o \in DOMAIN rows, o < m, EventOf(rows[o]) = i
        PROVE  rows[o].content.data = e.data /\ rows[o].content.dur < e.dur
    <3>1. o <= Len(rawEvents)
      <4> SUFFICES ASSUME ~(o <= Len(rawEvents)) PROVE FALSE
        OBVIOUS
      <4>1. rows[o].key = rows[m].key
        BY <1>3, <1>4, <2>1, <2>3
      <4>2. o = m
        BY <1>3, <1>4, <2>3, <4>1 DEF UniqueKeys
      <4> QED BY <1>4, <2>3, <4>2
    <3>2. o \in DOMAIN rawEvents /\ rows[o] = rawEvents[o] /\ o \in family
      BY <1>3, <1>4, <1>6, <2>3, <3>1
    <3>3. rawEvents[o].content.data = e.data /\ rawEvents[o].content.dur <= e.dur /\ rawEvents[o].content.dur \in Nat
      BY <1>7, <3>2, RowFacts DEF TypeInv
    <3>4. rawEvents[o].content.dur # e.dur
      <4>1. CASE o = b
        BY <1>2, <1>8, <3>3, <4>1
      <4>2. CASE o # b
        <5>1. rawEvents[o].key = RevisionKey(i, rawEvents[o].content.dur)
          BY <1>8, <3>2, <4>2
        <5>2. o # m
          BY <1>4, <2>3
        <5>3. rows[o].key # rows[m].key
          BY <1>3, <1>4, <2>3, <5>2 DEF UniqueKeys
        <5> QED BY <2>1, <3>2, <5>1, <5>3
      <4> QED BY <4>1, <4>2
    <3> QED BY <1>2, <3>2, <3>3, <3>4
  <2> QED BY <1>2, <2>1, <2>2, <2>3 DEF Longer
<1> QED BY <1>3, <1>10, RowsMore DEF TypeInv

LEMMA ReviseTypes ==
  ASSUME TypeInv, ReviseNext, UNCHANGED setup
  PROVE  TypeInv'
<1>1. /\ poll # Idle /\ poll.pc = "revise" /\ poll.revise # <<>>
      /\ UNCHANGED <<clock, source, checkpoint, beat, floor, budget>>
  BY ReviseOutcome
<1>2. PICK item, rows :
        /\ item = poll.revise[1] /\ item \in AwItem
        /\ \/ /\ Revisable(rawEvents, item.id, item.ev) /\ Revised(item, rows) /\ rawEvents' = rows
              /\ poll' = [poll EXCEPT !.revise = Tail(poll.revise)] /\ UNCHANGED status
           \/ ~Revisable(rawEvents, item.id, item.ev) /\ EndPoll("conflict") /\ UNCHANGED rawEvents
  BY ReviseOutcome
<1>3. CASE EndPoll("conflict") /\ UNCHANGED rawEvents
  BY <1>1, <1>3, EndKeepsTypes DEF TypeInv, BucketInv, EndPoll, Outcomes
<1>4. CASE /\ Revisable(rawEvents, item.id, item.ev) /\ Revised(item, rows) /\ rawEvents' = rows
           /\ poll' = [poll EXCEPT !.revise = Tail(poll.revise)] /\ UNCHANGED status
  <2>1. PICK revise, rest : revise = poll.revise /\ rest = Tail(revise)
    OBVIOUS
  <2>2. poll \in Running /\ revise \in Seq(AwItem) /\ poll.now <= clock /\ Cutoff \in Int
    BY <1>1, <2>1, RunningFacts
  <2>3. rest \in Seq(AwItem) /\ Len(rest) = Len(revise) - 1 /\ \A n \in 1 .. Len(rest) : rest[n] = revise[n + 1]
    BY <1>1, <2>1, <2>2, HeadTailProperties
  <2>4. /\ 1 \in DOMAIN revise /\ DOMAIN rest = 1 .. Len(rest)
        /\ \A n \in DOMAIN rest : n + 1 \in DOMAIN revise /\ rest[n] = revise[n + 1]
    <3>1. Len(revise) \in Nat /\ Len(revise) >= 1 /\ DOMAIN revise = 1 .. Len(revise) /\ DOMAIN rest = 1 .. Len(rest)
      BY <1>1, <2>1, <2>2, <2>3, EmptySeq
    <3> QED BY <2>3, <3>1
  <2>5. \A n \in DOMAIN revise :
          CopyOf(revise[n].id, revise[n].ev) /\ poll.start <= revise[n].ev.start /\ End(revise[n].ev) < Cutoff
    BY <1>1, <2>1 DEF TypeInv, PollInv
  <2>6. RowsInv'
    <3>1. CopyOf(item.id, item.ev)
      BY <1>2, <2>1, <2>4, <2>5
    <3> QED BY <1>1, <1>2, <1>4, <3>1, ReviseRows
  <2>7. poll' = [poll EXCEPT !.revise = rest]
    BY <1>4, <2>1
  <2>8. /\ poll'.pc = "revise" /\ poll'.todo = poll.todo /\ poll'.revise = rest /\ poll'.last = poll.last
        /\ poll'.seen = poll.seen /\ poll'.start = poll.start /\ poll'.now = poll.now
    BY <1>1, <2>2, <2>7 DEF Running
  <2>9. poll' \in Running
    BY <2>2, <2>3, <2>7 DEF Running
  <2>10. Cutoff' = Cutoff
    BY <2>8 DEF Cutoff
  <2>11. PollInv'
    <3>1. \A i \in DOMAIN poll.seen : CopyOf(i, poll.seen[i])' /\ poll.start <= poll.seen[i].start
      BY <1>1, <2>8 DEF TypeInv, PollInv, CopyOf
    <3>2. \A n \in DOMAIN poll.todo :
            /\ CopyOf(poll.todo[n].id, poll.todo[n].ev)' /\ poll.start <= poll.todo[n].ev.start
            /\ End(poll.todo[n].ev) < Cutoff
      BY <1>1, <2>8 DEF TypeInv, PollInv, CopyOf
    <3>3. \A n \in DOMAIN rest :
            CopyOf(rest[n].id, rest[n].ev) /\ poll.start <= rest[n].ev.start /\ End(rest[n].ev) < Cutoff
      BY <2>4, <2>5
    <3>4. \A n \in DOMAIN rest : CopyOf(rest[n].id, rest[n].ev)'
      BY <1>1, <3>3 DEF CopyOf
    <3>5. \E k \in DOMAIN source' : At(poll.last, k)' /\ poll.start <= source'[k].start
      <4>1. PICK k \in DOMAIN source : At(poll.last, k) /\ poll.start <= source[k].start
        BY <1>1 DEF TypeInv, PollInv
      <4> QED BY <1>1, <2>8, <4>1 DEF At
    <3>6. poll'.now <= clock'
      BY <1>1, <2>2, <2>8
    <3> QED BY <2>8, <2>9, <2>10, <3>1, <3>2, <3>3, <3>4, <3>5, <3>6 DEF PollInv, At
  <2>12. CheckpointInv'
    BY <1>1, <2>8 DEF TypeInv, CheckpointInv, At
  <2>13. EditInv'
    <3> SUFFICES ASSUME Unedited PROVE EditInv'
      BY <1>1 DEF EditInv, Unedited
    <3>1. /\ \A n \in DOMAIN rawEvents : rawEvents[n].content.data = 0
          /\ \A n \in DOMAIN poll.todo : poll.todo[n].ev.data = 0
          /\ \A n \in DOMAIN revise : revise[n].ev.data = 0
      BY <1>1, <2>1, ItemUnedited
    <3>2. \A n \in DOMAIN rest : rest[n].ev.data = 0
      BY <2>4, <3>1
    <3>3. \A m \in DOMAIN rows : rows[m].content.data = 0
      <4> SUFFICES ASSUME NEW m \in DOMAIN rows PROVE rows[m].content.data = 0
        OBVIOUS
      <4>1. /\ rows \in Seq(AwRow) /\ \A n \in 1 .. Len(rawEvents) : rows[n] = rawEvents[n]
            /\ \A n \in 1 .. Len(rows) : n <= Len(rawEvents) \/ rows[n].content = item.ev
        BY <1>4 DEF Revised
      <4>2. m \in 1 .. Len(rows) /\ DOMAIN rawEvents = 1 .. Len(rawEvents) /\ Len(rawEvents) \in Nat
        BY <4>1 DEF TypeInv, RowsInv
      <4>3. CASE m <= Len(rawEvents)
        <5>1. m \in DOMAIN rawEvents
          BY <4>2, <4>3
        <5> QED BY <3>1, <4>1, <4>2, <5>1
      <4>4. CASE ~(m <= Len(rawEvents))
        BY <1>2, <2>1, <2>4, <3>1, <4>1, <4>2, <4>4
      <4> QED BY <4>3, <4>4
    <3>4. (\A i \in DOMAIN source : source[i].data = 0) /\ \A i \in DOMAIN poll.seen : poll.seen[i].data = 0
      BY <1>1 DEF TypeInv, EditInv
    <3> QED BY <1>1, <1>4, <2>8, <3>1, <3>2, <3>3, <3>4 DEF EditInv
  <2> QED BY <1>1, <1>4, <2>6, <2>11, <2>12, <2>13, StepKeepsTypes
<1> QED BY <1>2, <1>3, <1>4

LEMMA SaveTypes ==
  ASSUME TypeInv, SaveCheckpoint, UNCHANGED setup
  PROVE  TypeInv'
<1>1. /\ poll.pc = "revise" /\ poll.revise = <<>> /\ UNCHANGED <<clock, source, rawEvents, status, beat, budget>>
      /\ checkpoint' = (IF checkpoint = NoTuple \/ Before(checkpoint, poll.last) THEN poll.last ELSE checkpoint)
      /\ poll' = [poll EXCEPT !.pc = "write", !.last = NoTuple]
  BY DEF SaveCheckpoint
<1>2. poll # Idle
  BY <1>1 DEF Idle
<1>3. poll \in Running /\ poll.now <= clock
  BY <1>2, RunningFacts
<1>4. /\ poll'.pc = "write" /\ poll'.todo = poll.todo /\ poll'.revise = poll.revise
      /\ poll'.seen = poll.seen /\ poll'.start = poll.start /\ poll'.now = poll.now
  BY <1>1, <1>3 DEF Running
<1>5. poll' \in Running
  BY <1>1, <1>3 DEF Running
<1>6. PollInv'
  <2>1. Cutoff' = Cutoff
    BY <1>4 DEF Cutoff
  <2>2. \A i \in DOMAIN poll.seen : CopyOf(i, poll.seen[i])' /\ poll.start <= poll.seen[i].start
    BY <1>1, <1>2, <1>4 DEF TypeInv, PollInv, CopyOf
  <2>3. \A n \in DOMAIN poll.todo :
            /\ CopyOf(poll.todo[n].id, poll.todo[n].ev)' /\ poll.start <= poll.todo[n].ev.start
            /\ End(poll.todo[n].ev) < Cutoff
    BY <1>1, <1>2, <1>4 DEF TypeInv, PollInv, CopyOf
  <2>4. poll'.now <= clock'
    BY <1>1, <1>3, <1>4
  <2> QED BY <1>1, <1>4, <1>5, <2>1, <2>2, <2>3, <2>4, EmptyFacts DEF PollInv
<1>7. CheckpointInv'
  <2>1. PICK k \in DOMAIN source : poll.last = <<source[k].start, k>> /\ poll.start <= source[k].start
    BY <1>1, <1>2 DEF TypeInv, PollInv, At
  <2>2. CASE checkpoint' = poll.last
    <3>1. checkpoint'[1] = source[k].start /\ At(checkpoint, k)'
      BY <1>1, <2>1, <2>2 DEF At
    <3> QED BY <1>1, <1>4, <2>1, <3>1 DEF CheckpointInv
  <2>3. CASE checkpoint' = checkpoint
    BY <1>1, <1>2, <1>4, <2>3 DEF TypeInv, CheckpointInv, At
  <2> QED BY <1>1, <2>2, <2>3
<1>8. EditInv'
  BY <1>1, <1>2, <1>4 DEF TypeInv, EditInv, Unedited
<1> QED BY <1>1, <1>6, <1>7, <1>8, RowsKept, StepKeepsTypes DEF TypeInv

LEMMA EndTypes ==
  ASSUME TypeInv, AppendPollHeartbeat \/ PollFails \/ Crash, UNCHANGED setup
  PROVE  TypeInv' /\ poll' = Idle /\ UNCHANGED <<clock, source, rawEvents, checkpoint, floor>> /\ budget'.rewrites = budget.rewrites
<1>1. budget \in [rewrites : Nat, faults : Nat, crashes : Nat]
  BY DEF TypeInv, BucketInv
<1>2. CASE AppendPollHeartbeat
  <2>1. UNCHANGED <<clock, source, rawEvents, checkpoint, floor, budget>> /\ poll' = Idle /\ status' = "healthy"
    BY <1>2 DEF AppendPollHeartbeat, EndPoll
  <2> QED BY <1>1, <2>1, EndKeepsTypes DEF Outcomes
<1>3. CASE PollFails
  <2>1. /\ UNCHANGED <<clock, source, rawEvents, checkpoint, floor>> /\ poll' = Idle /\ status' = "failed"
        /\ budget' = [budget EXCEPT !.faults = @ - 1] /\ budget.faults > 0
    BY <1>3 DEF PollFails, EndPoll
  <2>2. budget' \in [rewrites : Nat, faults : Nat, crashes : Nat] /\ budget'.rewrites = budget.rewrites
    BY <1>1, <2>1
  <2> QED BY <2>1, <2>2, EndKeepsTypes DEF Outcomes
<1>4. CASE Crash
  <2>1. /\ UNCHANGED <<clock, source, rawEvents, checkpoint, floor>> /\ poll' = Idle /\ status' = "starting"
        /\ budget' = [budget EXCEPT !.crashes = @ - 1] /\ budget.crashes > 0
    BY <1>4 DEF Crash, EndPoll
  <2>2. budget' \in [rewrites : Nat, faults : Nat, crashes : Nat] /\ budget'.rewrites = budget.rewrites
    BY <1>1, <2>1
  <2> QED BY <2>1, <2>2, EndKeepsTypes DEF Outcomes
<1> QED BY <1>2, <1>3, <1>4

LEMMA InitTypes == Init => TypeInv
<1> SUFFICES ASSUME Init PROVE TypeInv
  OBVIOUS
<1>1. setup \in SetupFields /\ MaxTime \in Nat /\ setup \in Setups
  BY ConfigAssumption DEF Init
<1>2. setup.rewrites \in Nat /\ setup.faults \in Nat /\ setup.crashes \in Nat /\ MaxEvents \in Nat
  BY <1>1 DEF SetupFields, MaxEvents
<1>3. /\ clock = 0 /\ source = <<>> /\ rawEvents = <<>> /\ checkpoint = NoTuple /\ poll = Idle /\ status = "starting"
      /\ budget = [rewrites |-> setup.rewrites, faults |-> setup.faults, crashes |-> setup.crashes]
  BY DEF Init
<1>4. BucketInv
  BY <1>1, <1>2, <1>3, EmptyFacts DEF BucketInv, Outcomes
<1>5. RowsInv
  BY <1>3, EmptyFacts DEF RowsInv, UniqueKeys
<1>6. PollInv /\ CheckpointInv /\ EditInv
  BY <1>3, EmptyFacts DEF PollInv, CheckpointInv, EditInv
<1> QED BY <1>4, <1>5, <1>6 DEF TypeInv

LEMMA NextTypes == TypeInv /\ [Next]_vars => TypeInv'
<1> SUFFICES ASSUME TypeInv, [Next]_vars PROVE TypeInv'
  OBVIOUS
<1>1. CASE UNCHANGED vars
  <2>1. BucketInv'
    BY <1>1, BucketKept DEF TypeInv, BucketInv, vars
  <2>2. RowsInv'
    BY <1>1, RowsKept DEF TypeInv, vars
  <2>3. PollInv'
    BY <1>1 DEF TypeInv, PollInv, vars, CopyOf, At, Cutoff, End
  <2>4. CheckpointInv'
    BY <1>1 DEF TypeInv, CheckpointInv, vars, At
  <2>5. EditInv'
    BY <1>1 DEF TypeInv, EditInv, vars, Unedited
  <2> QED BY <2>1, <2>2, <2>3, <2>4, <2>5 DEF TypeInv
<1>2. CASE Next
  <2>1. UNCHANGED setup /\ (Bucket \/ PollStep \/ PollFails \/ Crash)
    BY <1>2 DEF Next
  <2>2. CASE Bucket
    BY <2>1, <2>2, BucketGrows, GrowKeepsTypes
  <2>3. CASE PollStep
    <3>1. CASE BeginPoll
      BY <2>1, <3>1, BeginTypes
    <3>2. CASE FetchPage
      BY <2>1, <3>2, FetchTypes
    <3>3. CASE WriteBatch
      BY <2>1, <3>3, WriteTypes
    <3>4. CASE ReviseNext
      BY <2>1, <3>4, ReviseTypes
    <3>5. CASE SaveCheckpoint
      BY <2>1, <3>5, SaveTypes
    <3>6. CASE AppendPollHeartbeat
      BY <2>1, <3>6, EndTypes
    <3> QED BY <2>3, <3>1, <3>2, <3>3, <3>4, <3>5, <3>6 DEF PollStep
  <2>4. CASE PollFails \/ Crash
    BY <2>1, <2>4, EndTypes
  <2> QED BY <2>1, <2>2, <2>3, <2>4
<1> QED BY <1>1, <1>2

LEMMA TypeInvGivesTypeOK == TypeInv => TypeOK
<1> SUFFICES ASSUME TypeInv PROVE TypeOK
  OBVIOUS
<1>1. /\ setup \in Setups /\ clock \in 0 .. MaxTime /\ source \in Seq(Event) /\ Len(source) <= MaxEvents
      /\ status \in Outcomes
  BY SetupFacts DEF TypeInv, BucketInv
<1>2. checkpoint \in Tuples \cup {NoTuple}
  <2> SUFFICES ASSUME checkpoint # NoTuple PROVE checkpoint \in Tuples
    OBVIOUS
  <2>1. PICK k \in DOMAIN source : checkpoint = <<source[k].start, k>>
    BY DEF TypeInv, CheckpointInv, At
  <2>2. source[k] \in Event /\ k \in Nat /\ k >= 1 /\ k <= Len(source)
    BY <2>1, SourceFacts DEF TypeInv
  <2>3. source[k].start \in 0 .. MaxTime
    BY <2>2 DEF Event
  <2>4. k \in 1 .. MaxEvents
    <3>1. Len(source) \in Nat /\ Len(source) <= MaxEvents /\ MaxEvents \in Nat
      BY <1>1, SetupFacts DEF TypeInv
    <3> QED BY <2>2, <3>1
  <2> QED BY <2>1, <2>3, <2>4 DEF Tuples
<1>3. \A n \in DOMAIN rawEvents : rawEvents[n].content \in Event
  BY RowFacts DEF TypeInv
<1>4. poll = Idle \/ (poll.pc \in {"page", "write", "revise", "beat"} /\ DOMAIN poll.seen \subseteq DOMAIN source)
  BY DEF TypeInv, PollInv, Running, CopyOf
<1> QED BY <1>1, <1>2, <1>3, <1>4 DEF TypeOK

\* Whatever the bucket does, polls read, store and vouch for copies of its events:
\* the durations stored are durations the bucket had, and a checkpoint is the tuple
\* of an event (fetchEvents, poll and SaveActivityWatchCheckpoint).
THEOREM TypeCorrect == Spec => []TypeOK
<1>1. Init => TypeInv
  BY InitTypes
<1>2. TypeInv /\ [Next]_vars => TypeInv'
  BY NextTypes
<1>3. TypeInv => TypeOK
  BY TypeInvGivesTypeOK
<1> QED BY <1>1, <1>2, <1>3, PTL DEF Spec

LEMMA HonestFamily ==
  ASSUME TypeInv, NEW m \in DOMAIN rawEvents, NEW n \in DOMAIN rawEvents, m < n,
         Head(rawEvents[m].key) = Head(rawEvents[n].key)
  PROVE  /\ rawEvents[m].content.start = rawEvents[n].content.start
         /\ rawEvents[m].content.data = rawEvents[n].content.data
         /\ rawEvents[m].content.dur < rawEvents[n].content.dur
<1>1. EventOf(rawEvents[m]) = EventOf(rawEvents[n])
  BY DEF EventOf
<1>2. rawEvents[m].content.data = rawEvents[n].content.data /\ rawEvents[m].content.dur < rawEvents[n].content.dur
  BY <1>1 DEF TypeInv, RowsInv
<1>3. CopyOf(EventOf(rawEvents[m]), rawEvents[m].content) /\ CopyOf(EventOf(rawEvents[n]), rawEvents[n].content)
  BY DEF TypeInv, RowsInv
<1> QED BY <1>1, <1>2, <1>3 DEF CopyOf

\* Whatever the bucket does, overlapping events included, its rows are honest: the rows
\* of one event differ in a duration that grows and in nothing else
\* (activityWatchDurationRevisionCandidate).
THEOREM RowsHonest ==
  Spec => [](\A m, n \in DOMAIN rawEvents :
               m < n /\ Head(rawEvents[m].key) = Head(rawEvents[n].key) =>
                 /\ rawEvents[m].content.start = rawEvents[n].content.start
                 /\ rawEvents[m].content.data = rawEvents[n].content.data
                 /\ rawEvents[m].content.dur < rawEvents[n].content.dur)
<1>1. TypeInv => \A m, n \in DOMAIN rawEvents :
                   m < n /\ Head(rawEvents[m].key) = Head(rawEvents[n].key) =>
                     /\ rawEvents[m].content.start = rawEvents[n].content.start
                     /\ rawEvents[m].content.data = rawEvents[n].content.data
                     /\ rawEvents[m].content.dur < rawEvents[n].content.dur
  BY HonestFamily
<1> QED BY <1>1, InitTypes, NextTypes, PTL DEF Spec

-----------------------------------------------------------------------------
(* Events that do not overlap.                                             *)

\* One row of the event has its duration.
Has(i) == \E n \in DOMAIN rawEvents : EventOf(rawEvents[n]) = i /\ rawEvents[n].content.dur = source[i].dur

LEMMA Whole == TypeInv => \A i \in DOMAIN source : StoredWhole(i) <=> Has(i)
<1> SUFFICES ASSUME TypeInv, NEW i \in DOMAIN source PROVE StoredWhole(i) <=> Has(i)
  OBVIOUS
<1>1. PICK d, family : d = source[i].dur /\ family = QueryEventFamily(rawEvents, i)
  OBVIOUS
<1>2. \A n \in DOMAIN rawEvents : n \in family <=> EventOf(rawEvents[n]) = i
  BY <1>1, RowFacts DEF TypeInv, QueryEventFamily, EventOf
<1>3. family \subseteq DOMAIN rawEvents
  BY <1>1 DEF QueryEventFamily
<1>4. \A n \in family : rawEvents[n].content.dur <= d
  BY <1>1, <1>2, <1>3 DEF TypeInv, RowsInv, CopyOf
<1>5. \A n \in family : \E m \in DOMAIN rawEvents : rawEvents[m].key = BaseKey(i)
  BY <1>2, <1>3 DEF TypeInv, RowsInv
<1>6. StoredWhole(i) <=>
        /\ Stored(i) /\ d \in {rawEvents[n].content.dur : n \in family}
        /\ \A x \in {rawEvents[n].content.dur : n \in family} : x <= d
  BY <1>1 DEF StoredWhole
<1>7. Has(i) <=> \E n \in family : rawEvents[n].content.dur = d
  BY <1>1, <1>2, <1>3 DEF Has
<1> QED BY <1>4, <1>5, <1>6, <1>7 DEF Stored

LEMMA WholeNext == TypeInv' => (\A i \in DOMAIN source : StoredWhole(i) <=> Has(i))'
BY Whole, PTL

\* Rows that follow leave a stored event stored.
LEMMA HasMore ==
  ASSUME TypeInv, TypeInv', Len(rawEvents) <= Len(rawEvents'), \A m \in 1 .. Len(rawEvents) : rawEvents'[m] = rawEvents[m],
         NEW i \in DOMAIN source, i \in DOMAIN source', source'[i].dur = source[i].dur, StoredWhole(i)
  PROVE  StoredWhole(i)'
<1>1. PICK n \in DOMAIN rawEvents : EventOf(rawEvents[n]) = i /\ rawEvents[n].content.dur = source[i].dur
  BY Whole DEF Has
<1>2. n \in DOMAIN rawEvents' /\ rawEvents'[n] = rawEvents[n]
  <2>1. rawEvents \in Seq(AwRow) /\ rawEvents' \in Seq(AwRow)
    BY DEF TypeInv, RowsInv
  <2>2. DOMAIN rawEvents = 1 .. Len(rawEvents) /\ DOMAIN rawEvents' = 1 .. Len(rawEvents')
        /\ Len(rawEvents) \in Nat /\ Len(rawEvents') \in Nat
    BY <2>1
  <2> QED BY <1>1, <2>2
<1>3. Has(i)'
  BY <1>1, <1>2 DEF Has, EventOf
<1>4. \A j \in DOMAIN source' : StoredWhole(j)' <=> Has(j)'
  BY WholeNext
<1> QED BY <1>3, <1>4

LEMMA WholeKept ==
  ASSUME TypeInv, TypeInv', UNCHANGED rawEvents,
         NEW i \in DOMAIN source, i \in DOMAIN source', source'[i].dur = source[i].dur, StoredWhole(i)
  PROVE  StoredWhole(i)'
<1>1. rawEvents \in Seq(AwRow)
  BY DEF TypeInv, RowsInv
<1>2. Len(rawEvents) <= Len(rawEvents') /\ \A m \in 1 .. Len(rawEvents) : rawEvents'[m] = rawEvents[m]
  BY <1>1
<1> QED BY <1>2, HasMore

\* The order of the bucket is the order of tuples.
LEMMA BucketOrder ==
  ASSUME BucketInv, Apart, NEW i \in DOMAIN source, NEW j \in DOMAIN source
  PROVE  /\ source[i].start <= source[j].start <=> i <= j
         /\ source[i].start = source[j].start => i = j
         /\ i < j => End(source[i]) <= source[j].start
         /\ Before(<<source[i].start, i>>, <<source[j].start, j>>) <=> i < j
<1>1. i \in Nat /\ j \in Nat /\ source[i].start \in Nat /\ source[j].start \in Nat
  BY SourceFacts
<1>2. (i < j => source[i].start < source[j].start /\ End(source[i]) <= source[j].start)
      /\ (j < i => source[j].start < source[i].start)
  BY DEF Apart
<1>3. Before(<<source[i].start, i>>, <<source[j].start, j>>) <=>
        (source[i].start < source[j].start \/ (source[i].start = source[j].start /\ i < j))
  BY DEF Before
<1> QED BY <1>1, <1>2, <1>3

\* An event behind one that ended has ended.
LEMMA EndedBehind ==
  ASSUME BucketInv, Apart, NEW i \in DOMAIN source, NEW k \in DOMAIN source, i <= k, NEW c \in Int, End(source[k]) < c
  PROVE  End(source[i]) < c
<1>1. /\ i \in Nat /\ k \in Nat /\ source[k].start \in Nat /\ source[k].dur \in Nat /\ End(source[k]) = source[k].start + source[k].dur
      /\ source[i].start \in Nat /\ source[i].dur \in Nat /\ End(source[i]) = source[i].start + source[i].dur
  BY SourceFacts
<1>2. i = k \/ End(source[i]) <= source[k].start
  BY <1>1 DEF Apart
<1> QED BY <1>1, <1>2

\* What ended before a cutoff is frozen when the bucket settles in time, and what
\* starts afterwards has not ended before it.
LEMMA FrozenOld ==
  ASSUME TypeInv, TypeInv', Grows, Settled, NEW i \in DOMAIN source, NEW c \in Int, c <= clock - AllowedLateness,
         End(source[i]) < c
  PROVE  i \in DOMAIN source' /\ source'[i].start = source[i].start /\ source'[i].dur = source[i].dur
         /\ End(source'[i]) = End(source[i])
<1>1. /\ i \in DOMAIN source' /\ source'[i].start = source[i].start
      /\ source'[i].dur = source[i].dur \/ End(source[i]) >= clock - AllowedLateness
  BY DEF Grows
<1>2. clock \in Nat /\ AllowedLateness \in Nat /\ End(source[i]) \in Nat
  <2>1. clock \in Nat /\ AllowedLateness \in Nat
    BY SetupFacts DEF TypeInv, BucketInv
  <2>2. source[i].start \in Nat /\ source[i].dur \in Nat /\ End(source[i]) = source[i].start + source[i].dur
    BY SourceFacts DEF TypeInv
  <2> QED BY <2>1, <2>2
<1>3. source'[i].dur = source[i].dur
  BY <1>1, <1>2
<1> QED BY <1>1, <1>3 DEF End

LEMMA NextSourceFacts ==
  ASSUME TypeInv', UNCHANGED setup, NEW i \in DOMAIN source'
  PROVE  source'[i].start \in Nat /\ source'[i].dur \in Nat /\ End(source'[i]) = source'[i].start + source'[i].dur
<1>1. source' \in Seq(Event) /\ MaxTime \in Nat
  BY ConfigAssumption DEF TypeInv, BucketInv
<1>2. source'[i] \in Event
  BY <1>1
<1> QED BY <1>1, <1>2 DEF Event, End

LEMMA Frozen ==
  ASSUME TypeInv, TypeInv', UNCHANGED setup, Grows, Settled, NEW i \in DOMAIN source', NEW c \in Int,
         c <= clock - AllowedLateness, End(source'[i]) < c
  PROVE  i \in DOMAIN source /\ source'[i].start = source[i].start /\ source'[i].dur = source[i].dur
         /\ End(source[i]) < c
<1>1. clock \in Nat /\ AllowedLateness \in Nat
  BY SetupFacts DEF TypeInv, BucketInv
<1>2. source'[i].start \in Nat /\ source'[i].dur \in Nat /\ End(source'[i]) = source'[i].start + source'[i].dur
  BY NextSourceFacts
<1>3. i \in DOMAIN source
  <2> SUFFICES ASSUME source'[i].start >= clock - AllowedLateness PROVE FALSE
    BY DEF Grows
  <2> QED BY <1>1, <1>2
<1>4. source'[i].start = source[i].start /\ source[i].dur <= source'[i].dur
  BY <1>3 DEF Grows
<1>5. source[i].start \in Nat /\ source[i].dur \in Nat /\ End(source[i]) = source[i].start + source[i].dur
  BY <1>3, SourceFacts DEF TypeInv
<1>6. End(source[i]) < c
  BY <1>2, <1>4, <1>5
<1> QED BY <1>3, <1>4, <1>6, FrozenOld

LEMMA GrowApart ==
  ASSUME TypeInv, Apart, ~Overlap, Bucket
  PROVE  Apart'
<1>0. source \in Seq(Event) /\ DOMAIN source = 1 .. Len(source) /\ Len(source) \in Nat
  BY DEF TypeInv, BucketInv
<1>1. CASE Tick
  BY <1>1 DEF Tick, Apart
<1>2. ASSUME NEW t \in 0 .. MaxTime, StartEvent(t) PROVE Apart'
  <2>1. PICK e : e = [start |-> t, dur |-> 0, data |-> 0]
    OBVIOUS
  <2>2. source' = Append(source, e) /\ \A i \in DOMAIN source : source[i].start < t /\ End(source[i]) <= t
    BY <1>2, <2>1 DEF StartEvent
  <2>3. /\ DOMAIN source' = 1 .. Len(source) + 1 /\ source'[Len(source) + 1] = e
        /\ \A i \in DOMAIN source : source'[i] = source[i]
    BY <1>0, <2>2
  <2> SUFFICES ASSUME NEW i \in DOMAIN source', NEW j \in DOMAIN source', i < j
               PROVE  source'[i].start < source'[j].start /\ End(source'[i]) <= source'[j].start
    BY DEF Apart
  <2>4. i \in DOMAIN source
    BY <1>0, <2>3
  <2>5. CASE j \in DOMAIN source
    BY <2>3, <2>4, <2>5 DEF Apart
  <2>6. CASE j = Len(source) + 1
    BY <2>1, <2>2, <2>3, <2>4, <2>6
  <2> QED BY <1>0, <2>3, <2>5, <2>6
<1>3. ASSUME NEW k \in DOMAIN source, ExtendEvent(k) PROVE Apart'
  <2>1. k = Len(source) /\ source' = [source EXCEPT ![k].dur = clock - source[k].start]
    BY <1>3 DEF ExtendEvent
  <2>2. /\ DOMAIN source' = DOMAIN source /\ \A i \in DOMAIN source : i # k => source'[i] = source[i]
        /\ source'[k].start = source[k].start
    <3>1. source[k] \in Event
      BY <1>0
    <3>2. PICK s : s = [source[k] EXCEPT !.dur = clock - source[k].start]
      OBVIOUS
    <3>3. s.start = source[k].start
      BY <3>1, <3>2 DEF Event
    <3>4. source' = [source EXCEPT ![k] = s]
      BY <2>1, <3>2
    <3> QED BY <1>0, <3>3, <3>4
  <2> SUFFICES ASSUME NEW i \in DOMAIN source, NEW j \in DOMAIN source, i < j
               PROVE  source'[i].start < source'[j].start /\ End(source'[i]) <= source'[j].start
    BY <2>2 DEF Apart
  <2>3. i # k
    BY <1>0, <2>1
  <2>4. source'[i] = source[i] /\ source'[j].start = source[j].start
    BY <2>2, <2>3
  <2> QED BY <2>4 DEF Apart
<1>4. ASSUME NEW k \in DOMAIN source, RewriteEvent(k) PROVE Apart'
  <2>1. source' = [source EXCEPT ![k].data = 1 - @]
    BY <1>4 DEF RewriteEvent
  <2>2. DOMAIN source' = DOMAIN source /\ \A i \in DOMAIN source : source'[i].start = source[i].start /\ source'[i].dur = source[i].dur
    <3>1. source[k] \in Event
      BY <1>0
    <3>2. PICK s : s = [source[k] EXCEPT !.data = 1 - source[k].data]
      OBVIOUS
    <3>3. s.start = source[k].start /\ s.dur = source[k].dur
      BY <3>1, <3>2 DEF Event
    <3>4. source' = [source EXCEPT ![k] = s]
      BY <2>1, <3>2
    <3> QED BY <1>0, <3>3, <3>4
  <2> QED BY <2>2 DEF Apart, End
<1> QED BY <1>1, <1>2, <1>3, <1>4 DEF Bucket

\* A bucket that grows leaves what a poll has read, what is left to write and what is
\* vouched for as it was.
LEMMA GrowKeepsApart ==
  ASSUME TypeInv, TypeInv', ApartInv, Apart', Grows, UNCHANGED <<setup, core>>, Unedited' => Unedited
  PROVE  ApartInv'
<1>0. /\ rawEvents' = rawEvents /\ checkpoint' = checkpoint /\ poll' = poll /\ status' = status /\ beat' = beat /\ floor' = floor
      /\ clock \in Nat /\ clock' \in Nat /\ clock <= clock' /\ AllowedLateness \in Nat
  BY SetupFacts DEF core, Grows, TypeInv, BucketInv
<1>1. EndedInv'
  <2> SUFFICES ASSUME NEW n \in DOMAIN rawEvents PROVE End(rawEvents[n].content) < clock' - AllowedLateness
    BY <1>0 DEF ApartInv, EndedInv, Cutoff, End
  <2>1. End(rawEvents[n].content) < clock - AllowedLateness
    BY DEF ApartInv, EndedInv
  <2>2. End(rawEvents[n].content) \in Int
    <3>1. rawEvents[n].content \in Event
      BY RowFacts DEF TypeInv
    <3>2. rawEvents[n].content.start \in Nat /\ rawEvents[n].content.dur \in Nat
          /\ End(rawEvents[n].content) = rawEvents[n].content.start + rawEvents[n].content.dur
      BY <3>1, EventFacts DEF TypeInv
    <3> QED BY <3>2
  <2> QED BY <1>0, <2>1, <2>2
<1>2. PageInv'
  BY <1>0 DEF ApartInv, PageInv, NoLonger, Cutoff, EventOf
<1>3. WriteInv'
  BY <1>0 DEF ApartInv, WriteInv, NoLonger, EventOf
<1>4. (Unedited => status \notin {"conflict", "invalid"})'
  BY <1>0 DEF ApartInv
<1>5. ASSUME Settled PROVE (ReadInv /\ ImportInv /\ VouchInv)'
  <2>0. ReadInv /\ ImportInv /\ VouchInv /\ Apart
    BY <1>5 DEF ApartInv
  <2>1. ReadInv'
    <3> SUFFICES ASSUME poll # Idle, poll.pc = "page" PROVE ReadInv'
      BY <1>0 DEF ReadInv
    <3>1. poll \in Running /\ Cutoff \in Int /\ Cutoff <= clock - AllowedLateness /\ Cutoff' = Cutoff
      BY <1>0, RunningFacts DEF Cutoff
    <3>2. ASSUME NEW i \in DOMAIN poll.seen
          PROVE  IF End(source'[i]) < Cutoff THEN poll.seen[i].dur = source'[i].dur ELSE End(poll.seen[i]) >= Cutoff
      <4>1. i \in DOMAIN source
        BY DEF TypeInv, PollInv, CopyOf
      <4>2. IF End(source[i]) < Cutoff THEN poll.seen[i].dur = source[i].dur ELSE End(poll.seen[i]) >= Cutoff
        BY <2>0 DEF ReadInv
      <4>3. CASE End(source[i]) < Cutoff
        BY <1>5, <3>1, <4>1, <4>2, <4>3, FrozenOld
      <4>4. CASE ~(End(source[i]) < Cutoff)
        <5>1. i \in DOMAIN source' /\ source'[i].start = source[i].start /\ source[i].dur <= source'[i].dur
          BY <4>1 DEF Grows
        <5>2. source[i].start \in Nat /\ source[i].dur \in Nat /\ End(source[i]) = source[i].start + source[i].dur
          BY <4>1, SourceFacts DEF TypeInv
        <5>3. source'[i].dur \in Nat /\ End(source'[i]) = source'[i].start + source'[i].dur
          BY <5>1, NextSourceFacts
        <5>4. ~(End(source'[i]) < Cutoff)
          BY <3>1, <4>4, <5>1, <5>2, <5>3
        <5> QED BY <4>2, <4>4, <5>4
      <4> QED BY <4>3, <4>4
    <3>3. ASSUME NEW i \in DOMAIN source', poll.start <= source'[i].start, End(source'[i]) < Cutoff, poll.pageEnd <= source'[i].start
          PROVE  i \in DOMAIN poll.seen
      <4>1. i \in DOMAIN source /\ source'[i].start = source[i].start /\ End(source[i]) < Cutoff
        BY <1>5, <3>1, <3>3, Frozen
      <4> QED BY <2>0, <3>3, <4>1 DEF ReadInv, Due
    <3> QED BY <1>0, <3>1, <3>2, <3>3 DEF ReadInv, Due
  <2>2. ImportInv'
    <3> SUFFICES ASSUME poll # Idle, poll.pc \in {"write", "revise"} PROVE ImportInv'
      BY <1>0 DEF ImportInv
    <3>1. poll \in Running /\ Cutoff \in Int /\ Cutoff <= clock - AllowedLateness /\ Cutoff' = Cutoff
      BY <1>0, RunningFacts DEF Cutoff
    <3>2. ASSUME NEW i, NEW e, CopyOf(i, e), e.dur = source[i].dur, End(e) < Cutoff PROVE e.dur = source'[i].dur
      <4>1. i \in DOMAIN source /\ End(source[i]) < Cutoff
        BY <3>2 DEF CopyOf, End
      <4> QED BY <1>5, <3>1, <3>2, <4>1, FrozenOld
    <3>3. \A n \in DOMAIN poll.todo : poll.todo[n].ev.dur = source'[poll.todo[n].id].dur
      BY <2>0, <3>2 DEF ImportInv, TypeInv, PollInv
    <3>4. \A n \in DOMAIN poll.revise : poll.revise[n].ev.dur = source'[poll.revise[n].id].dur
      BY <2>0, <3>2 DEF ImportInv, TypeInv, PollInv
    <3>5. ASSUME NEW i \in DOMAIN source', poll.start <= source'[i].start, End(source'[i]) < Cutoff
          PROVE  StoredWhole(i)' \/ i \in Ids(poll.todo) \/ i \in Ids(poll.revise)
      <4>1. i \in DOMAIN source /\ source'[i].start = source[i].start /\ source'[i].dur = source[i].dur /\ End(source[i]) < Cutoff
        BY <1>5, <3>1, <3>5, Frozen
      <4>2. StoredWhole(i) \/ i \in Ids(poll.todo) \/ i \in Ids(poll.revise)
        BY <2>0, <3>5, <4>1 DEF ImportInv, Due
      <4> QED BY <1>0, <3>5, <4>1, <4>2, WholeKept
    <3>6. ASSUME poll.pc = "revise"
          PROVE  \E k \in DOMAIN source' : At(poll.last, k)' /\ End(source'[k]) < Cutoff /\ \A i \in Ids(poll.todo) : k < i
      <4>1. PICK k \in DOMAIN source : At(poll.last, k) /\ End(source[k]) < Cutoff /\ \A i \in Ids(poll.todo) : k < i
        BY <2>0, <3>6 DEF ImportInv
      <4>2. k \in DOMAIN source' /\ poll.last = <<source'[k].start, k>>
        BY <4>1, GrowKeepsAt
      <4>3. End(source'[k]) < Cutoff
        BY <1>5, <3>1, <4>1, FrozenOld
      <4> QED BY <1>0, <4>1, <4>2, <4>3 DEF At
    <3>7. \A i : Due(i)' <=> poll.start <= source'[i].start /\ End(source'[i]) < Cutoff
      BY <1>0, <3>1 DEF Due
    <3>8. \A i \in DOMAIN source' : Due(i)' => StoredWhole(i)' \/ i \in Ids(poll.todo) \/ i \in Ids(poll.revise)
      BY <3>5, <3>7
    <3> QED BY <1>0, <3>1, <3>3, <3>4, <3>6, <3>8 DEF ImportInv, Ids
  <2>3. VouchInv'
    <3>0. clock - AllowedLateness \in Int /\ clock - AllowedLateness <= clock - AllowedLateness
      BY <1>0
    <3>1. ASSUME checkpoint # NoTuple
          PROVE  \E k \in DOMAIN source' : At(checkpoint, k)' /\ End(source'[k]) < clock' - AllowedLateness
      <4>1. PICK k \in DOMAIN source : At(checkpoint, k) /\ End(source[k]) < clock - AllowedLateness
        BY <2>0, <3>1 DEF VouchInv
      <4>2. k \in DOMAIN source' /\ checkpoint = <<source'[k].start, k>>
        BY <4>1, GrowKeepsAt
      <4>3. End(source'[k]) = End(source[k])
        BY <1>5, <3>0, <4>1, FrozenOld
      <4>4. End(source'[k]) < clock' - AllowedLateness
        <5>1. source'[k].start \in Nat /\ source'[k].dur \in Nat /\ End(source'[k]) = source'[k].start + source'[k].dur
          BY <4>2, NextSourceFacts
        <5> QED BY <1>0, <4>1, <4>3, <5>1
      <4> QED BY <1>0, <4>2, <4>4 DEF At
    <3>2. ASSUME NEW i \in DOMAIN source', Passed(i)' PROVE StoredWhole(i)'
      <4>1. checkpoint # NoTuple /\ ~Before(checkpoint, <<source'[i].start, i>>) /\ source'[i].start >= floor
        BY <1>0, <3>2 DEF Passed, Tuple
      <4>2. PICK k \in DOMAIN source : checkpoint = <<source[k].start, k>> /\ End(source[k]) < clock - AllowedLateness
        BY <2>0, <4>1 DEF VouchInv, At
      <4>3. source[k].start \in Nat /\ source[k].dur \in Nat /\ End(source[k]) = source[k].start + source[k].dur
        BY SourceFacts DEF TypeInv
      <4>4. source'[i].start \in Nat
        BY NextSourceFacts
      <4>5. source'[i].start <= source[k].start
        BY <4>1, <4>2, <4>3, <4>4 DEF Before
      <4>6. i \in DOMAIN source
        <5> SUFFICES ASSUME source'[i].start >= clock - AllowedLateness PROVE FALSE
          BY DEF Grows
        <5> QED BY <1>0, <4>2, <4>3, <4>4, <4>5
      <4>7. source'[i].start = source[i].start
        BY <4>6 DEF Grows
      <4>8. Passed(i)
        BY <4>1, <4>7 DEF Passed, Tuple
      <4>9. i <= k
        BY <2>0, <4>5, <4>6, <4>7, BucketOrder DEF TypeInv
      <4>10. End(source[i]) < clock - AllowedLateness
        BY <2>0, <3>0, <4>2, <4>6, <4>9, EndedBehind DEF TypeInv
      <4>11. source'[i].dur = source[i].dur
        BY <1>5, <3>0, <4>6, <4>10, FrozenOld
      <4>12. StoredWhole(i)
        BY <2>0, <4>6, <4>8 DEF VouchInv
      <4> QED BY <1>0, <4>6, <4>11, <4>12, WholeKept
    <3>3. ASSUME NEW b \in beat PROVE b.at \in Nat /\ b.at <= clock' /\ b.from \in Int /\ b.at <= clock
      <4>1. b.at \in Nat /\ b.at <= clock /\ b.from \in Int
        BY <2>0 DEF VouchInv
      <4> QED BY <1>0, <4>1
    <3>4. ASSUME NEW b \in beat, NEW i \in DOMAIN source', source'[i].start >= b.from, End(source'[i]) < b.at - AllowedLateness
          PROVE  StoredWhole(i)'
      <4>1. b.at - AllowedLateness \in Int /\ b.at - AllowedLateness <= clock - AllowedLateness
        BY <1>0, <3>3
      <4>2. /\ i \in DOMAIN source /\ source'[i].start = source[i].start /\ source'[i].dur = source[i].dur
            /\ End(source[i]) < b.at - AllowedLateness
        BY <1>5, <3>4, <4>1, Frozen
      <4>3. StoredWhole(i)
        BY <2>0, <3>4, <4>2 DEF VouchInv
      <4> QED BY <1>0, <4>2, <4>3, WholeKept
    <3> QED BY <1>0, <3>1, <3>2, <3>3, <3>4 DEF VouchInv
  <2> QED BY <2>1, <2>2, <2>3
<1>6. Settled' => Settled
  BY DEF Settled, Pulse
<1> QED BY <1>1, <1>2, <1>3, <1>4, <1>5, <1>6 DEF ApartInv

\* Storing more leaves what is vouched for stored.
LEMMA VouchMore ==
  ASSUME TypeInv, TypeInv', VouchInv, UNCHANGED <<clock, source, checkpoint, beat, floor>>,
         Len(rawEvents) <= Len(rawEvents'), \A m \in 1 .. Len(rawEvents) : rawEvents'[m] = rawEvents[m]
  PROVE  VouchInv'
<1>1. \A i \in DOMAIN source : StoredWhole(i) => StoredWhole(i)'
  BY HasMore
<1>2. \A i \in DOMAIN source : Passed(i)' => Passed(i)
  BY DEF Passed, Tuple, Before
<1>3. \A i \in DOMAIN source : Passed(i)' => StoredWhole(i)'
  BY <1>1, <1>2 DEF VouchInv
<1>4. \A b \in beat, i \in DOMAIN source :
        source[i].start >= b.from /\ End(source[i]) < b.at - AllowedLateness => StoredWhole(i)'
  BY <1>1 DEF VouchInv
<1>5. checkpoint # NoTuple => \E k \in DOMAIN source : At(checkpoint, k) /\ End(source[k]) < clock - AllowedLateness
  BY DEF VouchInv
<1>6. \A b \in beat : b.at \in Nat /\ b.at <= clock /\ b.from \in Int
  BY DEF VouchInv
<1> QED BY <1>3, <1>4, <1>5, <1>6 DEF VouchInv, At, End

LEMMA SameRows ==
  ASSUME TypeInv, UNCHANGED rawEvents
  PROVE  Len(rawEvents) <= Len(rawEvents') /\ \A m \in 1 .. Len(rawEvents) : rawEvents'[m] = rawEvents[m]
<1>1. Len(rawEvents) \in Nat
  BY DEF TypeInv, RowsInv
<1> QED BY <1>1

LEMMA EndKeepsApart ==
  ASSUME TypeInv, ApartInv, UNCHANGED <<setup, clock, source, rawEvents>>, poll' = Idle,
         (Unedited => status \notin {"conflict", "invalid"})', Settled => VouchInv'
  PROVE  ApartInv'
<1>1. Apart'
  BY DEF ApartInv, Apart, End
<1>2. EndedInv'
  BY DEF ApartInv, EndedInv, End
<1>3. PageInv' /\ WriteInv' /\ ReadInv' /\ ImportInv'
  BY DEF PageInv, WriteInv, ReadInv, ImportInv
<1>4. Settled' => Settled
  BY DEF Settled, Pulse
<1> QED BY <1>1, <1>2, <1>3, <1>4 DEF ApartInv

LEMMA BeginApart ==
  ASSUME TypeInv, TypeInv', ApartInv, BeginPoll, UNCHANGED setup
  PROVE  ApartInv'
<1>1. PICK start, pc : start = PollStart /\ pc = IF PollStart >= clock - AllowedLateness THEN "beat" ELSE "page"
  OBVIOUS
<1>2. /\ UNCHANGED <<clock, source, rawEvents, checkpoint, status, beat, floor, budget>>
      /\ poll' = [pc |-> pc, now |-> clock, start |-> start, pageEnd |-> clock - AllowedLateness,
                  pages |-> 0, seen |-> <<>>, todo |-> <<>>, revise |-> <<>>, last |-> NoTuple]
  BY <1>1 DEF BeginPoll
<1>3. /\ poll'.now = clock /\ poll'.pc = pc /\ poll'.seen = <<>> /\ poll'.todo = <<>> /\ poll'.revise = <<>>
      /\ poll'.pageEnd = clock - AllowedLateness /\ pc \in {"beat", "page"}
  BY <1>1, <1>2
<1>4. Cutoff' = clock - AllowedLateness /\ clock \in Nat /\ AllowedLateness \in Nat /\ Cutoff' \in Int
  BY <1>3, SetupFacts DEF Cutoff, TypeInv, BucketInv
<1>5. Apart'
  BY <1>2 DEF ApartInv, Apart, End
<1>6. EndedInv'
  BY <1>2, <1>4 DEF ApartInv, EndedInv, End
<1>7. PageInv' /\ WriteInv'
  <2>1. poll'.pageEnd <= Cutoff' /\ poll'.pageEnd = Cutoff'
    BY <1>3, <1>4
  <2> QED BY <1>3, <2>1, EmptyFacts DEF PageInv, WriteInv
<1>8. ReadInv'
  <2>1. ASSUME NEW i \in DOMAIN source, End(source[i]) < Cutoff', Cutoff' <= source[i].start PROVE FALSE
    <3>1. source[i].start \in Nat /\ source[i].dur \in Nat /\ End(source[i]) = source[i].start + source[i].dur
      BY SourceFacts DEF TypeInv
    <3> QED BY <1>4, <2>1, <3>1
  <2>2. \A i \in DOMAIN source' : ~(Due(i)' /\ poll'.pageEnd <= source'[i].start)
    BY <1>2, <1>3, <1>4, <2>1 DEF Due
  <2> QED BY <1>3, <2>2, EmptyFacts DEF ReadInv
<1>9. ImportInv'
  BY <1>3 DEF ImportInv
<1>10. Settled => VouchInv'
  BY <1>2, SameRows, VouchMore DEF ApartInv
<1>11. (Settled' => Settled) /\ (Unedited => status \notin {"conflict", "invalid"})'
  BY <1>2 DEF ApartInv, Settled, Pulse, Unedited
<1> QED BY <1>5, <1>6, <1>7, <1>8, <1>9, <1>10, <1>11 DEF ApartInv

\* The heartbeat vouches for what was due.
LEMMA HeartbeatApart ==
  ASSUME TypeInv, TypeInv', ApartInv, AppendPollHeartbeat, UNCHANGED setup
  PROVE  ApartInv'
<1>1. /\ poll.pc = "beat" \/ (poll.pc = "write" /\ poll.todo = <<>>)
      /\ beat' = {[at |-> poll.now, from |-> poll.start]} /\ poll' = Idle /\ status' = "healthy"
      /\ UNCHANGED <<clock, source, rawEvents, checkpoint, floor, budget>>
  BY DEF AppendPollHeartbeat, EndPoll
<1>2. poll # Idle
  BY <1>1 DEF Idle
<1>3. poll.now \in Nat /\ poll.now <= clock /\ poll.start \in Int /\ Cutoff = poll.now - AllowedLateness /\ Cutoff \in Int
  BY <1>2, RunningFacts
<1>4. ASSUME Settled, NEW i \in DOMAIN source, source[i].start >= poll.start, End(source[i]) < Cutoff
      PROVE  StoredWhole(i)
  <2>1. CASE poll.pc = "beat"
    <3>1. poll.start >= Cutoff
      BY <1>2, <2>1 DEF TypeInv, PollInv
    <3>2. source[i].start \in Nat /\ source[i].dur \in Nat /\ End(source[i]) = source[i].start + source[i].dur
      BY SourceFacts DEF TypeInv
    <3> QED BY <1>3, <1>4, <3>1, <3>2
  <2>2. CASE poll.pc = "write" /\ poll.todo = <<>>
    <3>1. poll.revise = <<>>
      BY <1>2, <2>2 DEF TypeInv, PollInv
    <3>2. Ids(poll.todo) = {} /\ Ids(poll.revise) = {}
      BY <2>2, <3>1, EmptyFacts DEF Ids
    <3>3. source[i].start \in Nat
      BY SourceFacts DEF TypeInv
    <3>4. poll.start <= source[i].start
      BY <1>3, <1>4, <3>3
    <3> QED BY <1>2, <1>4, <2>2, <3>2, <3>4 DEF ApartInv, ImportInv, Due
  <2> QED BY <1>1, <2>1, <2>2
<1>5. ASSUME Settled PROVE VouchInv'
  <2>1. VouchInv
    BY <1>5 DEF ApartInv
  <2>2. \A i \in DOMAIN source : StoredWhole(i) => StoredWhole(i)'
    BY <1>1, SameRows, HasMore
  <2>3. \A i \in DOMAIN source : Passed(i)' => Passed(i)
    BY <1>1 DEF Passed, Tuple, Before
  <2>4. \A i \in DOMAIN source : Passed(i)' => StoredWhole(i)'
    BY <2>1, <2>2, <2>3 DEF VouchInv
  <2>5. \A b \in beat' : b.at = poll.now /\ b.from = poll.start
    BY <1>1
  <2>6. \A b \in beat', i \in DOMAIN source :
          source[i].start >= b.from /\ End(source[i]) < b.at - AllowedLateness => StoredWhole(i)'
    BY <1>3, <1>4, <1>5, <2>2, <2>5
  <2>7. \A b \in beat' : b.at \in Nat /\ b.at <= clock /\ b.from \in Int
    BY <1>3, <2>5
  <2>8. checkpoint # NoTuple => \E k \in DOMAIN source : At(checkpoint, k) /\ End(source[k]) < clock - AllowedLateness
    BY <2>1 DEF VouchInv
  <2> QED BY <1>1, <2>4, <2>6, <2>7, <2>8 DEF VouchInv, At, End
<1> QED BY <1>1, <1>5, EndKeepsApart

LEMMA StopApart ==
  ASSUME TypeInv, TypeInv', ApartInv, PollFails \/ Crash, UNCHANGED setup
  PROVE  ApartInv'
<1>1. /\ poll' = Idle /\ UNCHANGED <<clock, source, rawEvents, checkpoint, floor, beat>>
      /\ status' \notin {"conflict", "invalid"}
  BY DEF PollFails, Crash, EndPoll
<1>2. Settled => VouchInv'
  BY <1>1, SameRows, VouchMore DEF ApartInv
<1> QED BY <1>1, <1>2, EndKeepsApart

-----------------------------------------------------------------------------
(* Pages of events that do not overlap.                                    *)

\* Only the cutoff cuts an event that was not seen before: a later page ends at the
\* start of an event, and the events before that one end there at the latest.
LEMMA UnseenWhole ==
  ASSUME TypeInv, Apart, PageInv, poll # Idle, poll.pc = "page", NEW p \in Pages(poll.start - 1, poll.pageEnd),
         NEW i \in Inside(p), i \notin DOMAIN poll.seen
  PROVE  \/ Got(p)[i].dur = source[i].dur
         \/ End(source[i]) > Cutoff /\ End(Got(p)[i]) = Cutoff
<1>1. i \in p
  BY DEF Inside
<1>2. /\ i \in DOMAIN source /\ source[i].start <= poll.pageEnd /\ Got(p)[i] \in Event /\ CopyOf(i, Got(p)[i])
      /\ Got(p)[i].dur = IF End(source[i]) > poll.pageEnd THEN poll.pageEnd - source[i].start ELSE source[i].dur
  BY <1>1, RunningFacts, PageCopy DEF TypeInv
<1>3. poll.pageEnd = Cutoff \/ \E k \in DOMAIN poll.seen : poll.seen[k].start = poll.pageEnd
  BY DEF PageInv
<1>4. CASE End(source[i]) > poll.pageEnd
  <2>1. CASE poll.pageEnd = Cutoff
    <3>1. PICK g : g = Got(p)[i]
      OBVIOUS
    <3>2. g.start = source[i].start /\ g.dur = Cutoff - source[i].start /\ End(g) = g.start + g.dur
      BY <1>2, <1>4, <2>1, <3>1 DEF CopyOf, End
    <3>3. source[i].start \in Nat /\ Cutoff \in Int
      BY <1>2, SourceFacts, RunningFacts DEF TypeInv
    <3>4. End(g) = Cutoff
      BY <3>2, <3>3
    <3> QED BY <1>4, <2>1, <3>1, <3>4
  <2>2. ASSUME NEW k \in DOMAIN poll.seen, poll.seen[k].start = poll.pageEnd PROVE FALSE
    <3>1. k \in DOMAIN source /\ source[k].start = poll.pageEnd /\ i # k
      BY <2>2 DEF TypeInv, PollInv, CopyOf
    <3>2. i <= k
      BY <1>2, <3>1, BucketOrder DEF TypeInv
    <3>3. i \in Nat /\ k \in Nat /\ End(source[i]) = source[i].start + source[i].dur /\ source[i].start \in Nat /\ source[i].dur \in Nat
      BY <1>2, <3>1, SourceFacts DEF TypeInv
    <3>4. End(source[i]) <= source[k].start /\ source[k].start \in Nat
      <4>1. i < k
        BY <3>1, <3>2, <3>3
      <4>2. End(source[i]) <= source[k].start
        BY <1>2, <3>1, <4>1, BucketOrder DEF TypeInv
      <4> QED BY <3>1, <4>2, SourceFacts DEF TypeInv
    <3> QED BY <1>4, <3>1, <3>3, <3>4
  <2> QED BY <1>3, <2>1, <2>2
<1>5. CASE ~(End(source[i]) > poll.pageEnd)
  BY <1>2, <1>5
<1> QED BY <1>4, <1>5

\* Every copy is at least as long as what is stored of its event.
LEMMA SeenNoLonger ==
  ASSUME TypeInv, Apart, EndedInv, PageInv, poll # Idle, poll.pc = "page", NEW p \in Pages(poll.start - 1, poll.pageEnd),
         NEW i \in DOMAIN SeenWith(p)
  PROVE  NoLonger(i, SeenWith(p)[i])
<1> SUFFICES ASSUME NEW n \in DOMAIN rawEvents, EventOf(rawEvents[n]) = i
             PROVE  rawEvents[n].content.dur <= SeenWith(p)[i].dur
  BY DEF NoLonger
<1>1. PICK e, r : e = SeenWith(p)[i] /\ r = rawEvents[n].content
  OBVIOUS
<1>2. /\ CopyOf(i, e) /\ (i \in DOMAIN poll.seen => e.dur >= poll.seen[i].dur)
      /\ i \in DOMAIN poll.seen \/ (e = Got(p)[i] /\ i \in Inside(p))
  BY <1>1, SeenFacts DEF TypeInv
<1>3. r \in Event /\ r.dur \in Nat /\ r.start = source[i].start /\ r.dur <= source[i].dur /\ End(r) < Cutoff
      /\ End(r) = r.start + r.dur /\ r.start \in Nat
  <2>1. r \in Event
    BY <1>1, RowFacts DEF TypeInv
  <2>2. r.start = source[i].start /\ r.dur <= source[i].dur
    BY <1>1 DEF TypeInv, RowsInv, CopyOf
  <2>3. End(r) < Cutoff
    BY <1>1 DEF EndedInv
  <2> QED BY <2>1, <2>2, <2>3, EventFacts DEF TypeInv
<1>4. e.dur \in Nat /\ e.start \in Nat /\ End(e) = e.start + e.dur /\ e.start = source[i].start
  <2>1. SeenWith(p) \in Seens
    BY SeenFacts DEF TypeInv
  <2>2. e \in Event
    BY <1>1, <2>1 DEF Seens
  <2> QED BY <1>2, <2>2, EventFacts DEF TypeInv, CopyOf
<1>5. CASE i \in DOMAIN poll.seen
  <2>1. r.dur <= poll.seen[i].dur
    BY <1>1, <1>5 DEF PageInv, NoLonger
  <2>2. poll.seen[i].dur \in Nat
    BY <1>5, RunningFacts, ItemFacts DEF TypeInv
  <2> QED BY <1>1, <1>2, <1>3, <1>4, <1>5, <2>1, <2>2
<1>6. CASE i \notin DOMAIN poll.seen
  <2>1. e.dur = source[i].dur \/ End(e) = Cutoff
    BY <1>1, <1>2, <1>6, UnseenWhole
  <2>2. Cutoff \in Int
    BY RunningFacts
  <2> QED BY <1>1, <1>3, <1>4, <2>1, <2>2
<1> QED BY <1>5, <1>6

\* A copy is whole unless it reaches the cutoff.
LEMMA SeenWhole ==
  ASSUME TypeInv, Apart, PageInv, ReadInv, poll # Idle, poll.pc = "page", NEW p \in Pages(poll.start - 1, poll.pageEnd),
         NEW i \in DOMAIN SeenWith(p)
  PROVE  IF End(source[i]) < Cutoff THEN SeenWith(p)[i].dur = source[i].dur ELSE End(SeenWith(p)[i]) >= Cutoff
<1>1. PICK e : e = SeenWith(p)[i]
  OBVIOUS
<1>2. /\ CopyOf(i, e) /\ (i \in DOMAIN poll.seen => e.dur >= poll.seen[i].dur)
      /\ i \in DOMAIN poll.seen \/ (e = Got(p)[i] /\ i \in Inside(p))
  BY <1>1, SeenFacts DEF TypeInv
<1>3. i \in DOMAIN source /\ e.start = source[i].start /\ e.dur <= source[i].dur
  BY <1>2 DEF CopyOf
<1>4. source[i].start \in Nat /\ source[i].dur \in Nat /\ End(source[i]) = source[i].start + source[i].dur /\ Cutoff \in Int
  BY <1>3, SourceFacts, RunningFacts DEF TypeInv
<1>5. e.dur \in Nat /\ End(e) = e.start + e.dur
  <2>1. SeenWith(p) \in Seens
    BY SeenFacts DEF TypeInv
  <2>2. e \in Event
    BY <1>1, <2>1 DEF Seens
  <2> QED BY <2>2, EventFacts DEF TypeInv
<1>6. CASE i \in DOMAIN poll.seen
  <2>1. PICK s : s = poll.seen[i]
    OBVIOUS
  <2>2. IF End(source[i]) < Cutoff THEN s.dur = source[i].dur ELSE End(s) >= Cutoff
    BY <1>6, <2>1 DEF ReadInv
  <2>3. s.dur \in Nat /\ s.start = source[i].start /\ End(s) = s.start + s.dur /\ e.dur >= s.dur
    BY <1>2, <1>6, <2>1, RunningFacts, ItemFacts DEF TypeInv, PollInv, CopyOf, End
  <2>4. IF End(source[i]) < Cutoff THEN e.dur = source[i].dur ELSE End(e) >= Cutoff
    BY <1>3, <1>4, <1>5, <2>2, <2>3
  <2> QED BY <1>1, <2>4
<1>7. CASE i \notin DOMAIN poll.seen
  <2>1. e.dur = source[i].dur \/ (End(source[i]) > Cutoff /\ End(e) = Cutoff)
    BY <1>1, <1>2, <1>7, UnseenWhole
  <2>2. IF End(source[i]) < Cutoff THEN e.dur = source[i].dur ELSE End(e) >= Cutoff
    BY <1>3, <1>4, <1>5, <2>1
  <2> QED BY <1>1, <2>2
<1> QED BY <1>6, <1>7

\* What is due and was not seen yet is in the range of the page, and is missing from
\* it only if everything on the page is later.
LEMMA Hit ==
  ASSUME TypeInv, ReadInv, poll # Idle, poll.pc = "page", NEW p \in Pages(poll.start - 1, poll.pageEnd),
         NEW i \in DOMAIN source, Due(i), i \notin DOMAIN SeenWith(p)
  PROVE  /\ i \notin p /\ Cardinality(p) = PageSize
         /\ source[i].start < poll.pageEnd /\ \A j \in p : source[j].start >= source[i].start
<1>1. DOMAIN SeenWith(p) = DOMAIN poll.seen \cup Inside(p)
  BY SeenFacts DEF TypeInv
<1>2. /\ source[i].start \in Nat /\ source[i].dur \in Nat /\ End(source[i]) = source[i].start + source[i].dur
      /\ poll.start \in Int /\ poll.pageEnd \in Int /\ poll \in Running
  BY SourceFacts, RunningFacts DEF TypeInv
<1>3. poll.start <= source[i].start
  BY DEF Due
<1>4. source[i].start < poll.pageEnd
  <2>1. ~(poll.pageEnd <= source[i].start)
    BY <1>1 DEF ReadInv
  <2> QED BY <1>2, <2>1
<1>5. i \notin p
  <2> SUFFICES ASSUME i \in p PROVE FALSE
    OBVIOUS
  <2>1. i \in Inside(p) <=> source[i].start >= poll.start
    BY <1>2, PageCopy DEF TypeInv
  <2> QED BY <1>1, <1>2, <1>3, <2>1
<1>6. PICK hits : hits = {j \in DOMAIN source : source[j].start <= poll.pageEnd /\ End(source[j]) >= poll.start - 1}
  OBVIOUS
<1>7. i \in hits
  BY <1>2, <1>3, <1>4, <1>6
<1>8. /\ p \subseteq hits
      /\ Cardinality(p) = IF Cardinality(hits) < PageSize THEN Cardinality(hits) ELSE PageSize
      /\ \A j \in p, k \in hits \ p : source[j].start >= source[k].start
  BY <1>6, Zenon DEF Pages
<1>9. Cardinality(p) # Cardinality(hits)
  <2>1. IsFiniteSet(hits)
    <3>1. hits \subseteq 1 .. Len(source) /\ Len(source) \in Nat
      BY <1>6 DEF TypeInv, BucketInv
    <3>2. IsFiniteSet(1 .. Len(source))
      BY <3>1, FS_Interval
    <3> QED BY <3>1, <3>2, FS_Subset
  <2>2. Cardinality(p) = Cardinality(hits) => p = hits
    BY <1>8, <2>1, FS_Subset
  <2> QED BY <1>5, <1>7, <2>2
<1> QED BY <1>4, <1>5, <1>7, <1>8, <1>9

\* A page that is not the last leads to the next one.
LEMMA ReadOnApart ==
  ASSUME TypeInv, TypeInv', ApartInv, FetchPage, UNCHANGED setup,
         NEW p \in Pages(poll.start - 1, poll.pageEnd), NEW t, ReadOn(p, t)
  PROVE  ApartInv'
<1>1. /\ poll # Idle /\ poll \in Running /\ poll.pc = "page" /\ poll.revise = <<>>
      /\ UNCHANGED <<clock, source, rawEvents, checkpoint, beat, floor, budget>>
  BY FetchStart
<1>2. PICK seen : seen = SeenWith(p)
  OBVIOUS
<1>3. /\ UNCHANGED status /\ Full(p) /\ Oldest(p, t) /\ t < poll.pageEnd
      /\ poll' = [poll EXCEPT !.pages = @ + 1, !.seen = seen, !.pageEnd = t]
  BY <1>2 DEF ReadOn
<1>4. /\ poll'.pc = "page" /\ poll'.todo = poll.todo /\ poll'.seen = seen /\ poll'.start = poll.start
      /\ poll'.now = poll.now /\ poll'.revise = <<>> /\ poll'.pageEnd = t
  BY <1>1, <1>3 DEF Running
<1>5. Cutoff' = Cutoff /\ Cutoff \in Int /\ poll.pageEnd \in Int
  BY <1>1, <1>4, RunningFacts DEF Cutoff
<1>6. Apart /\ EndedInv /\ PageInv /\ WriteInv
  BY DEF ApartInv
<1>7. PICK k \in p : t = source[k].start /\ k \in Inside(p) /\ k \in DOMAIN source
  <2>1. PICK k \in p : t = Got(p)[k].start
    BY <1>3 DEF Oldest
  <2>2. k \in Inside(p)
    BY <1>3 DEF Full
  <2> QED BY <1>1, <2>1, <2>2, PageCopy DEF TypeInv, CopyOf
<1>8. \A i \in DOMAIN seen : CopyOf(i, seen[i])
  BY <1>1, <1>2, SeenFacts DEF TypeInv
<1>9. t \in Nat
  BY <1>7, SourceFacts DEF TypeInv
<1>10. PageInv'
  <2>1. k \in DOMAIN seen /\ seen[k].start = t
    <3>1. k \in DOMAIN seen
      BY <1>1, <1>2, <1>7, SeenFacts DEF TypeInv
    <3> QED BY <1>7, <1>8, <3>1 DEF CopyOf
  <2>2. t <= Cutoff
    <3>1. poll.pageEnd <= Cutoff
      BY <1>1, <1>6 DEF PageInv
    <3> QED BY <1>3, <1>5, <1>9, <3>1
  <2>3. \A i \in DOMAIN seen : NoLonger(i, seen[i])
    BY <1>1, <1>2, <1>6, SeenNoLonger
  <2>4. \A i \in DOMAIN seen : NoLonger(i, seen[i])'
    BY <1>1, <2>3 DEF NoLonger, EventOf
  <2> QED BY <1>4, <1>5, <2>1, <2>2, <2>4 DEF PageInv, NoLonger
<1>11. WriteInv'
  BY <1>1, <1>4, <1>6 DEF WriteInv, NoLonger, EventOf
<1>12. Apart' /\ EndedInv'
  BY <1>1, <1>5, <1>6 DEF Apart, EndedInv, End
<1>13. ASSUME Settled PROVE ReadInv'
  <2>1. ReadInv
    BY <1>13 DEF ApartInv
  <2>2. \A i \in DOMAIN seen : IF End(source[i]) < Cutoff THEN seen[i].dur = source[i].dur ELSE End(seen[i]) >= Cutoff
    BY <1>1, <1>2, <1>6, <2>1, SeenWhole
  <2>3. ASSUME NEW i \in DOMAIN source, Due(i), t <= source[i].start PROVE i \in DOMAIN seen
    <3> SUFFICES ASSUME i \notin DOMAIN seen PROVE FALSE
      OBVIOUS
    <3>1. i \notin p /\ source[k].start >= source[i].start
      BY <1>1, <1>2, <1>7, <2>1, <2>3, Hit
    <3>2. source[i].start \in Nat
      BY SourceFacts DEF TypeInv
    <3>3. source[i].start = source[k].start
      BY <1>7, <1>9, <2>3, <3>1, <3>2
    <3>4. i = k
      BY <1>6, <1>7, <3>3, BucketOrder DEF TypeInv
    <3> QED BY <1>7, <3>1, <3>4
  <2>4. \A i \in DOMAIN source : Due(i)' <=> Due(i)
    BY <1>1, <1>4, <1>5 DEF Due, End
  <2> QED BY <1>1, <1>4, <1>5, <2>2, <2>3, <2>4 DEF ReadInv, End
<1>14. ImportInv'
  BY <1>4 DEF ImportInv
<1>15. Settled => VouchInv'
  BY <1>1, SameRows, VouchMore DEF ApartInv
<1>16. (Settled' => Settled) /\ (Unedited => status \notin {"conflict", "invalid"})'
  BY <1>1, <1>3 DEF ApartInv, Settled, Pulse, Unedited
<1> QED BY <1>10, <1>11, <1>12, <1>13, <1>14, <1>15, <1>16 DEF ApartInv

\* After the last page everything due is to be written.
LEMMA ReadAllApart ==
  ASSUME TypeInv, TypeInv', ApartInv, FetchPage, UNCHANGED setup,
         NEW p \in Pages(poll.start - 1, poll.pageEnd), NEW todo, ReadAll(p, todo)
  PROVE  ApartInv'
<1>1. /\ poll # Idle /\ poll \in Running /\ poll.pc = "page" /\ poll.revise = <<>>
      /\ UNCHANGED <<clock, source, rawEvents, checkpoint, beat, floor, budget>>
  BY FetchStart
<1>2. PICK seen : seen = SeenWith(p)
  OBVIOUS
<1>3. /\ UNCHANGED status /\ ~Full(p) /\ todo \in StablePrefixes(seen, Cutoff)
      /\ poll' = [poll EXCEPT !.pc = "write", !.todo = todo, !.seen = <<>>, !.pages = 0, !.pageEnd = Cutoff]
  BY <1>2 DEF ReadAll
<1>4. /\ poll'.pc = "write" /\ poll'.todo = todo /\ poll'.seen = <<>> /\ poll'.start = poll.start
      /\ poll'.now = poll.now /\ poll'.revise = <<>>
  BY <1>1, <1>3 DEF Running
<1>5. Cutoff' = Cutoff /\ Cutoff \in Int
  BY <1>1, <1>4, RunningFacts DEF Cutoff
<1>6. Apart /\ EndedInv /\ PageInv /\ WriteInv
  BY DEF ApartInv
<1>7. seen \in Seens /\ \A i \in DOMAIN seen : CopyOf(i, seen[i])
  BY <1>1, <1>2, SeenFacts DEF TypeInv
<1>8. DOMAIN seen \subseteq DOMAIN source
  BY <1>7 DEF CopyOf
<1>9. /\ todo \in Seq(AwItem)
      /\ \A n \in DOMAIN todo : todo[n].id \in DOMAIN seen /\ todo[n].ev = seen[todo[n].id] /\ End(todo[n].ev) < Cutoff
      /\ \A m, n \in DOMAIN todo : m < n => Before(Tuple(todo[m].id, todo[m].ev), Tuple(todo[n].id, todo[n].ev))
      /\ \A i \in DOMAIN seen :
           (\A j \in DOMAIN seen : Before(Tuple(i, seen[i]), Tuple(j, seen[j])) \/ End(seen[j]) < Cutoff)
             => i \in Ids(todo)
  BY <1>3, <1>5, <1>7, <1>8, PrefixFacts DEF TypeInv
<1>10. \A i, j \in DOMAIN seen : Before(Tuple(i, seen[i]), Tuple(j, seen[j])) <=> i < j
  <2>1. \A i \in DOMAIN seen : Tuple(i, seen[i]) = <<source[i].start, i>> /\ i \in DOMAIN source
    BY <1>7 DEF CopyOf, Tuple
  <2> QED BY <1>6, <2>1, BucketOrder DEF TypeInv
<1>11. WriteInv'
  <2>1. \A m, n \in DOMAIN todo : m < n => todo[m].id < todo[n].id
    BY <1>9, <1>10
  <2>2. \A n \in DOMAIN todo : NoLonger(todo[n].id, todo[n].ev)
    BY <1>1, <1>2, <1>6, <1>9, SeenNoLonger
  <2>3. \A n \in DOMAIN todo : NoLonger(todo[n].id, todo[n].ev)'
    BY <1>1, <2>2, <1>4 DEF NoLonger, EventOf
  <2> QED BY <1>4, <2>1, <2>3, EmptyFacts DEF WriteInv, NoLonger
<1>12. Apart' /\ EndedInv'
  BY <1>1, <1>5, <1>6 DEF Apart, EndedInv, End
<1>13. ASSUME Settled PROVE ImportInv'
  <2>1. ReadInv
    BY <1>13 DEF ApartInv
  <2>2. \A i \in DOMAIN seen : IF End(source[i]) < Cutoff THEN seen[i].dur = source[i].dur ELSE End(seen[i]) >= Cutoff
    BY <1>1, <1>2, <1>6, <2>1, SeenWhole
  <2>3. \A n \in DOMAIN todo : todo[n].ev.dur = source[todo[n].id].dur
    <3> SUFFICES ASSUME NEW n \in DOMAIN todo PROVE todo[n].ev.dur = source[todo[n].id].dur
      OBVIOUS
    <3>1. PICK i, e : i = todo[n].id /\ e = todo[n].ev
      OBVIOUS
    <3>2. i \in DOMAIN seen /\ e = seen[i] /\ End(e) < Cutoff
      BY <1>9, <3>1
    <3>3. e \in Event
      BY <1>7, <3>2 DEF Seens
    <3>4. End(e) \in Int
      BY <3>3, EventFacts DEF TypeInv
    <3>5. e.dur = source[i].dur
      BY <1>5, <2>2, <3>2, <3>4
    <3> QED BY <3>1, <3>5
  <2>4. ASSUME NEW i \in DOMAIN source, Due(i) PROVE i \in DOMAIN seen
    <3> SUFFICES ASSUME i \notin DOMAIN seen PROVE FALSE
      OBVIOUS
    <3>1. Cardinality(p) = PageSize /\ \A j \in p : source[j].start >= source[i].start
      BY <1>1, <1>2, <2>1, <2>4, Hit
    <3>2. Inside(p) # p
      BY <1>3, <3>1 DEF Full
    <3>3. PICK j \in p : j \notin Inside(p)
      BY <3>2 DEF Inside
    <3>4. j \in DOMAIN source /\ ~(source[j].start >= poll.start)
      BY <1>1, <3>3, PageCopy DEF TypeInv
    <3>5. source[i].start \in Nat /\ source[j].start \in Nat /\ poll.start \in Int
      BY <1>1, <3>4, SourceFacts, RunningFacts DEF TypeInv
    <3>6. poll.start <= source[i].start /\ source[j].start >= source[i].start
      BY <2>4, <3>1, <3>3 DEF Due
    <3> QED BY <3>4, <3>5, <3>6
  <2>5. ASSUME NEW i \in DOMAIN source, Due(i) PROVE i \in Ids(todo)
    <3>1. i \in DOMAIN seen /\ End(source[i]) < Cutoff
      BY <2>4, <2>5 DEF Due
    <3>2. ASSUME NEW j \in DOMAIN seen, ~(i < j) PROVE End(seen[j]) < Cutoff
      <4>1. j \in DOMAIN source /\ i \in Nat /\ j \in Nat
        BY <1>8, SourceFacts DEF TypeInv
      <4>2. j <= i
        BY <3>2, <4>1
      <4>3. End(source[j]) < Cutoff
        BY <1>5, <1>6, <3>1, <4>1, <4>2, EndedBehind DEF TypeInv
      <4>4. seen[j].dur = source[j].dur /\ seen[j].start = source[j].start
        BY <1>7, <2>2, <4>3 DEF CopyOf
      <4> QED BY <4>3, <4>4 DEF End
    <3> QED BY <1>9, <1>10, <3>1, <3>2
  <2>6. \A i \in DOMAIN source : Due(i)' <=> Due(i)
    BY <1>1, <1>4, <1>5 DEF Due, End
  <2> QED BY <1>1, <1>4, <2>3, <2>5, <2>6, EmptyFacts DEF ImportInv, Ids
<1>14. ReadInv' /\ PageInv'
  BY <1>4 DEF ReadInv, PageInv
<1>15. Settled => VouchInv'
  BY <1>1, SameRows, VouchMore DEF ApartInv
<1>16. (Settled' => Settled) /\ (Unedited => status \notin {"conflict", "invalid"})'
  BY <1>1, <1>3 DEF ApartInv, Settled, Pulse, Unedited
<1> QED BY <1>11, <1>12, <1>13, <1>14, <1>15, <1>16 DEF ApartInv

LEMMA FetchApart ==
  ASSUME TypeInv, TypeInv', ApartInv, FetchPage, UNCHANGED setup
  PROVE  ApartInv'
<1>1. /\ poll # Idle /\ UNCHANGED <<clock, source, rawEvents, checkpoint, beat, floor, budget>>
  BY FetchStart
<1>2. PICK p \in Pages(poll.start - 1, poll.pageEnd) :
        Finished(p) \/ (\E todo : ReadAll(p, todo)) \/ (\E t : ReadOn(p, t))
  BY FetchOutcomes
<1>3. CASE Finished(p)
  <2>1. poll' = Idle
    BY <1>3 DEF Finished, EndPoll
  <2>2. (Unedited => status \notin {"conflict", "invalid"})'
    <3> SUFFICES ASSUME Unedited PROVE status' \notin {"conflict", "invalid"}
      BY <1>1 DEF Unedited
    <3>1. ~Clash(p)
      BY <1>1, SeenUnedited
    <3> QED BY <1>3, <3>1 DEF Finished, EndPoll
  <2>3. Settled => VouchInv'
    BY <1>1, SameRows, VouchMore DEF ApartInv
  <2> QED BY <1>1, <2>1, <2>2, <2>3, EndKeepsApart
<1> QED BY <1>2, <1>3, ReadOnApart, ReadAllApart

-----------------------------------------------------------------------------
(* Writing, revising and vouching.                                         *)

LEMMA WriteApart ==
  ASSUME TypeInv, TypeInv', ApartInv, WriteBatch, UNCHANGED setup
  PROVE  ApartInv'
<1>1. poll # Idle /\ poll.pc = "write" /\ UNCHANGED <<clock, source, checkpoint, status, beat, floor, budget>>
  BY WriteOutcome
<1>2. PICK n, again, rest, rows :
        /\ Written(n, again, rest, rows) /\ rawEvents' = rows
        /\ poll' = [poll EXCEPT !.pc = "revise", !.todo = rest,
                      !.revise = [a \in DOMAIN again |-> poll.todo[again[a]]],
                      !.last = <<poll.todo[n].ev.start, poll.todo[n].id>>]
  BY WriteOutcome
<1>3. PICK todo, revise, last : todo = poll.todo /\ revise = [a \in DOMAIN again |-> todo[again[a]]]
        /\ last = <<todo[n].ev.start, todo[n].id>>
  OBVIOUS
<1>4. poll \in Running /\ todo \in Seq(AwItem) /\ Len(todo) \in Nat /\ Cutoff \in Int /\ Cutoff <= clock - AllowedLateness
      /\ clock \in Nat /\ AllowedLateness \in Nat /\ DOMAIN todo = 1 .. Len(todo)
  <2>1. poll \in Running /\ todo \in Seq(AwItem) /\ Cutoff \in Int /\ Cutoff <= clock - AllowedLateness
        /\ clock \in Nat /\ AllowedLateness \in Nat
    BY <1>1, <1>3, RunningFacts
  <2> QED BY <2>1
<1>5. /\ n \in 1 .. Len(todo) /\ rows \in Seq(AwRow) /\ Len(rawEvents) <= Len(rows)
      /\ \A m \in 1 .. Len(rawEvents) : rows[m] = rawEvents[m]
      /\ \A m \in 1 .. Len(rows) : m <= Len(rawEvents) \/
           \E k \in 1 .. n : rows[m].key = BaseKey(todo[k].id) /\ rows[m].content = todo[k].ev
  BY <1>2, <1>3 DEF Written
<1>6. /\ rest \in Seq(AwItem) /\ Len(rest) = Len(todo) - n /\ \A k \in 1 .. Len(rest) : rest[k] = todo[n + k]
  BY <1>2, <1>3 DEF Written
<1>7. /\ again \in Seq(1 .. n) /\ \A a, b \in DOMAIN again : a < b => again[a] < again[b]
      /\ \A k \in 1 .. n : \E m \in 1 .. Len(rows) :
           /\ rows[m].key = BaseKey(todo[k].id)
           /\ rows[m].content # todo[k].ev <=> \E a \in DOMAIN again : again[a] = k
  BY <1>2, <1>3 DEF Written
<1>8. \A a \in DOMAIN again : again[a] \in 1 .. n
  <2>1. PICK T : T = 1 .. n
    OBVIOUS
  <2>2. again \in Seq(T)
    BY <1>7, <2>1
  <2>3. \A a \in DOMAIN again : again[a] \in T
    BY <2>2
  <2> QED BY <2>1, <2>3
<1>9. /\ DOMAIN revise = DOMAIN again /\ \A a \in DOMAIN revise : revise[a] = todo[again[a]] /\ again[a] \in 1 .. n
  BY <1>3, <1>8
<1>10. /\ DOMAIN rest = 1 .. Len(rest) /\ \A k \in 1 .. n : k \in DOMAIN todo
       /\ \A k \in DOMAIN rest : rest[k] = todo[n + k] /\ n + k \in DOMAIN todo /\ n + k > n /\ k \in Nat
       /\ n \in Nat
  BY <1>4, <1>5, <1>6
<1>11. poll' = [poll EXCEPT !.pc = "revise", !.todo = rest, !.revise = revise, !.last = last]
  BY <1>2, <1>3, Zenon
<1>12. /\ poll'.pc = "revise" /\ poll'.todo = rest /\ poll'.revise = revise /\ poll'.last = last
       /\ poll'.start = poll.start /\ poll'.now = poll.now
  BY <1>4, <1>11 DEF Running
<1>13. Cutoff' = Cutoff
  BY <1>12 DEF Cutoff
<1>14. \A k \in DOMAIN todo : CopyOf(todo[k].id, todo[k].ev) /\ End(todo[k].ev) < Cutoff /\ todo[k] \in AwItem
  BY <1>1, <1>3, <1>4 DEF TypeInv, PollInv
<1>15. \A j, k \in DOMAIN todo : j < k => todo[j].id < todo[k].id
  BY <1>1, <1>3 DEF ApartInv, WriteInv
<1>16. \A k \in DOMAIN todo : todo[k].id \in Nat
  BY <1>14 DEF AwItem
<1>17. \A j, k \in DOMAIN todo : todo[j].id = todo[k].id => j = k
  BY <1>4, <1>15, <1>16
<1>18. /\ DOMAIN rawEvents = 1 .. Len(rawEvents) /\ Len(rawEvents) \in Nat /\ DOMAIN rows = 1 .. Len(rows) /\ Len(rows) \in Nat
  BY <1>5 DEF TypeInv, RowsInv
<1>19. \A m \in DOMAIN rows :
         \/ m \in DOMAIN rawEvents /\ rows[m] = rawEvents[m]
         \/ \E k \in 1 .. n : EventOf(rows[m]) = todo[k].id /\ rows[m].content = todo[k].ev
  <2> SUFFICES ASSUME NEW m \in DOMAIN rows
               PROVE  \/ m \in DOMAIN rawEvents /\ rows[m] = rawEvents[m]
                      \/ \E k \in 1 .. n : EventOf(rows[m]) = todo[k].id /\ rows[m].content = todo[k].ev
    OBVIOUS
  <2>1. CASE m <= Len(rawEvents)
    BY <1>5, <1>18, <2>1
  <2>2. CASE ~(m <= Len(rawEvents))
    <3>1. PICK k \in 1 .. n : rows[m].key = BaseKey(todo[k].id) /\ rows[m].content = todo[k].ev
      BY <1>5, <1>18, <2>2
    <3> QED BY <3>1, KeyFacts DEF EventOf
  <2> QED BY <2>1, <2>2
<1>20. Apart'
  BY <1>1 DEF ApartInv, Apart, End
<1>21. EndedInv'
  <2>1. ASSUME NEW m \in DOMAIN rows PROVE End(rows[m].content) < Cutoff /\ End(rows[m].content) < clock - AllowedLateness
    <3>1. CASE m \in DOMAIN rawEvents /\ rows[m] = rawEvents[m]
      BY <1>1, <3>1 DEF ApartInv, EndedInv
    <3>2. ASSUME NEW k \in 1 .. n, rows[m].content = todo[k].ev
          PROVE  End(rows[m].content) < Cutoff /\ End(rows[m].content) < clock - AllowedLateness
      <4>1. k \in DOMAIN todo /\ End(todo[k].ev) < Cutoff
        BY <1>10, <1>14
      <4>2. todo[k].ev \in Event
        BY <1>14, <4>1 DEF AwItem
      <4>3. PICK e : e = todo[k].ev
        OBVIOUS
      <4>4. e.start \in Nat /\ e.dur \in Nat /\ End(e) = e.start + e.dur
        BY <4>2, <4>3, EventFacts DEF TypeInv
      <4>5. End(e) < Cutoff /\ End(e) < clock - AllowedLateness
        BY <1>4, <4>1, <4>3, <4>4
      <4> QED BY <3>2, <4>3, <4>5
    <3> QED BY <1>19, <3>1, <3>2
  <2>2. \A m \in DOMAIN rawEvents' :
          /\ End(rawEvents'[m].content) < clock' - AllowedLateness
          /\ End(rawEvents'[m].content) < Cutoff'
    BY <1>1, <1>2, <1>13, <2>1
  <2> QED BY <2>2 DEF EndedInv, End
<1>22. WriteInv'
  <2>1. \A j, k \in DOMAIN rest : j < k => rest[j].id < rest[k].id
    BY <1>10, <1>15
  <2>2. \A a, b \in DOMAIN revise : a < b => revise[a].id < revise[b].id
    BY <1>7, <1>9, <1>10, <1>15
  <2>3. \A a \in DOMAIN revise, k \in DOMAIN rest : revise[a].id < rest[k].id
    BY <1>9, <1>10, <1>15
  <2>4. \A k \in DOMAIN todo, m \in DOMAIN rawEvents :
          EventOf(rawEvents[m]) = todo[k].id => rawEvents[m].content.dur <= todo[k].ev.dur
    BY <1>1, <1>3 DEF ApartInv, WriteInv, NoLonger
  <2>5. ASSUME NEW k \in DOMAIN todo, NEW m \in DOMAIN rows, EventOf(rows[m]) = todo[k].id
        PROVE  rows[m].content.dur <= todo[k].ev.dur
    <3>1. CASE m \in DOMAIN rawEvents /\ rows[m] = rawEvents[m]
      BY <2>4, <2>5, <3>1
    <3>2. ASSUME NEW j \in 1 .. n, EventOf(rows[m]) = todo[j].id, rows[m].content = todo[j].ev
          PROVE  rows[m].content.dur <= todo[k].ev.dur
      <4>1. j = k
        BY <1>10, <1>17, <2>5, <3>2
      <4>2. todo[k].ev.dur \in Nat
        BY <1>14, EventFacts DEF AwItem, TypeInv
      <4> QED BY <3>2, <4>1, <4>2
    <3> QED BY <1>19, <3>1, <3>2
  <2>6. \A k \in DOMAIN todo : NoLonger(todo[k].id, todo[k].ev)'
    BY <1>2, <2>5, <1>3 DEF NoLonger, EventOf
  <2>7. \A k \in DOMAIN rest : NoLonger(rest[k].id, rest[k].ev)'
    BY <1>10, <2>6
  <2>8. \A a \in DOMAIN revise : NoLonger(revise[a].id, revise[a].ev)'
    BY <1>9, <1>10, <2>6
  <2>9. \A a \in DOMAIN revise : \E m \in DOMAIN rows : rows[m].key = BaseKey(revise[a].id) /\ rows[m].content # revise[a].ev
    <3> SUFFICES ASSUME NEW a \in DOMAIN revise
                 PROVE  \E m \in DOMAIN rows : rows[m].key = BaseKey(revise[a].id) /\ rows[m].content # revise[a].ev
      OBVIOUS
    <3>1. PICK k \in 1 .. n : k = again[a] /\ revise[a] = todo[k] /\ a \in DOMAIN again
      BY <1>9
    <3>2. PICK m \in 1 .. Len(rows) :
             /\ rows[m].key = BaseKey(todo[k].id)
             /\ rows[m].content # todo[k].ev <=> \E b \in DOMAIN again : again[b] = k
      BY <1>7
    <3> QED BY <1>18, <3>1, <3>2
  <2> QED BY <1>2, <1>12, <2>1, <2>2, <2>3, <2>7, <2>8, <2>9 DEF WriteInv, NoLonger
<1>23. Len(rawEvents) <= Len(rawEvents') /\ \A m \in 1 .. Len(rawEvents) : rawEvents'[m] = rawEvents[m]
  BY <1>2, <1>5
<1>24. ASSUME Settled PROVE ImportInv'
  <2>1. ImportInv
    BY <1>24 DEF ApartInv
  <2>2. \A k \in DOMAIN todo : todo[k].ev.dur = source[todo[k].id].dur
    BY <1>1, <1>3, <2>1 DEF ImportInv
  <2>3. (\A k \in DOMAIN rest : rest[k].ev.dur = source[rest[k].id].dur)
        /\ \A a \in DOMAIN revise : revise[a].ev.dur = source[revise[a].id].dur
    BY <1>9, <1>10, <2>2
  <2>4. ASSUME NEW i \in DOMAIN source, Due(i) PROVE StoredWhole(i)' \/ i \in Ids(rest) \/ i \in Ids(revise)
    <3>1. poll.revise = <<>>
      BY <1>1 DEF TypeInv, PollInv
    <3>2. StoredWhole(i) \/ i \in Ids(todo)
      BY <1>1, <1>3, <2>1, <2>4, <3>1, EmptyFacts DEF ImportInv, Ids
    <3>3. CASE StoredWhole(i)
      BY <1>1, <1>23, <3>3, HasMore
    <3>4. ASSUME NEW k \in DOMAIN todo, todo[k].id = i PROVE StoredWhole(i)' \/ i \in Ids(rest) \/ i \in Ids(revise)
      <4>1. CASE k \in 1 .. n
        <5>1. PICK m \in 1 .. Len(rows) :
                /\ rows[m].key = BaseKey(todo[k].id)
                /\ rows[m].content # todo[k].ev <=> \E a \in DOMAIN again : again[a] = k
          BY <1>7, <4>1
        <5>2. CASE rows[m].content = todo[k].ev
          <6>1. EventOf(rows[m]) = i /\ rows[m].content.dur = source[i].dur /\ m \in DOMAIN rows
            BY <1>18, <2>2, <3>4, <5>1, <5>2, KeyFacts DEF EventOf
          <6>2. Has(i)'
            BY <1>1, <1>2, <6>1 DEF Has, EventOf
          <6>3. \A j \in DOMAIN source' : StoredWhole(j)' <=> Has(j)'
            BY WholeNext
          <6> QED BY <1>1, <6>2, <6>3
        <5>3. CASE rows[m].content # todo[k].ev
          <6>1. PICK a \in DOMAIN again : again[a] = k
            BY <5>1, <5>3
          <6> QED BY <1>9, <3>4, <6>1 DEF Ids
        <5> QED BY <5>2, <5>3
      <4>2. CASE k \notin 1 .. n
        <5>1. k - n \in DOMAIN rest /\ n + (k - n) = k
          BY <1>4, <1>5, <1>6, <1>10, <3>4, <4>2
        <5>2. rest[k - n].id = i
          BY <1>10, <3>4, <5>1
        <5> QED BY <5>1, <5>2 DEF Ids
      <4> QED BY <4>1, <4>2
    <3> QED BY <3>2, <3>3, <3>4 DEF Ids
  <2>5. \E k \in DOMAIN source : At(last, k) /\ End(source[k]) < Cutoff /\ \A i \in Ids(rest) : k < i
    <3>1. n \in DOMAIN todo /\ CopyOf(todo[n].id, todo[n].ev) /\ End(todo[n].ev) < Cutoff
          /\ todo[n].ev.dur = source[todo[n].id].dur
      BY <1>4, <1>5, <1>14, <2>2
    <3>2. todo[n].id \in DOMAIN source /\ At(last, todo[n].id) /\ End(source[todo[n].id]) < Cutoff
      BY <1>3, <3>1 DEF CopyOf, At, End
    <3>3. \A k \in DOMAIN rest : todo[n].id < rest[k].id
      BY <1>10, <1>15, <3>1
    <3> QED BY <3>2, <3>3 DEF Ids
  <2>6. \A i \in DOMAIN source : Due(i)' <=> Due(i)
    BY <1>1, <1>12, <1>13 DEF Due, End
  <2>7. \A i \in DOMAIN source' : Due(i)' => StoredWhole(i)' \/ i \in Ids(rest) \/ i \in Ids(revise)
    BY <1>1, <2>4, <2>6
  <2>8. \E k \in DOMAIN source' : At(last, k)' /\ End(source'[k]) < Cutoff /\ \A i \in Ids(rest) : k < i
    BY <1>1, <2>5 DEF At
  <2> QED BY <1>1, <1>12, <1>13, <2>3, <2>7, <2>8 DEF ImportInv, Ids, At, End
<1>25. PageInv' /\ ReadInv'
  BY <1>12 DEF PageInv, ReadInv
<1>26. Settled => VouchInv'
  BY <1>1, <1>23, VouchMore DEF ApartInv
<1>27. (Settled' => Settled) /\ (Unedited => status \notin {"conflict", "invalid"})'
  BY <1>1 DEF ApartInv, Settled, Pulse, Unedited
<1> QED BY <1>20, <1>21, <1>22, <1>24, <1>25, <1>26, <1>27 DEF ApartInv

\* In a bucket nobody edited, an event that is to be revised may be revised.
LEMMA Grown ==
  ASSUME TypeInv, ApartInv, Unedited, poll # Idle, NEW x \in DOMAIN poll.revise,
         NEW i, NEW e, i = poll.revise[x].id, e = poll.revise[x].ev
  PROVE  Revisable(rawEvents, i, e)
<1>1. CopyOf(i, e) /\ e.data = 0 /\ e \in Event /\ e.dur \in Nat
  <2>1. poll.revise[x].ev \in Event /\ poll.revise[x].ev.dur \in Nat
    BY RunningFacts, ItemFacts DEF TypeInv
  <2> QED BY <2>1, ItemUnedited DEF TypeInv, PollInv
<1>2. NoLonger(i, e) /\ \E m \in DOMAIN rawEvents : rawEvents[m].key = BaseKey(i) /\ rawEvents[m].content # e
  BY DEF ApartInv, WriteInv
<1>3. PICK family : family = QueryEventFamily(rawEvents, i)
  OBVIOUS
<1>4. (\A n \in DOMAIN rawEvents : n \in family <=> EventOf(rawEvents[n]) = i) /\ family \subseteq DOMAIN rawEvents
  BY <1>3, RowFacts DEF TypeInv, QueryEventFamily, EventOf
<1>5. \A n \in family : /\ rawEvents[n].content.start = e.start /\ rawEvents[n].content.data = e.data
                        /\ rawEvents[n].content.dur <= e.dur /\ rawEvents[n].content \in Event /\ rawEvents[n].content.dur \in Nat
  <2> SUFFICES ASSUME NEW n \in family
               PROVE  /\ rawEvents[n].content.start = e.start /\ rawEvents[n].content.data = e.data
                      /\ rawEvents[n].content.dur <= e.dur /\ rawEvents[n].content \in Event /\ rawEvents[n].content.dur \in Nat
    OBVIOUS
  <2>1. n \in DOMAIN rawEvents /\ EventOf(rawEvents[n]) = i
    BY <1>4
  <2>2. rawEvents[n].content \in Event /\ rawEvents[n].content.dur \in Nat
    BY <2>1, RowFacts DEF TypeInv
  <2>3. rawEvents[n].content.start = e.start
    BY <1>1, <2>1 DEF TypeInv, RowsInv, CopyOf
  <2>4. rawEvents[n].content.data = e.data
    BY <1>1, <2>1, ItemUnedited
  <2> QED BY <1>2, <2>1, <2>2, <2>3, <2>4 DEF NoLonger
<1>6. PICK b \in DOMAIN rawEvents : rawEvents[b].key = BaseKey(i) /\ rawEvents[b].content # e
  BY <1>2
<1>7. b \in family
  BY <1>4, <1>6, KeyFacts DEF EventOf
<1>8. e.dur > rawEvents[b].content.dur
  <2>1. PICK c : c = rawEvents[b].content
    OBVIOUS
  <2>2. c \in Event /\ c.start = e.start /\ c.data = e.data /\ c.dur <= e.dur /\ c.dur \in Nat /\ c # e
    BY <1>5, <1>6, <1>7, <2>1
  <2>3. c.dur # e.dur
    BY <1>1, <2>2, EventFacts DEF TypeInv
  <2> QED BY <1>1, <2>1, <2>2, <2>3
<1>9. ASSUME NEW n \in family \ {b} PROVE b < n /\ rawEvents[n].key = RevisionKey(i, rawEvents[n].content.dur)
  <2>1. n \in DOMAIN rawEvents /\ EventOf(rawEvents[n]) = i /\ n # b
    BY <1>4, <1>9
  <2>2. PICK m \in DOMAIN rawEvents : m <= n /\ rawEvents[m].key = BaseKey(i)
    BY <2>1 DEF TypeInv, RowsInv
  <2>3. m = b /\ rawEvents[n].key # BaseKey(i)
    BY <1>6, <2>1, <2>2 DEF TypeInv, RowsInv, UniqueKeys
  <2>4. rawEvents[n].key = RevisionKey(i, rawEvents[n].content.dur)
    BY <2>1, <2>3 DEF TypeInv, RowsInv
  <2>5. n \in Nat /\ b \in Nat
    BY <1>6, <2>1, RowFacts DEF TypeInv
  <2> QED BY <2>1, <2>2, <2>3, <2>4, <2>5
<1>10. \A m, n \in family : m < n => rawEvents[m].content.dur < rawEvents[n].content.dur
  <2> SUFFICES ASSUME NEW m \in family, NEW n \in family, m < n
               PROVE  rawEvents[m].content.dur < rawEvents[n].content.dur
    OBVIOUS
  <2>1. m \in DOMAIN rawEvents /\ n \in DOMAIN rawEvents /\ EventOf(rawEvents[m]) = EventOf(rawEvents[n])
    BY <1>4
  <2> QED BY <2>1 DEF TypeInv, RowsInv
<1> QED BY <1>3, <1>5, <1>6, <1>7, <1>8, <1>9, <1>10, Zenon DEF Revisable

LEMMA ReviseApart ==
  ASSUME TypeInv, TypeInv', ApartInv, ReviseNext, UNCHANGED setup
  PROVE  ApartInv'
<1>1. /\ poll # Idle /\ poll.pc = "revise" /\ poll.revise # <<>>
      /\ UNCHANGED <<clock, source, checkpoint, beat, floor, budget>>
  BY ReviseOutcome
<1>2. PICK item, rows :
        /\ item = poll.revise[1] /\ item \in AwItem
        /\ \/ /\ Revisable(rawEvents, item.id, item.ev) /\ Revised(item, rows) /\ rawEvents' = rows
              /\ poll' = [poll EXCEPT !.revise = Tail(poll.revise)] /\ UNCHANGED status
           \/ ~Revisable(rawEvents, item.id, item.ev) /\ EndPoll("conflict") /\ UNCHANGED rawEvents
  BY ReviseOutcome
<1>3. PICK revise, rest : revise = poll.revise /\ rest = Tail(revise)
  OBVIOUS
<1>4. /\ poll \in Running /\ revise \in Seq(AwItem) /\ Cutoff \in Int /\ Cutoff <= clock - AllowedLateness
      /\ clock \in Nat /\ AllowedLateness \in Nat
  BY <1>1, <1>3, RunningFacts
<1>5. /\ 1 \in DOMAIN revise /\ DOMAIN rest = 1 .. Len(rest) /\ DOMAIN revise = 1 .. Len(revise) /\ Len(revise) \in Nat
      /\ Len(rest) = Len(revise) - 1
      /\ \A n \in DOMAIN rest : n + 1 \in DOMAIN revise /\ rest[n] = revise[n + 1] /\ 1 < n + 1 /\ n \in Nat
  <2>1. rest \in Seq(AwItem) /\ Len(rest) = Len(revise) - 1 /\ \A n \in 1 .. Len(rest) : rest[n] = revise[n + 1]
    BY <1>1, <1>3, <1>4, HeadTailProperties
  <2>2. Len(revise) \in Nat /\ Len(revise) >= 1 /\ DOMAIN revise = 1 .. Len(revise) /\ DOMAIN rest = 1 .. Len(rest)
    BY <1>1, <1>3, <1>4, <2>1, EmptySeq
  <2> QED BY <2>1, <2>2
<1>6. CASE ~Revisable(rawEvents, item.id, item.ev) /\ EndPoll("conflict") /\ UNCHANGED rawEvents
  <2>1. ~Unedited
    BY <1>1, <1>2, <1>3, <1>5, <1>6, Grown
  <2>2. poll' = Idle /\ ~Unedited'
    BY <1>1, <1>6, <2>1 DEF EndPoll, Unedited
  <2>3. Settled => VouchInv'
    BY <1>1, <1>6, SameRows, VouchMore DEF ApartInv
  <2> QED BY <1>1, <1>6, <2>2, <2>3, EndKeepsApart
<1>7. CASE /\ Revised(item, rows) /\ rawEvents' = rows
           /\ poll' = [poll EXCEPT !.revise = Tail(poll.revise)] /\ UNCHANGED status
  <2>1. PICK i, e : i = item.id /\ e = item.ev
    OBVIOUS
  <2>2. /\ rows \in Seq(AwRow) /\ Len(rawEvents) <= Len(rows) /\ \A m \in 1 .. Len(rawEvents) : rows[m] = rawEvents[m]
        /\ \A m \in 1 .. Len(rows) : m <= Len(rawEvents) \/ (rows[m].key = RevisionKey(i, e.dur) /\ rows[m].content = e)
        /\ \E m \in 1 .. Len(rows) : rows[m].key = RevisionKey(i, e.dur)
    BY <1>7, <2>1 DEF Revised
  <2>3. /\ DOMAIN rawEvents = 1 .. Len(rawEvents) /\ Len(rawEvents) \in Nat /\ DOMAIN rows = 1 .. Len(rows) /\ Len(rows) \in Nat
    BY <2>2 DEF TypeInv, RowsInv
  <2>4. \A m \in DOMAIN rows :
          \/ m \in DOMAIN rawEvents /\ rows[m] = rawEvents[m]
          \/ EventOf(rows[m]) = i /\ rows[m].content = e
    BY <2>2, <2>3, KeyFacts DEF EventOf
  <2>5. \A n \in DOMAIN revise : CopyOf(revise[n].id, revise[n].ev) /\ End(revise[n].ev) < Cutoff
    BY <1>1, <1>3 DEF TypeInv, PollInv
  <2>6. CopyOf(i, e) /\ End(e) < Cutoff /\ e \in Event /\ i \in Nat /\ e.start \in Nat /\ e.dur \in Nat /\ End(e) = e.start + e.dur
    BY <1>2, <1>3, <1>5, <2>1, <2>5, EventFacts DEF AwItem, TypeInv
  <2>7. poll' = [poll EXCEPT !.revise = rest]
    BY <1>3, <1>7
  <2>8. /\ poll'.pc = "revise" /\ poll'.todo = poll.todo /\ poll'.revise = rest /\ poll'.last = poll.last
        /\ poll'.start = poll.start /\ poll'.now = poll.now
    BY <1>1, <1>4, <2>7 DEF Running
  <2>9. Cutoff' = Cutoff
    BY <2>8 DEF Cutoff
  <2>10. Apart'
    BY <1>1 DEF ApartInv, Apart, End
  <2>11. EndedInv'
    <3>1. ASSUME NEW m \in DOMAIN rows PROVE End(rows[m].content) < Cutoff /\ End(rows[m].content) < clock - AllowedLateness
      <4>1. CASE m \in DOMAIN rawEvents /\ rows[m] = rawEvents[m]
        BY <1>1, <4>1 DEF ApartInv, EndedInv
      <4>2. CASE rows[m].content = e
        BY <1>4, <2>6, <4>2
      <4> QED BY <2>4, <4>1, <4>2
    <3>2. \A m \in DOMAIN rawEvents' :
            End(rawEvents'[m].content) < clock' - AllowedLateness /\ End(rawEvents'[m].content) < Cutoff'
      BY <1>1, <1>7, <2>9, <3>1
    <3> QED BY <3>2 DEF EndedInv, End
  <2>12. WriteInv'
    <3>1. /\ \A m, n \in DOMAIN poll.todo : m < n => poll.todo[m].id < poll.todo[n].id
          /\ \A m, n \in DOMAIN revise : m < n => revise[m].id < revise[n].id
          /\ \A m \in DOMAIN revise, n \in DOMAIN poll.todo : revise[m].id < poll.todo[n].id
          /\ \A n \in DOMAIN poll.todo : NoLonger(poll.todo[n].id, poll.todo[n].ev)
          /\ \A n \in DOMAIN revise :
               /\ NoLonger(revise[n].id, revise[n].ev)
               /\ \E m \in DOMAIN rawEvents : rawEvents[m].key = BaseKey(revise[n].id) /\ rawEvents[m].content # revise[n].ev
      BY <1>1, <1>3 DEF ApartInv, WriteInv
    <3>2. ASSUME NEW j, NEW f, j # i, NoLonger(j, f) PROVE NoLonger(j, f)'
      BY <1>7, <2>4, <3>2 DEF NoLonger, EventOf
    <3>3. \A n \in DOMAIN poll.todo : poll.todo[n].id # i
      <4>1. \A n \in DOMAIN poll.todo : poll.todo[n].id \in Nat /\ i < poll.todo[n].id
        BY <1>1, <1>2, <1>4, <1>5, <1>3, <2>1, <3>1, ItemFacts DEF TypeInv
      <4> QED BY <2>6, <4>1
    <3>4. \A n \in DOMAIN rest : rest[n].id # i
      <4>1. \A n \in DOMAIN revise : revise[n].id \in Nat
        BY <1>1, <1>3, <1>4, ItemFacts DEF TypeInv
      <4>2. \A n \in DOMAIN rest : rest[n].id \in Nat /\ i < rest[n].id
        BY <1>2, <1>3, <1>5, <2>1, <3>1, <4>1
      <4> QED BY <2>6, <4>2
    <3>5. \A n \in DOMAIN poll.todo : NoLonger(poll.todo[n].id, poll.todo[n].ev)'
      <4> SUFFICES ASSUME NEW n \in DOMAIN poll.todo PROVE NoLonger(poll.todo[n].id, poll.todo[n].ev)'
        OBVIOUS
      <4>1. PICK j, f : j = poll.todo[n].id /\ f = poll.todo[n].ev
        OBVIOUS
      <4>2. NoLonger(j, f)'
        BY <3>1, <3>2, <3>3, <4>1
      <4>3. PICK todo : todo = poll.todo
        OBVIOUS
      <4>4. todo = poll'.todo
        BY <2>8, <4>3
      <4> QED BY <4>1, <4>2, <4>3, <4>4 DEF NoLonger
    <3>6. \A n \in DOMAIN rest : NoLonger(rest[n].id, rest[n].ev)'
      <4> SUFFICES ASSUME NEW n \in DOMAIN rest PROVE NoLonger(rest[n].id, rest[n].ev)'
        OBVIOUS
      <4>1. PICK j, f : j = rest[n].id /\ f = rest[n].ev
        OBVIOUS
      <4>2. NoLonger(j, f)
        BY <1>5, <3>1, <4>1
      <4>3. NoLonger(j, f)'
        BY <3>2, <3>4, <4>1, <4>2
      <4> QED BY <4>1, <4>3
    <3>7. \A n \in DOMAIN rest : \E m \in DOMAIN rows : rows[m].key = BaseKey(rest[n].id) /\ rows[m].content # rest[n].ev
      <4>1. \A m \in DOMAIN rawEvents : m \in DOMAIN rows /\ rows[m] = rawEvents[m]
        BY <2>2, <2>3
      <4> QED BY <1>5, <3>1, <4>1
    <3>8. /\ \A m, n \in DOMAIN rest : m < n => rest[m].id < rest[n].id
          /\ \A m \in DOMAIN rest, n \in DOMAIN poll.todo : rest[m].id < poll.todo[n].id
      BY <1>5, <3>1
    <3> QED BY <1>7, <2>8, <3>1, <3>5, <3>6, <3>7, <3>8 DEF WriteInv, NoLonger
  <2>13. Len(rawEvents) <= Len(rawEvents') /\ \A m \in 1 .. Len(rawEvents) : rawEvents'[m] = rawEvents[m]
    BY <1>7, <2>2
  <2>14. ASSUME Settled PROVE ImportInv'
    <3>1. ImportInv
      BY <2>14 DEF ApartInv
    <3>2. /\ \A n \in DOMAIN poll.todo : poll.todo[n].ev.dur = source[poll.todo[n].id].dur
          /\ \A n \in DOMAIN revise : revise[n].ev.dur = source[revise[n].id].dur
          /\ \A j \in DOMAIN source : Due(j) => StoredWhole(j) \/ j \in Ids(poll.todo) \/ j \in Ids(revise)
          /\ \E k \in DOMAIN source : At(poll.last, k) /\ End(source[k]) < Cutoff /\ \A j \in Ids(poll.todo) : k < j
      BY <1>1, <1>3, <3>1 DEF ImportInv
    <3>3. StoredWhole(i)'
      <4>1. PICK m \in DOMAIN rows : rows[m].key = RevisionKey(i, e.dur)
        BY <2>2, <2>3
      <4>2. EventOf(rows[m]) = i
        BY <4>1, KeyFacts DEF EventOf
      <4>3. rows[m].key = RevisionKey(i, rows[m].content.dur)
        <5>1. rows[m].key = BaseKey(i) \/ rows[m].key = RevisionKey(i, rows[m].content.dur)
          BY <1>7, <4>2 DEF TypeInv, RowsInv, EventOf
        <5> QED BY <4>1, <5>1, KeyFacts
      <4>4. rows[m].content.dur = e.dur
        BY <4>1, <4>3, KeyFacts
      <4>5. e.dur = source[i].dur /\ i \in DOMAIN source
        BY <1>2, <1>3, <1>5, <2>1, <2>6, <3>2 DEF CopyOf
      <4>6. Has(i)'
        BY <1>1, <1>7, <4>2, <4>4, <4>5 DEF Has, EventOf
      <4>7. \A j \in DOMAIN source' : StoredWhole(j)' <=> Has(j)'
        BY WholeNext
      <4> QED BY <1>1, <4>5, <4>6, <4>7
    <3>4. ASSUME NEW j \in DOMAIN source, Due(j) PROVE StoredWhole(j)' \/ j \in Ids(poll.todo) \/ j \in Ids(rest)
      <4>1. CASE StoredWhole(j)
        BY <1>1, <2>13, <4>1, HasMore
      <4>2. ASSUME NEW n \in DOMAIN revise, revise[n].id = j PROVE StoredWhole(j)' \/ j \in Ids(rest)
        <5>1. CASE n = 1
          BY <1>2, <1>3, <2>1, <3>3, <4>2, <5>1
        <5>2. CASE n # 1
          <6>1. n - 1 \in DOMAIN rest /\ (n - 1) + 1 = n
            BY <1>5, <4>2, <5>2
          <6> QED BY <1>5, <4>2, <6>1 DEF Ids
        <5> QED BY <5>1, <5>2
      <4> QED BY <3>2, <3>4, <4>1, <4>2 DEF Ids
    <3>5. \A j \in DOMAIN source : Due(j)' <=> Due(j)
      BY <1>1, <2>8, <2>9 DEF Due, End
    <3>6. \A j \in DOMAIN source' : Due(j)' => StoredWhole(j)' \/ j \in Ids(poll.todo) \/ j \in Ids(rest)
      BY <1>1, <3>4, <3>5
    <3>7. \A n \in DOMAIN rest : rest[n].ev.dur = source[rest[n].id].dur
      BY <1>5, <3>2
    <3>8. \E k \in DOMAIN source' : At(poll.last, k)' /\ End(source'[k]) < Cutoff /\ \A j \in Ids(poll.todo) : k < j
      BY <1>1, <2>8, <3>2 DEF At
    <3> QED BY <1>1, <2>8, <2>9, <3>2, <3>6, <3>7, <3>8 DEF ImportInv, Ids, At, End
  <2>15. PageInv' /\ ReadInv'
    BY <2>8 DEF PageInv, ReadInv
  <2>16. Settled => VouchInv'
    BY <1>1, <2>13, VouchMore DEF ApartInv
  <2>17. (Settled' => Settled) /\ (Unedited => status \notin {"conflict", "invalid"})'
    BY <1>1, <1>7 DEF ApartInv, Settled, Pulse, Unedited
  <2> QED BY <2>10, <2>11, <2>12, <2>14, <2>15, <2>16, <2>17 DEF ApartInv
<1> QED BY <1>2, <1>6, <1>7

\* The checkpoint moves to an event of the batch that was written: all that is due
\* up to it is stored.
LEMMA SaveApart ==
  ASSUME TypeInv, TypeInv', ApartInv, SaveCheckpoint, UNCHANGED setup
  PROVE  ApartInv'
<1>1. /\ poll.pc = "revise" /\ poll.revise = <<>> /\ UNCHANGED <<clock, source, rawEvents, status, beat, budget>>
      /\ checkpoint' = (IF checkpoint = NoTuple \/ Before(checkpoint, poll.last) THEN poll.last ELSE checkpoint)
      /\ floor' = (IF checkpoint = NoTuple THEN poll.start ELSE floor)
      /\ poll' = [poll EXCEPT !.pc = "write", !.last = NoTuple]
  BY DEF SaveCheckpoint
<1>2. poll # Idle
  BY <1>1 DEF Idle
<1>3. /\ poll \in Running /\ Cutoff \in Int /\ Cutoff <= clock - AllowedLateness /\ poll.start \in Int
      /\ clock \in Nat /\ AllowedLateness \in Nat
  BY <1>2, RunningFacts
<1>4. /\ poll'.pc = "write" /\ poll'.todo = poll.todo /\ poll'.revise = poll.revise
      /\ poll'.start = poll.start /\ poll'.now = poll.now
  BY <1>1, <1>3 DEF Running
<1>5. Cutoff' = Cutoff
  BY <1>4 DEF Cutoff
<1>6. Apart' /\ EndedInv'
  BY <1>1, <1>2, <1>5 DEF ApartInv, Apart, EndedInv, End
<1>7. PageInv' /\ ReadInv'
  BY <1>4 DEF PageInv, ReadInv
<1>8. WriteInv'
  <2>1. WriteInv
    BY DEF ApartInv
  <2> QED BY <1>1, <1>2, <1>4, <2>1 DEF WriteInv, NoLonger, EventOf
<1>9. \A i \in DOMAIN source : StoredWhole(i) => StoredWhole(i)'
  BY <1>1, SameRows, HasMore
<1>10. ASSUME Settled PROVE ImportInv'
  <2>1. ImportInv
    BY <1>10 DEF ApartInv
  <2>2. /\ \A n \in DOMAIN poll.todo : poll.todo[n].ev.dur = source[poll.todo[n].id].dur
        /\ \A n \in DOMAIN poll.revise : poll.revise[n].ev.dur = source[poll.revise[n].id].dur
        /\ \A i \in DOMAIN source : Due(i) => StoredWhole(i)' \/ i \in Ids(poll.todo) \/ i \in Ids(poll.revise)
    BY <1>1, <1>2, <1>9, <2>1 DEF ImportInv
  <2>3. \A i \in DOMAIN source : Due(i)' <=> Due(i)
    BY <1>1, <1>4, <1>5 DEF Due, End
  <2> QED BY <1>1, <1>4, <2>2, <2>3 DEF ImportInv, Ids
<1>11. ASSUME Settled PROVE VouchInv'
  <2>1. ImportInv /\ VouchInv /\ Apart
    BY <1>11 DEF ApartInv
  <2>2. PICK k \in DOMAIN source : poll.last = <<source[k].start, k>> /\ End(source[k]) < Cutoff /\ \A i \in Ids(poll.todo) : k < i
    BY <1>1, <1>2, <2>1 DEF ImportInv, At
  <2>3. Ids(poll.revise) = {}
    BY <1>1, EmptyFacts DEF Ids
  <2>4. ASSUME NEW i \in DOMAIN source, i <= k, poll.start <= source[i].start PROVE StoredWhole(i)'
    <3>1. End(source[i]) < Cutoff
      BY <1>3, <2>1, <2>2, <2>4, EndedBehind DEF TypeInv
    <3>2. StoredWhole(i) \/ i \in Ids(poll.todo)
      BY <1>1, <1>2, <2>1, <2>3, <2>4, <3>1 DEF ImportInv, Due
    <3>3. i \notin Ids(poll.todo)
      <4>1. i \in Nat /\ k \in Nat
        BY SourceFacts DEF TypeInv
      <4>2. ~(k < i)
        BY <2>4, <4>1
      <4> QED BY <2>2, <4>2
    <3> QED BY <1>9, <3>2, <3>3
  <2>5. k \in Nat /\ source[k].start \in Nat /\ source[k].dur \in Nat /\ End(source[k]) = source[k].start + source[k].dur
    BY SourceFacts DEF TypeInv
  <2>6. End(source[k]) < clock - AllowedLateness
    BY <1>3, <2>2, <2>5
  <2>7. checkpoint' # NoTuple => \E j \in DOMAIN source : checkpoint' = <<source[j].start, j>> /\ End(source[j]) < clock - AllowedLateness
    <3>1. CASE checkpoint' = poll.last
      BY <2>2, <2>6, <3>1
    <3>2. CASE checkpoint' = checkpoint
      BY <2>1, <3>2 DEF VouchInv, At
    <3> QED BY <1>1, <3>1, <3>2
  <2>8. ASSUME NEW i \in DOMAIN source, checkpoint' = poll.last, ~Before(checkpoint', Tuple(i, source[i])) PROVE i <= k
    <3>1. Tuple(i, source[i]) = <<source[i].start, i>> /\ checkpoint' = <<source[k].start, k>>
      BY <2>2, <2>8 DEF Tuple
    <3>2. ~(k < i)
      BY <2>1, <2>8, <3>1, BucketOrder DEF TypeInv
    <3>3. i \in Nat
      BY SourceFacts DEF TypeInv
    <3> QED BY <2>5, <3>2, <3>3
  <2>9. ASSUME NEW i \in DOMAIN source, Passed(i)' PROVE StoredWhole(i)'
    <3>1. checkpoint' # NoTuple /\ ~Before(checkpoint', Tuple(i, source[i])) /\ source[i].start >= floor' /\ source[i].start \in Nat
      BY <1>1, <2>9, SourceFacts DEF Passed, TypeInv, Tuple
    <3>2. CASE checkpoint = NoTuple
      <4>1. checkpoint' = poll.last /\ floor' = poll.start
        BY <1>1, <3>2
      <4>2. poll.start <= source[i].start
        BY <1>3, <3>1, <4>1
      <4> QED BY <2>4, <2>8, <3>1, <4>1, <4>2
    <3>3. CASE checkpoint # NoTuple
      <4>1. floor' = floor
        BY <1>1, <3>3
      <4>2. CASE Passed(i)
        BY <1>9, <2>1, <4>2 DEF VouchInv
      <4>3. CASE ~Passed(i)
        <5>1. Before(checkpoint, Tuple(i, source[i]))
          BY <3>1, <3>3, <4>1, <4>3 DEF Passed
        <5>2. checkpoint' = poll.last
          BY <1>1, <3>1, <5>1
        <5>3. PICK j \in DOMAIN source : checkpoint = <<source[j].start, j>>
          BY <2>1, <3>3 DEF VouchInv, At
        <5>4. poll.start <= checkpoint[1]
          BY <1>2, <3>3 DEF TypeInv, CheckpointInv
        <5>5. checkpoint[1] = source[j].start /\ source[j].start \in Nat
          BY <5>3, SourceFacts DEF TypeInv
        <5>6. checkpoint[1] <= source[i].start
          <6>1. Tuple(i, source[i])[1] = source[i].start
            BY DEF Tuple
          <6> QED BY <3>1, <5>1, <5>5, <6>1 DEF Before
        <5>7. poll.start <= source[i].start
          BY <1>3, <3>1, <5>4, <5>5, <5>6
        <5> QED BY <2>4, <2>8, <3>1, <5>2, <5>7
      <4> QED BY <4>2, <4>3
    <3> QED BY <3>2, <3>3
  <2>10. /\ \A b \in beat : b.at \in Nat /\ b.at <= clock /\ b.from \in Int
         /\ \A b \in beat, i \in DOMAIN source :
              source[i].start >= b.from /\ End(source[i]) < b.at - AllowedLateness => StoredWhole(i)'
    BY <1>9, <2>1 DEF VouchInv
  <2> QED BY <1>1, <2>7, <2>9, <2>10 DEF VouchInv, At, End
<1>12. (Settled' => Settled) /\ (Unedited => status \notin {"conflict", "invalid"})'
  BY <1>1 DEF ApartInv, Settled, Pulse, Unedited
<1> QED BY <1>6, <1>7, <1>8, <1>10, <1>11, <1>12 DEF ApartInv

LEMMA InitApart == Init => ApartInv
<1> SUFFICES ASSUME Init PROVE ApartInv
  OBVIOUS
<1>1. /\ source = <<>> /\ rawEvents = <<>> /\ checkpoint = NoTuple /\ poll = Idle /\ status = "starting" /\ beat = {}
  BY DEF Init
<1>2. Apart /\ EndedInv /\ PageInv /\ WriteInv
  BY <1>1, EmptyFacts DEF Apart, EndedInv, PageInv, WriteInv
<1>3. ReadInv /\ ImportInv /\ VouchInv
  BY <1>1, EmptyFacts DEF ReadInv, ImportInv, VouchInv
<1> QED BY <1>1, <1>2, <1>3 DEF ApartInv

LEMMA NextApart ==
  ASSUME ~Overlap
  PROVE  TypeInv /\ ApartInv /\ [Next]_vars => (TypeInv /\ ApartInv)'
<1> SUFFICES ASSUME TypeInv, ApartInv, [Next]_vars PROVE TypeInv' /\ ApartInv'
  OBVIOUS
<1>1. TypeInv'
  BY NextTypes
<1>2. CASE UNCHANGED vars
  <2>1. UNCHANGED <<setup, clock, source, rawEvents, checkpoint, poll, status, beat, floor, budget>>
    BY <1>2 DEF vars
  <2>2. Grows
    <3>1. clock \in Nat /\ AllowedLateness \in Nat
      BY SetupFacts DEF TypeInv, BucketInv
    <3>2. \A i \in DOMAIN source : source[i].dur \in Nat
      BY SourceFacts DEF TypeInv
    <3> QED BY <2>1, <3>1, <3>2 DEF Grows
  <2>3. Apart'
    BY <2>1 DEF ApartInv, Apart, End
  <2>4. UNCHANGED <<setup, core>> /\ (Unedited' => Unedited)
    BY <2>1 DEF core, Unedited
  <2> QED BY <1>1, <2>2, <2>3, <2>4, GrowKeepsApart
<1>3. CASE Next
  <2>1. UNCHANGED setup /\ (Bucket \/ PollStep \/ PollFails \/ Crash)
    BY <1>3 DEF Next
  <2>2. CASE Bucket
    <3>1. Grows /\ UNCHANGED core /\ (Unedited' => Unedited)
      BY <2>1, <2>2, BucketGrows
    <3>2. Apart'
      BY <2>2, GrowApart DEF ApartInv
    <3> QED BY <1>1, <2>1, <3>1, <3>2, GrowKeepsApart
  <2>3. CASE PollStep
    <3>1. CASE BeginPoll
      BY <1>1, <2>1, <3>1, BeginApart
    <3>2. CASE FetchPage
      BY <1>1, <2>1, <3>2, FetchApart
    <3>3. CASE WriteBatch
      BY <1>1, <2>1, <3>3, WriteApart
    <3>4. CASE ReviseNext
      BY <1>1, <2>1, <3>4, ReviseApart
    <3>5. CASE SaveCheckpoint
      BY <1>1, <2>1, <3>5, SaveApart
    <3>6. CASE AppendPollHeartbeat
      BY <1>1, <2>1, <3>6, HeartbeatApart
    <3> QED BY <1>1, <2>3, <3>1, <3>2, <3>3, <3>4, <3>5, <3>6 DEF PollStep
  <2>4. CASE PollFails \/ Crash
    BY <1>1, <2>1, <2>4, StopApart
  <2> QED BY <1>1, <2>1, <2>2, <2>3, <2>4
<1> QED BY <1>1, <1>2, <1>3

\* The checkpoint vouches for what is behind it, for a bucket whose events do not
\* overlap: every event at or before it, since the range of the first import, is
\* stored with the duration of the bucket (poll saves it once a batch is stored).
THEOREM CheckpointVouches == ASSUME ~Overlap PROVE Spec => []CheckpointCovers
<1>1. Init => TypeInv /\ ApartInv
  BY InitTypes, InitApart
<1>2. TypeInv /\ ApartInv /\ [Next]_vars => (TypeInv /\ ApartInv)'
  BY NextApart
<1>3. TypeInv /\ ApartInv => CheckpointCovers
  BY DEF ApartInv, VouchInv, CheckpointCovers
<1> QED BY <1>1, <1>2, <1>3, PTL DEF Spec

\* So does the heartbeat of a poll: what had ended before the poll's cutoff, in its
\* range, is stored with the duration of the bucket (appendPollHeartbeat).
THEOREM HeartbeatVouches == ASSUME ~Overlap PROVE Spec => []HeartbeatMeansImported
<1>1. Init => TypeInv /\ ApartInv
  BY InitTypes, InitApart
<1>2. TypeInv /\ ApartInv /\ [Next]_vars => (TypeInv /\ ApartInv)'
  BY NextApart
<1>3. TypeInv /\ ApartInv => HeartbeatMeansImported
  BY DEF ApartInv, VouchInv, HeartbeatMeansImported
<1> QED BY <1>1, <1>2, <1>3, PTL DEF Spec

\* Rows are honest and so are reports: a bucket that only starts and extends events
\* that do not overlap is never said to have rewritten one, whatever pages clip and
\* wherever a poll is cut short (the conflicts of a batch in poll, and
\* appendActivityWatchDurationRevision).
THEOREM RevisionsAreHonest == ASSUME ~Overlap PROVE Spec => []RevisionsHonest
<1>1. Init => TypeInv /\ ApartInv
  BY InitTypes, InitApart
<1>2. TypeInv /\ ApartInv /\ [Next]_vars => (TypeInv /\ ApartInv)'
  BY NextApart
<1>3. TypeInv /\ ApartInv => RevisionsHonest
  <2> SUFFICES ASSUME TypeInv, ApartInv PROVE RevisionsHonest
    OBVIOUS
  <2>1. Unedited => status \notin {"conflict", "invalid"}
    BY DEF ApartInv
  <2>2. ASSUME NEW m \in DOMAIN rawEvents, NEW n \in DOMAIN rawEvents, m < n, Head(rawEvents[m].key) = Head(rawEvents[n].key)
        PROVE  /\ rawEvents[m].content.start = rawEvents[n].content.start
               /\ rawEvents[m].content.data = rawEvents[n].content.data
               /\ rawEvents[m].content.dur < rawEvents[n].content.dur
    BY <2>2, HonestFamily
  <2> QED BY <2>1, <2>2 DEF RevisionsHonest
<1> QED BY <1>1, <1>2, <1>3, PTL DEF Spec
=============================================================================
