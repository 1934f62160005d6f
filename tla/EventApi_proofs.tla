-------------------------- MODULE EventApi_proofs --------------------------
(***************************************************************************)
(* What the event endpoints promise, for any clients, batches, readers,    *)
(* page sizes and limits: answers stay true, keys are stored once, paging  *)
(* is exact, no more requests write than there are slots, and posts are    *)
(* atomic (the endpoints implement FactLog).                               *)
(***************************************************************************)
EXTENDS EventApi, FiniteSetTheorems, SequenceTheorems, TLAPS

-----------------------------------------------------------------------------
(* The table operations.                                                   *)

\* Later rows of a table start with its earlier ones.
Extends(rows, more) ==
  /\ Len(rows) <= Len(more)
  /\ \A i \in DOMAIN rows : more[i] = rows[i]

\* The row found for a key that the table holds carries that key.
LEMMA RowIdFound ==
  ASSUME NEW rows, NEW k \in Keys(rows)
  PROVE  RowId(rows, k) \in DOMAIN rows /\ KeyOf(rows[RowId(rows, k)]) = k
BY DEF Keys, RowId

\* A result stays true of every table that extends the one it was computed on:
\* rows are only ever appended.
LEMMA ResultKept ==
  ASSUME NEW rows \in Seq(Row), NEW more \in Seq(Row), NEW item, NEW r,
         Extends(rows, more), ResultTrue(rows, item, r)
  PROVE  ResultTrue(more, item, r)
<1>1. DOMAIN rows \subseteq DOMAIN more
  BY DEF Extends
<1> QED BY <1>1 DEF Extends, ResultTrue

\* appendOne keeps the rows, keeps keys unique, and reports what it did.
LEMMA AppendOneCorrect ==
  ASSUME NEW rows \in Seq(Row), NEW item \in Item, UniqueKeys(rows)
  PROVE  /\ AppendOne(rows, item).rows \in Seq(Row)
         /\ AppendOne(rows, item).result \in Result
         /\ Extends(rows, AppendOne(rows, item).rows)
         /\ UniqueKeys(AppendOne(rows, item).rows)
         /\ ResultTrue(AppendOne(rows, item).rows, item, AppendOne(rows, item).result)
<1>1. CASE ~item.valid
  BY <1>1 DEF AppendOne, Extends, ResultTrue, Result
<1>2. CASE item.valid /\ KeyOf(item) \in Keys(rows)
  <2> DEFINE id == RowId(rows, KeyOf(item))
  <2>1. id \in DOMAIN rows /\ KeyOf(rows[id]) = KeyOf(item)
    BY <1>2, RowIdFound
  <2>2. AppendOne(rows, item) = [rows |-> rows, result |-> Existing(rows, item)]
    BY <1>2 DEF AppendOne
  <2>3. /\ Existing(rows, item).id = id
        /\ Existing(rows, item).status = IF rows[id].content = item.content THEN "duplicate" ELSE "conflict"
        /\ Existing(rows, item) \in Result
    BY <2>1 DEF Existing, Result
  <2>4. ResultTrue(rows, item, Existing(rows, item))
    BY <2>1, <2>3 DEF ResultTrue
  <2>5. Extends(rows, rows)
    BY DEF Extends
  <2> HIDE DEF id
  <2> QED BY <2>2, <2>3, <2>4, <2>5
<1>3. CASE item.valid /\ KeyOf(item) \notin Keys(rows)
  <2> DEFINE more == Append(rows, RowOf(item))
             r    == [status |-> "accepted", id |-> Len(rows) + 1]
  <2>1. AppendOne(rows, item) = [rows |-> more, result |-> r]
    BY <1>3 DEF AppendOne
  <2>2. RowOf(item) \in Row
    BY DEF Row
  <2>3. /\ more \in Seq(Row) /\ Len(more) = Len(rows) + 1
        /\ \A i \in DOMAIN rows : more[i] = rows[i]
        /\ more[Len(rows) + 1] = RowOf(item)
        /\ DOMAIN more = DOMAIN rows \cup {Len(rows) + 1}
    BY <2>2
  <2>4. KeyOf(RowOf(item)) = KeyOf(item) /\ RowOf(item).content = item.content
    BY DEF KeyOf, RowOf
  <2>5. \A i \in DOMAIN rows : KeyOf(rows[i]) # KeyOf(item)
    BY <1>3 DEF Keys
  <2>6. UniqueKeys(more)
    BY <2>3, <2>4, <2>5 DEF UniqueKeys
  <2>7. Extends(rows, more)
    BY <2>3 DEF Extends
  <2>8. r \in Result
    BY DEF Result
  <2>9. ResultTrue(more, item, r)
    BY <2>3, <2>4 DEF ResultTrue
  <2> HIDE DEF more, r
  <2> QED BY <2>1, <2>3, <2>6, <2>7, <2>8, <2>9
<1> QED BY <1>1, <1>2, <1>3

-----------------------------------------------------------------------------
(* The inductive invariant.                                                *)

\* A request that holds a write slot.
Inside(c) == request[c] \in {"admitted", "writing", "committed"}

\* Every slot taken belongs to one request inside a handler.
SlotsHeld == slots = Cardinality({c \in Client : Inside(c)})

\* The write lock is held by the one request that is writing.
LockHeld == \A c \in Client : request[c] = "writing" <=> writer = c

\* The transaction in progress only adds rows, with unique keys.
TxnAppends ==
  \A c \in Client : request[c] = "writing" =>
    Extends(ledger[TableOf[c]], txn) /\ UniqueKeys(txn)

\* The results so far are true of the transaction's rows, and of the table once
\* it is committed; a request that has not begun has none.
ResultsTrue ==
  \A c \in Client :
    /\ request[c] \in {"unsent", "admitted"} => results[c] = <<>>
    /\ request[c] = "writing" =>
         /\ Len(results[c]) <= Len(BatchOf[c])
         /\ \A i \in DOMAIN results[c] : ResultTrue(txn, BatchOf[c][i], results[c][i])
    /\ request[c] = "committed" =>
         /\ Len(results[c]) = Len(BatchOf[c])
         /\ \A i \in DOMAIN results[c] : ResultTrue(ledger[TableOf[c]], BatchOf[c][i], results[c][i])

\* A reader holds exactly the ids up to its cursor, within its snapshot.
Paging ==
  \A r \in Reader :
    /\ \A n \in DOMAIN reader[r].ids : reader[r].ids[n] = n
    /\ reader[r].state = "new" => reader[r].ids = <<>>
    /\ reader[r].state = "paging" =>
         /\ reader[r].cursor.snapshot = reader[r].first
         /\ reader[r].cursor.last = Len(reader[r].ids)
         /\ reader[r].cursor.last <= reader[r].first
    /\ reader[r].state = "done" => Len(reader[r].ids) = reader[r].first

ApiInv ==
  /\ TypeOK /\ SlotsHeld /\ LockHeld /\ TxnAppends /\ ResultsTrue
  /\ StoredOnce /\ AckTrue /\ Paging

-----------------------------------------------------------------------------
(* It holds initially.                                                     *)

LEMMA ApiInit == Init => ApiInv
<1> SUFFICES ASSUME Init PROVE ApiInv
  OBVIOUS
<1>1. TypeOK
  BY ApiAssumption DEF Init, TypeOK
<1>2. SlotsHeld
  <2>1. {c \in Client : Inside(c)} = {}
    BY DEF Init, Inside
  <2> QED BY <2>1, FS_EmptySet DEF Init, SlotsHeld
<1>3. LockHeld /\ TxnAppends /\ ResultsTrue
  BY ApiAssumption DEF Init, LockHeld, TxnAppends, ResultsTrue
<1>4. StoredOnce /\ AckTrue /\ Paging
  BY DEF Init, StoredOnce, UniqueKeys, AckTrue, Paging
<1> QED BY <1>1, <1>2, <1>3, <1>4 DEF ApiInv

-----------------------------------------------------------------------------
(* Slots.                                                                  *)

\* A request inside a handler holds one of the slots.
LEMMA SlotOf ==
  ASSUME SlotsHeld, NEW c \in Client, Inside(c)
  PROVE  /\ slots \in Nat /\ slots >= 1
         /\ Cardinality({d \in Client : Inside(d)} \ {c}) = slots - 1
<1> DEFINE S == {d \in Client : Inside(d)}
<1>1. IsFiniteSet(S)
  BY ApiAssumption, FS_Subset
<1>2. c \in S
  OBVIOUS
<1>3. slots = Cardinality(S)
  BY DEF SlotsHeld
<1>4. Cardinality(S) \in Nat /\ Cardinality(S \ {c}) \in Nat
  BY <1>1, FS_CardinalityType, FS_RemoveElement
<1>5. Cardinality(S \ {c}) = Cardinality(S) - 1
  BY <1>1, <1>2, FS_RemoveElement
<1> HIDE DEF S
<1>6. slots \in Nat /\ slots >= 1 /\ Cardinality(S \ {c}) = slots - 1
  BY <1>3, <1>4, <1>5
<1> QED BY <1>6 DEF S

\* A request that leaves its handler frees its slot.
LEMMA SlotFreed ==
  ASSUME TypeOK, SlotsHeld, NEW c \in Client, Inside(c), ReleaseSlot,
         NEW s \in {"unsent", "answered"}, request' = [request EXCEPT ![c] = s]
  PROVE  SlotsHeld' /\ slots' \in Nat /\ slots' <= MaxConcurrentWrites
<1>1. {d \in Client : Inside(d)'} = {d \in Client : Inside(d)} \ {c}
  BY DEF Inside, TypeOK
<1>2. slots \in Nat /\ slots >= 1 /\ Cardinality({d \in Client : Inside(d)} \ {c}) = slots - 1
  BY SlotOf
<1>3. slots' = slots - 1 /\ slots <= MaxConcurrentWrites
  BY DEF ReleaseSlot, TypeOK
<1>4. SlotsHeld'
  BY <1>1, <1>2, <1>3 DEF SlotsHeld
<1> QED BY <1>2, <1>3, <1>4, ApiAssumption

\* SlotsHeld is kept by every step, and with it the bound on slots.
LEMMA SlotsStep ==
  ASSUME ApiInv, [Next]_vars
  PROVE  SlotsHeld' /\ slots' \in Nat /\ slots' <= MaxConcurrentWrites
<1> USE DEF ApiInv
<1>0. slots \in Nat /\ slots <= MaxConcurrentWrites /\ MaxConcurrentWrites \in Nat
  BY ApiAssumption DEF TypeOK
<1>1. ASSUME NEW c \in Client, Admit(c)
      PROVE  SlotsHeld' /\ slots' \in Nat /\ slots' <= MaxConcurrentWrites
  <2>1. {d \in Client : Inside(d)'} = {d \in Client : Inside(d)} \cup {c}
    BY <1>1 DEF Admit, Inside, TypeOK
  <2>2. c \notin {d \in Client : Inside(d)}
    BY <1>1 DEF Admit, Inside
  <2>3. IsFiniteSet({d \in Client : Inside(d)})
    BY ApiAssumption, FS_Subset
  <2>4. Cardinality({d \in Client : Inside(d)} \cup {c}) = slots + 1
    BY <2>2, <2>3, FS_AddElement DEF SlotsHeld
  <2> QED BY <2>1, <2>4, <1>1, <1>0 DEF Admit, SlotsHeld
<1>2. ASSUME NEW c \in Client, RecheckClosed(c) \/ Answer(c) \/ Rollback(c) \/ LoseAnswer(c)
      PROVE  SlotsHeld' /\ slots' \in Nat /\ slots' <= MaxConcurrentWrites
  <2>1. Inside(c) /\ ReleaseSlot
    BY <1>2 DEF RecheckClosed, Answer, Rollback, LoseAnswer, Inside
  <2>2. request' = [request EXCEPT ![c] = "unsent"] \/ request' = [request EXCEPT ![c] = "answered"]
    BY <1>2 DEF RecheckClosed, Answer, Rollback, LoseAnswer
  <2> QED BY <2>1, <2>2, SlotFreed
<1>3. ASSUME NEW c \in Client, BeginTx(c) \/ AppendItem(c) \/ Commit(c)
      PROVE  SlotsHeld' /\ slots' \in Nat /\ slots' <= MaxConcurrentWrites
  <2>1. {d \in Client : Inside(d)'} = {d \in Client : Inside(d)} /\ slots' = slots
    BY <1>3 DEF BeginTx, AppendItem, Commit, Inside, TypeOK
  <2> QED BY <2>1, <1>0 DEF SlotsHeld
<1>4. ASSUME Crash
      PROVE  SlotsHeld' /\ slots' \in Nat /\ slots' <= MaxConcurrentWrites
  <2>1. {d \in Client : Inside(d)'} = {} /\ slots' = 0
    BY <1>4 DEF Crash, Inside
  <2> QED BY <2>1, <1>0, FS_EmptySet DEF SlotsHeld
<1>5. ASSUME slots' = slots, request' = request
      PROVE  SlotsHeld' /\ slots' \in Nat /\ slots' <= MaxConcurrentWrites
  <2>1. {d \in Client : Inside(d)'} = {d \in Client : Inside(d)}
    BY <1>5 DEF Inside
  <2> QED BY <2>1, <1>0, <1>5 DEF SlotsHeld
<1>6. (\E r \in Reader, limit \in 1 .. MaxPageSize : QueryPage(r, limit)) \/ Restart \/ CloseGate
        \/ OpenGate \/ UNCHANGED vars => slots' = slots /\ request' = request
  BY DEF QueryPage, Restart, CloseGate, OpenGate, vars
<1> QED BY <1>1, <1>2, <1>3, <1>4, <1>5, <1>6 DEF Next, Handle

-----------------------------------------------------------------------------
(* The remaining parts of the invariant, step by step.                     *)

\* The ids of one page, counted from the cursor.
LEMMA PageFacts ==
  ASSUME NEW cursor \in [snapshot : Nat, last : Nat], NEW limit \in 1 .. MaxPageSize,
         cursor.last <= cursor.snapshot
  PROVE  /\ PageEnd(cursor, limit) \in Nat
         /\ cursor.last <= PageEnd(cursor, limit) /\ PageEnd(cursor, limit) <= cursor.snapshot
BY ApiAssumption DEF PageEnd

\* One page of a reader, from any of its states.
LEMMA PageStep ==
  ASSUME ApiInv, NEW r \in Reader, NEW limit \in 1 .. MaxPageSize, QueryPage(r, limit)
  PROVE  /\ Paging'
         /\ reader' \in [Reader -> [state : {"new", "paging", "done"}, first : Nat,
                                    cursor : [snapshot : Nat, last : Nat], ids : Seq(Nat)]]
<1> DEFINE rows   == ledger[EventTable]
           cursor == IF reader[r].state = "new" THEN FirstCursor(rows) ELSE reader[r].cursor
           first  == IF reader[r].state = "new" THEN cursor.snapshot ELSE reader[r].first
           next   == NextCursor(rows, cursor, limit)
           end    == PageEnd(cursor, limit)
           ids    == [n \in 1 .. end - cursor.last |-> cursor.last + n]
           after  == [state  |-> IF next = {} THEN "done" ELSE "paging",
                      first  |-> first,
                      cursor |-> IF next = {} THEN cursor ELSE CHOOSE k \in next : TRUE,
                      ids    |-> reader[r].ids \o ids]
<1> USE DEF ApiInv
<1>1. reader' = [reader EXCEPT ![r] = after] /\ reader[r].state # "done"
  BY DEF QueryPage
<1>2. rows \in Seq(Row)
  BY ApiAssumption DEF TypeOK
<1>3. /\ reader[r].state \in {"new", "paging", "done"} /\ reader[r].first \in Nat
      /\ reader[r].cursor \in [snapshot : Nat, last : Nat] /\ reader[r].ids \in Seq(Nat)
  BY DEF TypeOK
<1>4. /\ cursor \in [snapshot : Nat, last : Nat] /\ first \in Nat
      /\ cursor.snapshot = first /\ cursor.last = Len(reader[r].ids) /\ cursor.last <= first
  <2>1. CASE reader[r].state = "new"
    <3>1. cursor = [snapshot |-> Len(rows), last |-> 0] /\ first = Len(rows)
      BY <2>1 DEF FirstCursor
    <3>2. reader[r].ids = <<>>
      BY <2>1 DEF Paging
    <3>3. Len(rows) \in Nat
      BY <1>2
    <3> QED BY <3>1, <3>2, <3>3
  <2>2. CASE reader[r].state = "paging"
    BY <2>2, <1>3 DEF Paging
  <2> QED BY <2>1, <2>2, <1>1, <1>3
<1> HIDE DEF cursor, first, rows
<1>5. end \in Nat /\ cursor.last <= end /\ end <= cursor.snapshot
  BY <1>4, PageFacts
<1>6. next = IF end < cursor.snapshot THEN {[cursor EXCEPT !.last = end]} ELSE {}
  BY DEF NextCursor
<1>7. /\ reader[r].ids \o ids \in Seq(Nat) /\ Len(reader[r].ids \o ids) = end
      /\ \A n \in DOMAIN (reader[r].ids \o ids) : (reader[r].ids \o ids)[n] = n
  <2> HIDE DEF end
  <2>1. ids \in Seq(Nat) /\ Len(ids) = end - cursor.last
    BY <1>4, <1>5
  <2>2. \A n \in DOMAIN reader[r].ids : reader[r].ids[n] = n
    BY DEF Paging
  <2>3. \A n \in 1 .. Len(ids) : ids[n] = cursor.last + n
    BY <2>1
  <2> HIDE DEF ids
  <2>4. reader[r].ids \o ids \in Seq(Nat) /\ Len(reader[r].ids \o ids) = end
    BY <1>3, <1>4, <1>5, <2>1
  <2>5. ASSUME NEW n \in 1 .. end PROVE (reader[r].ids \o ids)[n] = n
    <3>1. CASE n <= cursor.last
      BY <3>1, <1>3, <1>4, <1>5, <2>1, <2>2, <2>5
    <3>2. CASE n > cursor.last
      <4>1. (reader[r].ids \o ids)[n] = ids[n - cursor.last]
        BY <3>2, <1>3, <1>4, <1>5, <2>1, <2>5
      <4>2. n - cursor.last \in 1 .. Len(ids)
        BY <3>2, <1>3, <1>4, <1>5, <2>1, <2>5
      <4> QED BY <4>1, <4>2, <2>3, <1>4, <1>5
    <3>3. n \in Nat /\ cursor.last \in Nat
      BY <1>4, <1>5, <2>5
    <3>4. n <= cursor.last \/ n > cursor.last
      BY <3>3
    <3> QED BY <3>1, <3>2, <3>4
  <2> QED BY <2>4, <2>5
<1> HIDE DEF end, ids
<1>8. CASE end < cursor.snapshot
  <2>1. /\ next # {} /\ (CHOOSE k \in next : TRUE) = [cursor EXCEPT !.last = end]
    BY <1>6, <1>8
  <2> HIDE DEF next
  <2>2. /\ after.state = "paging" /\ after.first = first /\ after.ids = reader[r].ids \o ids
        /\ after.cursor = [cursor EXCEPT !.last = end]
    BY <2>1
  <2>3. after \in [state : {"new", "paging", "done"}, first : Nat,
                   cursor : [snapshot : Nat, last : Nat], ids : Seq(Nat)]
    BY <2>1, <1>4, <1>5, <1>7
  <2> HIDE DEF after
  <2>4. /\ after.cursor.snapshot = after.first /\ after.cursor.last = Len(after.ids)
        /\ after.cursor.last <= after.first
    BY <2>2, <1>4, <1>5, <1>7
  <2> QED BY <1>1, <1>3, <1>7, <2>2, <2>3, <2>4 DEF Paging, TypeOK
<1>9. CASE ~(end < cursor.snapshot)
  <2>1. next = {}
    BY <1>6, <1>9
  <2> HIDE DEF next
  <2>2. after.state = "done" /\ after.first = first /\ after.ids = reader[r].ids \o ids /\ after.cursor = cursor
    BY <2>1
  <2>3. after \in [state : {"new", "paging", "done"}, first : Nat,
                   cursor : [snapshot : Nat, last : Nat], ids : Seq(Nat)]
    BY <2>1, <1>4, <1>5, <1>7
  <2>4. end = first
    BY <1>4, <1>5, <1>9
  <2> HIDE DEF after
  <2> QED BY <1>1, <1>3, <1>7, <2>2, <2>3, <2>4 DEF Paging, TypeOK
<1> QED BY <1>8, <1>9

\* Readers are moved by their own pages only.
LEMMA PagingStep == ASSUME ApiInv, [Next]_vars PROVE Paging'
<1>1. ASSUME reader' = reader PROVE Paging'
  BY <1>1 DEF ApiInv, Paging
<1>2. (\E c \in Client : Handle(c) \/ Rollback(c) \/ LoseAnswer(c)) \/ Crash \/ Restart \/ CloseGate
        \/ OpenGate \/ UNCHANGED vars => reader' = reader
  BY DEF Handle, Admit, RecheckClosed, BeginTx, AppendItem, Commit, Answer, Rollback, LoseAnswer,
         Crash, Restart, CloseGate, OpenGate, vars
<1> QED BY <1>1, <1>2, PageStep DEF Next

\* Only the holder writes, and the lock goes with the request.
LEMMA LockStep == ASSUME ApiInv, [Next]_vars PROVE LockHeld'
<1> USE DEF ApiInv, LockHeld, TypeOK
<1>1. ASSUME NEW c \in Client, Handle(c) PROVE LockHeld'
  BY <1>1, ApiAssumption DEF Handle, Admit, RecheckClosed, BeginTx, AppendItem, Commit, Answer
<1>2. ASSUME NEW c \in Client, Rollback(c) \/ LoseAnswer(c) PROVE LockHeld'
  BY <1>2, ApiAssumption DEF Rollback, LoseAnswer
<1>3. ASSUME Crash PROVE LockHeld'
  BY <1>3, ApiAssumption DEF Crash
<1>4. ASSUME request' = request, writer' = writer PROVE LockHeld'
  BY <1>4
<1>5. (\E r \in Reader, limit \in 1 .. MaxPageSize : QueryPage(r, limit)) \/ Restart \/ CloseGate
        \/ OpenGate \/ UNCHANGED vars => request' = request /\ writer' = writer
  BY DEF QueryPage, Restart, CloseGate, OpenGate, vars
<1> QED BY <1>1, <1>2, <1>3, <1>4, <1>5 DEF Next

\* Steps that touch neither the tables nor a transaction nor any result.
Aside ==
  \/ \E r \in Reader, limit \in 1 .. MaxPageSize : QueryPage(r, limit)
  \/ Restart \/ CloseGate \/ OpenGate \/ UNCHANGED vars

\* They keep the part of the state the writing side is about.
LEMMA AsideKeeps ==
  ASSUME Aside
  PROVE  UNCHANGED <<ledger, request, writer, txn, results, acks>>
BY DEF Aside, QueryPage, Restart, CloseGate, OpenGate, vars

\* The committed tables only grow, and their keys stay unique.
LEMMA LedgerStep ==
  ASSUME ApiInv, [Next]_vars
  PROVE  /\ ledger' \in [Table -> Seq(Row)]
         /\ \A t \in Table : Extends(ledger[t], ledger'[t])
         /\ StoredOnce'
<1> USE DEF ApiInv
<1>1. ASSUME UNCHANGED ledger
      PROVE  /\ ledger' \in [Table -> Seq(Row)]
             /\ \A t \in Table : Extends(ledger[t], ledger'[t])
             /\ StoredOnce'
  <2>1. \A t \in Table : ledger[t] \in Seq(Row)
    BY DEF TypeOK
  <2> QED BY <1>1, <2>1 DEF TypeOK, StoredOnce, Extends
<1>2. ASSUME NEW c \in Client, Commit(c)
      PROVE  /\ ledger' \in [Table -> Seq(Row)]
             /\ \A t \in Table : Extends(ledger[t], ledger'[t])
             /\ StoredOnce'
  <2>1. ledger' = [ledger EXCEPT ![TableOf[c]] = txn] /\ request[c] = "writing"
    BY <1>2 DEF Commit
  <2>2. TableOf[c] \in Table /\ txn \in Seq(Row) /\ ledger \in [Table -> Seq(Row)]
    BY ApiAssumption DEF TypeOK
  <2>3. Extends(ledger[TableOf[c]], txn) /\ UniqueKeys(txn)
    BY <2>1 DEF TxnAppends
  <2>4. ASSUME NEW t \in Table PROVE Extends(ledger[t], ledger'[t]) /\ UniqueKeys(ledger'[t])
    <3>1. CASE t = TableOf[c]
      BY <3>1, <2>1, <2>2, <2>3
    <3>2. CASE t # TableOf[c]
      <4>1. ledger'[t] = ledger[t] /\ ledger[t] \in Seq(Row)
        BY <3>2, <2>1, <2>2
      <4>2. UniqueKeys(ledger[t])
        BY DEF StoredOnce
      <4> QED BY <4>1, <4>2 DEF Extends
    <3> QED BY <3>1, <3>2
  <2>5. ledger' \in [Table -> Seq(Row)]
    BY <2>1, <2>2
  <2> QED BY <2>4, <2>5 DEF StoredOnce
<1>3. [Next]_vars => UNCHANGED ledger \/ \E c \in Client : Commit(c)
  BY DEF Next, Handle, Admit, RecheckClosed, BeginTx, AppendItem, Answer, Rollback, LoseAnswer,
         Crash, Restart, CloseGate, OpenGate, QueryPage, vars
<1> QED BY <1>1, <1>2, <1>3

\* Answers already given stay true, and a new one is true of the committed table.
LEMMA AckStep ==
  ASSUME ApiInv, [Next]_vars
  PROVE  AckTrue' /\ acks' \subseteq [client : Client, index : Nat, result : Result]
<1> USE DEF ApiInv
<1>1. ledger \in [Table -> Seq(Row)] /\ ledger' \in [Table -> Seq(Row)]
  BY LedgerStep DEF TypeOK
<1>2. \A t \in Table : Extends(ledger[t], ledger'[t])
  BY LedgerStep
<1>3. acks \subseteq [client : Client, index : Nat, result : Result]
  BY DEF TypeOK
<1>4. ASSUME NEW a \in acks
      PROVE  ResultTrue(ledger'[TableOf[a.client]], BatchOf[a.client][a.index], a.result)
  <2>1. TableOf[a.client] \in Table
    BY <1>3, ApiAssumption
  <2>2. ResultTrue(ledger[TableOf[a.client]], BatchOf[a.client][a.index], a.result)
    BY DEF AckTrue
  <2> QED BY <1>1, <1>2, <2>1, <2>2, ResultKept
<1>5. ASSUME UNCHANGED acks
      PROVE  AckTrue' /\ acks' \subseteq [client : Client, index : Nat, result : Result]
  BY <1>3, <1>4, <1>5 DEF AckTrue
<1>6. ASSUME NEW c \in Client, Answer(c)
      PROVE  AckTrue' /\ acks' \subseteq [client : Client, index : Nat, result : Result]
  <2> DEFINE new == {[client |-> c, index |-> i, result |-> results[c][i]] : i \in DOMAIN BatchOf[c]}
  <2>1. acks' = acks \cup new /\ ledger' = ledger /\ request[c] = "committed"
    BY <1>6 DEF Answer
  <2>2. /\ Len(results[c]) = Len(BatchOf[c])
        /\ \A i \in DOMAIN results[c] : ResultTrue(ledger[TableOf[c]], BatchOf[c][i], results[c][i])
    BY <2>1 DEF ResultsTrue
  <2>3. results[c] \in Seq(Result) /\ BatchOf[c] \in Seq(Item)
    BY ApiAssumption DEF TypeOK
  <2>4. DOMAIN BatchOf[c] = DOMAIN results[c] /\ DOMAIN BatchOf[c] \subseteq Nat
    BY <2>2, <2>3
  <2>5. \A i \in DOMAIN results[c] : results[c][i] \in Result
    BY <2>3
  <2>6. ASSUME NEW a \in new
        PROVE  /\ a \in [client : Client, index : Nat, result : Result]
               /\ ResultTrue(ledger'[TableOf[a.client]], BatchOf[a.client][a.index], a.result)
    <3>1. PICK i \in DOMAIN BatchOf[c] : a = [client |-> c, index |-> i, result |-> results[c][i]]
      OBVIOUS
    <3> QED BY <3>1, <2>1, <2>2, <2>4, <2>5
  <2> HIDE DEF new
  <2> QED BY <1>3, <1>4, <2>1, <2>6 DEF AckTrue
<1>7. [Next]_vars => UNCHANGED acks \/ \E c \in Client : Answer(c)
  BY DEF Next, Handle, Admit, RecheckClosed, BeginTx, AppendItem, Commit, Rollback, LoseAnswer,
         Crash, Restart, CloseGate, OpenGate, QueryPage, vars
<1> QED BY <1>5, <1>6, <1>7

\* What is said of one client's request, its transaction and its results.
TxnOf(c) ==
  request[c] = "writing" => Extends(ledger[TableOf[c]], txn) /\ UniqueKeys(txn)

ResultsOf(c) ==
  /\ request[c] \in {"unsent", "admitted"} => results[c] = <<>>
  /\ request[c] = "writing" =>
       /\ Len(results[c]) <= Len(BatchOf[c])
       /\ \A i \in DOMAIN results[c] : ResultTrue(txn, BatchOf[c][i], results[c][i])
  /\ request[c] = "committed" =>
       /\ Len(results[c]) = Len(BatchOf[c])
       /\ \A i \in DOMAIN results[c] : ResultTrue(ledger[TableOf[c]], BatchOf[c][i], results[c][i])

Request(c) == TxnOf(c) /\ ResultsOf(c) /\ results[c] \in Seq(Result)

\* ApiInv, for one client.
LEMMA RequestHolds == ASSUME ApiInv, NEW c \in Client PROVE Request(c)
BY DEF ApiInv, TypeOK, TxnAppends, ResultsTrue, Request, TxnOf, ResultsOf

\* A step that leaves a client's request and results alone, and its transaction
\* too while it writes, can only extend the table under it.
LEMMA OthersKept ==
  ASSUME ApiInv, [Next]_vars, NEW c \in Client, request'[c] = request[c], results'[c] = results[c],
         request[c] = "writing" => txn' = txn /\ ledger' = ledger
  PROVE  Request(c)'
<1>1. Request(c)
  BY RequestHolds
<1>2. TxnOf(c)'
  BY <1>1 DEF Request, TxnOf
<1>3. ASSUME request[c] = "committed", NEW i \in DOMAIN results[c]
      PROVE  ResultTrue(ledger'[TableOf[c]], BatchOf[c][i], results[c][i])
  <2>1. ledger[TableOf[c]] \in Seq(Row) /\ ledger'[TableOf[c]] \in Seq(Row)
    BY LedgerStep, ApiAssumption DEF ApiInv, TypeOK
  <2>2. Extends(ledger[TableOf[c]], ledger'[TableOf[c]])
    BY LedgerStep, ApiAssumption
  <2>3. ResultTrue(ledger[TableOf[c]], BatchOf[c][i], results[c][i])
    BY <1>1, <1>3 DEF Request, ResultsOf
  <2> QED BY <2>1, <2>2, <2>3, ResultKept
<1>4. ResultsOf(c)'
  BY <1>1, <1>3 DEF Request, ResultsOf
<1> QED BY <1>1, <1>2, <1>4 DEF Request

\* A handler's step, for the client it serves.
LEMMA OwnStep ==
  ASSUME ApiInv, [Next]_vars, NEW c \in Client, Handle(c) \/ Rollback(c) \/ LoseAnswer(c)
  PROVE  Request(c)' /\ txn' \in Seq(Row)
<1> USE DEF ApiInv
<1>0. /\ txn \in Seq(Row) /\ ledger \in [Table -> Seq(Row)] /\ TableOf[c] \in Table
      /\ results \in [Client -> Seq(Result)] /\ BatchOf[c] \in Seq(Item)
      /\ request \in [Client -> {"unsent", "admitted", "writing", "committed", "answered"}]
  BY ApiAssumption DEF TypeOK
<1>1. Request(c)
  BY RequestHolds
<1>2. <<>> \in Seq(Row) /\ <<>> \in Seq(Result) /\ Len(<<>>) = 0
  OBVIOUS
<1>3. CASE Admit(c)
  BY <1>0, <1>1, <1>3 DEF Admit, Request, TxnOf, ResultsOf
<1>4. CASE RecheckClosed(c)
  BY <1>0, <1>1, <1>4 DEF RecheckClosed, Request, TxnOf, ResultsOf
<1>5. CASE BeginTx(c)
  <2>1. /\ txn' = ledger[TableOf[c]] /\ ledger' = ledger /\ results' = results
        /\ request'[c] = "writing" /\ results[c] = <<>>
    BY <1>0, <1>1, <1>5 DEF BeginTx, Request, ResultsOf
  <2>2. ledger[TableOf[c]] \in Seq(Row) /\ UniqueKeys(ledger[TableOf[c]])
    BY <1>0 DEF StoredOnce
  <2>3. TxnOf(c)'
    BY <2>1, <2>2 DEF TxnOf, Extends
  <2>4. ResultsOf(c)'
    BY <1>0, <1>2, <2>1 DEF ResultsOf
  <2> QED BY <1>0, <2>1, <2>2, <2>3, <2>4 DEF Request
<1>6. CASE AppendItem(c)
  <2> DEFINE k    == Len(results[c]) + 1
             item == BatchOf[c][k]
             one  == AppendOne(txn, item)
  <2>1. /\ txn' = one.rows /\ results' = [results EXCEPT ![c] = Append(@, one.result)]
        /\ request[c] = "writing" /\ request' = request /\ ledger' = ledger
        /\ Len(results[c]) < Len(BatchOf[c])
    BY <1>6 DEF AppendItem
  <2>2. k \in DOMAIN BatchOf[c] /\ item \in Item
    BY <1>0, <2>1
  <2>3. /\ Extends(ledger[TableOf[c]], txn) /\ UniqueKeys(txn)
        /\ \A i \in DOMAIN results[c] : ResultTrue(txn, BatchOf[c][i], results[c][i])
    BY <1>1, <2>1 DEF Request, TxnOf, ResultsOf
  <2> HIDE DEF item
  <2>4. /\ one.rows \in Seq(Row) /\ one.result \in Result
        /\ Extends(txn, one.rows) /\ UniqueKeys(one.rows)
        /\ ResultTrue(one.rows, item, one.result)
    BY <1>0, <2>2, <2>3, AppendOneCorrect
  <2> HIDE DEF one
  <2>5. Extends(ledger[TableOf[c]], one.rows)
    <3>1. ledger[TableOf[c]] \in Seq(Row)
      BY <1>0
    <3> QED BY <1>0, <2>3, <2>4, <3>1 DEF Extends
  <2>6. results'[c] = Append(results[c], one.result) /\ results[c] \in Seq(Result)
    BY <1>0, <2>1
  <2>7. /\ results'[c] \in Seq(Result) /\ Len(results'[c]) = k
        /\ \A i \in DOMAIN results[c] : results'[c][i] = results[c][i]
        /\ results'[c][k] = one.result
        /\ DOMAIN results'[c] = DOMAIN results[c] \cup {k}
    BY <2>4, <2>6
  <2>8. ASSUME NEW i \in DOMAIN results'[c] PROVE ResultTrue(one.rows, BatchOf[c][i], results'[c][i])
    <3>1. CASE i \in DOMAIN results[c]
      BY <1>0, <2>3, <2>4, <2>7, <3>1, ResultKept
    <3>2. CASE i = k
      BY <2>4, <2>7, <3>2 DEF item
    <3> QED BY <2>7, <3>1, <3>2
  <2>9. k <= Len(BatchOf[c])
    BY <1>0, <2>1
  <2> HIDE DEF k
  <2>10. TxnOf(c)' /\ ResultsOf(c)'
    BY <2>1, <2>4, <2>5, <2>7, <2>8, <2>9 DEF TxnOf, ResultsOf
  <2> QED BY <2>1, <2>4, <2>7, <2>10 DEF Request
<1>7. CASE Commit(c)
  <2>1. /\ ledger'[TableOf[c]] = txn /\ txn' = <<>> /\ results' = results
        /\ request[c] = "writing" /\ request'[c] = "committed" /\ Len(results[c]) = Len(BatchOf[c])
    BY <1>0, <1>7 DEF Commit
  <2> QED BY <1>0, <1>1, <1>2, <2>1 DEF Request, TxnOf, ResultsOf
<1>8. CASE Answer(c)
  BY <1>0, <1>1, <1>8 DEF Answer, Request, TxnOf, ResultsOf
<1>9. CASE Rollback(c) \/ LoseAnswer(c)
  <2>1. request'[c] = "unsent" /\ results'[c] = <<>> /\ (txn' = txn \/ txn' = <<>>)
    BY <1>0, <1>9 DEF Rollback, LoseAnswer
  <2> QED BY <1>0, <1>2, <2>1 DEF Request, TxnOf, ResultsOf
<1> QED BY <1>3, <1>4, <1>5, <1>6, <1>7, <1>8, <1>9 DEF Handle

\* A handler's step, for every other client: whoever writes keeps the lock, so
\* no other request changes its transaction or commits.
LEMMA OtherStep ==
  ASSUME ApiInv, [Next]_vars, NEW c \in Client, Handle(c) \/ Rollback(c) \/ LoseAnswer(c),
         NEW d \in Client, d # c
  PROVE  Request(d)'
<1> USE DEF ApiInv
<1>1. request'[d] = request[d] /\ results'[d] = results[d]
  BY DEF Handle, Admit, RecheckClosed, BeginTx, AppendItem, Commit, Answer, Rollback, LoseAnswer, TypeOK
<1>2. ASSUME request[d] = "writing" PROVE txn' = txn /\ ledger' = ledger
  <2>1. writer = d /\ writer # c /\ writer # NoClient /\ request[c] # "writing"
    BY <1>2, ApiAssumption DEF LockHeld
  <2> QED BY <2>1 DEF Handle, Admit, RecheckClosed, BeginTx, AppendItem, Commit, Answer, Rollback,
                      LoseAnswer
<1> QED BY <1>1, <1>2, OthersKept

\* Transactions and results, for all clients.
LEMMA RequestsStep ==
  ASSUME ApiInv, [Next]_vars
  PROVE  txn' \in Seq(Row) /\ \A c \in Client : Request(c)'
<1>0. txn \in Seq(Row) /\ results \in [Client -> Seq(Result)]
  BY DEF ApiInv, TypeOK
<1>1. ASSUME NEW c \in Client, Handle(c) \/ Rollback(c) \/ LoseAnswer(c)
      PROVE  txn' \in Seq(Row) /\ \A d \in Client : Request(d)'
  <2>1. Request(c)' /\ txn' \in Seq(Row)
    BY <1>1, OwnStep
  <2>2. ASSUME NEW d \in Client, d # c PROVE Request(d)'
    BY <1>1, <2>2, OtherStep
  <2> QED BY <2>1, <2>2
<1>2. ASSUME Crash PROVE txn' \in Seq(Row) /\ \A d \in Client : Request(d)'
  <2>1. txn' = <<>>
    BY <1>2 DEF Crash
  <2>2. ASSUME NEW d \in Client PROVE Request(d)'
    <3>1. CASE request[d] = "answered"
      <4>1. request'[d] = "answered" /\ results'[d] = results[d]
        BY <1>2, <3>1 DEF Crash
      <4> QED BY <1>0, <4>1 DEF Request, TxnOf, ResultsOf
    <3>2. CASE request[d] # "answered"
      <4>1. request'[d] = "unsent" /\ results'[d] = <<>>
        BY <1>2, <3>2 DEF Crash
      <4>2. <<>> \in Seq(Result)
        OBVIOUS
      <4> QED BY <4>1, <4>2 DEF Request, TxnOf, ResultsOf
    <3> QED BY <3>1, <3>2
  <2> QED BY <2>1, <2>2
<1>3. ASSUME Aside PROVE txn' \in Seq(Row) /\ \A d \in Client : Request(d)'
  <2>1. UNCHANGED <<ledger, request, writer, txn, results, acks>>
    BY <1>3, AsideKeeps
  <2>2. ASSUME NEW d \in Client PROVE Request(d)'
    BY <2>1, OthersKept
  <2> QED BY <1>0, <2>1, <2>2
<1> QED BY <1>1, <1>2, <1>3 DEF Next, Aside

\* The shapes no other lemma gives.
LEMMA ShapesStep ==
  ASSUME ApiInv, [Next]_vars
  PROVE  /\ up' \in BOOLEAN /\ gate' \in BOOLEAN
         /\ request' \in [Client -> {"unsent", "admitted", "writing", "committed", "answered"}]
         /\ writer' \in Client \cup {NoClient}
         /\ results' \in [Client -> Seq(Result)]
         /\ reader' \in [Reader -> [state : {"new", "paging", "done"}, first : Nat,
                                    cursor : [snapshot : Nat, last : Nat], ids : Seq(Nat)]]
         /\ faults' \in 0 .. MaxFaults
<1> USE DEF ApiInv
<1>1. up' \in BOOLEAN /\ gate' \in BOOLEAN
  BY DEF TypeOK, Next, Handle, Admit, RecheckClosed, BeginTx, AppendItem, Commit, Answer, Rollback,
         LoseAnswer, QueryPage, Crash, Restart, CloseGate, OpenGate, vars
<1>2. request' \in [Client -> {"unsent", "admitted", "writing", "committed", "answered"}]
  BY DEF TypeOK, Next, Handle, Admit, RecheckClosed, BeginTx, AppendItem, Commit, Answer, Rollback,
         LoseAnswer, QueryPage, Crash, Restart, CloseGate, OpenGate, vars
<1>3. writer' \in Client \cup {NoClient}
  BY DEF TypeOK, Next, Handle, Admit, RecheckClosed, BeginTx, AppendItem, Commit, Answer, Rollback,
         LoseAnswer, QueryPage, Crash, Restart, CloseGate, OpenGate, vars
<1>4. results' \in [Client -> Seq(Result)]
  <2>1. \A c \in Client : results'[c] \in Seq(Result)
    BY RequestsStep DEF Request
  <2>2. results' = [c \in Client |-> results'[c]]
    BY DEF TypeOK, Next, Handle, Admit, RecheckClosed, BeginTx, AppendItem, Commit, Answer, Rollback,
           LoseAnswer, QueryPage, Crash, Restart, CloseGate, OpenGate, vars
  <2> QED BY <2>1, <2>2
<1>5. reader' \in [Reader -> [state : {"new", "paging", "done"}, first : Nat,
                              cursor : [snapshot : Nat, last : Nat], ids : Seq(Nat)]]
  <2>1. reader' = reader \/ \E r \in Reader, limit \in 1 .. MaxPageSize : QueryPage(r, limit)
    BY DEF Next, Handle, Admit, RecheckClosed, BeginTx, AppendItem, Commit, Answer, Rollback,
           LoseAnswer, Crash, Restart, CloseGate, OpenGate, vars
  <2> QED BY <2>1, PageStep DEF TypeOK
<1>6. faults' \in 0 .. MaxFaults
  <2>1. faults' = faults \/ (faults > 0 /\ faults' = faults - 1)
    BY DEF Next, Handle, Admit, RecheckClosed, BeginTx, AppendItem, Commit, Answer, Rollback,
           LoseAnswer, QueryPage, Crash, Restart, CloseGate, OpenGate, vars
  <2> QED BY <2>1, ApiAssumption DEF TypeOK
<1> QED BY <1>1, <1>2, <1>3, <1>4, <1>5, <1>6

\* Every step keeps the invariant.
LEMMA ApiStep == ApiInv /\ [Next]_vars => ApiInv'
<1> SUFFICES ASSUME ApiInv, [Next]_vars PROVE ApiInv'
  OBVIOUS
<1>1. TypeOK'
  BY SlotsStep, LedgerStep, AckStep, RequestsStep, ShapesStep DEF TypeOK
<1>2. TxnAppends' /\ ResultsTrue'
  BY RequestsStep DEF Request, TxnOf, ResultsOf, TxnAppends, ResultsTrue
<1> QED BY <1>1, <1>2, SlotsStep, LockStep, LedgerStep, AckStep, PagingStep DEF ApiInv

-----------------------------------------------------------------------------
(* The theorems.                                                           *)

\* ApiInv is an invariant of the event endpoints.
THEOREM ApiInvariant == Spec => []ApiInv
BY ApiInit, ApiStep, PTL DEF Spec

\* Types: in particular no more requests are inside the write handlers than
\* max_concurrent_writes allows, whatever fails, is lost or stops.
THEOREM ApiTypeCorrect == Spec => []TypeOK
<1>1. ApiInv => TypeOK
  BY DEF ApiInv
<1> QED BY <1>1, ApiInvariant, PTL

\* An answered result names a row that has the item's key, and the item's content
\* exactly if it says accepted or duplicate, in every later state.
THEOREM AnswersTrue == Spec => []AckTrue
<1>1. ApiInv => AckTrue
  BY DEF ApiInv
<1> QED BY <1>1, ApiInvariant, PTL

\* Resent and rival batches store a key once per table.
THEOREM KeysStoredOnce == Spec => []StoredOnce
<1>1. ApiInv => StoredOnce
  BY DEF ApiInv
<1> QED BY <1>1, ApiInvariant, PTL

\* A paged query delivers its snapshot, each row once and in order.
THEOREM SnapshotPaged == Spec => []PagesExact
<1>1. ApiInv => PagesExact
  BY DEF ApiInv, Paging, PagesExact
<1> QED BY <1>1, ApiInvariant, PTL

\* Committed rows are never changed or removed.
THEOREM TablesOnlyGrow == Spec => [][\A t \in Table : Extends(ledger[t], ledger'[t])]_vars
<1>1. ApiInv /\ [Next]_vars => [\A t \in Table : Extends(ledger[t], ledger'[t])]_vars
  BY LedgerStep
<1> QED BY <1>1, ApiInvariant, PTL DEF Spec

-----------------------------------------------------------------------------
(* A batch that is posted item by item, as one step of the log.             *)

\* The items of a batch that are new to the rows.
New(rows, batch) == Promise!Fresh(rows, batch)

\* The same in terms of the tables' keys.
LEMMA NewFacts ==
  ASSUME NEW rows, NEW batch, NEW i
  PROVE  i \in New(rows, batch) <=>
           /\ i \in DOMAIN batch /\ batch[i].valid
           /\ \A n \in DOMAIN rows : KeyOf(rows[n]) # KeyOf(batch[i])
           /\ \A j \in 1 .. i - 1 : batch[j].valid => KeyOf(batch[j]) # KeyOf(batch[i])
  BY DEF New, Promise!Fresh, Promise!Named, Promise!Name, KeyOf

\* More is rows followed by those new items among the first m, in the batch's order.
Posted(rows, batch, m, more, order) ==
  /\ order \in Seq(Nat)
  /\ \A n \in 1 .. Len(order) : order[n] \in New(rows, batch) /\ order[n] <= m
  /\ \A i \in New(rows, batch) : i <= m => \E n \in 1 .. Len(order) : order[n] = i
  /\ \A j, n \in 1 .. Len(order) : j < n => order[j] < order[n]
  /\ Len(more) = Len(rows) + Len(order)
  /\ \A n \in 1 .. Len(rows) : more[n] = rows[n]
  /\ \A n \in 1 .. Len(order) : more[Len(rows) + n] = RowOf(batch[order[n]])

\* The result of item i is what the log before and after the batch says of it.
Settled(rows, batch, more, i, r) ==
  IF batch[i].valid
  THEN /\ r.id \in DOMAIN more /\ KeyOf(more[r.id]) = KeyOf(batch[i])
       /\ r.status = IF i \in New(rows, batch) THEN "accepted"
                     ELSE IF more[r.id] = RowOf(batch[i]) THEN "duplicate" ELSE "conflict"
  ELSE r.status = "rejected" /\ r.id = 0

\* A stored row has its item's key and content.
LEMMA RowFields ==
  ASSUME NEW item
  PROVE  KeyOf(RowOf(item)) = KeyOf(item) /\ RowOf(item).content = item.content
  BY DEF KeyOf, RowOf

\* Two rows with one key are the same row when their contents are.
LEMMA RowsEqual ==
  ASSUME NEW row \in Row, NEW item, KeyOf(row) = KeyOf(item)
  PROVE  row = RowOf(item) <=> row.content = item.content
<1>1. PICK y \in Item : row = RowOf(y)
  BY DEF Row
<1>2. y.collector = item.collector /\ y.key = item.key
  BY <1>1, RowFields DEF KeyOf
<1>3. row.content = y.content
  BY <1>1, RowFields
<1> QED BY <1>1, <1>2, <1>3, RowFields DEF RowOf

\* Later items of the batch do not change what an earlier one was told.
LEMMA SettledKept ==
  ASSUME NEW rows, NEW batch, NEW more, NEW longer, NEW i, NEW r, Settled(rows, batch, more, i, r),
         DOMAIN more \subseteq DOMAIN longer, \A n \in DOMAIN more : longer[n] = more[n]
  PROVE  Settled(rows, batch, longer, i, r)
  BY DEF Settled

\* Arithmetic of positions in a sequence that grows by one.
LEMMA Numbers ==
  ASSUME NEW a \in Nat, NEW l \in Nat
  PROVE  /\ 1 .. l \subseteq 1 .. l + 1 /\ l + 1 \in 1 .. l + 1 /\ \A n \in 1 .. l + 1 : n \in 1 .. l \/ n = l + 1
         /\ \A j, n \in 1 .. l + 1 : j < n => j \in 1 .. l
         /\ 1 .. a \subseteq 1 .. a + l
  OBVIOUS

\* One more item.
LEMMA PostItem ==
  ASSUME NEW rows \in Seq(Row), NEW batch \in Seq(Item), NEW m \in Nat, m < Len(batch),
         NEW more \in Seq(Row), NEW order, Posted(rows, batch, m, more, order),
         NEW res, \A i \in 1 .. m : Settled(rows, batch, more, i, res[i])
  PROVE  LET one == AppendOne(more, batch[m + 1]) IN
         /\ \E o : Posted(rows, batch, m + 1, one.rows, o)
         /\ \A i \in 1 .. m : Settled(rows, batch, one.rows, i, res[i])
         /\ Settled(rows, batch, one.rows, m + 1, one.result)
<1>1. PICK item, one, k : item = batch[m + 1] /\ one = AppendOne(more, item) /\ k = m + 1
  OBVIOUS
<1>2. k \in DOMAIN batch /\ item \in Item /\ k \in Nat /\ DOMAIN batch = 1 .. Len(batch)
  BY <1>1
<1>3. order \in Seq(Nat) /\ Len(order) \in Nat /\ Len(rows) \in Nat /\ Len(more) = Len(rows) + Len(order)
      /\ DOMAIN more = 1 .. Len(more)
  BY DEF Posted
<1>4. ASSUME NEW n \in 1 .. Len(order)
      PROVE  order[n] \in Nat /\ order[n] \in New(rows, batch) /\ order[n] <= m
  <2>1. order[n] \in Nat
    BY <1>3
  <2>2. order[n] \in New(rows, batch) /\ order[n] <= m
    BY DEF Posted
  <2> QED BY <2>1, <2>2
<1>5. CASE ~item.valid
  <2>1. one.rows = more /\ one.result.status = "rejected" /\ one.result.id = 0
    BY <1>1, <1>5 DEF AppendOne
  <2>2. k \notin New(rows, batch)
    BY <1>1, <1>5, NewFacts
  <2>3. Posted(rows, batch, k, more, order)
    <3>1. \A i \in New(rows, batch) : i \in Nat /\ (i <= k => i <= m)
      BY <1>1, <1>2, <2>2, NewFacts
    <3>2. \A n \in 1 .. Len(order) : order[n] <= k
      BY <1>1, <1>3 DEF Posted
    <3> QED BY <3>1, <3>2 DEF Posted
  <2>4. Settled(rows, batch, more, k, one.result)
    BY <1>1, <1>5, <2>1 DEF Settled
  <2> QED BY <1>1, <2>1, <2>3, <2>4
<1>6. CASE item.valid /\ KeyOf(item) \in Keys(more)
  <2>1. PICK id : id = RowId(more, KeyOf(item))
    OBVIOUS
  <2>2. id \in DOMAIN more /\ KeyOf(more[id]) = KeyOf(item)
    BY <1>6, <2>1, RowIdFound
  <2>3. /\ one.rows = more /\ one.result.id = id
        /\ one.result.status = IF more[id].content = item.content THEN "duplicate" ELSE "conflict"
    BY <1>1, <1>6, <2>1 DEF AppendOne, Existing
  <2>4. k \notin New(rows, batch)
    <3>1. CASE id \in 1 .. Len(rows)
      BY <1>1, <2>2, <3>1, NewFacts DEF Posted
    <3>2. CASE id \notin 1 .. Len(rows)
      <4>1. PICK n \in 1 .. Len(order) : id = Len(rows) + n
        <5>1. id - Len(rows) \in 1 .. Len(order)
          BY <1>3, <2>2, <3>2
        <5> QED BY <1>3, <2>2, <5>1
      <4>2. order[n] \in New(rows, batch) /\ order[n] <= m /\ more[id] = RowOf(batch[order[n]])
        BY <4>1 DEF Posted
      <4>3. order[n] \in 1 .. k - 1 /\ batch[order[n]].valid /\ KeyOf(batch[order[n]]) = KeyOf(item)
        BY <1>1, <1>2, <2>2, <4>2, NewFacts, RowFields
      <4> QED BY <1>1, <4>3, NewFacts
    <3> QED BY <3>1, <3>2
  <2>5. Posted(rows, batch, k, more, order)
    <3>1. \A i \in New(rows, batch) : i \in Nat /\ (i <= k => i <= m)
      BY <1>1, <1>2, <2>4, NewFacts
    <3>2. \A n \in 1 .. Len(order) : order[n] <= k
      BY <1>1, <1>3 DEF Posted
    <3> QED BY <3>1, <3>2 DEF Posted
  <2>6. more[id] = RowOf(item) <=> more[id].content = item.content
    <3>1. more[id] \in Row
      BY <2>2
    <3> QED BY <2>2, <3>1, RowsEqual
  <2>7. Settled(rows, batch, more, k, one.result)
    BY <1>1, <1>6, <2>2, <2>3, <2>4, <2>6 DEF Settled
  <2> QED BY <1>1, <2>3, <2>5, <2>7
<1>7. CASE item.valid /\ KeyOf(item) \notin Keys(more)
  <2>1. PICK longer : longer = Append(more, RowOf(item))
    OBVIOUS
  <2>2. one.rows = longer /\ one.result.status = "accepted" /\ one.result.id = Len(more) + 1
    BY <1>1, <1>7, <2>1 DEF AppendOne
  <2>3. \A n \in DOMAIN more : KeyOf(more[n]) # KeyOf(item)
    BY <1>7 DEF Keys
  <2>4. k \in New(rows, batch)
    <3>1. \A n \in DOMAIN rows : KeyOf(rows[n]) # KeyOf(item)
      <4>1. DOMAIN rows = 1 .. Len(rows) /\ 1 .. Len(rows) \subseteq DOMAIN more
        BY <1>3, Numbers
      <4> QED BY <2>3, <4>1 DEF Posted
    <3>2. ASSUME NEW j \in 1 .. k - 1, batch[j].valid PROVE KeyOf(batch[j]) # KeyOf(item)
      <4>1. j \in 1 .. m
        BY <1>1, <3>2
      <4>2. res[j].id \in DOMAIN more /\ KeyOf(more[res[j].id]) = KeyOf(batch[j])
        BY <3>2, <4>1 DEF Settled
      <4> QED BY <2>3, <4>2
    <3> QED BY <1>1, <1>2, <1>7, <3>1, <3>2, NewFacts
  <2>5. PICK o : o = Append(order, k)
    OBVIOUS
  <2>6. /\ o \in Seq(Nat) /\ Len(o) = Len(order) + 1 /\ o[Len(order) + 1] = k
        /\ \A n \in 1 .. Len(order) : o[n] = order[n]
    BY <1>2, <1>3, <2>5
  <2>7. /\ Len(longer) = Len(more) + 1 /\ longer[Len(more) + 1] = RowOf(item)
        /\ \A n \in 1 .. Len(more) : longer[n] = more[n]
        /\ DOMAIN longer = 1 .. Len(more) + 1
    <3>1. RowOf(item) \in Row
      BY <1>2 DEF Row
    <3> QED BY <2>1, <3>1
  <2>8. Posted(rows, batch, k, longer, o)
    <3>1. \A n \in 1 .. Len(o) : o[n] \in New(rows, batch) /\ o[n] <= k
      <4>1. ASSUME NEW n \in 1 .. Len(order) PROVE o[n] \in New(rows, batch) /\ o[n] <= k
        <5>1. o[n] = order[n] /\ order[n] \in Nat /\ order[n] \in New(rows, batch) /\ order[n] <= m
          BY <1>4, <2>6
        <5> QED BY <1>1, <5>1
      <4>2. k <= k
        BY <1>2
      <4> QED BY <1>3, <2>4, <2>6, <4>1, <4>2, Numbers
    <3>2. ASSUME NEW i \in New(rows, batch), i <= k PROVE \E n \in 1 .. Len(o) : o[n] = i
      <4>1. CASE i = k
        BY <1>3, <2>6, <4>1
      <4>2. CASE i # k
        <5>1. i <= m
          BY <1>1, <1>2, <3>2, <4>2, NewFacts
        <5>2. PICK n \in 1 .. Len(order) : order[n] = i
          BY <3>2, <5>1 DEF Posted
        <5>3. n \in 1 .. Len(o)
          BY <1>3, <2>6, <5>2, Numbers
        <5> QED BY <2>6, <5>2, <5>3
      <4> QED BY <4>1, <4>2
    <3>3. ASSUME NEW j \in 1 .. Len(o), NEW n \in 1 .. Len(o), j < n PROVE o[j] < o[n]
      <4>1. j \in 1 .. Len(order) /\ o[j] = order[j] /\ order[j] \in Nat /\ order[j] <= m
        <5>1. j \in 1 .. Len(order)
          BY <1>3, <2>6, <3>3, Numbers
        <5> QED BY <1>4, <2>6, <5>1
      <4>2. CASE n = Len(order) + 1
        BY <1>1, <2>6, <4>1, <4>2
      <4>3. CASE n \in 1 .. Len(order)
        BY <2>6, <3>3, <4>1, <4>3 DEF Posted
      <4> QED BY <1>3, <2>6, <4>2, <4>3
    <3>4. Len(longer) = Len(rows) + Len(o)
      BY <1>3, <2>6, <2>7
    <3>5. \A n \in 1 .. Len(rows) : longer[n] = rows[n]
      BY <1>3, <2>7 DEF Posted
    <3>6. ASSUME NEW n \in 1 .. Len(o) PROVE longer[Len(rows) + n] = RowOf(batch[o[n]])
      <4>1. CASE n = Len(order) + 1
        <5>1. Len(rows) + n = Len(more) + 1
          BY <1>3, <4>1
        <5> QED BY <1>1, <2>6, <2>7, <4>1, <5>1
      <4>2. CASE n \in 1 .. Len(order)
        <5>1. Len(rows) + n \in 1 .. Len(more)
          BY <1>3, <4>2
        <5> QED BY <2>6, <2>7, <4>2, <5>1 DEF Posted
      <4> QED BY <1>3, <2>6, <4>1, <4>2
    <3> QED BY <2>6, <3>1, <3>2, <3>3, <3>4, <3>5, <3>6 DEF Posted
  <2>9. Settled(rows, batch, longer, k, one.result)
    <3>1. one.result.id \in DOMAIN longer /\ longer[one.result.id] = RowOf(item)
      BY <1>3, <2>2, <2>7
    <3>2. KeyOf(longer[one.result.id]) = KeyOf(item)
      BY <3>1, RowFields
    <3> QED BY <1>1, <1>7, <2>2, <2>4, <3>1, <3>2 DEF Settled
  <2>10. ASSUME NEW i \in 1 .. m PROVE Settled(rows, batch, longer, i, res[i])
    <3>1. DOMAIN more \subseteq DOMAIN longer /\ \A n \in DOMAIN more : longer[n] = more[n]
      BY <1>3, <2>7
    <3> QED BY <3>1, SettledKept
  <2> QED BY <1>1, <2>2, <2>8, <2>9, <2>10
<1> QED BY <1>5, <1>6, <1>7

\* A sequence that agrees with two others end to end is their concatenation.
LEMMA Joined ==
  ASSUME NEW S, NEW rows \in Seq(S), NEW tail \in Seq(S), NEW more \in Seq(S),
         Len(more) = Len(rows) + Len(tail),
         \A n \in 1 .. Len(rows) : more[n] = rows[n],
         \A n \in 1 .. Len(tail) : more[Len(rows) + n] = tail[n]
  PROVE  more = rows \o tail
<1>1. rows \o tail \in Seq(S) /\ Len(rows \o tail) = Len(rows) + Len(tail)
  BY ConcatProperties
<1>2. ASSUME NEW n \in 1 .. Len(more) PROVE more[n] = (rows \o tail)[n]
  <2>1. (rows \o tail)[n] = IF n <= Len(rows) THEN rows[n] ELSE tail[n - Len(rows)]
    BY <1>2, ConcatProperties
  <2>2. CASE n <= Len(rows)
    BY <2>1, <2>2
  <2>3. CASE ~(n <= Len(rows))
    <3>1. n - Len(rows) \in 1 .. Len(tail) /\ Len(rows) + (n - Len(rows)) = n
      BY <2>3
    <3> QED BY <2>1, <2>3, <3>1
  <2> QED BY <2>2, <2>3
<1> QED BY <1>1, <1>2, SeqEqual

\* The whole batch: the transaction is what the log does in one step.
LEMMA PostDone ==
  ASSUME NEW rows \in Seq(Row), NEW batch \in Seq(Item), NEW more \in Seq(Row), UniqueKeys(more),
         NEW order, Posted(rows, batch, Len(batch), more, order),
         NEW res \in Seq(Result), Len(res) = Len(batch),
         \A i \in 1 .. Len(batch) : Settled(rows, batch, more, i, res[i])
  PROVE  /\ order \in Promise!Listings(Promise!Fresh(rows, batch))
         /\ more = Promise!After(rows, batch, order)
         /\ res = [i \in DOMAIN batch |-> Promise!Outcome(rows, more, batch, i)]
<1>1. PICK F, l : F = New(rows, batch) /\ l = Len(order)
  OBVIOUS
<1>2. order \in Seq(Nat) /\ l \in Nat /\ DOMAIN order = 1 .. l
  BY <1>1 DEF Posted
<1>3. \A i \in F : i \in 1 .. Len(batch)
  BY <1>1, NewFacts
<1>4. /\ \A n \in 1 .. l : order[n] \in F
      /\ \A i \in F : \E n \in 1 .. l : order[n] = i
      /\ \A j, n \in 1 .. l : j < n => order[j] < order[n]
  BY <1>1, <1>3 DEF Posted
<1>5. order \in [1 .. l -> F]
  <2>1. order = [n \in 1 .. l |-> order[n]]
    BY <1>2
  <2> QED BY <1>4, <2>1
<1>6. Cardinality(F) = l
  <2>1. ASSUME NEW j \in 1 .. l, NEW n \in 1 .. l, order[j] = order[n] PROVE j = n
    <3>1. order[j] \in Nat /\ order[n] \in Nat
      BY <1>3, <1>4
    <3> QED BY <1>4, <2>1, <3>1
  <2>2. order \in Bijection(1 .. l, F)
    BY <1>4, <1>5, <2>1 DEF Bijection, Injection, Surjection, IsInjective
  <2>3. ExistsBijection(1 .. l, F)
    BY <2>2 DEF ExistsBijection
  <2> QED BY <1>2, <2>3, FS_CountingElements
<1>7. order \in Promise!Listings(Promise!Fresh(rows, batch))
  <2>1. order \in Promise!Listings(F)
    <3>1. Promise!Cardinality(F) = l
      BY <1>6, Zenon DEF Promise!Cardinality, Cardinality
    <3> QED BY <1>2, <1>4, <1>5, <3>1 DEF Promise!Listings
  <2> QED BY <1>1, <2>1 DEF New
<1>8. more = Promise!After(rows, batch, order)
  <2>1. PICK tail : tail = [n \in 1 .. l |-> RowOf(batch[order[n]])]
    OBVIOUS
  <2>2. \A n \in 1 .. l : batch[order[n]] \in Item
    BY <1>3, <1>4
  <2>3. tail \in Seq(Row) /\ Len(tail) = l /\ \A n \in 1 .. l : tail[n] = RowOf(batch[order[n]])
    <3>1. tail \in [1 .. l -> Row]
      BY <2>1, <2>2 DEF Row
    <3>2. tail \in Seq(Row)
      BY <1>2, <3>1, SeqDef
    <3>3. Len(tail) = l
      BY <1>2, <3>1, <3>2, LenProperties
    <3> QED BY <2>1, <3>2, <3>3
  <2>4. more = rows \o tail
    <3>1. Len(more) = Len(rows) + Len(tail)
      BY <1>1, <2>3 DEF Posted
    <3>2. \A n \in 1 .. Len(rows) : more[n] = rows[n]
      BY DEF Posted
    <3>3. \A n \in 1 .. Len(tail) : more[Len(rows) + n] = tail[n]
      BY <1>1, <2>3 DEF Posted
    <3> QED BY <2>3, <3>1, <3>2, <3>3, Joined
  <2>5. Promise!After(rows, batch, order) = rows \o tail
    BY <1>2, <2>1 DEF Promise!After, Promise!Fact, RowOf
  <2> QED BY <2>4, <2>5
<1>9. ASSUME NEW i \in 1 .. Len(batch) PROVE res[i] = Promise!Outcome(rows, more, batch, i)
  <2>1. PICK item, r : item = batch[i] /\ r = res[i]
    OBVIOUS
  <2>2. r \in Result /\ Settled(rows, batch, more, i, r)
    BY <1>9, <2>1
  <2>3. r = [status |-> r.status, id |-> r.id]
    BY <2>2 DEF Result
  <2>4. CASE ~item.valid
    BY <2>1, <2>2, <2>3, <2>4 DEF Settled, Promise!Outcome
  <2>5. CASE item.valid
    <3>1. r.id \in DOMAIN more /\ KeyOf(more[r.id]) = KeyOf(item)
      BY <2>1, <2>2, <2>5 DEF Settled
    <3>2. Promise!Named(more, item) = {r.id}
      BY <3>1 DEF Promise!Named, Promise!Name, KeyOf, UniqueKeys
    <3>3. (CHOOSE n \in Promise!Named(more, item) : TRUE) = r.id
      BY <3>2
    <3>4. r.status = IF i \in Promise!Fresh(rows, batch) THEN "accepted"
                     ELSE IF more[r.id] = Promise!Fact(item) THEN "duplicate" ELSE "conflict"
      BY <2>1, <2>2, <2>5 DEF Settled, New, Promise!Fact, RowOf
    <3> QED BY <2>1, <2>3, <2>5, <3>3, <3>4 DEF Promise!Outcome
  <2> QED BY <2>4, <2>5
<1>10. res = [i \in DOMAIN batch |-> Promise!Outcome(rows, more, batch, i)]
  <2>1. DOMAIN res = 1 .. Len(batch) /\ DOMAIN batch = 1 .. Len(batch) /\ res = [i \in 1 .. Len(batch) |-> res[i]]
    OBVIOUS
  <2> QED BY <1>9, <2>1
<1> QED BY <1>7, <1>8, <1>10

\* The transaction of a request is what the log would be after the items so far.
Posting(c) ==
  /\ \E order : Posted(ledger[TableOf[c]], BatchOf[c], Len(results[c]), txn, order)
  /\ \A i \in 1 .. Len(results[c]) : Settled(ledger[TableOf[c]], BatchOf[c], txn, i, results[c][i])

PostInv == \A c \in Client : request[c] = "writing" => Posting(c)

\* The lock keeps table, transaction and results of the writing request from others.
LEMMA PostingKept ==
  ASSUME ApiInv, [Next]_vars, NEW c \in Client, request[c] = "writing", request'[c] = "writing"
  PROVE  AppendItem(c) \/ UNCHANGED <<ledger[TableOf[c]], txn, results[c]>>
<1> USE DEF ApiInv
<1>1. writer = c /\ writer # NoClient /\ \A d \in Client : request[d] = "writing" => d = c
  BY ApiAssumption DEF LockHeld
<1>2. ASSUME NEW d \in Client, Handle(d) \/ Rollback(d) \/ LoseAnswer(d)
      PROVE  AppendItem(c) \/ UNCHANGED <<ledger[TableOf[c]], txn, results[c]>>
  <2>1. CASE Admit(d) \/ RecheckClosed(d) \/ Answer(d)
    BY <2>1 DEF Admit, RecheckClosed, Answer
  <2>2. CASE BeginTx(d)
    BY <1>1, <2>2 DEF BeginTx
  <2>3. CASE AppendItem(d)
    BY <1>1, <2>3 DEF AppendItem
  <2>4. CASE Commit(d)
    <3>1. d = c /\ request'[c] = "committed"
      BY <1>1, <2>4 DEF Commit, TypeOK
    <3> QED BY <3>1
  <2>5. CASE Rollback(d) \/ LoseAnswer(d)
    <3>1. d # c
      BY <2>5 DEF Rollback, LoseAnswer, TypeOK
    <3> QED BY <1>1, <2>5, <3>1 DEF Rollback, LoseAnswer, TypeOK
  <2> QED BY <1>2, <2>1, <2>2, <2>3, <2>4, <2>5 DEF Handle
<1>3. CASE Crash
  BY <1>3 DEF Crash
<1>4. CASE Aside
  BY <1>4, AsideKeeps
<1> QED BY <1>2, <1>3, <1>4 DEF Next, Aside

\* A request starts writing on the committed rows, and each item it appends is one
\* more item of the batch.
LEMMA PostStep ==
  ASSUME ApiInv, PostInv, [Next]_vars
  PROVE  PostInv'
<1> SUFFICES ASSUME NEW c \in Client, request'[c] = "writing" PROVE Posting(c)'
  BY DEF PostInv
<1>1. PICK rows, batch, t : t = TableOf[c] /\ rows = ledger[t] /\ batch = BatchOf[c]
  OBVIOUS
<1>2. /\ txn \in Seq(Row) /\ rows \in Seq(Row) /\ batch \in Seq(Item) /\ results[c] \in Seq(Result)
      /\ request \in [Client -> {"unsent", "admitted", "writing", "committed", "answered"}]
  BY <1>1, ApiAssumption DEF ApiInv, TypeOK
<1>3. CASE request[c] = "writing"
  <2>1. Posting(c)
    BY <1>3 DEF PostInv
  <2>2. CASE UNCHANGED <<ledger[TableOf[c]], txn, results[c]>>
    BY <2>1, <2>2 DEF Posting
  <2>3. CASE AppendItem(c)
    <3>1. PICK more, res, m, one : more = txn /\ res = results[c] /\ m = Len(res) /\ one = AppendOne(more, batch[m + 1])
      OBVIOUS
    <3>2. /\ txn' = one.rows /\ results'[c] = Append(res, one.result) /\ ledger' = ledger
          /\ m < Len(batch) /\ m \in Nat
      BY <1>1, <1>2, <2>3, <3>1 DEF AppendItem, ApiInv, TypeOK
    <3>3. PICK order : Posted(rows, batch, m, more, order)
      BY <1>1, <2>1, <3>1 DEF Posting
    <3>4. \A i \in 1 .. m : Settled(rows, batch, more, i, res[i])
      BY <1>1, <2>1, <3>1 DEF Posting
    <3>5. /\ \E o : Posted(rows, batch, m + 1, one.rows, o)
          /\ \A i \in 1 .. m : Settled(rows, batch, one.rows, i, res[i])
          /\ Settled(rows, batch, one.rows, m + 1, one.result)
      BY <1>2, <3>1, <3>2, <3>3, <3>4, PostItem
    <3>6. PICK longer : longer = Append(res, one.result)
      OBVIOUS
    <3>7. Len(longer) = m + 1 /\ longer[m + 1] = one.result /\ \A i \in 1 .. m : longer[i] = res[i]
      <4>1. one.result \in Result
        <5>1. UniqueKeys(more) /\ batch[m + 1] \in Item
          BY <1>2, <1>3, <3>1, <3>2 DEF ApiInv, TxnAppends
        <5> QED BY <1>2, <3>1, <5>1, AppendOneCorrect
      <4> QED BY <1>2, <3>1, <3>6, <4>1
    <3>8. \A i \in 1 .. m + 1 : Settled(rows, batch, one.rows, i, longer[i])
      BY <3>2, <3>5, <3>7, Numbers
    <3> QED BY <1>1, <3>2, <3>5, <3>6, <3>7, <3>8 DEF Posting
  <2> QED BY <1>3, <2>2, <2>3, PostingKept
<1>4. CASE request[c] # "writing"
  <2>1. BeginTx(c)
    <3>1. ASSUME NEW d \in Client, Handle(d) \/ Rollback(d) \/ LoseAnswer(d) PROVE BeginTx(c)
      BY <1>2, <1>4, <3>1 DEF Handle, Admit, RecheckClosed, BeginTx, AppendItem, Commit, Answer, Rollback, LoseAnswer
    <3>2. ~Crash
      BY DEF Crash
    <3>3. ~Aside
      BY <1>4, AsideKeeps
    <3> QED BY <3>1, <3>2, <3>3 DEF Next, Aside
  <2>2. txn' = rows /\ ledger' = ledger /\ results'[c] = <<>>
    BY <1>1, <2>1 DEF BeginTx, ApiInv, ResultsTrue
  <2>3. PICK order : order = <<>>
    OBVIOUS
  <2>4. order \in Seq(Nat) /\ Len(order) = 0 /\ 1 .. 0 = {}
    BY <2>3
  <2>5. \A i \in New(rows, batch) : ~(i <= 0)
    BY <1>2, NewFacts
  <2>6. Posted(rows, batch, 0, rows, order)
    BY <1>2, <2>4, <2>5 DEF Posted
  <2>7. Len(<<>>) = 0
    OBVIOUS
  <2> QED BY <1>1, <2>2, <2>4, <2>6, <2>7 DEF Posting
<1> QED BY <1>3, <1>4

\* What a sender is still owed, as the refinement maps it.
Owed == [c \in Client |-> IF request[c] = "committed" THEN results[c] ELSE <<>>]

\* The commit is the step in which the batch takes effect.
LEMMA CommitDelivers ==
  ASSUME ApiInv, PostInv, NEW c \in Client, Commit(c)
  PROVE  Promise!Deliver(c)
<1>1. PICK rows, batch, t, more, res :
        t = TableOf[c] /\ rows = ledger[t] /\ batch = BatchOf[c] /\ more = txn /\ res = results[c]
  OBVIOUS
<1>2. /\ more \in Seq(Row) /\ rows \in Seq(Row) /\ batch \in Seq(Item) /\ res \in Seq(Result)
      /\ request \in [Client -> {"unsent", "admitted", "writing", "committed", "answered"}]
  BY <1>1, ApiAssumption DEF ApiInv, TypeOK
<1>3. request[c] = "writing" /\ Len(res) = Len(batch) /\ UniqueKeys(more) /\ Posting(c)
  BY <1>1 DEF Commit, ApiInv, TxnAppends, PostInv
<1>4. PICK order : Posted(rows, batch, Len(batch), more, order)
  BY <1>1, <1>3 DEF Posting
<1>5. \A i \in 1 .. Len(batch) : Settled(rows, batch, more, i, res[i])
  BY <1>1, <1>3 DEF Posting
<1>6. /\ order \in Promise!Listings(Promise!Fresh(rows, batch))
      /\ more = Promise!After(rows, batch, order)
      /\ res = [i \in DOMAIN batch |-> Promise!Outcome(rows, more, batch, i)]
  BY <1>2, <1>3, <1>4, <1>5, PostDone
<1>7. Owed[c] = <<>>
  BY <1>3 DEF Owed
<1>8. ledger' = [ledger EXCEPT ![t] = more] /\ acks' = acks
  BY <1>1 DEF Commit
<1>9. Owed' = [Owed EXCEPT ![c] = res]
  BY <1>1, <1>2 DEF Owed, Commit
<1>10. PICK before, after : before = Owed /\ after = Owed'
  OBVIOUS
<1>11. PICK out : out = [i \in DOMAIN batch |-> Promise!Outcome(rows, Promise!After(rows, batch, order), batch, i)]
  OBVIOUS
<1>12. res = out
  BY <1>6, <1>11
<1>13. /\ before[c] = <<>>
       /\ ledger' = [ledger EXCEPT ![t] = Promise!After(rows, batch, order)]
       /\ after = [before EXCEPT ![c] = out]
  BY <1>6, <1>7, <1>8, <1>9, <1>10, <1>12
<1>14. \E o \in Promise!Listings(Promise!Fresh(ledger[TableOf[c]], BatchOf[c])) :
         /\ ledger' = [ledger EXCEPT ![TableOf[c]] = Promise!After(ledger[TableOf[c]], BatchOf[c], o)]
         /\ after = [before EXCEPT ![c] =
              [i \in DOMAIN BatchOf[c] |->
                 Promise!Outcome(ledger[TableOf[c]], Promise!After(ledger[TableOf[c]], BatchOf[c], o), BatchOf[c], i)]]
  BY <1>1, <1>6, <1>11, <1>13, Zenon
<1> QED BY <1>8, <1>10, <1>13, <1>14, Zenon DEF Promise!Deliver, Owed

\* Before the commit a request is owed nothing, and is owed nothing if it fails.
LEMMA NothingOwed ==
  ASSUME TypeOK, NEW c \in Client, request[c] # "committed", request'[c] # "committed",
         \A d \in Client \ {c} : request'[d] = request[d] /\ results'[d] = results[d]
  PROVE  Owed' = Owed
BY DEF Owed, TypeOK

\* Every step of the endpoints is a step of the fact log, or none at all.
LEMMA PromiseStep ==
  ASSUME ApiInv, PostInv, [Next]_vars
  PROVE  [Promise!Next]_(Promise!vars)
<1>0. TypeOK /\ TypeOK' /\ ResultsTrue
  BY ApiStep DEF ApiInv
<1>1. ASSUME ledger' = ledger, acks' = acks, Owed' = Owed PROVE [Promise!Next]_(Promise!vars)
  BY <1>1 DEF Promise!vars, Owed
<1>2. ASSUME NEW gone \in SUBSET Client, ledger' = ledger, acks' = acks,
             Owed' = [c \in Client |-> IF c \in gone THEN <<>> ELSE Owed[c]]
      PROVE  Promise!Next
  BY <1>2 DEF Promise!Next, Promise!Lose, Owed
<1>3. ASSUME NEW c \in Client, Handle(c) \/ Rollback(c) \/ LoseAnswer(c)
      PROVE  [Promise!Next]_(Promise!vars)
  <2>1. CASE Admit(c) \/ RecheckClosed(c) \/ BeginTx(c) \/ AppendItem(c) \/ Rollback(c)
    <3>1. ledger' = ledger /\ acks' = acks
      BY <2>1 DEF Admit, RecheckClosed, BeginTx, AppendItem, Rollback
    <3>2. /\ request[c] # "committed" /\ request'[c] # "committed"
          /\ \A d \in Client \ {c} : request'[d] = request[d] /\ results'[d] = results[d]
      BY <1>0, <2>1 DEF Admit, RecheckClosed, BeginTx, AppendItem, Rollback, TypeOK
    <3> QED BY <1>0, <1>1, <3>1, <3>2, NothingOwed
  <2>2. CASE Commit(c)
    BY <2>2, CommitDelivers DEF Promise!Next
  <2>3. CASE Answer(c)
    <3>1. /\ request[c] = "committed" /\ request' = [request EXCEPT ![c] = "answered"]
          /\ ledger' = ledger /\ results' = results
      BY <2>3 DEF Answer
    <3>2. Owed[c] = results[c] /\ DOMAIN BatchOf[c] = DOMAIN results[c]
      BY <1>0, <3>1, ApiAssumption DEF ResultsTrue, Owed, TypeOK
    <3>3. acks' = acks \cup {[client |-> c, index |-> i, result |-> Owed[c][i]] : i \in DOMAIN Owed[c]}
      BY <2>3, <3>2 DEF Answer
    <3>4. Owed' = [Owed EXCEPT ![c] = <<>>]
      BY <1>0, <3>1 DEF Owed, TypeOK
    <3>5. CASE Owed[c] = <<>>
      <4>1. acks' = acks
        BY <3>3, <3>5
      <4>2. Owed' = Owed
        BY <3>4, <3>5 DEF Owed
      <4> QED BY <1>1, <3>1, <4>1, <4>2
    <3>6. CASE Owed[c] # <<>>
      <4>1. Promise!Receive(c)
        BY <3>1, <3>3, <3>4, <3>6 DEF Promise!Receive, Owed
      <4> QED BY <4>1 DEF Promise!Next
    <3> QED BY <3>5, <3>6
  <2>4. CASE LoseAnswer(c)
    <3>1. ledger' = ledger /\ acks' = acks
      BY <2>4 DEF LoseAnswer
    <3>2. Owed' = [d \in Client |-> IF d \in {c} THEN <<>> ELSE Owed[d]]
      BY <1>0, <2>4 DEF LoseAnswer, Owed, TypeOK
    <3> QED BY <1>2, <3>1, <3>2
  <2> QED BY <1>3, <2>1, <2>2, <2>3, <2>4 DEF Handle
<1>4. CASE Crash
  <2>1. ledger' = ledger /\ acks' = acks
    BY <1>4 DEF Crash
  <2>2. Owed' = [d \in Client |-> IF d \in Client THEN <<>> ELSE Owed[d]]
    BY <1>4 DEF Crash, Owed
  <2> QED BY <1>2, <2>1, <2>2
<1>5. CASE Aside
  <2>1. ledger' = ledger /\ acks' = acks /\ Owed' = Owed
    BY <1>5, AsideKeeps DEF Owed
  <2> QED BY <1>1, <2>1
<1> QED BY <1>3, <1>4, <1>5 DEF Next, Aside

\* Posts are atomic: the write handlers, with batches inserted item by item in
\* transactions that share one lock, retries, lost answers and stops, implement
\* the fact log, in which a batch takes effect in one step (the commit) and its
\* sender is answered with the outcome of that step or not at all.
THEOREM PostsImplemented == Spec => PostsAtomic
<1>1. Init => Promise!Init
  BY DEF Init, Promise!Init
<1>2. Init => PostInv
  BY DEF Init, PostInv
<1>3. ApiInv /\ PostInv /\ [Next]_vars => PostInv'
  BY PostStep
<1>4. ApiInv /\ PostInv /\ [Next]_vars => [Promise!Next]_(Promise!vars)
  BY PromiseStep
<1> QED BY <1>1, <1>2, <1>3, <1>4, ApiInvariant, PTL DEF Spec, PostsAtomic, Promise!Spec
=============================================================================
