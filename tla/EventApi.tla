------------------------------ MODULE EventApi ------------------------------
(***************************************************************************)
(* The write and query endpoints over the fact tables (internal/httpapi):  *)
(* clients post batches of events or heartbeats and retry until they get   *)
(* an answer, readers page through raw_events, and the process can stop at *)
(* any point.  Requests run concurrently, bounded by write slots; SQLite   *)
(* lets one transaction write at a time and shows its rows to nobody       *)
(* before it commits.  A definition X_<Bug> is X with a plausible bug in   *)
(* it; no specification uses it.                                           *)
(***************************************************************************)
EXTENDS EventLedger

CONSTANTS
  Client,                \* senders, each with one batch to deliver
  Reader,                \* readers of the event query
  Table,                 \* the fact tables
  TableOf,               \* the table a client posts to
  Item, BatchOf,         \* the items there are, and the batch a client posts
  EventTable,            \* the table readers query
  MaxConcurrentWrites, MaxPageSize,           \* configuration
  NoClient,              \* no transaction holds the write lock
  MaxFaults              \* bound on failed calls, lost answers, stops and full disks

ASSUME ApiAssumption ==
  /\ EventTable \in Table
  /\ IsFiniteSet(Client) /\ NoClient \notin Client
  /\ TableOf \in [Client -> Table]
  /\ BatchOf \in [Client -> Seq(Item)]
  /\ {MaxConcurrentWrites, MaxPageSize} \subseteq Nat \ {0} /\ MaxFaults \in Nat

VARIABLES
  ledger,     \* committed rows of each table
  up,         \* the process runs
  gate,       \* CoreWritesAllowed: the disk is above the database reserve
  slots,      \* write slots taken
  request,    \* where each client's request is
  writer,     \* the client whose transaction holds the write lock
  txn,        \* the rows that transaction sees
  results,    \* the results of each client's batch so far
  acks,       \* results clients have received
  reader,     \* cursor and ids each reader has received
  faults      \* failures left

vars == <<ledger, up, gate, slots, request, writer, txn, results, acks, reader, faults>>

Init ==
  /\ ledger = [t \in Table |-> <<>>]
  /\ up = TRUE /\ gate = TRUE /\ slots = 0
  /\ request = [c \in Client |-> "unsent"]
  /\ writer = NoClient /\ txn = <<>> /\ results = [c \in Client |-> <<>>]
  /\ acks = {}
  /\ reader = [r \in Reader |-> [state |-> "new", first |-> 0, cursor |-> [snapshot |-> 0, last |-> 0], ids |-> <<>>]]
  /\ faults = MaxFaults

-----------------------------------------------------------------------------
(* The write handlers, from the client's POST to its answer.               *)

\* A slot is free and the gate is open; otherwise the client is answered 429
\* or 507 and nothing happens.
Admit_Unbounded(c) ==
  /\ up /\ request[c] = "unsent" /\ gate
  /\ slots' = slots + 1
  /\ request' = [request EXCEPT ![c] = "admitted"]
  /\ UNCHANGED <<ledger, up, gate, writer, txn, results, acks, reader, faults>>

Admit(c) ==
  /\ up /\ request[c] = "unsent" /\ slots < MaxConcurrentWrites /\ gate
  /\ slots' = slots + 1
  /\ request' = [request EXCEPT ![c] = "admitted"]
  /\ UNCHANGED <<ledger, up, gate, writer, txn, results, acks, reader, faults>>

\* The handler returns and its deferred function frees the slot.
ReleaseSlot_Leak == UNCHANGED slots

ReleaseSlot == slots' = slots - 1

\* The body is read and decoded; the gate is asked again before the write and
\* may have closed.
RecheckClosed(c) ==
  /\ request[c] = "admitted" /\ ~gate
  /\ ReleaseSlot
  /\ request' = [request EXCEPT ![c] = "unsent"]
  /\ UNCHANGED <<ledger, up, gate, writer, txn, results, acks, reader, faults>>

\* The first INSERT takes the write lock and sees every committed row.
BeginTx(c) ==
  /\ request[c] = "admitted" /\ gate /\ writer = NoClient
  /\ writer' = c
  /\ txn' = ledger[TableOf[c]]
  /\ request' = [request EXCEPT ![c] = "writing"]
  /\ UNCHANGED <<ledger, up, gate, slots, results, acks, reader, faults>>

\* An INSERT outside the transaction, visible at once.
AppendItem_Autocommit(c) ==
  /\ request[c] = "writing" /\ Len(results[c]) < Len(BatchOf[c])
  /\ LET one == AppendOne(txn, BatchOf[c][Len(results[c]) + 1])
     IN  /\ txn' = one.rows /\ results' = [results EXCEPT ![c] = Append(@, one.result)]
         /\ ledger' = [ledger EXCEPT ![TableOf[c]] = one.rows]
  /\ UNCHANGED <<up, gate, slots, request, writer, acks, reader, faults>>

\* One item of the batch, in its order.
AppendItem(c) ==
  /\ request[c] = "writing" /\ Len(results[c]) < Len(BatchOf[c])
  /\ LET one == AppendOne(txn, BatchOf[c][Len(results[c]) + 1])
     IN  txn' = one.rows /\ results' = [results EXCEPT ![c] = Append(@, one.result)]
  /\ UNCHANGED <<ledger, up, gate, slots, request, writer, acks, reader, faults>>

\* The commit publishes all of it (synchronous=FULL: it survives a stop).
Commit(c) ==
  /\ request[c] = "writing" /\ Len(results[c]) = Len(BatchOf[c])
  /\ ledger' = [ledger EXCEPT ![TableOf[c]] = txn]
  /\ writer' = NoClient /\ txn' = <<>>
  /\ request' = [request EXCEPT ![c] = "committed"]
  /\ UNCHANGED <<up, gate, slots, results, acks, reader, faults>>

\* The client has its answer: one result per item, in the order of its batch.
Answer(c) ==
  /\ request[c] = "committed"
  /\ acks' = acks \cup {[client |-> c, index |-> i, result |-> results[c][i]] : i \in DOMAIN BatchOf[c]}
  /\ ReleaseSlot
  /\ request' = [request EXCEPT ![c] = "answered"]
  /\ UNCHANGED <<ledger, up, gate, writer, txn, results, reader, faults>>

\* The request fails before the commit (a busy database, a write error, a client
\* that went away): the transaction is rolled back and nothing is confirmed.
Rollback(c) ==
  /\ request[c] \in {"admitted", "writing"} /\ faults > 0
  /\ faults' = faults - 1
  /\ IF writer = c THEN writer' = NoClient /\ txn' = <<>> ELSE UNCHANGED <<writer, txn>>
  /\ results' = [results EXCEPT ![c] = <<>>]
  /\ ReleaseSlot
  /\ request' = [request EXCEPT ![c] = "unsent"]
  /\ UNCHANGED <<ledger, up, gate, acks, reader>>

\* The answer does not reach the client, which will send its batch again.
LoseAnswer(c) ==
  /\ request[c] = "committed" /\ faults > 0
  /\ faults' = faults - 1
  /\ results' = [results EXCEPT ![c] = <<>>]
  /\ ReleaseSlot
  /\ request' = [request EXCEPT ![c] = "unsent"]
  /\ UNCHANGED <<ledger, up, gate, writer, txn, acks, reader>>

-----------------------------------------------------------------------------
(* The event query.  The server keeps nothing between two pages.           *)

\* One page; a first request takes the snapshot.  Readers choose any limit.
QueryPage(r, limit) ==
  /\ up /\ reader[r].state # "done"
  /\ LET rows   == ledger[EventTable]
         cursor == IF reader[r].state = "new" THEN FirstCursor(rows) ELSE reader[r].cursor
         next   == NextCursor(rows, cursor, limit)
         ids    == [n \in 1 .. PageEnd(cursor, limit) - cursor.last |-> cursor.last + n]
     IN  reader' = [reader EXCEPT ![r] =
                      [state  |-> IF next = {} THEN "done" ELSE "paging",
                       first  |-> IF reader[r].state = "new" THEN cursor.snapshot ELSE @.first,
                       cursor |-> IF next = {} THEN cursor ELSE CHOOSE k \in next : TRUE,
                       ids    |-> @.ids \o ids]]
  /\ UNCHANGED <<ledger, up, gate, slots, request, writer, txn, results, acks, faults>>

-----------------------------------------------------------------------------
(* The process and the disk.                                               *)

Crash ==
  /\ up /\ faults > 0
  /\ faults' = faults - 1
  /\ up' = FALSE /\ slots' = 0 /\ writer' = NoClient /\ txn' = <<>>
  /\ request' = [c \in Client |-> IF request[c] = "answered" THEN "answered" ELSE "unsent"]
  /\ results' = [c \in Client |-> IF request[c] = "answered" THEN results[c] ELSE <<>>]
  /\ UNCHANGED <<ledger, gate, acks, reader>>

Restart ==
  /\ ~up /\ up' = TRUE
  /\ UNCHANGED <<ledger, gate, slots, request, writer, txn, results, acks, reader, faults>>

\* The free space falls below the database reserve, and recovers.
CloseGate ==
  /\ gate /\ faults > 0
  /\ gate' = FALSE /\ faults' = faults - 1
  /\ UNCHANGED <<ledger, up, slots, request, writer, txn, results, acks, reader>>

OpenGate ==
  /\ ~gate /\ gate' = TRUE
  /\ UNCHANGED <<ledger, up, slots, request, writer, txn, results, acks, reader, faults>>

Handle(c) ==
  Admit(c) \/ RecheckClosed(c) \/ BeginTx(c) \/ AppendItem(c) \/ Commit(c) \/ Answer(c)

Next ==
  \/ \E c \in Client : Handle(c) \/ Rollback(c) \/ LoseAnswer(c)
  \/ \E r \in Reader, limit \in 1 .. MaxPageSize : QueryPage(r, limit)
  \/ Crash \/ Restart \/ CloseGate \/ OpenGate

Spec == Init /\ [][Next]_vars

\* Handlers run, clients retry, the supervisor restarts the process, and space
\* is freed.
FairSpec ==
  /\ Spec /\ WF_vars(Restart) /\ WF_vars(OpenGate)
  /\ \A c \in Client : WF_vars(Handle(c))

-----------------------------------------------------------------------------
(* Properties.                                                             *)

Row == {RowOf(item) : item \in Item}
Result == [status : {"accepted", "duplicate", "conflict", "rejected"}, id : Nat]

\* Every variable keeps its shape, and only rows of posted items are stored.
TypeOK ==
  /\ ledger \in [Table -> Seq(Row)]
  /\ up \in BOOLEAN /\ gate \in BOOLEAN
  /\ slots \in Nat /\ slots <= MaxConcurrentWrites
  /\ request \in [Client -> {"unsent", "admitted", "writing", "committed", "answered"}]
  /\ writer \in Client \cup {NoClient} /\ txn \in Seq(Row)
  /\ results \in [Client -> Seq(Result)]
  /\ acks \subseteq [client : Client, index : Nat, result : Result]
  /\ reader \in [Reader -> [state : {"new", "paging", "done"}, first : Nat,
                             cursor : [snapshot : Nat, last : Nat], ids : Seq(Nat)]]
  /\ faults \in 0 .. MaxFaults

\* What a result says of the rows it was computed on.
ResultTrue(rows, item, r) ==
  r.status # "rejected" =>
    /\ r.id \in DOMAIN rows
    /\ KeyOf(rows[r.id]) = KeyOf(item)
    /\ r.status \in {"accepted", "duplicate"} <=> rows[r.id].content = item.content

\* An answered "accepted" or "duplicate" is the row under that id, for good and
\* across stops, and a "conflict" is a row with the item's key and another content.
AckTrue ==
  \A a \in acks :
    ResultTrue(ledger[TableOf[a.client]], BatchOf[a.client][a.index], a.result)

UniqueKeys(rows) == \A m, n \in DOMAIN rows : KeyOf(rows[m]) = KeyOf(rows[n]) => m = n

\* However often a batch is sent again, and whoever else sends its keys, a key is
\* stored once per table.
StoredOnce == \A t \in Table : UniqueKeys(ledger[t])

\* A reader receives the rows of its first page's snapshot, each once and in
\* order, whatever is written while it pages and however it sizes its pages.
PagesExact ==
  \A r \in Reader :
    /\ \A n \in DOMAIN reader[r].ids : reader[r].ids[n] = n
    /\ reader[r].state = "done" => Len(reader[r].ids) = reader[r].first

\* Every client is answered in the end: no failure keeps a slot or the lock.
Answered == \A c \in Client : <>(request[c] = "answered")

-----------------------------------------------------------------------------
(* The promise of the write endpoints, and what a sender is still owed.     *)

Promise ==
  INSTANCE FactLog WITH
    Sender <- Client, log <- ledger, answers <- acks,
    owed <- [c \in Client |-> IF request[c] = "committed" THEN results[c] ELSE <<>>]

\* Posts are atomic: requests that interleave item by item, are retried, lose
\* their answer or are cut short by a stop look to every sender and reader like
\* batches that took effect one after the other, each answered with its own
\* outcome, a key repeated within one batch included.
PostsAtomic == Promise!Spec
=============================================================================
