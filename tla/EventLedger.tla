---------------------------- MODULE EventLedger ----------------------------
(***************************************************************************)
(* The append-only fact tables of the event store and the operations on    *)
(* them, as functions of a table's rows.  A table is the sequence of its   *)
(* committed rows and a row's id is its position: SQLite gives a new row   *)
(* the id after the highest one, rows are never updated or deleted         *)
(* (triggers), and a transaction that rolls back leaves none.  raw_events  *)
(* and collector_heartbeats have the same idempotency contract and are     *)
(* both such a table.  A definition X_<Bug> is X with a plausible bug in   *)
(* it; no specification uses it.                                           *)
(***************************************************************************)
EXTENDS Integers, Sequences, FiniteSets, SequencesExt

\* The unique index (collector_id, idempotency_key).
KeyOf(row) == <<row.collector, row.key>>

\* What is stored of a candidate: "content" stands for content_hash, the digest
\* of everything but the idempotency key.
RowOf(item) == [collector |-> item.collector, key |-> item.key, content |-> item.content]

Keys(rows) == {KeyOf(rows[i]) : i \in DOMAIN rows}

RowId(rows, k) == CHOOSE i \in DOMAIN rows : KeyOf(rows[i]) = k

\* The table holds the item's key: its content tells a retry from a conflict.
Existing_KeyOnly(rows, item) == [status |-> "duplicate", id |-> RowId(rows, KeyOf(item))]

Existing(rows, item) ==
  LET id == RowId(rows, KeyOf(item))
  IN  [status |-> IF rows[id].content = item.content THEN "duplicate" ELSE "conflict", id |-> id]

\* One item of a transaction: a valid item inserts its row unless the table holds
\* its key.  "valid" is prepare's verdict; an item that fails it is rejected and
\* stores nothing, while the rest of its batch goes on.
AppendOne(rows, item) ==
  IF ~item.valid THEN [rows |-> rows, result |-> [status |-> "rejected", id |-> 0]]
  ELSE IF KeyOf(item) \in Keys(rows) THEN [rows |-> rows, result |-> Existing(rows, item)]
  ELSE [rows |-> Append(rows, RowOf(item)), result |-> [status |-> "accepted", id |-> Len(rows) + 1]]

\* A whole batch, for callers that nobody can interrupt between two items.
AppendBatch(rows, batch) ==
  LET done[n \in 0 .. Len(batch)] ==
        IF n = 0 THEN [rows |-> rows, results |-> <<>>]
        ELSE LET one == AppendOne(done[n - 1].rows, batch[n])
             IN  [rows |-> one.rows, results |-> Append(done[n - 1].results, one.result)]
  IN  done[Len(batch)]

(***************************************************************************)
(* Paging.  A first request fixes the snapshot; its cursor carries the     *)
(* snapshot and the last id, and is all the server knows of the reader.    *)
(***************************************************************************)
FirstCursor(rows) == [snapshot |-> Len(rows), last |-> 0]

\* The last id of a page: id > last AND id <= snapshot ORDER BY id LIMIT limit.
PageEnd(cursor, limit) ==
  IF cursor.last + limit < cursor.snapshot THEN cursor.last + limit ELSE cursor.snapshot

\* A page that leaves rows of the snapshot behind hands out a cursor to them.
NextCursor_Moving(rows, cursor, limit) ==
  IF PageEnd(cursor, limit) < Len(rows)
  THEN {[snapshot |-> Len(rows), last |-> PageEnd(cursor, limit)]} ELSE {}

NextCursor(rows, cursor, limit) ==
  IF PageEnd(cursor, limit) < cursor.snapshot
  THEN {[cursor EXCEPT !.last = PageEnd(cursor, limit)]} ELSE {}
=============================================================================
