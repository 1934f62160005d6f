------------------------------ MODULE FactLog ------------------------------
(***************************************************************************)
(* What the write endpoints promise their senders, without requests,       *)
(* slots, transactions or stops: each fact table is a log, a batch takes   *)
(* effect on it in one step, and the answer a sender gets, if it gets one, *)
(* is the outcome of that step.  A sender that gets no answer may post     *)
(* again.                                                                  *)
(***************************************************************************)
EXTENDS Integers, Sequences, FiniteSets

CONSTANTS Sender, Table, TableOf, BatchOf

VARIABLES
  log,       \* the rows of each table
  owed,      \* per sender, the outcomes of a batch that took effect, until they are
             \* received or lost
  answers    \* what senders have received

vars == <<log, owed, answers>>

Name(item) == <<item.collector, item.key>>
Named(rows, item) == {i \in DOMAIN rows : Name(rows[i]) = Name(item)}
Fact(item) == [collector |-> item.collector, key |-> item.key, content |-> item.content]

\* The items of a batch that are new to the log: the first valid one of each name
\* that the log does not have.
Fresh(rows, batch) ==
  {i \in DOMAIN batch :
     /\ batch[i].valid /\ Named(rows, batch[i]) = {}
     /\ \A j \in 1 .. i - 1 : batch[j].valid => Name(batch[j]) # Name(batch[i])}

\* The set in ascending order, of which there is one.
Listings(S) == {f \in [1 .. Cardinality(S) -> S] : \A m, n \in DOMAIN f : m < n => f[m] < f[n]}

\* They are appended in the batch's order.
After(rows, batch, order) == rows \o [n \in DOMAIN order |-> Fact(batch[order[n]])]

\* The outcome of each item follows from the log before the batch and after it.
Outcome(rows, more, batch, i) ==
  LET item == batch[i]
      at   == CHOOSE n \in Named(more, item) : TRUE
  IN  IF ~item.valid THEN [status |-> "rejected", id |-> 0]
      ELSE [status |-> IF i \in Fresh(rows, batch) THEN "accepted"
                       ELSE IF more[at] = Fact(item) THEN "duplicate"
                       ELSE "conflict",
            id     |-> at]

Init ==
  /\ log = [t \in Table |-> <<>>]
  /\ owed = [c \in Sender |-> <<>>]
  /\ answers = {}

\* A batch takes effect, as a whole and at once.
Deliver(c) ==
  /\ owed[c] = <<>>
  /\ \E order \in Listings(Fresh(log[TableOf[c]], BatchOf[c])) :
       LET rows == log[TableOf[c]]
           more == After(rows, BatchOf[c], order)
       IN  /\ log' = [log EXCEPT ![TableOf[c]] = more]
           /\ owed' = [owed EXCEPT ![c] = [i \in DOMAIN BatchOf[c] |-> Outcome(rows, more, BatchOf[c], i)]]
  /\ UNCHANGED answers

\* The sender receives the outcomes...
Receive(c) ==
  /\ owed[c] # <<>>
  /\ answers' = answers \cup
       {[client |-> c, index |-> i, result |-> owed[c][i]] : i \in DOMAIN owed[c]}
  /\ owed' = [owed EXCEPT ![c] = <<>>]
  /\ UNCHANGED log

\* ...or never will; what was delivered stays.
Lose ==
  /\ \E gone \in SUBSET Sender : owed' = [c \in Sender |-> IF c \in gone THEN <<>> ELSE owed[c]]
  /\ UNCHANGED <<log, answers>>

Next == Lose \/ \E c \in Sender : Deliver(c) \/ Receive(c)

Spec == Init /\ [][Next]_vars
=============================================================================
