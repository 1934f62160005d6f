--------------------------- MODULE ActivityWatch ---------------------------
(***************************************************************************)
(* One ActivityWatch collector: the poll that reads a bucket page by page  *)
(* (newest first), keeps the stable prefix, appends it to raw_events in    *)
(* batches, revises durations that grew and moves the checkpoint.  The     *)
(* bucket changes and time passes between any two requests, and the        *)
(* process can stop between any two calls.  A definition X_<Bug> is X with *)
(* a plausible bug in it; no specification uses it.                        *)
(*                                                                         *)
(* Times are counted in the server's milliseconds.  The bucket is          *)
(* external: event i is source[i], and an event is a start, a duration     *)
(* that only grows, and its data.                                          *)
(***************************************************************************)
EXTENDS EventLedger

CONSTANTS
  RescanWindow, AllowedLateness, PageSize, EventLimit,  \* collector configuration
  Setups,       \* what else is configured, and the buckets there may be
  Overlap,      \* whether an event that is not the newest may be extended
  MaxTime       \* bound

\* pulse is how long after its end the bucket may still extend an event; the
\* last four bound what happens.
SetupFields ==
  [lookback : Nat \ {0}, pages : Nat \ {0}, pulse : Nat, events : Nat, rewrites : Nat,
   faults : Nat, crashes : Nat]

ASSUME ConfigAssumption ==
  /\ {RescanWindow, PageSize, EventLimit} \subseteq Nat \ {0}
  /\ {AllowedLateness, MaxTime} \subseteq Nat
  /\ Setups \subseteq SetupFields
  /\ Overlap \in BOOLEAN

VARIABLES
  setup,                     \* the configuration and the bucket of this behaviour
  clock, source,             \* external: the wall clock and the bucket
  rawEvents, checkpoint,     \* the database
  poll, status,              \* the process
  beat,                      \* the last heartbeat appended, with the range it vouches for
  floor,                     \* start of the poll that wrote the first checkpoint
  budget

vars == <<setup, clock, source, rawEvents, checkpoint, poll, status, beat, floor, budget>>

InitialLookback == setup.lookback
MaxPagesPerPoll == setup.pages
Pulse           == setup.pulse
MaxEvents       == setup.events

NoTuple == <<>>                               \* no checkpoint row yet
Before(s, t) == s[1] < t[1] \/ (s[1] = t[1] /\ s[2] < t[2])
Tuple(i, e) == <<e.start, i>>
End(e) == e.start + e.dur

Idle == [pc |-> "idle"]

Init ==
  /\ setup \in Setups
  /\ clock = 0 /\ source = <<>>
  /\ rawEvents = <<>> /\ checkpoint = NoTuple
  /\ poll = Idle /\ status = "starting"
  /\ beat = {} /\ floor = 0
  /\ budget = [rewrites |-> setup.rewrites, faults |-> setup.faults, crashes |-> setup.crashes]

-----------------------------------------------------------------------------
(* The bucket (external).  A watcher starts an event no later than the     *)
(* allowed lateness after it happened and merges a heartbeat into an event *)
(* that ended at most Pulse ago.                                           *)

core == <<rawEvents, checkpoint, poll, status, beat, floor>>

Tick == clock < MaxTime /\ clock' = clock + 1 /\ UNCHANGED <<source, core, budget>>

StartEvent(t) ==
  /\ Len(source) < MaxEvents
  /\ t >= 0 /\ t >= clock - AllowedLateness /\ t <= clock
  /\ ~Overlap => \A i \in DOMAIN source : source[i].start < t /\ End(source[i]) <= t
  /\ source' = Append(source, [start |-> t, dur |-> 0, data |-> 0])
  /\ UNCHANGED <<clock, core, budget>>

ExtendEvent(i) ==
  /\ End(source[i]) < clock /\ End(source[i]) >= clock - Pulse
  /\ Overlap \/ i = Len(source)
  /\ source' = [source EXCEPT ![i].dur = clock - source[i].start]
  /\ UNCHANGED <<clock, core, budget>>

\* The bucket is edited by hand.
RewriteEvent(i) ==
  /\ budget.rewrites > 0
  /\ source' = [source EXCEPT ![i].data = 1 - @]
  /\ budget' = [budget EXCEPT !.rewrites = @ - 1]
  /\ UNCHANGED <<clock, core>>

\* An event as the server returns it for the range [from, to]: clipped to it.
Clip(e, from, to) ==
  LET s == IF e.start < from THEN from ELSE e.start
      t == IF End(e) > to THEN to ELSE End(e)
  IN  [e EXCEPT !.start = s, !.dur = t - s]

\* The pages a GET may return: the latest events that meet the range.  The
\* order of events that start together is the server's.
Pages(from, to) ==
  LET hits == {i \in DOMAIN source : source[i].start <= to /\ End(source[i]) >= from}
      size == IF Cardinality(hits) < PageSize THEN Cardinality(hits) ELSE PageSize
  IN  {p \in SUBSET hits :
         /\ Cardinality(p) = size
         /\ \A i \in p, j \in hits \ p : source[i].start >= source[j].start}

-----------------------------------------------------------------------------
(* The poll.                                                               *)

Cutoff == poll.now - AllowedLateness

\* Every poll ends in recordPollStatus, with a code or with "healthy".
EndPoll(outcome) == poll' = Idle /\ status' = outcome

\* A checkpoint is rescanned by a window; without one the poll looks back.
PollStart_AfterCheckpoint ==
  IF checkpoint = NoTuple THEN clock - InitialLookback ELSE checkpoint[1] + 1

PollStart ==
  IF checkpoint = NoTuple THEN clock - InitialLookback ELSE checkpoint[1] - RescanWindow

\* The poll has its slot and its time, has read the bucket and the checkpoint.
\* A range that is not before the cutoff is not read at all.
BeginPoll ==
  /\ poll = Idle
  /\ poll' = [pc |-> IF PollStart >= clock - AllowedLateness THEN "beat" ELSE "page",
               now |-> clock, start |-> PollStart, pageEnd |-> clock - AllowedLateness,
               pages |-> 0, seen |-> <<>>, todo |-> <<>>, revise |-> <<>>, last |-> NoTuple]
  /\ UNCHANGED <<clock, source, rawEvents, checkpoint, status, beat, floor, budget>>

Merge_Latest(seen, copies) ==
  [i \in DOMAIN seen \cup DOMAIN copies |-> IF i \in DOMAIN copies THEN copies[i] ELSE seen[i]]

\* Of two copies of an event the longer one is kept: pages clip durations.
Merge(seen, copies) ==
  [i \in DOMAIN seen \cup DOMAIN copies |->
     IF i \notin DOMAIN seen THEN copies[i]
     ELSE IF i \in DOMAIN copies /\ copies[i].dur > seen[i].dur THEN copies[i]
     ELSE seen[i]]

\* The listings of a set in the order Less, of which a strict total order has one.
Listings(S, Less(_, _)) ==
  {f \in [1 .. Cardinality(S) -> S] : \A m, n \in DOMAIN f : m < n => Less(f[m], f[n])}

\* The events that ended before the cutoff, up to the first that did not, in order.
StablePrefixes(seen, cutoff) ==
  LET earlier(i, j) == Before(Tuple(i, seen[i]), Tuple(j, seen[j]))
      stable == {i \in DOMAIN seen : \A j \in DOMAIN seen : earlier(i, j) \/ End(seen[j]) < cutoff}
  IN  {[n \in DOMAIN ids |-> [id |-> ids[n], ev |-> seen[ids[n]]]] : ids \in Listings(stable, earlier)}

\* One page of fetchEvents.
FetchPage ==
  /\ poll.pc = "page"
  /\ \E p \in Pages(poll.start - 1, poll.pageEnd) :
       LET got    == [i \in p |-> Clip(source[i], poll.start - 1, poll.pageEnd)]
           inside == {i \in p : got[i].start >= poll.start}
           fresh  == inside \ DOMAIN poll.seen
           copies == [i \in inside |-> got[i]]
           seen   == Merge(poll.seen, copies)
           errors == {code \in {"invalid", "backlog"} :
                        \/ code = "invalid" /\ \E i \in inside \cap DOMAIN poll.seen :
                             \/ poll.seen[i].start # got[i].start
                             \/ poll.seen[i].data # got[i].data
                        \/ code = "backlog" /\ Cardinality(DOMAIN poll.seen \cup fresh) > EventLimit}
           more   == Cardinality(p) = PageSize /\ inside = p
           oldest == {t \in {got[i].start : i \in p} : \A i \in p : t <= got[i].start}
       IN \/ \E code \in errors : EndPoll(code)
          \/ /\ errors = {} /\ ~more
             /\ \E todo \in StablePrefixes(seen, Cutoff) :
                  poll' = [poll EXCEPT !.pc = "write", !.todo = todo,
                                       !.seen = <<>>, !.pages = 0, !.pageEnd = Cutoff]
             /\ UNCHANGED status
          \/ /\ errors = {} /\ more /\ \E t \in oldest : t >= poll.pageEnd \/ fresh = {}
             /\ EndPoll("stalled")
          \/ /\ errors = {} /\ more /\ fresh # {}
             /\ \E t \in oldest :
                  /\ t < poll.pageEnd
                  /\ IF poll.pages + 1 = MaxPagesPerPoll THEN EndPoll("backlog")
                     ELSE /\ poll' = [poll EXCEPT !.pages = @ + 1, !.seen = seen, !.pageEnd = t]
                          /\ UNCHANGED status
  /\ UNCHANGED <<clock, source, rawEvents, checkpoint, beat, floor, budget>>

\* The base key of an event, and the key of a revision of its duration.
BaseKey(i) == <<i>>
RevisionKey(i, dur) == <<i, dur>>
Candidate(key, e) == [valid |-> TRUE, collector |-> "aw", key |-> key, content |-> e]

\* The checkpoint a batch of n events earns: that of its last event.
BatchTuple_LastRead(todo, n) == Tuple(todo[Len(todo)].id, todo[Len(todo)].ev)

BatchTuple(todo, n) == Tuple(todo[n].id, todo[n].ev)

\* One batch of base events.  Conflicts are left for revisions, in order.
WriteBatch ==
  /\ poll.pc = "write" /\ poll.todo # <<>>
  /\ LET n     == IF Len(poll.todo) < PageSize THEN Len(poll.todo) ELSE PageSize
         part  == SubSeq(poll.todo, 1, n)
         write == AppendBatch(rawEvents, [k \in 1 .. n |-> Candidate(BaseKey(part[k].id), part[k].ev)])
     IN  /\ rawEvents' = write.rows
         /\ \E again \in Listings({k \in 1 .. n : write.results[k].status = "conflict"}, <) :
              poll' = [poll EXCEPT !.pc = "revise",
                         !.todo = SubSeq(poll.todo, n + 1, Len(poll.todo)),
                         !.revise = [k \in DOMAIN again |-> part[again[k]]],
                         !.last = BatchTuple(poll.todo, n)]
  /\ UNCHANGED <<clock, source, checkpoint, status, beat, floor, budget>>

\* The stored base event and its revisions.
QueryEventFamily(rows, i) == {n \in DOMAIN rows : rows[n].collector = "aw" /\ Head(rows[n].key) = i}

Revisable_DurationOnly(rows, i, e) ==
  LET family == QueryEventFamily(rows, i)
  IN  /\ \E b \in family : rows[b].key = BaseKey(i) /\ e.dur > rows[b].content.dur
      /\ \A n \in family : rows[n].content.dur <= e.dur

\* A revision changes nothing but the duration, which never shrinks; the family
\* is the base event and revisions that grew, each under its own key.
Revisable(rows, i, e) ==
  LET family == QueryEventFamily(rows, i)
  IN  /\ \A n \in family : rows[n].content.start = e.start /\ rows[n].content.data = e.data
      /\ \E b \in family :
           /\ rows[b].key = BaseKey(i) /\ e.dur > rows[b].content.dur
           /\ \A n \in family \ {b} : b < n /\ rows[n].key = RevisionKey(i, rows[n].content.dur)
      /\ \A m, n \in family : m < n => rows[m].content.dur < rows[n].content.dur
      /\ \A n \in family : rows[n].content.dur <= e.dur

\* The revision is a batch of one.
ReviseNext ==
  /\ poll.pc = "revise" /\ poll.revise # <<>>
  /\ LET item == Head(poll.revise)
         write == AppendOne(rawEvents, Candidate(RevisionKey(item.id, item.ev.dur), item.ev))
     IN  IF Revisable(rawEvents, item.id, item.ev)
         THEN /\ rawEvents' = write.rows
              /\ poll' = [poll EXCEPT !.revise = Tail(@)]
              /\ UNCHANGED status
         ELSE EndPoll("conflict") /\ UNCHANGED rawEvents
  /\ UNCHANGED <<clock, source, checkpoint, beat, floor, budget>>

SaveCheckpoint_PollTime ==
  /\ poll.pc = "revise" /\ poll.revise = <<>>
  /\ checkpoint' = <<poll.now, 0>>
  /\ floor' = IF checkpoint = NoTuple THEN poll.start ELSE floor
  /\ poll' = [poll EXCEPT !.pc = "write", !.last = NoTuple]
  /\ UNCHANGED <<clock, source, rawEvents, status, beat, budget>>

\* The batch is committed: the checkpoint moves to its last event unless it is
\* already there.
SaveCheckpoint ==
  /\ poll.pc = "revise" /\ poll.revise = <<>>
  /\ checkpoint' = IF checkpoint = NoTuple \/ Before(checkpoint, poll.last)
                   THEN poll.last ELSE checkpoint
  /\ floor' = IF checkpoint = NoTuple THEN poll.start ELSE floor
  /\ poll' = [poll EXCEPT !.pc = "write", !.last = NoTuple]
  /\ UNCHANGED <<clock, source, rawEvents, status, beat, budget>>

AppendPollHeartbeat_OnRead ==
  /\ poll.pc = "beat" \/ poll.pc = "write"
  /\ beat' = {[at |-> poll.now, from |-> poll.start]}
  /\ EndPoll("healthy")
  /\ UNCHANGED <<clock, source, rawEvents, checkpoint, floor, budget>>

\* Nothing left to write: appendPollHeartbeat, and the poll is a success.
AppendPollHeartbeat ==
  /\ poll.pc = "beat" \/ (poll.pc = "write" /\ poll.todo = <<>>)
  /\ beat' = {[at |-> poll.now, from |-> poll.start]}
  /\ EndPoll("healthy")
  /\ UNCHANGED <<clock, source, rawEvents, checkpoint, floor, budget>>

\* A request, a write or the storage gate fails, or the poll runs out of time.
\* What was committed before stays.
PollFails ==
  /\ poll # Idle /\ budget.faults > 0
  /\ EndPoll("failed")
  /\ budget' = [budget EXCEPT !.faults = @ - 1]
  /\ UNCHANGED <<clock, source, rawEvents, checkpoint, beat, floor>>

\* The process stops during a poll and starts again: only the database is left.
\* (A stop between polls loses the status and nothing else.)
Crash ==
  /\ poll # Idle /\ budget.crashes > 0
  /\ EndPoll("starting")
  /\ budget' = [budget EXCEPT !.crashes = @ - 1]
  /\ UNCHANGED <<clock, source, rawEvents, checkpoint, beat, floor>>

PollStep ==
  BeginPoll \/ FetchPage \/ WriteBatch \/ ReviseNext \/ SaveCheckpoint \/ AppendPollHeartbeat

Bucket ==
  \/ Tick
  \/ \E t \in 0 .. MaxTime : StartEvent(t)
  \/ \E i \in DOMAIN source : ExtendEvent(i) \/ RewriteEvent(i)

Next == UNCHANGED setup /\ (Bucket \/ PollStep \/ PollFails \/ Crash)

Spec == Init /\ [][Next]_vars

\* The clock runs and the ticker starts a poll again and again.
FairSpec == Spec /\ WF_vars(UNCHANGED setup /\ Tick) /\ WF_vars(UNCHANGED setup /\ PollStep)

-----------------------------------------------------------------------------
(* Properties.                                                             *)

Event == [start : 0 .. MaxTime, dur : 0 .. MaxTime, data : {0, 1}]
Tuples == (0 .. MaxTime) \X (1 .. MaxEvents)
Outcomes == {"starting", "healthy", "failed", "invalid", "backlog", "stalled", "conflict"}

\* Every variable keeps its shape; a poll knows only events of the bucket and
\* a stored duration is one the bucket once had.
TypeOK ==
  /\ setup \in Setups
  /\ clock \in 0 .. MaxTime /\ source \in Seq(Event) /\ Len(source) <= MaxEvents
  /\ checkpoint \in Tuples \cup {NoTuple}
  /\ status \in Outcomes
  /\ \A n \in DOMAIN rawEvents : rawEvents[n].content \in Event
  /\ poll = Idle \/ (poll.pc \in {"page", "write", "revise", "beat"} /\ DOMAIN poll.seen \subseteq DOMAIN source)

Stored(i) == \E n \in DOMAIN rawEvents : rawEvents[n].key = BaseKey(i)

\* The longest of the event's rows has the duration of the bucket.
StoredWhole(i) ==
  LET durations == {rawEvents[n].content.dur : n \in QueryEventFamily(rawEvents, i)}
  IN  Stored(i) /\ source[i].dur \in durations /\ \A d \in durations : d <= source[i].dur

Passed(i) ==
  /\ checkpoint # NoTuple /\ ~Before(checkpoint, Tuple(i, source[i]))
  /\ source[i].start >= floor

\* The configured lateness covers the time the bucket may still extend an event.
Settled == Pulse <= AllowedLateness

\* The checkpoint vouches for what is behind it: since the range the first
\* import covered, every event of the bucket at or before the checkpoint is in
\* raw_events, with the duration the bucket has for it, whatever was cut short
\* by a crash, a failed call, a full page or more pages than one poll reads.
CheckpointCovers == Settled => \A i \in DOMAIN source : Passed(i) => StoredWhole(i)

\* The checkpoint never jumps past an event that can still change, even when
\* later events that overlap it are closed.
DeferredNotPassed ==
  \A i \in DOMAIN source : Passed(i) => End(source[i]) < clock - AllowedLateness

\* The heartbeat of a poll says that the bucket was read: all that had ended
\* before the poll's cutoff is in raw_events.
HeartbeatMeansImported ==
  Settled => \A b \in beat, i \in DOMAIN source :
    source[i].start >= b.from /\ End(source[i]) < b.at - AllowedLateness => StoredWhole(i)

Unedited == budget.rewrites = setup.rewrites

\* The rows of one event of the bucket differ in nothing but their duration,
\* which grows from row to row, so a drifted event is never taken for a revision;
\* and a bucket that only starts and extends events is never reported as one that
\* rewrote an event: neither pages that clip its events, nor a poll repeated after
\* a crash between a revision and its checkpoint, make a conflict.
RevisionsHonest ==
  /\ \A m, n \in DOMAIN rawEvents :
       m < n /\ Head(rawEvents[m].key) = Head(rawEvents[n].key) =>
         /\ rawEvents[m].content.start = rawEvents[n].content.start
         /\ rawEvents[m].content.data = rawEvents[n].content.data
         /\ rawEvents[m].content.dur < rawEvents[n].content.dur
  /\ Unedited => status \notin {"conflict", "invalid"}

\* The first poll looks back to the start, and one poll reads the whole bucket.
WithinReach == InitialLookback > MaxTime /\ MaxEvents < MaxPagesPerPoll * PageSize

\* Whatever failed on the way, every event that has settled ends up in
\* raw_events with its full duration, unless the bucket was edited.
Imported ==
  <>[](WithinReach /\ Unedited => \A i \in DOMAIN source : End(source[i]) < clock - AllowedLateness => StoredWhole(i))
=============================================================================
