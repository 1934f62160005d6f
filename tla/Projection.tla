----------------------------- MODULE Projection -----------------------------
(***************************************************************************)
(* The projections: the unified timeline and the coverage cache, rebuilt   *)
(* on request from the append-only tables (internal/eventstore/timeline.go *)
(* and coverage.go, behind handleTimeline and handleCoverage of            *)
(* internal/httpapi).  One request at a time holds the projection gate; it *)
(* reads the tables with one query per step, writes timeline_entries in    *)
(* small transactions, and then reads a page or replaces the coverage of   *)
(* one collector after the other.  Facts are committed, and readers with a *)
(* cursor served, between any two steps.  A request that finds the gate    *)
(* taken gets a 429 and changes nothing, so it is no step.                 *)
(***************************************************************************)
EXTENDS Coverage

CONSTANTS
  Setups,              \* deployments, clients and facts, each with its bounds
  PageSize

Sources == {"raw_event", "heartbeat", "media_segment"}

\* Heartbeats and recordings are intervals (heartbeat.go:204, sidecar.go:91); the ids of
\* collectors are unique (config.go:825).
ASSUME ProjectionAssumption ==
  /\ PageSize \in Nat \ {0}
  /\ \A d \in Setups :
       /\ {d.maxFacts, d.maxBytes, d.chunkSize} \subseteq Nat \ {0}
       /\ {d.maxRebuilds, d.maxTrouble} \subseteq Nat
       /\ \A r \in d.ranges : {r.from, r.to} \subseteq Int /\ r.from < r.to
       /\ d.collectors \in Seq(Range(d.collectors))
       /\ \A m, n \in DOMAIN d.collectors : d.collectors[m] = d.collectors[n] => m = n
       /\ \A s \in Sources : \A f \in d.pool[s] :
            /\ {f.start, f.end, f.offset, f.received} \subseteq Int
            /\ s # "raw_event" => f.kind \notin {"point", "incomplete"} /\ f.start < f.end

VARIABLES
  setup,         \* the one of Setups this behaviour is about
  tables,        \* raw_events, collector_heartbeats, media_segments
  entries,       \* timeline_entries; the projection id is the position
  uncertainAfter,
  projection,    \* coverage_projection_state
  intervals,     \* coverage_intervals
  coverageDegraded, moduleLog,     \* the handler's flag; its fault and module records
  job,           \* the request that holds the gate
  reader,
  basis,         \* what the last rebuild of a collector could and did see
  trouble

vars == <<setup, tables, entries, uncertainAfter, projection, intervals, coverageDegraded, moduleLog, job, reader, basis, trouble>>
stored == <<projection, intervals, basis>>

Pool        == setup.pool          \* the facts that may be committed, by table
Collectors  == setup.collectors    \* the enabled collectors, in the configured order
Readers     == setup.readers       \* timeline clients
UncertainSettings == setup.uncertain   \* values of timeline.clock_uncertain_after
Ranges      == setup.ranges        \* what may be asked
Clock       == setup.clock         \* wall-clock readings
MaxFacts    == setup.maxFacts      \* the budgets of a rebuild
MaxBytes    == setup.maxBytes
ChunkSize   == setup.chunkSize
MaxRebuilds == setup.maxRebuilds   \* bounds of the model
MaxTrouble  == setup.maxTrouble

TypeRank(s) == CASE s = "heartbeat" -> 1 [] s = "media_segment" -> 2 [] s = "raw_event" -> 3

\* A receive time as text, with what its last digit counts, in nanoseconds.  fixedUTC
\* writes nine digits; RFC3339Nano, in which heartbeats are stored and copied, no
\* zeros at the end and for a whole second no fraction.
Units == {1, 10, 100, 1000, 10000, 100000, 1000000, 10000000, 100000000, 1000000000}
FixedUTC(t)    == [at |-> t, unit |-> 1]
RFC3339Nano(t) == [at |-> t, unit |-> Max({u \in Units : t % u = 0})]
ReceivedText(s, t) == IF s = "heartbeat" THEN RFC3339Nano(t) ELSE FixedUTC(t)

\* A fact as the timeline shows it.  One without an end ends where it starts.
Project(s, id, u) ==
  LET f == tables[s][id]
  IN  [source |-> s, id |-> id, collector |-> f.collector, kind |-> f.kind, size |-> f.size,
       received |-> ReceivedText(s, f.received),
       start |-> f.start + f.offset,
       end   |-> (IF f.kind \in {"point", "incomplete"} THEN f.start ELSE f.end) + f.offset,
       flags |-> f.flags \cup (IF f.kind = "incomplete" THEN {"incomplete"} ELSE {})
                         \cup (IF f.error > u THEN {"clock_uncertain"} ELSE {})]
Projections(s) == {Project(s, id, uncertainAfter) : id \in DOMAIN tables[s]}
Committed == UNION {Projections(s) : s \in Sources}

\* What coverage can use: an interval of an ActivityWatch event, a heartbeat or a recording.
Usable(e) == e.end > e.start

Matches(e, from, to, overlapping) == e.start < to /\ (e.start >= from \/ (overlapping /\ e.end > from))

-----------------------------------------------------------------------------
(* Requests                                                                *)

Idle == [pc |-> "idle"]
NoRange == [from |-> 0, to |-> 0]
NoReader == [pc |-> "new", range |-> NoRange, snapshot |-> 0, last |-> <<>>, got |-> <<>>, due |-> {}, frozen |-> {}]
NoProjection == [status |-> "none", generation |-> 0, error |-> "", watermark |-> 0, range |-> NoRange]

Init ==
  /\ setup \in Setups
  /\ tables = [s \in Sources |-> <<>>] /\ entries = <<>>
  /\ uncertainAfter \in UncertainSettings
  /\ projection = [c \in Range(Collectors) |-> NoProjection]
  /\ intervals = [c \in Range(Collectors) |-> <<>>] /\ basis = [c \in Range(Collectors) |-> [now |-> 0, facts |-> {}]]
  /\ coverageDegraded = FALSE /\ moduleLog = <<>>
  /\ job = Idle /\ reader = [r \in Readers |-> NoReader] /\ trouble = 0

AppendFact(s, f) ==
  /\ f \notin Range(tables[s])
  /\ tables' = [tables EXCEPT ![s] = Append(@, f)]
  /\ UNCHANGED <<entries, uncertainAfter, stored, coverageDegraded, moduleLog, job, reader, trouble>>

Ids(es) == {<<e.source, e.id>> : e \in es}

BeginTimeline(r, range) ==
  /\ job.pc = "idle" /\ reader[r].pc = "new"
  /\ job' = [pc |-> "collect", kind |-> "timeline", reader |-> r, range |-> range, todo |-> <<"">>, query |-> 1, got |-> <<>>]
  /\ reader' = [reader EXCEPT ![r].due = Ids({e \in Committed : Matches(e, range.from, range.to, FALSE)})]
  /\ UNCHANGED <<tables, entries, uncertainAfter, stored, coverageDegraded, moduleLog, trouble>>

BeginCoverage(range, now, todo) ==
  /\ job.pc = "idle"
  /\ \A c \in Range(todo) : projection[c].generation < MaxRebuilds
  /\ job' = [pc |-> "collect", kind |-> "coverage", range |-> range, now |-> now, todo |-> todo, asked |-> todo, query |-> 1, got |-> <<>>,
             before |-> {e \in Committed : Usable(e)}]
  /\ UNCHANGED <<tables, entries, uncertainAfter, stored, coverageDegraded, moduleLog, reader, trouble>>

-----------------------------------------------------------------------------
(* syncTimelineProjection                                                  *)

Lookback_Late == HeartbeatPeriod + AllowedLateness

\* How long before its range a rebuild looks for evidence.
Lookback == OfflineAfter

Overlapping == job.kind = "coverage"
From == IF Overlapping THEN job.range.from - Lookback ELSE job.range.from

\* Each table is asked for the facts that start in the range; for coverage then
\* for the ones that reach into it.
Queries ==
  LET ask(s, p) == [source |-> s, part |-> p]
  IN  IF Overlapping
      THEN <<ask("raw_event", "starts"), ask("raw_event", "reaches"), ask("heartbeat", "starts"),
             ask("heartbeat", "reaches"), ask("media_segment", "starts"), ask("media_segment", "reaches")>>
      ELSE <<ask("raw_event", "starts"), ask("heartbeat", "starts"), ask("media_segment", "starts")>>

\* The SQL range of two tables is wider than asked by the imprecision of julianday.
Slack(s) == IF s = "heartbeat" THEN 0 ELSE 1

Candidates_Twice(q) ==
  LET slack == Slack(q.source)
      ours  == {e \in Projections(q.source) :
                  job.kind = "timeline" \/ (e.collector = Head(job.todo) /\ (q.source = "raw_event" => Usable(e)))}
  IN  IF q.part = "starts" THEN {e \in ours : From - slack <= e.start /\ e.start < job.range.to + slack}
      ELSE {e \in ours : e.start < From /\ e.end > From}

\* The rows of one query, before their exact bounds are compared.
Candidates(q) ==
  LET slack == Slack(q.source)
      ours  == {e \in Projections(q.source) :
                  job.kind = "timeline" \/ (e.collector = Head(job.todo) /\ (q.source = "raw_event" => Usable(e)))}
  IN  IF q.part = "starts" THEN {e \in ours : From - slack <= e.start /\ e.start < job.range.to + slack}
      ELSE {e \in ours : e.start < From - slack /\ e.end > From - slack}

RowBefore(d, e) == d.start < e.start \/ (d.start = e.start /\ d.id < e.id)
Rows(q) == Sorted({e \in Candidates(q) : Matches(e, From, job.range.to, Overlapping)}, RowBefore)

\* The first projection that does not fit the budgets names the error.
OverBudget(es) ==
  LET used[k \in 0 .. Len(es)] == IF k = 0 THEN 0 ELSE used[k - 1] + es[k].size
  IN  {k \in DOMAIN es : k > MaxFacts \/ used[k] > MaxBytes}
BudgetError(es) == IF Min(OverBudget(es)) > MaxFacts THEN "TIMELINE_FACT_LIMIT" ELSE "TIMELINE_BYTE_LIMIT"

Synced == IF job.kind = "timeline" THEN "page" ELSE "build"

NextCollector_Again ==
  job' = [job EXCEPT !.pc = "collect", !.query = 1, !.got = <<>>]

NextCollector_Stop ==
  job' = [job EXCEPT !.todo = Tail(@), !.pc = "answer"]

\* The request goes on with the next collector, or is answered.
NextCollector ==
  job' = [job EXCEPT !.todo = Tail(@), !.pc = IF Len(job.todo) = 1 THEN "answer" ELSE "collect", !.query = 1, !.got = <<>>]

\* The collector's row turns stale; its intervals stay.
MarkStale(c, code) ==
  projection' = [projection EXCEPT ![c] =
    [projection[c] EXCEPT !.status = "stale", !.error = code, !.range = job.range, !.generation = Max({1, @})]]

\* One collector's failure does not stop the others; a timeline request fails.
FailSync(code, saved) ==
  /\ \/ /\ job.kind = "timeline"
        /\ job' = Idle /\ reader' = [reader EXCEPT ![job.reader] = NoReader]
        /\ UNCHANGED projection
     \/ /\ job.kind = "coverage"
        /\ IF saved THEN MarkStale(Head(job.todo), code) ELSE UNCHANGED projection
        /\ NextCollector /\ UNCHANGED reader
  /\ UNCHANGED <<tables, entries, uncertainAfter, intervals, basis, coverageDegraded, moduleLog>>

Collect ==
  /\ job.pc = "collect"
  /\ LET got  == job.got \o Rows(Queries[job.query])
         last == job.query = Len(Queries)
     IN  /\ OverBudget(got) = {}
         /\ job' = [job EXCEPT !.got = got, !.query = @ + 1,
                               !.pc = IF ~last THEN @ ELSE IF got = <<>> THEN Synced ELSE "upsert"]
  /\ UNCHANGED <<tables, entries, uncertainAfter, stored, coverageDegraded, moduleLog, reader, trouble>>

CollectTooMuch ==
  /\ job.pc = "collect"
  /\ LET got == job.got \o Rows(Queries[job.query])
     IN  OverBudget(got) # {} /\ FailSync(BudgetError(got), TRUE)
  /\ UNCHANGED trouble

\* A fact keeps its projection id for ever.
Upsert(es, e) ==
  LET same == {k \in DOMAIN es : es[k].source = e.source /\ es[k].id = e.id}
  IN  IF same = {} THEN Append(es, e) ELSE [k \in DOMAIN es |-> IF k \in same THEN e ELSE es[k]]

\* The entries after the first n of some projections were written, in their order.
Upserted(es, items, n) ==
  LET done[k \in 0 .. n] == IF k = 0 THEN es ELSE Upsert(done[k - 1], items[k])
  IN  done[n]

UpsertChunk ==
  /\ job.pc = "upsert"
  /\ LET n == Min({ChunkSize, Len(job.got)})
     IN  /\ entries' = Upserted(entries, job.got, n)
         /\ job' = [job EXCEPT !.got = SubSeq(@, n + 1, Len(@)), !.pc = IF n = Len(job.got) THEN Synced ELSE @]
  /\ UNCHANGED <<tables, uncertainAfter, stored, coverageDegraded, moduleLog, reader, trouble>>

-----------------------------------------------------------------------------
(* QueryTimeline: pages of a snapshot                                      *)

\* SQL compares texts byte by byte.  Where one has its final Z and the other goes on
\* with a digit or a point, the shorter one is the greater, as if it were the end of its unit.
TextBefore(x, y) ==
  \/ x.at + x.unit < y.at + y.unit
  \/ x.at + x.unit = y.at + y.unit /\ x.unit < y.unit

KeyBefore(d, e) ==
  \/ d.start < e.start
  \/ d.start = e.start /\ TextBefore(d.received, e.received)
  \/ d.start = e.start /\ d.received = e.received /\ TypeRank(d.source) < TypeRank(e.source)
  \/ d.start = e.start /\ d.received = e.received /\ d.source = e.source /\ d.id < e.id

AfterCursor_Start(d, e) == d.start < e.start

AfterCursor(d, e) == KeyBefore(d, e)

\* What a snapshot has after a cursor's last key, in order.
PageRows(range, snapshot, last) ==
  Sorted({e \in {entries[k] : k \in {i \in DOMAIN entries : i <= snapshot}} :
            Matches(e, range.from, range.to, FALSE) /\ \A d \in Range(last) : AfterCursor(d, e)}, KeyBefore)

ServePage(r, range, snapshot, last) ==
  LET rows == PageRows(range, snapshot, last)
      page == SubSeq(rows, 1, Min({PageSize, Len(rows)}))
      more == Len(rows) > PageSize
  IN  reader' = [reader EXCEPT ![r] =
        [reader[r] EXCEPT !.pc = IF more THEN "paging" ELSE "done", !.range = range, !.snapshot = snapshot,
                  !.last = IF more THEN <<Last(page)>> ELSE <<>>, !.got = @ \o page,
                  !.frozen = IF last = <<>> THEN Ids({e \in Range(entries) : Matches(e, range.from, range.to, FALSE)}) ELSE @]]

FirstPage_NextId ==
  /\ job.pc = "page"
  /\ ServePage(job.reader, job.range, Len(entries) + 1, <<>>)
  /\ job' = Idle
  /\ UNCHANGED <<tables, entries, uncertainAfter, stored, coverageDegraded, moduleLog, trouble>>

FirstPage ==
  /\ job.pc = "page"
  /\ ServePage(job.reader, job.range, Len(entries), <<>>)
  /\ job' = Idle
  /\ UNCHANGED <<tables, entries, uncertainAfter, stored, coverageDegraded, moduleLog, trouble>>

\* A cursor is read back only if its receive time has nine digits.
CursorDecodes(last) == \A d \in Range(last) : d.received.unit = 1

\* A cursor's request neither takes the gate nor syncs.
NextPage(r) ==
  /\ reader[r].pc = "paging" /\ CursorDecodes(reader[r].last)
  /\ ServePage(r, reader[r].range, reader[r].snapshot, reader[r].last)
  /\ UNCHANGED <<tables, entries, uncertainAfter, stored, coverageDegraded, moduleLog, job, trouble>>

RefuseCursor(r) ==
  /\ reader[r].pc = "paging" /\ ~CursorDecodes(reader[r].last)
  /\ reader' = [reader EXCEPT ![r].pc = "refused"]
  /\ UNCHANGED <<tables, entries, uncertainAfter, stored, coverageDegraded, moduleLog, job, trouble>>

-----------------------------------------------------------------------------
(* RebuildCoverage                                                         *)

StableRank(e) == 100 * (TypeRank(e.source) % 3) + e.id

CoverageFact(e) ==
  [start |-> e.start, end |-> e.end, flags |-> e.flags, rank |-> StableRank(e),
   availability |-> IF e.kind \in {"idle", "afk"} THEN "confirmed_idle" ELSE "covered",
   priority |-> CASE e.kind = "afk" -> 40 [] e.kind = "event" -> 20 [] OTHER -> 30,
   reason |-> e.kind]

\* The entries the calculation reads for a collector.
CoverageEntries(c, range) ==
  {k \in DOMAIN entries : entries[k].collector = c /\ Usable(entries[k])
                          /\ entries[k].start < range.to /\ entries[k].end > range.from - Lookback}

RebuildCollector ==
  /\ job.pc = "build"
  /\ LET c     == Head(job.todo)
         ids   == CoverageEntries(c, job.range)
         facts == {CoverageFact(entries[k]) : k \in ids}
     IN  IF Cardinality(ids) > MaxFacts
         THEN MarkStale(c, "TIMELINE_FACT_LIMIT") /\ UNCHANGED <<intervals, basis>>
         ELSE /\ intervals' = [intervals EXCEPT ![c] = Build(job.range.from, job.range.to, job.now, facts)]
              /\ projection' = [projection EXCEPT ![c] =
                   [status |-> "fresh", generation |-> @.generation + 1, error |-> "",
                    watermark |-> Max({0} \cup ids), range |-> job.range]]
              /\ basis' = [basis EXCEPT ![c] =
                   [now |-> job.now, facts |-> facts \cup {CoverageFact(e) : e \in {d \in job.before : d.collector = c}}]]
  /\ NextCollector
  /\ UNCHANGED <<tables, entries, uncertainAfter, coverageDegraded, moduleLog, reader, trouble>>

\* A request without an error ends a degradation, stale collectors or not.
AnswerCoverage ==
  /\ job.pc = "answer"
  /\ coverageDegraded' = FALSE
  /\ moduleLog' = IF coverageDegraded THEN Append(moduleLog, "COVERAGE_RECOVERED") ELSE moduleLog
  /\ job' = Idle
  /\ UNCHANGED <<tables, entries, uncertainAfter, stored, reader, trouble>>

-----------------------------------------------------------------------------
(* Failures                                                                *)

Trouble == trouble < MaxTrouble /\ trouble' = trouble + 1

\* A statement fails while the request lives on; the stale mark may fail with it.
StatementFails(saved) ==
  /\ job.pc \in {"collect", "upsert", "page", "build"}
  /\ Trouble /\ FailSync("QUERY_FAILED", saved)

\* The client goes away or the server's time limit ends the request.  The
\* degraded records are written with the ended context, so they are not stored.
Cancel ==
  /\ job.pc \in {"collect", "upsert", "page", "build"}
  /\ Trouble
  /\ job' = Idle
  /\ reader' = IF job.kind = "timeline" THEN [reader EXCEPT ![job.reader] = NoReader] ELSE reader
  /\ coverageDegraded' = (coverageDegraded \/ job.kind = "coverage")
  /\ UNCHANGED <<tables, entries, uncertainAfter, stored, moduleLog>>

\* The process ends and starts again, perhaps configured anew.  Cursors live on.
Restart(u) ==
  /\ Trouble
  /\ job' = Idle /\ coverageDegraded' = FALSE /\ uncertainAfter' = u
  /\ reader' = [r \in Readers |-> IF job.pc # "idle" /\ job.kind = "timeline" /\ job.reader = r THEN NoReader ELSE reader[r]]
  /\ UNCHANGED <<tables, entries, stored, moduleLog>>

-----------------------------------------------------------------------------
JobStep ==
  /\ UNCHANGED setup
  /\ Collect \/ CollectTooMuch \/ UpsertChunk \/ FirstPage \/ RebuildCollector \/ AnswerCoverage

Clients ==
  \/ \E s \in Sources : \E f \in Pool[s] : AppendFact(s, f)
  \/ \E range \in Ranges :
       \/ \E r \in Readers : BeginTimeline(r, range)
       \/ \E now \in Clock :
            \/ Collectors # <<>> /\ BeginCoverage(range, now, Collectors)
            \/ \E c \in Range(Collectors) : BeginCoverage(range, now, <<c>>)
  \/ \E r \in Readers : NextPage(r) \/ RefuseCursor(r)
  \/ \E saved \in BOOLEAN : StatementFails(saved)
  \/ Cancel
  \/ \E u \in UncertainSettings : Restart(u)

Next == JobStep \/ (Clients /\ UNCHANGED setup)

Spec == Init /\ [][Next]_vars

\* The server keeps running a request it has accepted.
FairSpec == Spec /\ WF_vars(JobStep)

-----------------------------------------------------------------------------
(* Properties                                                              *)

\* The shape of the state: entry ids and generations within their bounds, and
\* the request, the readers and the cache in the forms the steps give them.
TypeOK ==
  /\ setup \in Setups
  /\ \A s \in Sources : Range(tables[s]) \subseteq Pool[s]
  /\ \A k \in DOMAIN entries : entries[k].source \in Sources /\ entries[k].id \in DOMAIN tables[entries[k].source]
  /\ uncertainAfter \in UncertainSettings /\ coverageDegraded \in BOOLEAN /\ trouble \in 0 .. MaxTrouble
  /\ \A c \in Range(Collectors) : /\ projection[c].status \in {"none", "fresh", "stale"}
                                  /\ projection[c].generation \in 0 .. MaxRebuilds
                                  /\ projection[c].watermark \in 0 .. Len(entries)
  /\ job.pc \in {"idle", "collect", "upsert", "page", "build", "answer"}
  /\ \A r \in Readers : reader[r].pc \in {"new", "paging", "refused", "done"} /\ reader[r].snapshot \in 0 .. Len(entries)

\* A fresh coverage projection tells of every planned moment of its range, once,
\* the state the evidence gives it: no fact committed before the request is
\* missing, whatever was committed while it ran and whichever requests synced
\* the entries before, and looking back OfflineAfter is as good as looking back
\* to the schedule's start (RebuildCoverage, coverage.Build).
CoverageDescribes ==
  \A c \in Range(Collectors) : projection[c].status = "fresh" =>
    Describes(intervals[c], projection[c].range.from, projection[c].range.to, basis[c].now, basis[c].facts)

\* A reader that followed its cursor to the end has every fact of the range that
\* was committed before its first request, each once and in the order of the
\* stored sort key, and none that was projected after its snapshot, across ties,
\* texts of different length, concurrent syncs that rewrite entries, and restarts
\* (QueryTimeline).  A reader whose cursor is refused does not get to the end.
TimelineExact ==
  \A r \in Readers : reader[r].pc = "done" =>
    LET got == reader[r].got
    IN  /\ \A k \in 1 .. Len(got) - 1 : KeyBefore(got[k], got[k + 1])
        /\ Ids(Range(got)) = reader[r].frozen /\ reader[r].due \subseteq reader[r].frozen

\* That many interval facts of the collector's own meet the range it was asked for.
FactsExceed(c) ==
  Cardinality({e \in Committed : /\ e.collector = c /\ Usable(e)
                                 /\ Matches(e, projection[c].range.from - OfflineAfter, projection[c].range.to, TRUE)})
    > MaxFacts

\* When a coverage request is answered and nothing else went wrong, each of the
\* collectors it asked for was rebuilt for its range or refused for its own
\* budget: none is left out because of another's failure (RebuildCoverage's loop),
\* and neither facts outside the range, nor point facts, nor other collectors'
\* facts use up a number of facts (appendTimelineProjection).
FailuresIsolated ==
  /\ \A c \in Range(Collectors) : projection[c].error = "TIMELINE_FACT_LIMIT" => FactsExceed(c)
  /\ job.pc = "answer" /\ trouble = 0 =>
       \A c \in Range(job.asked) :
         /\ projection[c].range = job.range
         /\ projection[c].status = "fresh" \/ projection[c].error \in {"TIMELINE_FACT_LIMIT", "TIMELINE_BYTE_LIMIT"}

\* The projection gate is always given back: every accepted request ends, with
\* its answer or an error, however many collectors fail (releaseProjection).
GateFreed == job.pc # "idle" ~> job.pc = "idle"
=============================================================================
