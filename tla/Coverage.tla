------------------------------ MODULE Coverage ------------------------------
(***************************************************************************)
(* The coverage calculation (internal/coverage): what a collector's facts  *)
(* say of each planned moment of a range.  Times are integers, intervals   *)
(* are [start, end).  A fact is a record with start < end, its             *)
(* availability, priority, reason and quality flags, and an identity that  *)
(* breaks ties.  A definition X_<Bug> is X with a plausible bug in it; no  *)
(* specification uses it.                                                  *)
(***************************************************************************)
EXTENDS Integers, Sequences, FiniteSets, SequencesExt, FiniteSetsExt

CONSTANTS
  HeartbeatPeriod, AllowedLateness, OfflineAfter,   \* collector configuration
  Windows     \* the planned windows of the schedule's calendar, as times

ASSUME CoverageAssumption ==
  /\ HeartbeatPeriod \in Nat \ {0} /\ AllowedLateness \in Nat
  /\ OfflineAfter \in Nat /\ HeartbeatPeriod + AllowedLateness <= OfflineAfter
  /\ \A w \in Windows : w.start < w.end

\* The elements of a set in the order of a strict total order.  (SetToSortSeq
\* searches the functions into the set, too many for the sets here.)
Sorted(S, Before(_, _)) == [k \in 1 .. Cardinality(S) |-> CHOOSE x \in S : Cardinality({y \in S : Before(y, x)}) = k - 1]

\* Windows that touch or overlap become one, with the earliest schedule start.
MergeWindow(merged, w) ==
  IF merged = <<>> \/ w.start > Last(merged).end THEN Append(merged, w)
  ELSE [merged EXCEPT ![Len(merged)] =
          [start |-> @.start, end |-> Max({@.end, w.end}), sched |-> Min({@.sched, w.sched})]]

\* The planned windows of a range, clipped to it; sched keeps the real start.
PlannedIntervals(from, to) ==
  LET clipped == {[start |-> Max({w.start, from}), end |-> Min({w.end, to}), sched |-> w.start] : w \in Windows}
      order(v, w) == \/ v.start < w.start
                     \/ v.start = w.start /\ v.sched < w.sched
                     \/ v.start = w.start /\ v.sched = w.sched /\ v.end < w.end
  IN  FoldLeft(MergeWindow, <<>>, Sorted({w \in clipped : w.start < w.end}, order))

\* How long after evidence ended a heartbeat is due, late and given up on.
Delays == {HeartbeatPeriod, HeartbeatPeriod + AllowedLateness, OfflineAfter}

Points_InsideOnly(plan, facts, now) ==
  LET meets == {f \in facts : f.end > plan.start /\ f.start < plan.end}
      deadlines == {f.end + d : f \in meets, d \in Delays} \cup {plan.sched + d : d \in Delays} \cup {now}
  IN  {plan.start, plan.end}
        \cup UNION {{Max({plan.start, f.start}), Min({plan.end, f.end})} : f \in meets}
        \cup {t \in deadlines : plan.start < t /\ t < plan.end}

\* Where the state of a planned window can change.  Facts that ended before the
\* window count with their deadlines.
Points(plan, facts, now) ==
  LET meets == {f \in facts : f.end > plan.start /\ f.start < plan.end}
      deadlines == {f.end + d : f \in facts, d \in Delays} \cup {plan.sched + d : d \in Delays} \cup {now}
  IN  {plan.start, plan.end}
        \cup UNION {{Max({plan.start, f.start}), Min({plan.end, f.end})} : f \in meets}
        \cup {t \in deadlines : plan.start < t /\ t < plan.end}

State(availability, flags, reason) == [availability |-> availability, flags |-> flags, reason |-> reason]

\* Of several facts the one with the highest priority decides.
Decides(f, others) == \A g \in others : f.priority > g.priority \/ (f.priority = g.priority /\ f.rank <= g.rank)

\* The state of a gap that starts at t, given the evidence before it.
Missing(t, reference, now) ==
  CASE t >= now -> State("pending", {}, "SCHEDULED_FUTURE")
    [] t < now /\ now < reference + HeartbeatPeriod + AllowedLateness -> State("pending", {}, "AWAITING_HEARTBEAT")
    [] OTHER -> IF t < reference + HeartbeatPeriod THEN State("unknown", {}, "HEARTBEAT_MISSING")
                ELSE IF t < reference + OfflineAfter THEN State("delayed", {}, "HEARTBEAT_LATE")
                ELSE State("offline", {}, "HEARTBEAT_OFFLINE")

ClassifySegment(facts, sched, start, end, now) ==
  LET covering == {f \in facts : f.start <= start /\ f.end >= end}
      ended    == {f.end : f \in {g \in facts : g.end <= start}}
  IN  IF covering # {}
      THEN LET best == CHOOSE f \in covering : Decides(f, covering)
           IN  State(best.availability, UNION {f.flags : f \in covering}, best.reason)
      ELSE Missing(start, IF ended = {} THEN sched ELSE Max(ended), now)

\* Neighbours in the same state are one interval.
AppendMerged(intervals, next) ==
  IF intervals # <<>> /\ Last(intervals).end = next.start /\ Last(intervals).state = next.state
  THEN [intervals EXCEPT ![Len(intervals)].end = next.end]
  ELSE Append(intervals, next)

Segments(plan, facts, now) ==
  LET order(s, t) == s < t
      points == Sorted(Points(plan, facts, now), order)
  IN  [k \in 1 .. Len(points) - 1 |->
         [start |-> points[k], end |-> points[k + 1],
          state |-> ClassifySegment(facts, plan.sched, points[k], points[k + 1], now)]]

Build(from, to, now, facts) ==
  LET plans == PlannedIntervals(from, to)
  IN  FoldLeft(AppendMerged, <<>>, FlattenSeq([p \in DOMAIN plans |-> Segments(plans[p], facts, now)]))

-----------------------------------------------------------------------------
(* What the calculation promises, moment by moment.                        *)

Planned(t) == \E w \in Windows : w.start <= t /\ t < w.end

\* Where the stretch of touching windows that holds t starts, among the windows
\* a range that begins at "from" can see.
ScheduleStart(t, from) ==
  LET seen == {w \in Windows : w.end > from}
      in(u) == \E w \in seen : w.start <= u /\ u < w.end
  IN  Min({w.start : w \in {v \in seen : v.start <= t /\ \A u \in v.start .. t : in(u)}})

\* The state a moment deserves: that of the facts covering it, or else of a gap
\* since the last evidence, or since the schedule began.  Evidence from before
\* the schedule counts while it is no older than OfflineAfter.
MomentState(t, from, now, facts) ==
  LET covering == {f \in facts : f.start <= t /\ t < f.end}
      sched    == ScheduleStart(t, from)
      ended    == {f.end : f \in {g \in facts : g.end <= t /\ (g.end >= sched \/ g.end > from - OfflineAfter)}}
  IN  IF covering # {}
      THEN LET best == CHOOSE f \in covering : Decides(f, covering)
           IN  State(best.availability, UNION {f.flags : f \in covering}, best.reason)
      ELSE Missing(t, IF ended = {} THEN sched ELSE Max(ended), now)

\* The intervals meet no moment twice, hold the planned moments of the range
\* and no other, and tell of each what it deserves.
Describes(intervals, from, to, now, facts) ==
  /\ \A k \in DOMAIN intervals : intervals[k].start < intervals[k].end
  /\ \A k \in 1 .. Len(intervals) - 1 :
       /\ intervals[k].end <= intervals[k + 1].start
       /\ intervals[k].end = intervals[k + 1].start => intervals[k].state # intervals[k + 1].state
  /\ \A t \in from .. to - 1 :
       Planned(t) <=> \E k \in DOMAIN intervals : intervals[k].start <= t /\ t < intervals[k].end
  /\ \A k \in DOMAIN intervals : \A t \in intervals[k].start .. intervals[k].end - 1 :
       from <= t /\ t < to /\ intervals[k].state = MomentState(t, from, now, facts)
=============================================================================
