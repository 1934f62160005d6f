---------------------------- MODULE MCProjection ----------------------------
(***************************************************************************)
(* Small ledgers for the model checker.  Times are small integers; a fact  *)
(* is interval evidence unless it is a point.                              *)
(***************************************************************************)
EXTENDS Projection

Fact(c, kind, start, end) ==
  [collector |-> c, kind |-> kind, start |-> start, end |-> end, offset |-> 0, received |-> 0,
   error |-> 0, flags |-> {}, size |-> 1]

\* For pages: facts that tie on all but the last parts of the key, one that the
\* clock offset moves, a point, and one whose clock error the settings judge apart.
TimelinePool ==
  [raw_event |-> {[Fact("a", "point", 2, 2) EXCEPT !.received = 3],
                  [Fact("a", "event", 1, 3) EXCEPT !.offset = 1, !.error = 2, !.received = 3]},
   heartbeat |-> {[Fact("a", "active", 2, 3) EXCEPT !.received = 3]},
   media_segment |-> {[Fact("b", "segment", 4, 6) EXCEPT !.received = 1]}]

\* Receive times of both forms: heartbeats with nine digits and with eight, and a
\* recording whose text lies before that of a heartbeat received earlier.
TextPool ==
  [raw_event |-> {},
   heartbeat |-> {[Fact("a", "active", 3, 4) EXCEPT !.received = 3], [Fact("a", "active", 2, 4) EXCEPT !.received = 10]},
   media_segment |-> {[Fact("b", "segment", 2, 6) EXCEPT !.received = 12]}]
TimelineRanges == {[from |-> 1, to |-> 5]}

\* For coverage: evidence before the schedule, at a boundary of the lookback, an
\* AFK event over an active heartbeat, and a recording with a flag.
CoveragePool ==
  [raw_event |-> {Fact("a", "afk", 5, 7)},
   heartbeat |-> {Fact("a", "active", 0, 1), [Fact("a", "active", 5, 6) EXCEPT !.flags = {"obscured"}, !.error = 2],
                  Fact("a", "active", 2, 4)},
   media_segment |-> {}]
CoverageRanges == {[from |-> 3, to |-> 12], [from |-> 7, to |-> 12]}
StudyDay == {[start |-> 2, end |-> 9], [start |-> 10, end |-> 13]}

\* For budgets: two collectors, facts that reach into the range, touch its lookback
\* or lie just outside, and a point.
BudgetPool ==
  [raw_event |-> {Fact("a", "event", 1, 4), Fact("a", "incomplete", 5, 6)},
   heartbeat |-> {Fact("a", "active", 4, 6)}, media_segment |-> {Fact("b", "segment", 8, 9)}]
BudgetRanges == {[from |-> 5, to |-> 8]}

\* Two readers who page.
Paging(pool, troubles) ==
  [pool |-> pool, collectors |-> <<>>, readers |-> {"r1", "r2"}, ranges |-> TimelineRanges, clock |-> {0},
   uncertain |-> {1, 3}, maxFacts |-> 4, maxBytes |-> 99, chunkSize |-> 2, maxRebuilds |-> 1, maxTrouble |-> troubles]

\* Readers, and one collector that is asked for twice.
Requests ==
  {Paging(TimelinePool, 2), Paging(TextPool, 1),
   [pool |-> CoveragePool, collectors |-> <<"a">>, readers |-> {}, ranges |-> CoverageRanges, clock |-> {6, 9, 20},
    uncertain |-> {1}, maxFacts |-> 9, maxBytes |-> 99, chunkSize |-> 4, maxRebuilds |-> 2, maxTrouble |-> 0]}

\* Two collectors that share a request under a small budget.
Budgets ==
  {[pool |-> BudgetPool, collectors |-> <<"a", "b">>, readers |-> {"r1"}, ranges |-> BudgetRanges, clock |-> {20},
    uncertain |-> {1}, maxFacts |-> 1, maxBytes |-> 3, chunkSize |-> 1, maxRebuilds |-> 1, maxTrouble |-> 1]}
NoWindows == {}
=============================================================================
