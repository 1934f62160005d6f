-------------------------- MODULE MCActivityWatch --------------------------
(***************************************************************************)
(* Small buckets for the model checker.                                    *)
(***************************************************************************)
EXTENDS ActivityWatch

\* A watcher whose events settle in time, read over several pages with a failed
\* request, and the same bucket when it has more events than one poll reads.
Paged   == [lookback |-> 2, pages |-> 3, pulse |-> 1, events |-> 3, rewrites |-> 0, faults |-> 1, crashes |-> 0]
Backlog == [Paged EXCEPT !.pages = 1, !.faults = 0]

\* Events that grow after they were imported, one of which may be edited.
Growing == [lookback |-> 9, pages |-> 3, pulse |-> 2, events |-> 2, rewrites |-> 1, faults |-> 0, crashes |-> 1]

Buckets == {Paged, Backlog, Growing}
OverlapBuckets == {[lookback |-> 9, pages |-> 3, pulse |-> 1, events |-> 3, rewrites |-> 0, faults |-> 0, crashes |-> 0]}
=============================================================================
