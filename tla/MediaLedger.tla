---------------------------- MODULE MediaLedger ----------------------------
(***************************************************************************)
(* The media tables of the event store (internal/eventstore/media.go and   *)
(* operations.go): segment identities, the append-only fact logs, the read *)
(* projections derived from them, and the transactions that change them.   *)
(*                                                                         *)
(* Row ids only matter by their order, so a segment's id is its position   *)
(* in `segments' and a state event's id is its position in the segment's   *)
(* own log.  Of the ingest log only what later code reads is kept: the     *)
(* latest event of each ingest key, and the (identity, segment) pairs that *)
(* some event ever carried.  Of the retention log only the latest event of *)
(* each segment is kept.                                                   *)
(***************************************************************************)
EXTENDS Naturals, Sequences

CONSTANTS
  Source,    \* inbox file names (ingest keys), numbered in scan order
  Content,   \* media bodies; a body stands for its own SHA-256
  Ident,     \* (collector_id, source_idempotency_key) pairs
  Meta,      \* metadata hashes: device times, clock quality, duration, codec
  Sidecar,   \* the sidecar documents a source may publish
  NoFile     \* a path with nothing at it, or a value not yet read

\* A parsed sidecar document.  Its fingerprint (hash of the canonical JSON)
\* is the document itself.
SidecarFields ==
  [form : {"ok", "incomplete", "invalid", "oversize"}, ident : Ident, sha : Content,
   meta : Meta, size : Nat]

ASSUME LedgerAssumption ==
  /\ Source \subseteq Nat \ {0}
  /\ Sidecar \subseteq SidecarFields
  /\ NoFile \notin Content \cup Sidecar

VARIABLES
  segments,      \* media_segments: sequence of [ident, sha, meta]
  stateEvents,   \* media_segment_state_events: per segment, its states in order
  segStatus,     \* media_segment_status: per segment, last_state_event_id or 0
  claims,        \* identities bound to a segment by an ingest event
  lastEvent,     \* latest media_ingest_events row of each ingest key
  ingestStatus,  \* media_ingest_status: the event each ingest key shows
  retention      \* per segment, the latest retention_events status

ledgerVars ==
  <<segments, stateEvents, segStatus, claims, lastEvent, ingestStatus, retention>>

Segment == [ident : Ident, sha : Content, meta : Meta]
SegmentId == DOMAIN segments
StateName == {"accepted", "retention_deleted"}
IngestEvent ==
  [status : {"none", "discovered", "pending", "failed", "validated",
             "quarantined", "accepted"},
   fp   : Sidecar \cup {NoFile},   \* source_fingerprint
   temp : BOOLEAN,                 \* temporary_relative_path is the staging file
   seg  : Nat]                     \* media_segment_id, 0 for NULL
NoEvent == [status |-> "none", fp |-> NoFile, temp |-> FALSE, seg |-> 0]

LedgerTypeOK ==
  /\ segments \in Seq(Segment)
  /\ stateEvents \in Seq(Seq(StateName))
  /\ segStatus \in Seq(Nat)
  /\ Len(stateEvents) = Len(segments)
  /\ Len(segStatus) = Len(segments)
  /\ \A i \in SegmentId : segStatus[i] \in 0 .. Len(stateEvents[i])
  /\ claims \subseteq [ident : Ident, seg : Nat]
  /\ lastEvent \in [Source -> IngestEvent]
  /\ ingestStatus \in [Source -> IngestEvent]
  /\ retention \in Seq({"none", "planned", "failed", "deleted"})
  /\ Len(retention) = Len(segments)

LedgerInit ==
  /\ segments = << >> /\ stateEvents = << >> /\ segStatus = << >>
  /\ claims = {}
  /\ lastEvent = [s \in Source |-> NoEvent]
  /\ ingestStatus = [s \in Source |-> NoEvent]
  /\ retention = << >>

-----------------------------------------------------------------------------
(* Claims: which segment an identity or a body already belongs to.          *)

ClaimedBy(id) ==
  {i \in SegmentId : segments[i].ident = id}
    \cup {c.seg : c \in {c \in claims : c.ident = id}}

WithBody(h) == {i \in SegmentId : segments[i].sha = h}

First(S) == CHOOSE i \in S : \A j \in S : i <= j

\* A plausible slip in the duplicate test: content alone decides.
SameFact_ContentOnly(i, h, m) == segments[i].sha = h

SameFact(i, h, m) == segments[i].sha = h /\ segments[i].meta = m

\* A resolution that asks for the body before the identity.
ResolveMediaClaim_BodyFirst(id, h, m) ==
  LET S == IF WithBody(h) # {} THEN WithBody(h) ELSE ClaimedBy(id)
  IN  IF S = {} THEN [seg |-> 0, own |-> FALSE, status |-> "none"]
      ELSE [seg |-> First(S), own |-> TRUE,
            status |-> IF SameFact(First(S), h, m) THEN "duplicate" ELSE "conflict"]

\* Verdict with the segment it names; own says the identity itself matched.
ResolveMediaClaim(id, h, m) ==
  LET found(S, own) ==
        [seg |-> First(S), own |-> own,
         status |-> IF SameFact(First(S), h, m) THEN "duplicate" ELSE "conflict"]
  IN  IF ClaimedBy(id) # {} THEN found(ClaimedBy(id), TRUE)
      ELSE IF WithBody(h) # {} THEN found(WithBody(h), FALSE)
      ELSE [seg |-> 0, own |-> FALSE, status |-> "none"]

-----------------------------------------------------------------------------
(* Ingest facts and their projection.                                       *)

\* Tables after insertMediaIngestEvent: `discovered' is kept only as a first
\* event, and an event equal to the latest one is the latest one.
Latest(s, ev) ==
  IF ev.status = "discovered" /\ lastEvent[s] # NoEvent THEN lastEvent[s] ELSE ev

InsertMediaIngestEvent(s, ev) ==
  /\ lastEvent' = [lastEvent EXCEPT ![s] = Latest(s, ev)]
  /\ claims' = IF ev.seg = 0 THEN claims
               ELSE claims \cup {[ident |-> ev.fp.ident, seg |-> ev.seg]}

\* An append that skips the projection when the log already ends with the event.
AppendMediaIngestEvent_NoReapply(s, ev, applied) ==
  /\ InsertMediaIngestEvent(s, ev)
  /\ ingestStatus' =
       IF applied /\ Latest(s, ev) # lastEvent[s]
       THEN [ingestStatus EXCEPT ![s] = Latest(s, ev)] ELSE ingestStatus
  /\ UNCHANGED <<segments, stateEvents, segStatus, retention>>

\* The event commits first; its projection is a second statement that may be
\* lost (applied = FALSE) after the commit.
AppendMediaIngestEvent(s, ev, applied) ==
  /\ InsertMediaIngestEvent(s, ev)
  /\ ingestStatus' =
       IF applied THEN [ingestStatus EXCEPT ![s] = Latest(s, ev)] ELSE ingestStatus
  /\ UNCHANGED <<segments, stateEvents, segStatus, retention>>

\* A new segment whose first state event is left to a later transaction.
AcceptMedia_NoState(s, x) ==
  LET claim == ResolveMediaClaim(x.ident, x.sha, x.meta)
      new   == claim.status = "none"
      id    == IF new THEN Len(segments) + 1 ELSE claim.seg
      ev    == [status |-> "accepted", fp |-> x, temp |-> FALSE, seg |-> id]
  IN  /\ claim.status # "conflict"
      /\ segments' = IF new THEN Append(segments, [ident |-> x.ident, sha |-> x.sha, meta |-> x.meta])
                     ELSE segments
      /\ InsertMediaIngestEvent(s, ev)
      /\ UNCHANGED <<stateEvents, segStatus, retention, ingestStatus>>

\* The acceptance transaction: resolve again, add the segment with its first
\* state when it is new, and bind the ingest event to it.
AcceptMedia(s, x) ==
  LET claim == ResolveMediaClaim(x.ident, x.sha, x.meta)
      new   == claim.status = "none"
      id    == IF new THEN Len(segments) + 1 ELSE claim.seg
      ev    == [status |-> "accepted", fp |-> x, temp |-> FALSE, seg |-> id]
  IN  /\ claim.status # "conflict"
      /\ IF new
         THEN /\ segments' = Append(segments, [ident |-> x.ident, sha |-> x.sha, meta |-> x.meta])
              /\ stateEvents' = Append(stateEvents, <<"accepted">>)
              /\ segStatus' = Append(segStatus, 0)
              /\ retention' = Append(retention, "none")
         ELSE UNCHANGED <<segments, stateEvents, segStatus, retention>>
      /\ InsertMediaIngestEvent(s, ev)
      /\ UNCHANGED ingestStatus

\* A projection row that follows the event it was given, old or not.
Newer_Unguarded(i, n) == n

\* applyMediaSegmentProjection: only a newer state event replaces the row.
Newer(i, n) == IF n > segStatus[i] THEN n ELSE segStatus[i]

RebuildMediaProjections ==
  /\ ingestStatus' = lastEvent
  /\ segStatus' = [i \in SegmentId |-> Len(stateEvents[i])]
  /\ UNCHANGED <<segments, stateEvents, claims, lastEvent, retention>>

-----------------------------------------------------------------------------
(* What maintenance reads and appends (operations.go).                      *)

\* The status the projection shows for a segment.
StatusOf(i) == IF segStatus[i] = 0 THEN "none" ELSE stateEvents[i][segStatus[i]]

\* Segments listed by RetentionCandidates and ReadMediaManifest.
Listed == {i \in SegmentId : StatusOf(i) \in {"accepted", "restored"}}

TemporaryPathReferenced(s) ==
  lastEvent[s].temp /\ lastEvent[s].status \in {"discovered", "pending", "validated", "failed"}

RetentionDeletionPlanned(i) == retention[i] = "planned"

\* The event is never written, or its error is ignored.
AppendRetentionEvent_Dropped(i, status) == UNCHANGED ledgerVars

AppendRetentionEvent(i, status) ==
  /\ retention' = [retention EXCEPT ![i] = status]
  /\ UNCHANGED <<segments, stateEvents, segStatus, claims, lastEvent, ingestStatus>>

\* One transaction: the deletion fact, the state fact and its projection.  Its
\* keys carry no time, so a second deletion of a segment adds nothing.
CommitRetentionDeletion(i) ==
  LET known == \E n \in DOMAIN stateEvents[i] : stateEvents[i][n] = "retention_deleted"
      log   == IF known THEN stateEvents[i] ELSE Append(stateEvents[i], "retention_deleted")
      at    == CHOOSE n \in DOMAIN log : log[n] = "retention_deleted"
  IN  /\ stateEvents' = [stateEvents EXCEPT ![i] = log]
      /\ segStatus' = [segStatus EXCEPT ![i] = Newer(i, at)]
      /\ retention' = IF known THEN retention ELSE [retention EXCEPT ![i] = "deleted"]
      /\ UNCHANGED <<segments, claims, lastEvent, ingestStatus>>
=============================================================================
