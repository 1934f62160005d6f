--------------------------- MODULE Retention_proofs ---------------------------
(***************************************************************************)
(* Retention, for any number of segments, passes, crashes and failed       *)
(* calls: a committed deletion stays visible whatever the worker projects  *)
(* late, and a managed file that is gone is one retention planned to       *)
(* delete, so that an interrupted deletion can always be completed.        *)
(***************************************************************************)
EXTENDS Claims_proofs

\* The managed file of a body is gone and nobody outside took it.
Gone(h) == accepted[h] = NoFile /\ h \notin damaged

\* A segment's log is its acceptance, then possibly its deletion.
LogShape ==
  \A i \in SegmentId :
    /\ Len(stateEvents[i]) \in {1, 2}
    /\ stateEvents[i][1] = "accepted"
    /\ Len(stateEvents[i]) = 2 => stateEvents[i][2] = "retention_deleted"

\* A deletion and its projection are one transaction, and nothing undoes it.
DeletionSeen == \A i \in SegmentId : Len(stateEvents[i]) = 2 => segStatus[i] = 2

\* A file under accepted/ belongs to one segment, so removing it explains one loss.
OnePerBody == \A i, j \in SegmentId : segments[i].sha = segments[j].sha => i = j

GoneExplained ==
  \A i \in SegmentId :
    Gone(segments[i].sha) => retention[i] = "planned" \/ Len(stateEvents[i]) = 2

\* A body about to become a new segment is there: retention cannot pick it yet.
NewInstalled == pc = "accept" /\ Unknown(sc) => ~Gone(sc.sha)

\* The plan is on record before the file goes, and the file is still there.
RemovePlanned ==
  opc = "remove" => retention[victim] = "planned" /\ ~Gone(segments[victim].sha)

RetentionInv ==
  /\ LogShape /\ DeletionSeen /\ OnePerBody
  /\ GoneExplained /\ NewInstalled /\ RemovePlanned

LEMMA RetentionInvInit == Init => RetentionInv
BY DEF Init, LedgerInit, IngestInit, RetentionInit, RetentionInv, LogShape, DeletionSeen,
       OnePerBody, GoneExplained, NewInstalled, RemovePlanned, SegmentId

-----------------------------------------------------------------------------
(* What a step may do to the segments' logs.                                *)

SameLogs ==
  /\ UNCHANGED <<segments, stateEvents, retention>>
  /\ \A i \in SegmentId : segStatus[i] <= segStatus'[i]

SegmentAdded ==
  /\ pc = "accept" /\ Unknown(sc) /\ UNCHANGED <<accepted, damaged, opc, victim>>
  /\ segments' = Append(segments, [ident |-> sc.ident, sha |-> sc.sha, meta |-> sc.meta])
  /\ stateEvents' = Append(stateEvents, <<"accepted">>)
  /\ retention' = Append(retention, "none")
  /\ segStatus' = Append(segStatus, 0)

DeletionPlanned ==
  \E i \in SegmentId :
    /\ AppendRetentionEvent(i, "planned") /\ accepted[segments[i].sha] = segments[i].sha
    /\ UNCHANGED <<accepted, damaged>> /\ opc' = "remove" /\ victim' = i

DeletionFailed ==
  /\ opc = "remove" /\ AppendRetentionEvent(victim, "failed")
  /\ UNCHANGED <<accepted, damaged>> /\ opc' = "pass"

DeletionCommitted ==
  /\ opc = "commit" /\ CommitRetentionDeletion(victim)
  /\ UNCHANGED <<accepted, damaged>> /\ opc' = "pass"

LEMMA UnchangedLogs ==
  ASSUME TypeInv, UNCHANGED <<segments, stateEvents, segStatus, retention>>
  PROVE  SameLogs
<1>1. \A i \in SegmentId : segStatus[i] \in Nat
  BY DEF TypeInv, LedgerOK, LedgerTypeOK
<1> QED BY <1>1 DEF SameLogs

\* A record of the ingest log touches no segment.
LEMMA RecordSameLogs ==
  ASSUME NEW fp, NEW status, NEW temp, NEW seg, NEW done, Record(fp, status, temp, seg, done)
  PROVE  UNCHANGED <<segments, stateEvents, segStatus, retention>>
BY DEF Record, AppendMediaIngestEvent, ledgerVars

LEMMA FinishSameLogs ==
  ASSUME NEW fp, NEW status, NEW temp, NEW seg, Finish(fp, status, temp, seg)
  PROVE  UNCHANGED <<segments, stateEvents, segStatus, retention>>
BY RecordSameLogs DEF Finish

\* The worker's late projection never moves a row back.
LEMMA ProjectSameLogs ==
  ASSUME TypeInv, ProjectAcceptance
  PROVE  SameLogs
<1>1. UNCHANGED <<segments, stateEvents, retention>>
      /\ (UNCHANGED segStatus \/ segStatus' = [segStatus EXCEPT ![claim] = Newer(claim, stateId)])
  BY DEF ProjectAcceptance
<1>2. \A i \in SegmentId : segStatus[i] \in Nat
  BY DEF TypeInv, LedgerOK, LedgerTypeOK
<1>3. claim \in SegmentId /\ stateId \in Nat
  BY DEF TypeInv, WorkerLocalsOK, WorkerTypeOK, ProjectAcceptance
<1>4. Newer(claim, stateId) >= segStatus[claim]
  BY <1>2, <1>3 DEF Newer
<1>5. \A i \in SegmentId : segStatus'[i] = segStatus[i] \/ (i = claim /\ segStatus'[i] = Newer(claim, stateId))
  <2>1. segStatus \in Seq(Nat) /\ SegmentId = 1 .. Len(segStatus)
    BY DEF TypeInv, LedgerOK, LedgerTypeOK, SegmentId
  <2> QED BY <1>1, <2>1
<1> QED BY <1>1, <1>2, <1>4, <1>5 DEF SameLogs

LEMMA IngestLogs ==
  ASSUME TypeInv, Ingest, UNCHANGED <<opsVars, envVars>>
  PROVE  SameLogs \/ SegmentAdded
<1>1. CASE ScanStart \/ ScanNext \/ ScanEnd \/ SignConfirmation
  BY <1>1, UnchangedLogs DEF ScanStart, ScanNext, ScanEnd, SignConfirmation, ledgerVars
<1>2. CASE Discover \/ ReadSidecar \/ FirstStat \/ SecondStat
  BY <1>2, RecordSameLogs, FinishSameLogs, UnchangedLogs
     DEF Discover, ReadSidecar, FirstStat, SecondStat, ledgerVars
<1>3. CASE CopyStart \/ CopyEnd \/ ProbeMedia
  BY <1>3, RecordSameLogs, FinishSameLogs, UnchangedLogs
     DEF CopyStart, CopyEnd, ProbeMedia, ledgerVars
<1>4. CASE ResolveClaim \/ ReuseAccepted
  BY <1>4, UnchangedLogs DEF ResolveClaim, ReuseAccepted, AppendMediaIngestEvent, ledgerVars
<1>5. CASE InstallAccepted
  BY <1>5, FinishSameLogs, UnchangedLogs DEF InstallAccepted, ledgerVars
<1>6. CASE CommitAcceptance
  <2>1. CASE AcceptMedia(Cur, sc)
    <3>1. CASE ResolveMediaClaim(sc.ident, sc.sha, sc.meta).status = "none"
      <4>1. Unknown(sc)
        BY <3>1, ClaimCases
      <4> QED BY <1>6, <2>1, <3>1, <4>1
              DEF CommitAcceptance, AcceptMedia, SegmentAdded, storeVars, opsVars, envVars
    <3>2. CASE ResolveMediaClaim(sc.ident, sc.sha, sc.meta).status # "none"
      BY <2>1, <3>2, UnchangedLogs DEF AcceptMedia
    <3> QED BY <3>1, <3>2
  <2>2. CASE UNCHANGED ledgerVars
    BY <2>2, UnchangedLogs DEF ledgerVars
  <2> QED BY <1>6, <2>1, <2>2 DEF CommitAcceptance
<1>7. CASE ProjectAcceptance
  BY <1>7, ProjectSameLogs
<1>8. CASE ClearConfirmation \/ WriteConfirmation \/ RememberTerminal
  BY <1>8, UnchangedLogs DEF ClearConfirmation, WriteConfirmation, RememberTerminal, ledgerVars
<1>9. CASE Quarantine \/ NoteReason
  BY <1>9, RecordSameLogs, FinishSameLogs, UnchangedLogs DEF Quarantine, NoteReason, ledgerVars
<1> QED BY <1>1, <1>2, <1>3, <1>4, <1>5, <1>6, <1>7, <1>8, <1>9 DEF Ingest

LEMMA PlanLogs ==
  ASSUME TypeInv, RetentionPlan, UNCHANGED envVars
  PROVE  (UNCHANGED ledgerVars /\ opc' # "remove") \/ DeletionPlanned
<1> DEFINE i == First(todo)
<1>1. i \in SegmentId
  <2>1. todo # {} /\ todo \subseteq SegmentId /\ SegmentId \subseteq Nat
    BY ClaimsAreSegments DEF RetentionPlan, TypeInv, OpsLocalsOK
  <2> QED BY <2>1, FirstIsLeast
<1> HIDE DEF i
<1>2. \/ UNCHANGED ledgerVars /\ opc' # "remove"
      \/ /\ AppendRetentionEvent(i, "planned") /\ accepted[segments[i].sha] = segments[i].sha
         /\ opc' = "remove" /\ victim' = i
  BY DEF RetentionPlan, Skip, i
<1>3. UNCHANGED <<accepted, damaged>>
  BY DEF RetentionPlan, storeVars, envVars
<1> QED BY <1>1, <1>2, <1>3 DEF DeletionPlanned

LEMMA MaintenanceLogs ==
  ASSUME TypeInv, Maintenance, UNCHANGED envVars
  PROVE  SameLogs \/ DeletionPlanned \/ DeletionFailed \/ DeletionCommitted
<1>1. CASE UNCHANGED ledgerVars
  BY <1>1, UnchangedLogs DEF ledgerVars
<1>2. CASE RetentionPlan
  BY <1>1, <1>2, PlanLogs
<1>3. CASE RetentionRemove
  BY <1>1, <1>3 DEF RetentionRemove, DeletionFailed, Skip, envVars
<1>4. CASE RetentionCommit
  BY <1>1, <1>4 DEF RetentionCommit, DeletionCommitted, Skip, storeVars, envVars
<1> QED BY <1>1, <1>2, <1>3, <1>4 DEF Maintenance, RetentionStart, RetentionEnd, CleanupStat,
           CleanupRemove

LEMMA LogStep ==
  ASSUME TypeInv, [Next]_vars
  PROVE  SameLogs \/ SegmentAdded \/ DeletionPlanned \/ DeletionFailed \/ DeletionCommitted
<1>1. CASE Ingest /\ UNCHANGED <<opsVars, aged, backupVars, envVars>>
  BY <1>1, IngestLogs
<1>2. CASE Maintenance /\ UNCHANGED envVars
  BY <1>2, MaintenanceLogs
<1>3. CASE Restart
  <2>1. CASE RebuildMediaProjections
    <3>1. \A i \in SegmentId : segStatus[i] \in 0 .. Len(stateEvents[i]) /\ Len(stateEvents[i]) \in Nat
      BY DEF TypeInv, LedgerOK, LedgerTypeOK, SegmentId
    <3> QED BY <2>1, <3>1 DEF RebuildMediaProjections, SameLogs
  <2> QED BY <1>3, <2>1, UnchangedLogs DEF Restart, ledgerVars
<1>4. CASE Crash \/ World \/ UNCHANGED vars
  BY <1>4, UnchangedLogs DEF Crash, World, Sources, WriteMedia, WriteSidecar, Retire, Publish,
     Degrade, Recover, AgeSegment, AgeStaging, TakeBackup, LoseBackup, Damage, coreVars,
     ledgerVars, vars
<1> QED BY <1>1, <1>2, <1>3, <1>4 DEF Next

-----------------------------------------------------------------------------
(* The same, segment by segment.                                            *)

\* A segment already there keeps its row, and its log unless it is deleted.
KeptRow(i) ==
  /\ segments'[i] = segments[i] /\ stateEvents'[i] = stateEvents[i]
  /\ segStatus[i] <= segStatus'[i]

LEMMA AppendedRow ==
  ASSUME NEW S, NEW q \in Seq(S), NEW e, NEW i \in 1 .. Len(q)
  PROVE  Append(q, e)[i] = q[i]
OBVIOUS

LEMMA AddedRows ==
  ASSUME TypeInv, SegmentAdded
  PROVE  LET k == Len(segments) + 1 IN
         /\ SegmentId' = SegmentId \cup {k} /\ k \notin SegmentId
         /\ \A i \in SegmentId : KeptRow(i) /\ retention'[i] = retention[i]
         /\ segments'[k].sha = sc.sha /\ stateEvents'[k] = <<"accepted">>
<1> DEFINE k == Len(segments) + 1
           row == [ident |-> sc.ident, sha |-> sc.sha, meta |-> sc.meta]
<1>1. /\ segments \in Seq(Segment) /\ stateEvents \in Seq(Seq(StateName))
      /\ segStatus \in Seq(Nat) /\ retention \in Seq({"none", "planned", "failed", "deleted"})
      /\ Len(stateEvents) = Len(segments) /\ Len(segStatus) = Len(segments)
      /\ Len(retention) = Len(segments) /\ Len(segments) \in Nat
      /\ SegmentId = 1 .. Len(segments)
  BY DEF TypeInv, LedgerOK, LedgerTypeOK, SegmentId
<1>2. /\ segments' = Append(segments, row) /\ stateEvents' = Append(stateEvents, <<"accepted">>)
      /\ retention' = Append(retention, "none") /\ segStatus' = Append(segStatus, 0)
  BY DEF SegmentAdded
<1> HIDE DEF row
<1>3. SegmentId' = 1 .. k /\ segments'[k] = row
  BY <1>1, <1>2 DEF SegmentId
<1>4. stateEvents'[k] = <<"accepted">>
  BY <1>1, <1>2
<1>5. \A i \in SegmentId : KeptRow(i) /\ retention'[i] = retention[i]
  <2> SUFFICES ASSUME NEW i \in SegmentId PROVE KeptRow(i) /\ retention'[i] = retention[i]
    OBVIOUS
  <2>1. segments'[i] = segments[i] /\ stateEvents'[i] = stateEvents[i] /\ retention'[i] = retention[i]
    BY <1>1, <1>2, AppendedRow
  <2>2. segStatus'[i] = segStatus[i] /\ segStatus[i] \in Nat
    BY <1>1, <1>2, AppendedRow
  <2> QED BY <2>1, <2>2 DEF KeptRow
<1>6. row.sha = sc.sha
  BY DEF row
<1> QED BY <1>1, <1>3, <1>4, <1>5, <1>6

\* A retention event changes the latest status of one segment and nothing else.
LEMMA EventRows ==
  ASSUME TypeInv, NEW i \in SegmentId, NEW status, AppendRetentionEvent(i, status)
  PROVE  /\ SegmentId' = SegmentId /\ retention'[i] = status
         /\ \A j \in SegmentId : KeptRow(j) /\ (j # i => retention'[j] = retention[j])
<1>1. \A j \in SegmentId : segStatus[j] \in Nat /\ j \in DOMAIN retention
  BY DEF TypeInv, LedgerOK, LedgerTypeOK, SegmentId
<1> QED BY <1>1 DEF AppendRetentionEvent, SegmentId, KeptRow

\* A deletion completes the log of its segment and shows.
LEMMA CommittedRows ==
  ASSUME TypeInv, LogShape, NEW i \in SegmentId, CommitRetentionDeletion(i)
  PROVE  /\ SegmentId' = SegmentId /\ UNCHANGED segments
         /\ Len(stateEvents'[i]) = 2 /\ stateEvents'[i][1] = "accepted"
         /\ stateEvents'[i][2] = "retention_deleted"
         /\ segStatus'[i] = 2
         /\ \A j \in SegmentId \ {i} : KeptRow(j) /\ retention'[j] = retention[j]
<1> DEFINE known == \E n \in DOMAIN stateEvents[i] : stateEvents[i][n] = "retention_deleted"
           log == IF known THEN stateEvents[i] ELSE Append(stateEvents[i], "retention_deleted")
           at == CHOOSE n \in DOMAIN log : log[n] = "retention_deleted"
<1>1. /\ stateEvents[i] \in Seq(StateName) /\ segStatus[i] \in 0 .. Len(stateEvents[i])
      /\ \A j \in SegmentId : /\ j \in DOMAIN stateEvents /\ j \in DOMAIN segStatus
                              /\ j \in DOMAIN retention /\ segStatus[j] \in Nat
  BY DEF TypeInv, LedgerOK, LedgerTypeOK, SegmentId
<1>2. /\ Len(stateEvents[i]) \in {1, 2} /\ stateEvents[i][1] = "accepted"
      /\ Len(stateEvents[i]) = 2 => stateEvents[i][2] = "retention_deleted"
  BY DEF LogShape
<1>3. log \in Seq(StateName) /\ Len(log) = 2 /\ log[1] = "accepted" /\ log[2] = "retention_deleted"
  <2>1. CASE Len(stateEvents[i]) = 2
    <3>1. known
      BY <1>1, <1>2, <2>1
    <3> QED BY <1>1, <1>2, <2>1, <3>1
  <2>2. CASE Len(stateEvents[i]) = 1
    <3>1. DOMAIN stateEvents[i] = {1}
      BY <1>1, <2>2
    <3>2. ~known
      BY <1>2, <3>1
    <3>3. log = Append(stateEvents[i], "retention_deleted")
      BY <3>2
    <3>4. Append(stateEvents[i], "retention_deleted") \in Seq(StateName)
      BY <1>1 DEF StateName
    <3> QED BY <1>1, <1>2, <2>2, <3>3, <3>4
  <2> QED BY <1>2, <2>1, <2>2
<1>4. /\ stateEvents' = [stateEvents EXCEPT ![i] = log]
      /\ segStatus' = [segStatus EXCEPT ![i] = Newer(i, at)]
      /\ retention' \in {retention, [retention EXCEPT ![i] = "deleted"]}
      /\ UNCHANGED segments
  BY DEF CommitRetentionDeletion
<1> HIDE DEF log
<1>5. at = 2
  <2>1. DOMAIN log = {1, 2}
    BY <1>3
  <2>2. 2 \in DOMAIN log /\ log[2] = "retention_deleted"
    BY <1>3, <2>1
  <2>3. at \in DOMAIN log /\ log[at] = "retention_deleted"
    BY <2>2
  <2> QED BY <1>3, <2>1, <2>3
<1> HIDE DEF at
<1>6. Newer(i, at) = 2
  <2>1. segStatus[i] \in Nat /\ segStatus[i] <= 2
    <3>1. ASSUME NEW m, NEW n \in {1, 2}, m \in 0 .. n PROVE m \in Nat /\ m <= 2
      BY <3>1
    <3>2. segStatus[i] \in 0 .. Len(stateEvents[i])
      BY <1>1
    <3> QED BY <1>2, <3>1, <3>2
  <2> QED BY <1>5, <2>1 DEF Newer
<1>7. stateEvents'[i] = log /\ segStatus'[i] = 2
  BY <1>1, <1>4, <1>6
<1>8. \A j \in SegmentId \ {i} : KeptRow(j) /\ retention'[j] = retention[j]
  BY <1>1, <1>4 DEF KeptRow
<1>9. SegmentId' = SegmentId
  BY <1>4 DEF SegmentId
<1> QED BY <1>3, <1>4, <1>7, <1>8, <1>9

-----------------------------------------------------------------------------
(* Preservation.                                                            *)

\* Every segment of the next state is an old one that kept its row, a new one
\* with its acceptance alone, or the one just deleted.
LEMMA RowStep ==
  ASSUME TypeInv, RetentionInv, [Next]_vars, NEW i \in SegmentId'
  PROVE  \/ i \in SegmentId /\ KeptRow(i)
         \/ SegmentAdded /\ i \notin SegmentId /\ stateEvents'[i] = <<"accepted">>
            /\ segments'[i].sha = sc.sha
         \/ /\ i \in SegmentId /\ segments'[i] = segments[i]
            /\ Len(stateEvents'[i]) = 2 /\ stateEvents'[i][1] = "accepted"
            /\ stateEvents'[i][2] = "retention_deleted" /\ segStatus'[i] = 2
<1>1. CASE SameLogs
  BY <1>1 DEF SameLogs, KeptRow, SegmentId
<1>2. CASE SegmentAdded
  BY <1>2, AddedRows
<1>3. CASE DeletionPlanned
  BY <1>3, EventRows DEF DeletionPlanned
<1>4. CASE DeletionFailed
  <2>1. victim \in SegmentId
    BY <1>4 DEF DeletionFailed, TypeInv, OpsLocalsOK
  <2> QED BY <1>4, <2>1, EventRows DEF DeletionFailed
<1>5. CASE DeletionCommitted
  <2>1. victim \in SegmentId
    BY <1>5 DEF DeletionCommitted, TypeInv, OpsLocalsOK
  <2> QED BY <1>5, <2>1, CommittedRows DEF DeletionCommitted, RetentionInv
<1> QED BY <1>1, <1>2, <1>3, <1>4, <1>5, LogStep

LEMMA ShapeKept ==
  ASSUME TypeInv, RetentionInv, [Next]_vars
  PROVE  LogShape' /\ DeletionSeen'
<1> SUFFICES ASSUME NEW i \in SegmentId'
             PROVE  /\ Len(stateEvents'[i]) \in {1, 2}
                    /\ stateEvents'[i][1] = "accepted"
                    /\ Len(stateEvents'[i]) = 2 =>
                         stateEvents'[i][2] = "retention_deleted" /\ segStatus'[i] = 2
  BY DEF LogShape, DeletionSeen
<1>1. CASE i \in SegmentId /\ KeptRow(i)
  <2>1. segStatus'[i] \in 0 .. Len(stateEvents'[i])
    <3>1. TypeInv'
      BY TypeInvStep
    <3> QED BY <3>1 DEF TypeInv, LedgerOK, LedgerTypeOK
  <2>2. /\ Len(stateEvents[i]) \in {1, 2} /\ stateEvents[i][1] = "accepted"
        /\ Len(stateEvents[i]) = 2 => stateEvents[i][2] = "retention_deleted" /\ segStatus[i] = 2
    BY <1>1 DEF RetentionInv, LogShape, DeletionSeen
  <2>3. stateEvents'[i] = stateEvents[i] /\ segStatus[i] <= segStatus'[i]
    BY <1>1 DEF KeptRow
  <2>4. Len(stateEvents[i]) = 2 => segStatus'[i] = 2
    BY <2>1, <2>2, <2>3
  <2> QED BY <2>2, <2>3, <2>4
<1>2. CASE stateEvents'[i] = <<"accepted">>
  BY <1>2
<1> QED BY <1>1, <1>2, RowStep

LEMMA OneKept ==
  ASSUME TypeInv, RetentionInv, [Next]_vars
  PROVE  OnePerBody'
<1> SUFFICES ASSUME NEW i \in SegmentId', NEW j \in SegmentId', segments'[i].sha = segments'[j].sha
             PROVE  i = j
  BY DEF OnePerBody
<1>1. CASE SegmentAdded
  <2>1. \A k \in SegmentId : segments[k].sha # sc.sha
    BY <1>1 DEF SegmentAdded, Unknown, WithBody
  <2> QED BY <1>1, <2>1, AddedRows DEF KeptRow, RetentionInv, OnePerBody
<1>2. CASE ~SegmentAdded
  BY <1>2, RowStep DEF KeptRow, RetentionInv, OnePerBody
<1> QED BY <1>1, <1>2

\* A body that goes missing is the one retention removes.
LEMMA GoneStep ==
  ASSUME TypeInv, EvidenceInv, [Next]_vars, NEW h \in Content, Gone(h)'
  PROVE  Gone(h) \/ (opc = "remove" /\ opc' # "remove" /\ h = segments[victim].sha)
<1>1. accepted \in [Content -> Body] /\ \A x \in Sidecar : x.sha \in Content /\ x.sha # NoFile
  BY LedgerAssumption DEF TypeInv, StoreTypeOK, SidecarFields
<1>2. CASE RetentionRemove /\ UNCHANGED envVars
  BY <1>1, <1>2 DEF RetentionRemove, Skip, Gone, envVars
<1>3. CASE Ingest /\ UNCHANGED <<opsVars, aged, backupVars, envVars>>
  BY <1>1, <1>3, IngestFiles DEF Gone, envVars
<1>4. CASE Damage
  BY <1>1, <1>4 DEF Damage, Gone
<1>5. CASE UNCHANGED <<accepted, damaged>>
  BY <1>5 DEF Gone
<1>6. ~(RetentionRemove /\ UNCHANGED envVars)
        /\ ~(Ingest /\ UNCHANGED <<opsVars, aged, backupVars, envVars>>) /\ ~Damage
        => UNCHANGED <<accepted, damaged>>
  <2>1. CASE Maintenance /\ ~RetentionRemove /\ UNCHANGED envVars
    BY <2>1 DEF Maintenance, RetentionStart, RetentionPlan, RetentionCommit,
       RetentionEnd, CleanupStat, CleanupRemove, storeVars, envVars
  <2>2. CASE Restart \/ Crash
    BY <2>2 DEF Restart, Crash, storeVars, envVars
  <2>3. CASE World /\ ~Damage
    BY <2>3 DEF World, Sources, WriteMedia, WriteSidecar, Retire, Publish, Degrade, Recover,
       AgeSegment, AgeStaging, TakeBackup, LoseBackup, coreVars, storeVars, envVars
  <2>4. CASE UNCHANGED vars
    BY <2>4 DEF vars, storeVars, envVars
  <2> QED BY <2>1, <2>2, <2>3, <2>4 DEF Next
<1> QED BY <1>2, <1>3, <1>4, <1>5, <1>6

LEMMA BodiesAreContent ==
  ASSUME TypeInv
  PROVE  \A i \in SegmentId : segments[i].sha \in Content
<1>1. segments \in Seq(Segment) /\ SegmentId = 1 .. Len(segments)
  BY DEF TypeInv, LedgerOK, LedgerTypeOK, SegmentId
<1>2. \A i \in SegmentId : segments[i] \in Segment
  BY <1>1, ElementOfSeq
<1> QED BY <1>2 DEF Segment

LEMMA ExplainedKept ==
  ASSUME TypeInv, EvidenceInv, RetentionInv, [Next]_vars
  PROVE  GoneExplained'
<1> SUFFICES ASSUME NEW i \in SegmentId', Gone(segments[i].sha)'
             PROVE  retention'[i] = "planned" \/ Len(stateEvents'[i]) = 2
  BY DEF GoneExplained
<1> DEFINE explained(j) == retention[j] = "planned" \/ Len(stateEvents[j]) = 2
<1>1. ASSUME i \in SegmentId, segments'[i] = segments[i]
      PROVE  explained(i)
  <2>1. PICK h \in Content : h = segments[i].sha /\ Gone(h)'
    BY <1>1, BodiesAreContent DEF Gone
  <2>2. CASE Gone(h)
    BY <1>1, <2>1, <2>2 DEF RetentionInv, GoneExplained
  <2>3. CASE opc = "remove" /\ h = segments[victim].sha
    <3>1. victim \in SegmentId /\ retention[victim] = "planned"
      BY <2>3 DEF RetentionInv, RemovePlanned, TypeInv, OpsLocalsOK
    <3> QED BY <1>1, <2>1, <2>3, <3>1 DEF RetentionInv, OnePerBody
  <2> QED BY <2>1, <2>2, <2>3, GoneStep
<1>2. CASE SameLogs
  BY <1>1, <1>2 DEF SameLogs, SegmentId
<1>3. CASE SegmentAdded
  <2>1. CASE i \in SegmentId
    BY <1>1, <1>3, <2>1, AddedRows DEF KeptRow
  <2>2. CASE i \notin SegmentId
    <3>1. segments'[i].sha = sc.sha /\ UNCHANGED <<accepted, damaged>>
      BY <1>3, <2>2, AddedRows DEF SegmentAdded
    <3>2. ~Gone(sc.sha)
      BY <1>3 DEF SegmentAdded, RetentionInv, NewInstalled
    <3> QED BY <3>1, <3>2 DEF Gone
  <2> QED BY <2>1, <2>2
<1>4. CASE DeletionPlanned
  <2>1. PICK k \in SegmentId : AppendRetentionEvent(k, "planned")
    BY <1>4 DEF DeletionPlanned
  <2> QED BY <1>1, <2>1, EventRows DEF KeptRow
<1>5. CASE DeletionFailed
  <2>1. victim \in SegmentId /\ ~Gone(segments[victim].sha) /\ UNCHANGED <<accepted, damaged>>
    BY <1>5 DEF DeletionFailed, TypeInv, OpsLocalsOK, RetentionInv, RemovePlanned
  <2>2. /\ i \in SegmentId /\ segments'[i] = segments[i] /\ stateEvents'[i] = stateEvents[i]
        /\ i # victim => retention'[i] = retention[i]
    BY <1>5, <2>1, EventRows DEF DeletionFailed, KeptRow
  <2>3. i # victim
    BY <2>1, <2>2 DEF Gone
  <2> QED BY <1>1, <2>2, <2>3
<1>6. CASE DeletionCommitted
  <2>1. victim \in SegmentId
    BY <1>6 DEF DeletionCommitted, TypeInv, OpsLocalsOK
  <2> QED BY <1>1, <1>6, <2>1, CommittedRows DEF DeletionCommitted, RetentionInv, KeptRow
<1> QED BY <1>2, <1>3, <1>4, <1>5, <1>6, LogStep

LEMMA InstalledKept ==
  ASSUME TypeInv, EvidenceInv, RetentionInv, [Next]_vars
  PROVE  NewInstalled'
<1> SUFFICES ASSUME pc' = "accept", Unknown(sc)' PROVE ~Gone(sc.sha)'
  BY DEF NewInstalled
<1>1. CASE Ingest
  <2>1. ReuseAccepted \/ InstallAccepted
    BY <1>1, ReachAccept
  <2>2. sc \in Sidecar
    BY <2>1 DEF TypeInv, WorkerLocalsOK, Parsed, Processing, Label, ReuseAccepted, InstallAccepted
  <2>3. sc.sha \in Content /\ sc.sha # NoFile /\ accepted \in [Content -> Body]
    BY <2>2, LedgerAssumption DEF SidecarFields, TypeInv, StoreTypeOK
  <2>4. UNCHANGED sc
    BY <2>1 DEF ReuseAccepted, InstallAccepted, Finish, Return
  <2>5. UNCHANGED accepted => accepted[sc.sha] = sc.sha
    BY <2>1, <2>3, LedgerAssumption DEF ReuseAccepted, InstallAccepted, Finish, Return
  <2> QED BY <1>1, <2>3, <2>4, <2>5, IngestFiles DEF Gone
<1>2. CASE ~Ingest
  <2>1. UNCHANGED workerVars
    BY <1>2 DEF Next, Maintenance, RetentionStart, RetentionPlan, RetentionRemove, RetentionCommit,
     RetentionEnd, CleanupStat, CleanupRemove, Restart, Crash, World, Sources, WriteMedia,
     WriteSidecar, Retire, Publish, Degrade, Recover, AgeSegment, AgeStaging, TakeBackup,
     LoseBackup, Damage, coreVars, vars, workerVars
  <2>2. UNCHANGED <<segments, claims, pc, sc>>
    BY <1>2, <2>1, OthersBindNothing DEF workerVars
  <2>3. Unknown(sc) /\ ~Gone(sc.sha)
    BY <2>2 DEF Unknown, ClaimedBy, WithBody, SegmentId, RetentionInv, NewInstalled
  <2>4. sc \in Sidecar
    BY <2>2 DEF TypeInv, WorkerLocalsOK, Parsed, Processing, Label
  <2>5. PICK h \in Content : h = sc.sha
    BY <2>4, LedgerAssumption DEF SidecarFields
  <2>6. opc = "remove" => victim \in SegmentId /\ segments[victim].sha # h
    BY <2>3, <2>5 DEF Unknown, WithBody, TypeInv, OpsLocalsOK
  <2>7. ~Gone(h)'
    BY <2>3, <2>5, <2>6, GoneStep
  <2> QED BY <2>2, <2>5, <2>7 DEF Gone
<1> QED BY <1>1, <1>2

LEMMA PlannedKept ==
  ASSUME TypeInv, EvidenceInv, RetentionInv, [Next]_vars
  PROVE  RemovePlanned'
<1> SUFFICES ASSUME opc' = "remove"
             PROVE  retention'[victim'] = "planned" /\ ~Gone(segments[victim].sha)'
  BY DEF RemovePlanned
<1>1. CASE DeletionPlanned
  <2>1. PICK i \in SegmentId :
          /\ AppendRetentionEvent(i, "planned") /\ accepted[segments[i].sha] = segments[i].sha
          /\ UNCHANGED <<accepted, damaged>> /\ victim' = i
    BY <1>1 DEF DeletionPlanned
  <2>2. segments[i].sha # NoFile
    BY BodiesAreContent, LedgerAssumption
  <2>3. retention'[i] = "planned" /\ segments'[i] = segments[i]
    BY <2>1, EventRows DEF KeptRow
  <2> QED BY <2>1, <2>2, <2>3 DEF Gone
<1>2. CASE ~DeletionPlanned
  <2>1. SameLogs \/ SegmentAdded
    BY <1>2, LogStep DEF DeletionFailed, DeletionCommitted
  <2>2. UNCHANGED <<opc, victim>>
    <3>1. CASE RetentionPlan /\ UNCHANGED envVars
      BY <1>2, <3>1, PlanLogs
    <3>2. CASE ~(RetentionPlan /\ UNCHANGED envVars)
      BY <3>2 DEF Next, Maintenance, RetentionStart, RetentionRemove, RetentionCommit,
         RetentionEnd, CleanupStat, CleanupRemove, Restart, Crash, World, Sources, WriteMedia,
         WriteSidecar, Retire, Publish, Degrade, Recover, AgeSegment, AgeStaging, TakeBackup,
         LoseBackup, Damage, coreVars, vars, opsVars, Skip
    <3> QED BY <3>1, <3>2
  <2>3. PICK i \in SegmentId : i = victim /\ retention[i] = "planned" /\ ~Gone(segments[i].sha)
    BY <2>2 DEF RetentionInv, RemovePlanned, TypeInv, OpsLocalsOK
  <2>4. segments'[i] = segments[i] /\ retention'[i] = retention[i]
    BY <2>1, AddedRows DEF SameLogs, KeptRow
  <2>5. PICK h \in Content : h = segments[i].sha
    BY BodiesAreContent
  <2>6. ~Gone(h)'
    BY <2>2, <2>3, <2>5, GoneStep
  <2> QED BY <2>2, <2>3, <2>4, <2>5, <2>6 DEF Gone
<1> QED BY <1>1, <1>2

LEMMA RetentionInvStep ==
  TypeInv /\ EvidenceInv /\ RetentionInv /\ [Next]_vars => RetentionInv'
BY ShapeKept, OneKept, ExplainedKept, InstalledKept, PlannedKept DEF RetentionInv

LEMMA RetentionInvariant == Spec => []RetentionInv
BY RetentionInvInit, RetentionInvStep, TypeInvariant, EvidenceInvariant, PTL DEF Spec

-----------------------------------------------------------------------------
(* Theorems.                                                                *)

\* applyMediaSegmentProjection never brings a deleted segment back: the worker may
\* project the state event it read before the deletion as late as it likes.
THEOREM DeletionStays == Spec => []DeletionVisible
<1>1. TypeInv /\ RetentionInv => DeletionVisible
  <2> SUFFICES ASSUME TypeInv, RetentionInv, NEW i \in SegmentId, Deleted(i)
               PROVE  StatusOf(i) = "retention_deleted"
    BY DEF DeletionVisible
  <2>1. Len(stateEvents[i]) = 2 /\ stateEvents[i][2] = "retention_deleted" /\ segStatus[i] = 2
    BY DEF RetentionInv, LogShape, DeletionSeen, Deleted
  <2> QED BY <2>1 DEF StatusOf
<1> QED BY <1>1, TypeInvariant, RetentionInvariant, PTL

\* The plan is written before the file is removed and outlives everything until
\* the deletion is committed, so a pass cut off in between can be completed.
THEOREM LossExplained == Spec => []MissingExplained
<1>1. TypeInv /\ RetentionInv => MissingExplained
  <2> SUFFICES ASSUME TypeInv, RetentionInv, NEW i \in Listed, Gone(segments[i].sha)
               PROVE  retention[i] = "planned"
    BY DEF MissingExplained, RetentionDeletionPlanned, Gone
  <2>1. i \in SegmentId /\ StatusOf(i) \in {"accepted", "restored"}
    BY DEF Listed
  <2>2. Len(stateEvents[i]) = 2 => StatusOf(i) = "retention_deleted"
    BY <2>1 DEF RetentionInv, LogShape, DeletionSeen, StatusOf
  <2> QED BY <2>1, <2>2 DEF RetentionInv, GoneExplained
<1> QED BY <1>1, TypeInvariant, RetentionInvariant, PTL
=============================================================================
