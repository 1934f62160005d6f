------------------------------ MODULE Recorder ------------------------------
(***************************************************************************)
(* The recorder core's media path as a whole: the ingest worker and the    *)
(* maintenance goroutine over one ledger and one storage tree, the process *)
(* that crashes and restarts, and the outside world: sources that publish, *)
(* rewrite and retire files, the backup script, the disk, ffprobe, and     *)
(* damage to managed files.                                                *)
(***************************************************************************)
EXTENDS Retention

CONSTANTS
  DiskLevels,   \* levels the disk may fall to
  MaxEdits,     \* bound: writes by sources to their inbox files
  MaxOutages,   \* bound: times the disk or ffprobe goes bad
  MaxCrashes,   \* bound: process exits
  MaxDamage     \* bound: managed files hit from outside

ASSUME RecorderAssumption ==
  /\ DiskLevels \subseteq Level
  /\ MaxEdits \in Nat /\ MaxOutages \in Nat /\ MaxCrashes \in Nat /\ MaxDamage \in Nat

VARIABLES
  edits, outages, crashes,   \* how much of each bound is used
  damaged                    \* bodies whose managed file was hit from outside

envVars == <<edits, outages, crashes, damaged>>
vars == <<ledgerVars, inboxVars, storeVars, check, gateVars, faults, workerVars,
          opsVars, aged, backupVars, envVars>>

TypeOK ==
  /\ LedgerTypeOK /\ InboxTypeOK /\ StoreTypeOK /\ WorkerTypeOK /\ RetentionTypeOK
  /\ edits \in Nat /\ outages \in Nat /\ crashes \in Nat
  /\ damaged \subseteq Content

Init ==
  /\ LedgerInit /\ IngestInit /\ RetentionInit
  /\ edits = 0 /\ outages = 0 /\ crashes = 0 /\ damaged = {}

-----------------------------------------------------------------------------
(* The process.                                                             *)

\* Initialize: without ffprobe, database space or a rebuilt projection the
\* module stays off until the next start of the process.
Restart ==
  /\ pc = "down"
  /\ \E r \in {"ok", "refused"} :
       /\ StoreCall(r)
       /\ r = "refused" => prober = "up" /\ CoreWritesAllowed
       /\ IF prober = "up" /\ CoreWritesAllowed /\ r = "ok"
          THEN pc' = "idle" /\ RebuildMediaProjections
          ELSE pc' = "off" /\ UNCHANGED ledgerVars
  /\ UNCHANGED <<inboxVars, storeVars, check, gateVars, opsVars, aged, backupVars, envVars,
                 scanCursor, selected, sc, first, claim, stateId>>

\* The process ends at any point; files and committed rows stay.
Crash ==
  /\ pc # "down" /\ crashes < MaxCrashes
  /\ crashes' = crashes + 1
  /\ pc' = "down" /\ scanCursor' = 0 /\ selected' = {}
  /\ sc' = NoFile /\ first' = NoFile /\ claim' = 0 /\ stateId' = 0
  /\ opc' = "idle" /\ todo' = {} /\ victim' = 0 /\ coverage' = {}
  /\ UNCHANGED <<ledgerVars, inboxVars, storeVars, check, gateVars, faults, aged,
                 backupVars, edits, outages, damaged>>

-----------------------------------------------------------------------------
(* Sources.                                                                 *)

coreVars == <<ledgerVars, storeVars, gateVars, faults, workerVars, opsVars, aged, backupVars>>

WriteMedia(s, c) ==
  /\ edits < MaxEdits /\ edits' = edits + 1
  /\ media' = [media EXCEPT ![s] = [body |-> c, at |-> edits + 1]]
  /\ check' = Stale({s}, {"confirmed", "quarantined"})
  /\ UNCHANGED <<coreVars, sidecar, ready, conf, outages, crashes, damaged>>

WriteSidecar(s, x) ==
  /\ edits < MaxEdits /\ edits' = edits + 1
  /\ sidecar' = [sidecar EXCEPT ![s] = x]
  /\ check' = Stale({s}, {"confirmed", "quarantined"})
  /\ UNCHANGED <<coreVars, media, ready, conf, outages, crashes, damaged>>

\* A source that saw its confirmation may drop its files.
Retire(s) ==
  /\ ready[s] /\ conf[s] # NoFile /\ conf[s].fp = sidecar[s]
  /\ media' = [media EXCEPT ![s] = [body |-> NoFile, at |-> 0]]
  /\ sidecar' = [sidecar EXCEPT ![s] = NoFile]
  /\ conf' = [conf EXCEPT ![s] = NoFile]
  /\ ready' = [ready EXCEPT ![s] = FALSE]
  /\ check' = Stale({s}, {"confirmed", "quarantined"})
  /\ UNCHANGED <<coreVars, envVars>>

\* The name is used again.
Publish(s) ==
  /\ edits < MaxEdits /\ edits' = edits + 1
  /\ ~ready[s]
  /\ ready' = [ready EXCEPT ![s] = TRUE]
  /\ UNCHANGED <<coreVars, check, media, sidecar, conf, outages, crashes, damaged>>

Sources ==
  \E s \in Source :
    \/ \E c \in Content : WriteMedia(s, c)
    \/ \E x \in Sidecar : WriteSidecar(s, x)
    \/ Retire(s) \/ Publish(s)

-----------------------------------------------------------------------------
(* Disk, ffprobe, time, backups, damage.                                    *)

Degrade ==
  /\ outages < MaxOutages /\ outages' = outages + 1
  /\ \/ disk' \in DiskLevels \ {disk} /\ UNCHANGED prober
     \/ prober = "up" /\ prober' = "down" /\ UNCHANGED disk
  /\ UNCHANGED <<ledgerVars, inboxVars, storeVars, check, faults, workerVars, opsVars,
                 aged, backupVars, edits, crashes, damaged>>

Recover ==
  /\ disk # "normal" \/ prober = "down"
  /\ disk' = "normal" /\ prober' = "up"
  /\ UNCHANGED <<ledgerVars, inboxVars, storeVars, check, faults, workerVars, opsVars,
                 aged, backupVars, envVars>>

\* Only retention looks at the age of a segment.
AgeSegment ==
  /\ RetentionEnabled
  /\ \E i \in SegmentId \ aged : aged' = aged \cup {i}
  /\ UNCHANGED <<ledgerVars, inboxVars, storeVars, check, gateVars, faults, workerVars,
                 opsVars, backupVars, envVars>>

\* A leftover passes operations.temp_max_age (hours); a file being written does not.
AgeStaging ==
  /\ \E s \in Source \ stagingOld :
       /\ staging[s] # NoFile
       /\ Cur # s \/ pc \in {"down", "off", "idle", "scan"}
       /\ stagingOld' = stagingOld \cup {s}
  /\ UNCHANGED <<ledgerVars, inboxVars, staging, accepted, quar, check, gateVars, faults,
                 workerVars, opsVars, aged, backupVars, envVars>>

\* A backup that skips bodies it cannot find.
Complete_Lenient(S) == TRUE

\* backup.ps1 gives up when a listed body is missing or does not verify.
Complete(S) == \A i \in S : accepted[segments[i].sha] = segments[i].sha

\* A full backup: the listed bodies are copied and verified, and the marker
\* moves to the new manifest.  Older backups stay readable.
TakeBackup ==
  /\ Complete(Listed)
  /\ LET manifest == {segments[i].sha : i \in Listed} IN
       /\ marker' = manifest
       /\ backups' = backups \cup manifest
  /\ UNCHANGED <<ledgerVars, inboxVars, storeVars, check, gateVars, faults, workerVars,
                 opsVars, aged, envVars>>

\* A backup medium goes bad, though never in the instant between the check of a
\* body and the removal it allowed, and never as the last copy.
LoseBackup ==
  /\ opc # "remove"
  /\ \E h \in backups : accepted[h] = h /\ backups' = backups \ {h}
  /\ UNCHANGED <<ledgerVars, inboxVars, storeVars, check, gateVars, faults, workerVars,
                 opsVars, aged, marker, envVars>>

\* A managed file is corrupted, its size unchanged, or vanishes.
Damage ==
  /\ Cardinality(damaged) < MaxDamage
  /\ \E h \in Content, b \in {NoFile, Torn} :
       /\ accepted[h] # NoFile
       /\ accepted' = [accepted EXCEPT ![h] = b]
       /\ damaged' = damaged \cup {h}
       /\ check' = Stale(Stamping(h), {"confirmed"})
  /\ UNCHANGED <<ledgerVars, inboxVars, staging, stagingOld, quar, gateVars, faults,
                 workerVars, opsVars, aged, backupVars, edits, outages, crashes>>

World == Sources \/ Degrade \/ Recover \/ AgeSegment \/ AgeStaging
           \/ TakeBackup \/ LoseBackup \/ Damage

Next ==
  \/ Ingest /\ UNCHANGED <<opsVars, aged, backupVars, envVars>>
  \/ Maintenance /\ UNCHANGED envVars
  \/ Restart \/ Crash
  \/ World

Spec == Init /\ [][Next]_vars
-----------------------------------------------------------------------------
(* Safety.                                                                  *)

Deleted(i) == stateEvents[i] # << >> /\ stateEvents[i][Len(stateEvents[i])] = "retention_deleted"

\* V1_FREEZE_SPEC 118: accepted media is never lost by the recorder.  Whatever
\* the worker, retention, cleanup, a crash or a backup do in any order, every
\* committed segment's body is in accepted/ or in a backup, unless the managed
\* file was hit from outside.
EvidenceSurvives ==
  RequireFullBackup =>
    \A i \in SegmentId :
      LET h == segments[i].sha IN h \in damaged \/ accepted[h] = h \/ h \in backups

\* A file under accepted/<sha> holds that very body: no torn, mixed or wrong copy
\* is ever renamed there by installAccepted.
ManagedFilesIntact ==
  \A h \in Content : h \in damaged \/ accepted[h] \in {h, NoFile}

\* DECISIONS 129: when a listed segment has lost its file and nobody outside
\* touched it, a `planned' event is on record, so that a pass interrupted between
\* os.Remove and its commit can be completed later.
MissingExplained ==
  \A i \in Listed :
    LET h == segments[i].sha
    IN  accepted[h] = NoFile /\ h \notin damaged => RetentionDeletionPlanned(i)

\* Once a deletion is committed no late projection of an older state event (the
\* worker's, read before the deletion) brings the segment back to `accepted'.
DeletionVisible ==
  \A i \in SegmentId : Deleted(i) => StatusOf(i) = "retention_deleted"

\* The claim resolved before the copy was installed still holds when AcceptMedia
\* resolves it again, so the quarantine exit after AcceptMedia is dead code.
AcceptNeverConflicts ==
  pc = "accept" => ResolveMediaClaim(sc.ident, sc.sha, sc.meta).status # "conflict"

\* MEDIA_INGEST 83: a source is skipped by the scan only while its sidecar's
\* identity is committed to the segment its confirmation names; a confirmation
\* left from another database or for another sidecar never counts.
CachedConfirmationSound ==
  \A s \in Source :
    check[s] = "confirmed" =>
      /\ conf[s] # NoFile /\ conf[s].fp = sidecar[s]
      /\ conf[s].seg \in ClaimedBy(sidecar[s].ident)
      /\ conf[s].seg = First(ClaimedBy(sidecar[s].ident))
      /\ segments[conf[s].seg].sha = sidecar[s].sha
      /\ segments[conf[s].seg].meta = sidecar[s].meta

\* A confirmation the worker writes names a committed segment that carries the
\* confirmed sidecar's body and metadata and to which its identity resolves.
ConfirmationTrue ==
  [][\A s \in Source, x \in Sidecar :
       conf'[s] # NoFile /\ conf'[s] # conf[s] /\ conf'[s].fp = x =>
         /\ conf'[s].seg \in DOMAIN segments'
         /\ segments'[conf'[s].seg].sha = x.sha
         /\ segments'[conf'[s].seg].meta = x.meta
         /\ conf'[s].seg = First(ClaimedBy(x.ident))']_vars

\* An identity that has been bound to a segment keeps resolving to that segment,
\* whatever is published later under it or under any other identity.
ClaimStable ==
  [][\A id \in Ident :
       ClaimedBy(id) # {} => First(ClaimedBy(id))' = First(ClaimedBy(id))]_vars

\* A body kept in quarantine for a source and sidecar is never overwritten by a
\* later candidate under the same name (MEDIA_INGEST 118).
QuarantineKept ==
  [][\A q \in Source \X Sidecar :
       quar[q].body # NoFile => quar'[q].body = quar[q].body]_vars

-----------------------------------------------------------------------------
(* Progress.  The worker and maintenance goroutines are scheduled, the       *)
(* supervisor restarts the process, and an outage ends.                      *)

Fairness ==
  /\ WF_vars(Ingest /\ UNCHANGED <<opsVars, aged, backupVars, envVars>>)
  /\ WF_vars(opc # "idle" /\ Maintenance /\ UNCHANGED envVars)
  /\ WF_vars(Restart)
  /\ WF_vars(Recover)

FairSpec == Spec /\ Fairness

\* A complete, consistent, playable source with no rival claim on its identity
\* or body, no corrupt managed file in its way and no quarantine on record.
Honest(s) ==
  LET x == sidecar[s] IN
  /\ ready[s] /\ x # NoFile /\ x.form = "ok"
  /\ media[s].body = x.sha /\ x.size = Size[x.sha] /\ x.size <= MaxSegmentBytes
  /\ x.sha \in Playable
  /\ ResolveMediaClaim(x.ident, x.sha, x.meta).status # "conflict"
  /\ accepted[x.sha] # Torn
  /\ check[s] # "quarantined"

\* MEDIA_INGEST 167: the cursor rotates, so an honest source is eventually
\* confirmed for good however many pending ones sort before it, after finitely
\* many crashes, failed calls, outages and deletions.
HonestConfirmed ==
  \A s \in Source : <>[](Honest(s) => check[s] = "confirmed" \/ pc = "off")

\* MEDIA_INGEST 83 and 85: when the managed file of an honest source goes missing,
\* by retention or from outside, the cached confirmation stops counting and the
\* body is installed again from the source.
BodyRestored ==
  \A s \in Source :
    <>[](Honest(s) => accepted[sidecar[s].sha] = sidecar[s].sha \/ pc = "off")

\* MEDIA_INGEST 85: a projection that missed a committed ingest fact catches up
\* by retry for every source still in rotation, and at the latest by a restart.
ProjectionCatchesUp ==
  \A s \in Source :
    []<>(ready[s] /\ check[s] # "confirmed" /\ pc # "off" => ingestStatus[s] = lastEvent[s])

-----------------------------------------------------------------------------
(* What the documents say and the code does not do.                         *)

\* OPERATIONS 48: media whose source is not confirmed is not deleted.
UnconfirmedKept ==
  [][\A s \in Source, i \in SegmentId :
       /\ opc = "remove" /\ victim = i
       /\ accepted[segments[i].sha] # NoFile /\ accepted'[segments[i].sha] = NoFile
       /\ lastEvent[s].seg = i
       => conf[s] # NoFile \/ ~ready[s]]_vars

\* MEDIA_INGEST 118: a source is looked at again as soon as it changed, so the
\* verdict remembered for a quarantined source is about the body that lies there.
\* (The stamps are taken after the verdict: a source rewritten while it was being
\* copied or judged is never looked at again.)
VerdictCurrent ==
  \A s \in Source :
    check[s] = "quarantined" => quar[<<s, sidecar[s]>>].body = media[s].body

-----------------------------------------------------------------------------
(* The promise about media, as this composition keeps it.                   *)

BoundTo(id) ==
  IF ClaimedBy(id) = {} THEN NoFile
  ELSE LET i == First(ClaimedBy(id)) IN [body |-> segments[i].sha, meta |-> segments[i].meta]

Promise ==
  INSTANCE Vault WITH
    Body <- Content, Unbound <- NoFile,
    binding <- [id \in Ident |-> BoundTo(id)],
    managed <- {h \in Content : accepted[h] = h},
    backedUp <- backups, harmed <- damaged

\* Where full backups are required, every step of the worker, of maintenance, of a
\* restart and of the world around them is a step of the vault: identities are
\* bound once, to bodies that are there, and only what a backup holds is dropped,
\* although the binding, the files and the backups change in different steps of
\* different processes.
VaultKept == Promise!Spec
=============================================================================
