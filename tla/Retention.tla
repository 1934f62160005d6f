----------------------------- MODULE Retention -----------------------------
(***************************************************************************)
(* The maintenance goroutine (internal/operations/manager.go): retention   *)
(* of managed media under disk pressure and cleanup of abandoned staging   *)
(* files.  Run serves its timers one at a time, so a retention pass and a  *)
(* cleanup pass never overlap, but both interleave with the ingest worker. *)
(***************************************************************************)
EXTENDS MediaIngest

CONSTANTS
  RetentionEnabled,    \* retention.enabled
  RequireFullBackup,   \* retention.require_full_backup
  MaxDeletesPerRun     \* retention.max_deletes_per_run

ASSUME RetentionAssumption ==
  /\ RetentionEnabled \in BOOLEAN /\ RequireFullBackup \in BOOLEAN
  /\ MaxDeletesPerRun \in Nat \ {0}

VARIABLES
  opc,       \* label of the maintenance goroutine
  todo,      \* candidates of the pass not yet looked at
  victim,    \* the segment being deleted, or the source whose staging file is
  coverage,  \* bodies the backup manifest listed when the pass began
  aged,      \* segments older than retention.minimum_age
  marker,    \* manifest of latest-full.json: the bodies it lists, or NoFile
  backups    \* bodies that can be read back from a backup

opsVars    == <<opc, todo, victim, coverage>>
backupVars == <<marker, backups>>

RetentionTypeOK ==
  /\ opc \in {"idle", "pass", "remove", "commit", "unlink"}
  /\ todo \subseteq Nat /\ victim \in Nat
  /\ coverage \subseteq Content
  /\ aged \subseteq Nat
  /\ marker = NoFile \/ marker \subseteq Content
  /\ backups \subseteq Content

RetentionInit ==
  /\ opc = "idle" /\ todo = {} /\ victim = 0 /\ coverage = {}
  /\ aged = {} /\ marker = NoFile /\ backups = {}

\* The MaxDeletesPerRun oldest listed segments past the minimum age.
RetentionCandidates ==
  LET old == Listed \cap aged
  IN  {i \in old : Cardinality({j \in old : j < i}) < MaxDeletesPerRun}

\* Move on to the next candidate.
Skip(i) == opc' = "pass" /\ todo' = {j \in todo : j > i} /\ victim' = 0 /\ UNCHANGED coverage

\* RetentionOnce up to its candidate query: only with retention on, media
\* writes stopped by the disk gate, and a readable full-backup manifest.
RetentionStart ==
  /\ opc = "idle" /\ pc # "down"
  /\ RetentionEnabled /\ ~MediaAllowed
  /\ RequireFullBackup => marker # NoFile
  /\ coverage' = IF RequireFullBackup THEN marker ELSE {}
  /\ todo' = RetentionCandidates
  /\ opc' = "pass" /\ victim' = 0
  /\ UNCHANGED <<ledgerVars, inboxVars, storeVars, check, gateVars, faults, workerVars,
                 aged, backupVars>>

RetentionEnd ==
  /\ opc = "pass" /\ todo = {}
  /\ opc' = "idle" /\ coverage' = {} /\ UNCHANGED <<todo, victim>>
  /\ UNCHANGED <<ledgerVars, inboxVars, storeVars, check, gateVars, faults, workerVars,
                 aged, backupVars>>

\* The manifest's word for it, without opening the backup body.
BackedUp_ManifestOnly(h) == RequireFullBackup => h \in coverage

\* Listed in the manifest, and the body in the backup verifies.
BackedUp(h) == RequireFullBackup => h \in coverage /\ h \in backups

\* Checks on one candidate, then `planned' before anything is removed; a body
\* already gone under an earlier plan only needs its commit.
RetentionPlan ==
  /\ opc = "pass" /\ todo # {}
  /\ LET i == First(todo)
         h == segments[i].sha
         gone == BackedUp(h) /\ accepted[h] = NoFile /\ RetentionDeletionPlanned(i)
         due  == BackedUp(h) /\ accepted[h] = h
     IN  \/ /\ gone
            /\ opc' = "commit" /\ victim' = i /\ UNCHANGED <<todo, coverage>>
            /\ UNCHANGED <<ledgerVars, faults>>
         \/ /\ due
            /\ AppendRetentionEvent(i, "planned")
            /\ opc' = "remove" /\ victim' = i /\ UNCHANGED <<todo, coverage>>
            /\ UNCHANGED faults
         \/ /\ gone \/ due => faults < MaxFaults   \* a query or the append failed
            /\ faults' = IF gone \/ due THEN faults + 1 ELSE faults
            /\ Skip(i)
            /\ UNCHANGED ledgerVars
  /\ UNCHANGED <<inboxVars, storeVars, check, gateVars, workerVars, aged, backupVars>>

\* os.Remove; a failure is recorded, which voids the plan, unless that fails too.
RetentionRemove ==
  /\ opc = "remove"
  /\ LET h == segments[victim].sha IN
       \/ /\ accepted' = [accepted EXCEPT ![h] = NoFile]
          /\ check' = Stale(Stamping(h), {"confirmed"})
          /\ opc' = "commit" /\ UNCHANGED <<todo, victim, coverage>>
          /\ UNCHANGED <<ledgerVars, faults>>
       \/ /\ faults < MaxFaults \/ accepted[h] = NoFile
          /\ faults' = IF accepted[h] = NoFile THEN faults ELSE faults + 1
          /\ AppendRetentionEvent(victim, "failed") \/ UNCHANGED ledgerVars
          /\ Skip(victim)
          /\ UNCHANGED <<accepted, check>>
  /\ UNCHANGED <<inboxVars, staging, stagingOld, quar, gateVars, workerVars, aged, backupVars>>

RetentionCommit ==
  /\ opc = "commit"
  /\ \E r \in {"ok", "refused"} :
       /\ StoreCall(r)
       /\ IF r = "ok" THEN CommitRetentionDeletion(victim) ELSE UNCHANGED ledgerVars
  /\ Skip(victim)
  /\ UNCHANGED <<inboxVars, storeVars, check, gateVars, workerVars, aged, backupVars>>

\* CleanupTempOnce, for one entry: its age and its reference are read...
CleanupStat(s) ==
  /\ opc = "idle" /\ pc # "down"
  /\ s \in stagingOld /\ staging[s] # NoFile /\ ~TemporaryPathReferenced(s)
  /\ opc' = "unlink" /\ victim' = s /\ UNCHANGED <<todo, coverage>>
  /\ UNCHANGED <<ledgerVars, inboxVars, storeVars, check, gateVars, faults, workerVars,
                 aged, backupVars>>

\* ...and the file is unlinked later, whatever is there by then.
CleanupRemove ==
  /\ opc = "unlink"
  /\ staging' = [staging EXCEPT ![victim] = NoFile]
  /\ stagingOld' = stagingOld \ {victim}
  /\ opc' = "idle" /\ victim' = 0 /\ UNCHANGED <<todo, coverage>>
  /\ UNCHANGED <<ledgerVars, inboxVars, accepted, quar, check, gateVars, faults, workerVars,
                 aged, backupVars>>

Maintenance ==
  \/ RetentionStart \/ RetentionPlan \/ RetentionRemove \/ RetentionCommit \/ RetentionEnd
  \/ \E s \in Source : CleanupStat(s)
  \/ CleanupRemove
=============================================================================
