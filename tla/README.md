# TLA+ verification of the recorder core

The repository is a local recorder ("recorder core"): one Go process with a SQLite
database that takes events, heartbeats and video segments from collectors, keeps them
as append-only facts, and answers queries about them. This directory holds TLA+
modules that model the core, TLC configurations that check them on small instances,
and TLAPS proofs of the central invariants for all instances. Paths below are relative
to the repository root; `docs/X.md:n` is a line of a document.

    tlc -workers 2 -config evidence.cfg MCRecorder      # a run
    tlapm Recorder_proofs.tla                           # the proofs of a module

## 1. Inventory

| part | state | operations | what is hard |
|---|---|---|---|
| **media ledger** `internal/eventstore/media.go` | segments, claims (identity -> segment), ingest events, state events, two projections | `ResolveMediaClaim`, `AcceptMedia`, `AppendMediaIngestEvent`, rebuild of the projections | projections are written after the commit; claims by identity and by body |
| **media ingest worker** `internal/mediaingest` | inbox files of sources, `staging/`, `accepted/`, `quarantine/`, confirmation files, `media_file_checks` | one scan goroutine: `ScanOnce`, `ProcessReady`, `quarantine`, `confirmationValid` | a dozen calls per file with a crash, a full disk or a rewrite between any two; caches by file signature; fairness of a bounded scan |
| **retention, temporary cleanup** `internal/operations/manager.go`, `eventstore/operations.go` | retention events, backup marker, disk level | `RetentionOnce`, `CleanupTempOnce`, `refreshDiskStatus` | deletes evidence, concurrently with the worker; remove-then-commit |
| **event store and API** `eventstore/event.go`, `heartbeat.go`, `query.go`, `httpapi/handler.go` | `raw_events`, `collector_heartbeats`, write slots | batch POST, paged GET | lost answers and retries, keys under concurrent writers, snapshot paging, slot leaks |
| **ActivityWatch collector** `internal/collectors/activitywatch.go` | checkpoint, poll status | `poll`: pages newest first, stable prefix, batches, duration revisions, checkpoint, heartbeat | the bucket changes between pages; pages clip durations; crash between batch and checkpoint |
| **timeline** `eventstore/timeline.go` | `timeline_entries`, cursor | sync of entries from three tables, pages of a snapshot | ties, two text forms of one time, upserts during paging, budgets counted over overlapping queries |
| **coverage** `internal/coverage`, `eventstore/coverage.go` | `coverage_intervals`, `coverage_projection_state` | `Build`, `RebuildCoverage` | deadlines at boundaries, lookback, one collector's failure, cancellation |
| **configuration** `internal/config` | - | `Load`: defaults, file, environment, resolution, validation | rules that relate settings of different layers |
| **process** `internal/app/server.go`, `cmd/exam-monitor/main.go` | goroutines, their statuses, poll slots, operations tables | start, failed initialisation, polls under two deadlines, disk scan, records, shutdown, exit code | order of shutdown, timeouts, records whose context is gone, state forgotten at a restart |
| **supervision** `scripts/run-supervised.ps1` | supervisor state | start, restart, give up | crash loops |
| **schema migrations** `eventstore/migration.go` | four version ledgers | one transaction per group | start between two groups |
| **releases** `scripts/install.ps1`, `rollback.ps1`, `uninstall.ps1`, `process-control.ps1` | release directories, `current.json`, `previous.json`, scheduled task | install, rollback, uninstall, each with stop, switch, health check and recovery | interruption between two pointer writes, processes that escape the stop, a schema that changes after its check |
| logging, strict JSON, version, flags and one-shot commands, dashboard, certification, build and smoke scripts | - | parsing, formatting, static files, reports | nothing concurrent |

How they interact: sources write files into an inbox and wait for a confirmation file;
the worker moves bodies to `accepted/<sha256>` and commits them; retention and cleanup
remove files the worker knows, gated by the same disk level that gates every write; the
backup script reads the manifest and the bodies and moves a marker that retention
trusts; collectors write to the event tables in the same process as the API; timeline
and coverage are rebuilt on request from all fact tables behind one gate. All database
writes are SQLite transactions, one writer at a time.

What makes it correct: accepted evidence is never lost; a confirmation or an
acknowledgement is true for good; a key or an identity denotes one fact; progress marks
(checkpoint, heartbeat, confirmation cache) never claim more than is stored; derived
views equal what the facts say; and everything that was started ends, whatever failed on
the way.

`PROJECT.json` lists the components, the hazards at their source lines, the runs and the
line each definition translates.

## 2. Modules

    MediaLedger <- MediaIngest <- Retention <- Recorder <- MCRecorder
                   Recorder <- Recorder_proofs <- Claims_proofs <- Retention_proofs
    Vault       <~ Recorder                    (refinement, INSTANCE ... WITH)
    EventLedger <- EventApi <- MCEventApi, EventApi_proofs
    FactLog     <~ EventApi                    (refinement)
    EventLedger <- ActivityWatch <- MCActivityWatch, ActivityWatch_proofs
    Config      <- Service <- MCService, Service_proofs
    Coverage    <- Projection <- MCProjection, Projection_proofs
    Release     <- Lifecycle <- MCLifecycle, Lifecycle_proofs

(`A <- B`: B extends A; `A <~ B`: B implements the abstract specification A.) In every module a definition `X_<Bug>` just before `X` is `X` with
a plausible slip; no specification uses it, and substituting it for `X` shows that the
property named in `PROJECT.json` notices.

**MediaLedger** - the tables of migrations 002/003/005 that concern media, and the store's
operations on them as actions over `segments`, `claims`, `lastEvent`/`ingestStatus`,
`stateEvents`/`segStatus` and `retention`. An identity is (collector, idempotency
key); a body is its hash; metadata is its digest. A transaction is one step; the
projection that follows it is another.

**MediaIngest** - the worker. `pc` is its position, one label per point at which another
actor, a full disk or a crash could tell: `scan`, `ready`, `sidecar`, `stat`, `settle`,
`copy`, `copying`, `probe`, `claim`, `install` or `existing`, `accept`, `project`,
`confirm`, `rename`, the quarantine exits and `remember`. A copy under way (`copying`)
that overlaps a rewrite of the source is `Torn`: a body with the hash of no published
one. `check[s]` says whether the stored signature of a source still matches; every action
that touches a file the signature covers ends the match (`Stale`, `Stamping`). The
selection of a scan is the code's: the `MaxScanEntries` smallest names after the cursor,
then from the start.

**Retention** - `RetentionOnce` (candidates, backup coverage, plan, remove, commit; the
completion of an interrupted deletion) and `CleanupTempOnce` (stat, then remove). One
goroutine serves both timers.

**Recorder** - the composition: process start, failed initialisation and crash; sources that
publish, rewrite and retire; disk and ffprobe going bad and coming back; ageing; the backup
script; loss of a backup; damage to managed files.

**Vault** - what the media path promises, in six actions: bodies are installed, bound to an
identity for good, backed up, dropped when a backup has them, and may be harmed from outside.
`Recorder!VaultKept` says that every step of worker, retention, cleanup, crash and restart is a step
of the vault or none. A body is *managed* when its file under `accepted/` is intact, *backed up* when
the marker's backup has it, *bound* when a claim names its segment; retention's removal maps to
`Drop`, the commit after it to no step.

**EventLedger** - a fact table as the sequence of its rows, with `AppendOne`, `AppendBatch`
and the cursor arithmetic as operators. **EventApi** - clients with one batch each who send
until answered, from admission through the transaction (item by item) to the answer, with
rollbacks, lost answers, the storage gate closing between the two times it is asked, crash
and restart; readers page meanwhile. **FactLog** - what a sender may rely on: a batch takes effect at
once, with the outcome of each item a function of the log before it, and is answered at most once.
`EventApi!PostsAtomic` maps the committed rows and the outcomes of committed requests to it; the
items a transaction inserts one by one, rollbacks and refusals are no steps.

**ActivityWatch** - one collector's poll, of a bucket that `setup` describes (bounds on pages, growth, edits and faults): a page per step while the (external) bucket starts,
extends or edits events and time passes; then batches, revisions, checkpoint and heartbeat.
The server's GET is modelled as the code relies on it: newest first, limited, every event
clipped to the requested range.

**Coverage** - `coverage.Build` as operators: planned intervals, change points with the
deadlines of each fact, classification of a segment, merging; and `Describes`, the reference
it is checked against: the state of each moment by itself, from the definition of
availability, without points or segments. **Projection** - requests behind the projection
gate: one query per step into the budgeted collection, chunked upserts, then a page of the
timeline or the rebuild of one collector after the other; cursors need no gate. A receive time is the
text it is stored as (`ReceivedText`: the time and the unit of its last digit): raw events and media are normalised to nine
digits, a heartbeat's text is copied without its trailing zeros. The key compares texts (`TextBefore`: a text that
ends where the other has more digits is the greater one), and a cursor whose text has not nine digits is refused (`CursorDecodes`, `RefuseCursor`).

**Release** - the processes of the program and the schema they share: listen, `migrate()` one
ledger per step, serve, shut down. A release is the checksums it embeds for the four ledgers
(`Known`) and the minimum of its manifest (`Least`). **Lifecycle** - the scheduled task,
the supervisor (`sup`: `check`, `spawned`, `waiting`) with its state file, and the scripts
(`script.at`: `end`, `stop`, `switch`, `point`, `run`, `live`, `ready`, `record`, and for the
recovery `restore`, `restorePrevious`, `rerun`; `delete` of uninstall). The crash list is what
`From` the first entry inside the window is left of it. `seen`, `cut` and `stray` are
history variables for the properties: crashes inside the window, a script cut off between its two writes of
the pointers (`Halfway`), and something running when the pointer was last switched.

**Config** - `config.Load` as operators over a record of the settings that depend on each other:
`Overrides(env) ++ file ++ Defaults` (the left one wins), resolved and validated as a whole. A setting with limits of its
own only is left out; `broken` names the codes of those outside theirs. Paths are sequences of names.

**Service** - `app.Run` between `main` and the exit code (`stage`: `listen`, `open`, `record`, `serve`,
`drain`, `join`, `return`, `down`), with the goroutines it starts. The other modules say what these do with evidence; here a
poll, a scan or a rebuild has an outcome, and what counts is when it may run (slots, first come first
served, and two deadlines per attempt; `Tick` lets time pass for `waited` and `ran`), what it writes into the operations tables and how it
ends. `ledger` is the last row per source of `fault_events`, `module_state_events`
and `mode_transition_events`, as `QueryDashboardHistory` reads the latter two; `mine` marks rows
of the running process (rows of collectors have a table of their own, since the code prefixes their
source with `activitywatch:`), `lost` the sources whose last append failed (no caller looks at the error).
A request of the coverage page is three steps: rebuild, swap of the flag, rows.

`setup`, in Projection, ActivityWatch and Service, is a constant of a behaviour chosen in `Init`: several small
worlds in one run, each large where the others are small.

Bounds are constants named `Max...` in the modules; counters of the environment (edits,
outages, crashes, faults, damage, trouble, rebuilds) appear in guards only.

## 3. Runs

| run | module | checks | instance | states |
|---|---|---|---|---|
| evidence | MCRecorder | `TypeOK EvidenceSurvives MissingExplained DeletionVisible BodyRestored` (liveness) `VaultKept` (refinement) | one source with every flaw of sidecar and body, retention on, two disk levels, an outage, crash, failed call and damage | 683 k |
| claims | MCRecorder | `AcceptNeverConflicts ManagedFilesIntact CachedConfirmationSound ClaimStable ConfirmationTrue QuarantineKept` | two sources, two bodies, two identities, two metadata digests, confirmations of an earlier database, one rewrite | 1.9 M |
| progress | MCRecorder | `HonestConfirmed ProjectionCatchesUp` (liveness) | two sources, one per scan, outage, crash, failed call | 455 k |
| facts | MCEventApi | `TypeOK AckTrue PagesExact Answered PostsAtomic` (refinement) | three senders (shared keys, equal and other content, an invalid item, a heartbeat), two slots, a reader, two failures | 41 k |
| bucket | MCActivityWatch | `TypeOK CheckpointCovers HeartbeatMeansImported RevisionsHonest Imported` | three buckets: pages of two with a failed request; more events than a poll reads; events that grow after import, one edit, a crash | 262 k |
| timeline | MCProjection | `TypeOK TimelineExact CoverageDescribes` | two readers with pages of one, ties on every part of the key, receive times of both text forms, two clock thresholds; a collector asked for twice, two ranges, three readings of the clock, two windows | 933 k |
| gate | MCProjection | `FailuresIsolated GateFreed` | two collectors and a reader, budgets of one fact, one failure anywhere | 113 k |
| lifecycle | MCLifecycle | `TypeOK WritableMigrated SwitchComplete RollbackTarget CrashLoopBounded SupervisionSettles` (liveness) | two releases, the second with one more media migration; two scripts, two processes, two events (start, crash, shutdown, failed call, interruption, power loss) anywhere | 692 k |
| service | MCService | `PollsInTime EndsClean HistoryTells ContractKept Stops` (liveness) | six installations: three and four timed watchers on two slots; a shutdown with a queue; nine mixtures of file and environment over two starts; a watcher on a filling disk with a crash or a lost row; a filling disk around two starts of the media worker; two requests around a shutdown with broken dashboard files | 235 k |
| unconfirmed | MCRecorder | `UnconfirmedKept` - violated | as evidence | - |
| clipping | MCActivityWatch | `DeferredNotPassed` - violated | three overlapping events over two pages | - |
| verdict | MCRecorder | `VerdictCurrent` - violated | one source, one rewrite | - |

Why the bounds are enough for what is asked: each property relates at most two actors of a
kind, so two sources, clients of each sort or collectors exhibit it; one crash, one failed
call and one rewrite are placed by TLC at every step, and the recovery they start is complete
before the next could matter; pages of one or two items make every boundary a page boundary;
budgets of one fact make every second fact a refusal; clock values lie before, at and after
each deadline of the pool. What larger instances could add (three rival sources, two crashes
in one recovery) is covered by proof for the properties of section 5 and remains an
assumption for the others.

Deadlock is checked in *claims*. The other runs end legitimately: their clocks, events and
requests are bounded, and a system that has done all of it may stop.

## 4. Fairness

* **Worker, maintenance pass, API handlers, poll, request behind the gate**: weak fairness of
  the goroutine's own next step. Each is a goroutine with no lock that another can keep: the
  runtime schedules it and every wait in it is bounded by a timeout.
* **Supervisor, processes, scripts** (Lifecycle): weak fairness of each one's own next step; they
  are operating-system processes, and every wait of a script has a deadline (`HealthTimesOut`).
* **Run and its goroutines** (Service): weak fairness of `Run`'s own next step and, once the context
  is cancelled, of the worker, the maintenance loop and a poll that ends with its context; strong
  fairness of a collector's exit, because its `select` chooses at random between the next tick and
  the end of the context. Requests are not fair: a handler may hang, and `Stops` holds because the
  shutdown has a timeout.
* **Restart**: the scheduled task and `scripts/run-supervised.ps1` start the process again.
* **Recover, OpenGate**: an outage ends. The documents promise continuation "after recovery"
  (docs/MILESTONES.md:121), so the progress claims are conditional on it.
* **Clients** send again until answered (docs/API.md), as `Handle(c)`.
* **Not fair**: sources, ageing, backups, faults, crashes, growth of the bucket. A maintenance
  pass need never *start*; once started it goes on.

The finite bounds on crashes and faults say "finitely many", which the progress properties need.

## 5. Proofs

TLAPS checks, for every value of the constants under the named assumptions
(`LedgerAssumption`, `IngestAssumption`, `RetentionAssumption`, `RecorderAssumption`, `ApiAssumption`,
`ReleaseAssumption`, `LifecycleAssumption`, `ServiceAssumption`, `ConfigAssumption`, `CoverageAssumption`,
`ProjectionAssumption`; TLC evaluates them on every run):

* `Recorder_proofs!TypeCorrect : Spec => []TypeOK`. `TypeOK` is not inductive by itself: that
  a step indexes `segments` or `sidecar` inside its domain depends on what the locals mean at
  a label. `TypeInv` adds `LedgerOK` (claims name existing segments), `WorkerLocalsOK` (from
  which labels on the cursor, the parsed sidecar, the claim and the state event are valid)
  and `OpsLocalsOK` (the same for the maintenance goroutine), and each action's lemma also
  shows that the ledger only grows, which keeps the *other* goroutine's locals valid.
* `Recorder_proofs!NoEvidenceLost : Spec => []EvidenceSurvives` and
  `FilesIntact : Spec => []ManagedFilesIntact`. The inductive invariant `EvidenceInv` adds the
  three facts the code's order of calls establishes: a staging file is verified against the
  sidecar before it can be installed (`StagedCopyVerified`), a body is installed or already
  covered before its segment is committed (`BodyBeforeSegment`), and a backup of the body was
  verified before it is removed (`BackupBeforeRemove`). Steps are grouped by their effect on
  files, segments and backups (`FileStep`, `IngestSegments`, `BackupStep`), so that each
  conjunct is proved from three effects instead of thirty actions.
* `EventApi_proofs`: `ApiTypeCorrect`, `AnswersTrue` (`AckTrue`), `KeysStoredOnce` (`StoredOnce`, which *facts* checks as part of `PostsAtomic`),
  `SnapshotPaged` (`PagesExact`) and the action property `TablesOnlyGrow`, all from `ApiInv`: slots taken
  are the requests inside (`SlotsHeld`), one writer holds the lock (`LockHeld`), a
  transaction's rows extend the committed ones with unique keys (`TxnAppends`), results of a
  request under way are true of the rows it sees (`ResultsTrue`), and a reader's ids are a prefix of
  its snapshot (`Paging`).
  `PostsImplemented` (`PostsAtomic`) is the refinement of `FactLog`. It needs one invariant more, `PostInv`: a
  transaction under way is the committed rows followed by the new ones among the items so far, in the
  batch's order (`Posted`), and each result is already the outcome the log will give that item
  (`Settled`). `PostItem` shows that `AppendOne` is one more item, `PostDone` that after the last item
  rows and results are those of one `Deliver`; so the commit is `Deliver`, an answer is `Receive` (or nothing, for an empty
  batch), a lost answer and a crash are `Lose`, and every other step is a stutter.
* `Claims_proofs`: `VerdictHolds` (`AcceptNeverConflicts`), `SkippedOnlyConfirmed`
  (`CachedConfirmationSound`), and the action properties `ClaimsNeverMove` (`ClaimStable`),
  `ConfirmationsTrue` and `QuarantineNeverReplaced`. What a claim resolves to is a function of the ledger
  that only changes for an identity nobody had (`BindStep`); `ClaimInv` carries it along the worker's
  labels (`WorkerClaim`), into the signature it is about to store (`SignKnown`) and into the stored ones
  (`CheckKnown`). `VaultImplemented` is the refinement: initial states map to initial states and every
  step to one of `Vault` or a stutter. It has the hypothesis `RequireFullBackup`: without it
  retention may remove the only copy, which the vault never does.
* `Retention_proofs`: `DeletionStays` (`DeletionVisible`) and `LossExplained` (`MissingExplained`).
  `RetentionInv` says that a segment's log is its acceptance and at most one deletion (`LogShape`), that
  a deletion is projected with its row (`DeletionSeen`), that a body has one segment (`OnePerBody`), and ties files to
  rows: a missing file has its deletion planned (`GoneExplained`), a body being committed is installed
  (`NewInstalled`), and what is about to be removed was planned (`RemovePlanned`).
* `Lifecycle_proofs`: `LifecycleTypes` (`TypeOK`), `StoreMigrated` (`WritableMigrated`, from `DbOK` - each ledger is
  a prefix of what a release embeds - and `MigratedInv`, what a process at each label has already checked),
  `RollbackHasTarget` (`RollbackTarget`, from `ScriptShape` and `PointerInv`: which pointers may coincide at which point of a
  script), `SwitchSucceeds` (`SwitchComplete`, from `SettledInv`; it holds of every
  script during whose switch nothing ran, whatever was cut off before) and `RestartsBounded` (`CrashLoopBounded`, from
  `CrashInv`: the supervisor's list ends with every crash of the history that is still in the window, so the
  list it counts is never shorter than the truth).
* `Service_proofs`, all on top of `RunInv` (`CfgInv`: the configuration passed validation; `EarlyInv`,
  `ServingInv`, `EndInv`: which goroutines exist at which stage; `QueueInv`: the queue holds each waiting poll once).
  `DatabaseClosedLast` (`EndsClean`) and `ContractHolds` (`ContractKept`) follow from it. `PollsMeetDeadlines`
  (`PollsInTime`) adds `TimeInv` and `SlotInv`: a validated configuration has at most four enabled watchers, so at most
  two wait; the first in the queue has waited no longer than one of the running polls has run, the second no
  longer than either; so nobody waits longer than one execution limit, and the waves fit. `HistoryIsTrue`
  (`HistoryTells`: while something is bad, its last row is one of the running process and says so; when nothing is, a last row
  of the running process says that too; rows that earlier processes left are not judged, see section 7) adds `PristineInv` (a process that does not serve yet has written nothing), `PageInv` (one
  request behind the gate, and what it has to tell is the flag as it is) and `TellInv`, the property by
  source together with the status a goroutine compares with; `RowEffect` shows that an append changes
  the rows it is given and no others, so each action is proved against the sources it writes.

* `ActivityWatch_proofs`. For every bucket, overlapping events included: `TypeCorrect` (`TypeOK`) and `RowsHonest`
  (rows of one event differ in a growing duration and in nothing else), from `TypeInv`: what a poll has
  read and what is stored are copies of the bucket's events, at most as long as these (`CopyOf`, `PollInv`,
  `RowsInv`), and the checkpoint is the tuple of one (`CheckpointInv`). For a bucket whose events do not overlap
  (`~Overlap`): `CheckpointVouches` (`CheckpointCovers`), `HeartbeatVouches` (`HeartbeatMeansImported`) and
  `RevisionsAreHonest` (`RevisionsHonest`). The hypothesis is needed: on the overlapping
  bucket of *clipping* TLC refutes each of the three. The invariant is `ApartInv`: an event ends before the next begins (`Apart`), so that
  the end of a page, which is the start of an event, cuts no event the poll has not seen yet, and only the
  cutoff shortens one (`PageInv`, `UnseenWhole`). No stored copy is longer than the one a poll holds (`WriteInv`), so a longer one is a
  revision and never a conflict. Where events settle within the allowed lateness (`Settled`), a copy that ended
  before the cutoff is whole and none was missed (`ReadInv`), what is due is stored or still to be
  written (`ImportInv`), and so checkpoint and heartbeat stand for what can no longer change (`VouchInv`). What `AppendBatch` returns for a batch of any length is proved with the
  least number at which it would fail (`Least`, `UpTo`, `BatchRun`).
* `Projection_proofs`. `TimelineIsExact` (`TimelineExact`) rests on `TimelineInv`. An entry shows a stored fact and a
  fact has one entry (`EntriesInv`); rewriting an entry keeps its position, its fact and its sort key (`Evolved`), and new ones
  come after every snapshot, so what a cursor has served stays what the snapshot has up to the cursor (`Served`).
  What was due when a sync began is first among what it read, then among the entries, when its
  snapshot is taken (`SyncInv`). That a page is in order and complete is shown by ranks: `Sorted` puts each element of a finite set
  at the place that counts those before it (`RanksList`), which needs the texts of receive times to be in a strict order
(`TextOrder`). The order is the one of the texts and the theorem says nothing of a reader whose cursor was refused:
section 7 has what the documents promise beyond it. `FailuresStayIsolated` (`FailuresIsolated`) and `TypeCorrect` (`TypeOK`)
  rest on `CoverageInv`, which adds: what was read for a collector is its own and meets the range, no fact twice although the queries overlap
  (`CountInv`), so that more than the budget is more than the budget of its own facts (`LimitInv`, by cardinality); and
  the collectors asked for are those done followed by those to do, where done means rebuilt or refused
  unless something else failed (`DoneInv`).

`ServiceAssumption` types the collectors of configuration files, which the JSON decoder does;
`ReleaseAssumption` and `LifecycleAssumption` say that every release embeds at least one
migration of each ledger and that window and limit are positive numbers; `ConfigAssumption` says that page
size, limits and rescan window of a collector are positive, as validation has them, and types the buckets;
`ProjectionAssumption` says that budgets and chunks are positive, that heartbeats and recordings end after they begin
(`heartbeat.go:204`, `sidecar.go:91`) and that collectors have different ids (`config.go:825`); `CoverageAssumption` relates
heartbeat period, allowed lateness and offline limit as validation does and has windows end after they begin.

Only model-checked: all liveness (fairness and ENABLED are outside the prover), and `CoverageDescribes`: the intervals
of `Build` are a fold over the sorted change points, so that what they say of each moment needs induction over data.

## 6. What the environment is assumed to do

* Media: a backup medium is never lost as the last copy, nor between the check of a body and
  the removal it allows; damage keeps a file's size or removes the file; `backup.ps1` is one
  step; ffprobe is a function of the body; a quarantine copy is one step; temporary files are
  not removed by others. A body whose rename succeeded and whose flush then failed (`files.go:126-133`) is left
  like the one of a crash after the install, which is modelled; the failed record of that case is not.
* SQLite: transactions are atomic and durable, ids ascend, triggers refuse updates and deletes.
  A batch whose items are all rejected also goes through a transaction, which changes nothing.
* ActivityWatch: an event starts at most the allowed lateness late and is extended at most
  `Pulse` after its end; unless `Overlap`, a watcher's events follow each other; content changes
  only by `RewriteEvent`. One goroutine polls a collector.
* Projection: weekdays, time zones and daylight saving are the set `Windows`; julianday's
  imprecision is one unit of `Slack`; rows of a query come by start; stable ids compare as
  numbers; the receive time belongs to the fact; a request that finds the gate taken (429) or
  the sync busy (unreachable behind the gate) is no step.

* Service: a call whose context is cancelled fails; other appends fail at most `faults` times, one
  call of a step at a time; waiting senders of a Go channel are served in order; a start whose
  configuration is accepted has a log file; a row's key, which holds its time, is new.
* Lifecycle: one operator's script at a time; files replaced by rename change in one step,
  and so do the pointers that the recovery of install.ps1 (152-153) writes with `WriteAllText`, whose interruption
  could leave a torn file;
  `schtasks /End` may miss any supervisor (as when its state file cannot be read,
  process-control.ps1:20), a stopped process is gone at the next listing; the
  task starts no second instance; releases are complete and unchanged once installed; a
  manifest's maximum is what the release embeds (scripts/build.ps1:93 and migration.go:17 agree).

## 7. Where documents and code disagree

Three disagreements have a run, which TLC refutes:

* **unconfirmed** - `operations/manager.go:310` checks state, age, backup and body of a
  candidate. docs/OPERATIONS.md:48 also excludes media whose source is unconfirmed; between
  `AcceptMedia` and `writeConfirmation` such a body is deleted (its backup exists).
* **clipping** - `activitywatch.go:564`: the request for the second page ends where the first
  began, the server clips an open event to that end, and the stable prefix takes it for closed.
  docs/COLLECTORS_AND_TIMELINE.md:28 and the comment above the loop say that the checkpoint never passes
  such an event.

* **verdict** - `mediaingest/manager.go:763`: `rememberTerminal` stamps the source after the decision on
  an earlier copy; a source corrected in between is remembered as quarantined and skipped, while
  docs/MEDIA_INGEST.md:118 has it examined again.

Others were met while modelling, follow from actions of the modules, and have no run yet:

* `eventstore/media.go:211-262`: a body that retention deleted and a source published again is
  installed and confirmed, but its segment stays `retention_deleted`, outside manifests and
  retention (docs/DATA_MODEL.md:63 speaks of a `restored` state; `AppendMediaState` has no caller).
* `app/server.go:153`: a failed `Initialize` leaves media ingest off until the next start
  (docs/MILESTONES.md:121). The progress properties therefore exempt `pc = "off"`.
* `activitywatch.go:545`: a backlog longer than `page_size * max_pages_per_poll` fails every later
  poll, since the start of the range is anchored at the checkpoint (docs/MILESTONES.md:121). *bucket*
  shows that neither checkpoint nor heartbeat then moves past what was not read; `Imported` exempts it.
* `httpapi/handler.go:636-647`: a collector's failed rebuild is a stale projection and a success for
  the handler, so no degraded record is written; a cancelled request's records are written with its
  ended context and lost, and the next success records a recovery (docs/FAILURE_POLICY.md:57).
* `timeline.go:726` decodes a cursor's receive time with nine digits, while a heartbeat's
  is stored, copied and encoded without trailing zeros (`heartbeat.go:239`, `timeline.go:493`): a page that ends on such
  a heartbeat has a cursor the next request refuses (*timeline* takes `RefuseCursor`). docs/COLLECTORS_AND_TIMELINE.md:100 has the next page read
  that snapshot.
* `timeline.go:128,493`: the same two forms are compared as texts, so entries of different tables that start together
  are not listed by receive time, which docs/COLLECTORS_AND_TIMELINE.md:100 names as the second part of the key.
* `operations/manager.go:90,194`: the level last reported starts as normal in every process. A
  disk that filled under one process and is free again under the next gets no `STORAGE_DISK_RECOVERED`
  row (docs/FAILURE_POLICY.md:54). The same holds of collectors (`activitywatch.go:254`) and the worker.
  `HistoryTells` is therefore stated for what the running process sees and writes.
* `operations/manager.go:246,259`: a failed checkpoint or cleanup is recorded as an active fault of
  `storage` or `media_ingest`, and no row ever ends it.
* `install.ps1:149-155` restores the old release after a failed health check without asking
  whether the new one has migrated: a release that embeds fewer migrations of a ledger then
  refuses the database (`migration.go:280`; docs/DATA_MODEL.md:160 wants it able to start).
* `rollback.ps1:98,118`: cut off between the two writes, both pointers name one release
  (docs/DECISIONS.md:137 speaks of atomic maintenance by the installation). `RollbackTarget` therefore
  exempts what follows a script cut off there (`Halfway`), and only that.
* `coverage/coverage.go:180`: windows are clipped to the range before touching ones are merged, so in
  an around-the-clock schedule a range that begins after midnight restarts the clock of a missing
  heartbeat (`coverage_test.go:99` tests the case within one day).

## 8. Not modelled

The restore script (it verifies a backup into a staging directory and renames it into place while nothing
else runs there), `-PlanOnly`, `-NoStart` and `-NoTaskControl` of the installation scripts, the one-shot
commands, the status and readiness pages (they read state and format it), `temp_max_files`, JSON syntax,
limits of single settings; the limit of 1024 revisions of one event
(`query.go:53,84-86`), which only a collector polling a growing event a thousand times would meet; the browser client, which only reads (answers of two overlapping refreshes,
`web/src/app.ts:300-314`, are shown in the order they arrive); and what has no state worth checking: logging, version, certification reports, build
scripts. `PROJECT.json` gives the reason for each.

## 9. Plan

Done: the media path, the fact tables and their API, the collectors, both projections, the configuration,
the process from start to exit, migrations, supervision and installation; two abstract specifications
and their refinement; all safety of the media path (with its refinement of the vault), of the API (with its
refinement of the fact log), of a collector's poll, of the timeline and of the isolation of coverage failures, of
supervision and installation, and of the process proved.

Next, in this order:

1. **Coverage.** `CoverageDescribes` for every set of facts, once an induction over the change points can be carried out.
2. **Restore.** `restore.ps1` against an interrupted move of the data directory.
3. Runs for the disagreements of section 7 that have none.
