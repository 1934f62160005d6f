------------------------------ MODULE Service ------------------------------
(***************************************************************************)
(* One process after the other under the supervisor: app.Run from the      *)
(* configuration to the exit code, with the goroutines it starts, the      *)
(* requests it serves, and what all of them write into the operations      *)
(* tables.  What the goroutines do with evidence is in other modules; here *)
(* a poll, a scan or a rebuild has an outcome.  A definition X_<Bug> is X  *)
(* with a plausible bug in it; no specification uses it.                   *)
(*                                                                         *)
(* The operations tables are kept as their last row per source, as the     *)
(* dashboard history reads them, with `mine' for a row of the process that *)
(* runs.  An append fails when its context is cancelled and may fail       *)
(* otherwise; no caller looks.                                             *)
(***************************************************************************)
EXTENDS Config, SequencesExt

CONSTANTS
  Setups,      \* what may happen in a behaviour, and how often
  CollectorId, \* ids of ActivityWatch collectors
  Request      \* requests of the coverage page that can be in flight

None == "none"

\* The collectors of a file are records of their settings, and a duration that is
\* used lies within its own limits.  No request is the empty gate.
ASSUME ServiceAssumption ==
  /\ \A s \in Setups : \A input \in s.inputs :
       "collectors" \in DOMAIN input.file => CollectorsTyped(input.file.collectors)
  /\ None \notin Request

VARIABLES
  setup,
  cfg, stage, exit,            \* the configuration, where Run is, what main returned
  stop, cancelled,             \* the signal, and the context of the goroutines
  store, media, ops,           \* the database handle and two of the goroutines
  poll, queue, status,         \* ActivityWatch goroutines, those without a slot, their status
  mediaStatus, reported,       \* what the worker and the disk scan last saw
  page, gate, degraded, cut,   \* coverage requests, projection gate, flag, connections were cut
  level,                       \* external: the disk
  ledger,                      \* the operations tables
  lost,                        \* rows of which the last append of this process failed
  budget

runVars   == <<cfg, stage, exit, stop, cancelled, store>>
pollVars  == <<poll, queue, status>>
mediaVars == <<media, mediaStatus>>
opsVars   == <<ops, reported>>
pageVars  == <<page, gate, degraded, cut>>
tables    == <<ledger, lost>>
vars == <<setup, runVars, pollVars, mediaVars, opsVars, pageVars, level, tables, budget>>

Maintenance == "MAINTENANCE_FAILED"    \* stands for the codes of checkpoint, cleanup and retention
ModeFailed  == "MODE_TRANSITION_WRITE_FAILED"
NoRow  == [status |-> None, code |-> "", mine |-> FALSE]
Unseen == [state |-> "unavailable", code |-> ""]
NoPage == [pc |-> "idle", gone |-> FALSE, row |-> None]
Idle   == [pc |-> "idle", waited |-> 0, ran |-> 0]

Init ==
  /\ setup \in Setups
  /\ cfg = Rejected /\ stage = "down" /\ exit = None
  /\ stop = FALSE /\ cancelled = FALSE
  /\ store = None /\ media = None /\ ops = None
  /\ poll = <<>> /\ queue = <<>> /\ status = <<>>
  /\ mediaStatus = Unseen /\ reported = "normal"
  /\ page = [r \in Request |-> NoPage] /\ gate = None /\ degraded = FALSE /\ cut = FALSE
  /\ level = "normal" /\ ledger = <<>> /\ lost = {}
  /\ budget = [starts |-> setup.starts, moves |-> setup.moves, faults |-> setup.faults]

Spend(what) == budget' = [budget EXCEPT ![what] = @ - 1]

-----------------------------------------------------------------------------
(* The operations tables.                                                   *)

Row(state, code) == [status |-> state, code |-> code, mine |-> TRUE]

\* A row of the fault events ("fault", and "activitywatch" for the sources with
\* that prefix), of the module states ("module", "collector") or of the mode.
OneRow(table, source, state, code) == [k \in {<<table, source>>} |-> Row(state, code)]

LastRow(table, source) ==
  LET k == <<table, source>> IN IF k \in DOMAIN ledger THEN ledger[k] ELSE NoRow

\* The appends that fail: all when the context is gone, else at most one call.
Dropped(rows, live) ==
  IF ~live THEN {DOMAIN rows}
  ELSE {{}} \cup (IF budget.faults > 0 THEN {{k} : k \in DOMAIN rows} ELSE {})

\* The rows that arrive.  A mode that cannot be recorded is a fault of its own.
Kept(rows, live, drop) ==
  IF live /\ <<"mode", "runtime">> \in drop
  THEN [k \in DOMAIN rows \ drop |-> rows[k]] ++ OneRow("fault", "runtime_mode", "active", ModeFailed)
  ELSE [k \in DOMAIN rows \ drop |-> rows[k]]

AppendRows(rows, live) ==
  \E drop \in Dropped(rows, live) :
    /\ lost' = (lost \ DOMAIN rows) \cup drop
    /\ IF live /\ drop # {} THEN Spend("faults") ELSE UNCHANGED budget
    /\ ledger' = Kept(rows, live, drop) ++ ledger

\* The row that a poll or a scan adds when its outcome differs from the last one.
StatusRows(table, source, prev, code) ==
  IF code # "" /\ (prev.state # "unavailable" \/ prev.code # code)
  THEN OneRow(table, source, "degraded", code)
  ELSE IF code = "" /\ prev.state = "unavailable" /\ prev.code # ""
  THEN OneRow(table, source, "recovered", "")
  ELSE <<>>

Seen(code) == [state |-> IF code = "" THEN "healthy" ELSE "unavailable", code |-> code]

-----------------------------------------------------------------------------
(* The disk scan (operations.Manager).                                      *)

\* A probe that fails counts as a warning.
DiskLevel == IF level = "unknown" THEN "warning" ELSE level

DiskStatus ==
  CASE DiskLevel = "normal"  -> "recovered"
    [] DiskLevel = "warning" -> "degraded"
    [] OTHER                 -> "active"

DiskRows ==
  IF reported # DiskLevel \/ level = "unknown"
  THEN OneRow("fault", "storage", DiskStatus, level) ELSE <<>>

CoreWritesAllowed == DiskLevel # "reserve"

ScanDisk ==
  /\ ops = "run"
  /\ AppendRows(DiskRows, ~cancelled)
  /\ reported' = DiskLevel
  /\ UNCHANGED <<runVars, ops, pollVars, mediaVars, pageVars, level>>

\* A checkpoint, a cleanup or a retention pass that fails is reported, the first
\* two under the sources of the disk scan and the media worker, and tried again.
MaintenanceFails(source) ==
  /\ ops = "run" /\ ~cancelled /\ budget.faults > 0
  /\ ledger' = OneRow("fault", source, "active", Maintenance) ++ ledger
  /\ Spend("faults")
  /\ UNCHANGED <<runVars, opsVars, pollVars, mediaVars, pageVars, level, lost>>

OperationsStops ==
  /\ ops = "run" /\ cancelled
  /\ ops' = "end"
  /\ UNCHANGED <<runVars, reported, pollVars, mediaVars, pageVars, level, tables, budget>>

-----------------------------------------------------------------------------
(* ActivityWatch goroutines (collectors.Manager): two slots, first come     *)
(* first served.                                                            *)

Polled == {cfg.collectors[n].id : n \in EnabledOf(cfg, "activitywatch")}

Offline(id) ==
  LET n == CHOOSE n \in DOMAIN cfg.collectors : cfg.collectors[n].id = id
  IN  cfg.collectors[n].offline

Slots == 2

\* Waves counted with a division that rounds down.
Waves_RoundedDown == IF Cardinality(Polled) < Slots THEN 1 ELSE Cardinality(Polled) \div Slots

Waves == IF Polled = {} THEN 1 ELSE (Cardinality(Polled) + Slots - 1) \div Slots

MinOffline == CHOOSE m \in {Offline(id) : id \in Polled} : \A id \in Polled : m <= Offline(id)

ExecutionLimit == MinOffline \div Waves

Running == {id \in DOMAIN poll : poll[id].pc = "run"}

\* The execution budget or the deadline of the whole attempt is used up.
OutOfTime(id) ==
  \/ poll[id].pc = "run" /\ poll[id].ran >= ExecutionLimit
  \/ poll[id].waited + poll[id].ran >= Offline(id)

\* A poll ends in a status and, when it changed, in a row.
RecordPollStatus(id, code) ==
  /\ status' = [status EXCEPT ![id] = Seen(code)]
  /\ AppendRows(StatusRows("activitywatch", id, status[id], code), ~cancelled)

\* The gate is asked before the slot is.
BeginPoll(id) ==
  /\ poll[id].pc = "idle"
  /\ IF ~CoreWritesAllowed
     THEN RecordPollStatus(id, "STORAGE_PROTECTED") /\ UNCHANGED <<poll, queue>>
     ELSE /\ IF Cardinality(Running) < Slots
             THEN poll' = [poll EXCEPT ![id].pc = "run"] /\ UNCHANGED queue
             ELSE poll' = [poll EXCEPT ![id].pc = "wait"] /\ queue' = Append(queue, id)
          /\ UNCHANGED <<status, tables, budget>>
  /\ UNCHANGED <<runVars, mediaVars, opsVars, pageVars, level>>

\* The slot goes to the poll that has waited longest.
ReleaseSlot(id) ==
  IF queue = <<>> THEN poll' = [poll EXCEPT ![id] = Idle] /\ UNCHANGED queue
  ELSE /\ poll' = [poll EXCEPT ![id] = Idle, ![Head(queue)].pc = "run"]
       /\ queue' = Tail(queue)

\* A poll that runs out of time, or whose context is cancelled, fails.
EndPoll(id, code) ==
  /\ poll[id].pc = "run"
  /\ code = "" => ~cancelled /\ ~OutOfTime(id)
  /\ ReleaseSlot(id)
  /\ RecordPollStatus(id, code)
  /\ UNCHANGED <<runVars, mediaVars, opsVars, pageVars, level>>

\* The attempt ends without a slot: at shutdown silently, else as a failure.
GiveUp(id) ==
  /\ poll[id].pc = "wait"
  /\ cancelled \/ OutOfTime(id)
  /\ poll' = [poll EXCEPT ![id] = Idle]
  /\ queue' = RemoveAt(queue, CHOOSE n \in DOMAIN queue : queue[n] = id)
  /\ IF cancelled THEN UNCHANGED <<status, tables, budget>>
     ELSE RecordPollStatus(id, "REQUEST_FAILED")
  /\ UNCHANGED <<runVars, mediaVars, opsVars, pageVars, level>>

CollectorStops(id) ==
  /\ poll[id].pc = "idle" /\ cancelled
  /\ poll' = [poll EXCEPT ![id].pc = "end"]
  /\ UNCHANGED <<runVars, queue, status, mediaVars, opsVars, pageVars, level, tables, budget>>

\* Time passes for the attempts, none of which outlives its deadline.
Tick ==
  /\ setup.timed
  /\ \A id \in DOMAIN poll : ~OutOfTime(id)
  /\ poll' = [id \in DOMAIN poll |->
                CASE poll[id].pc = "wait" -> [poll[id] EXCEPT !.waited = @ + 1]
                  [] poll[id].pc = "run"  -> [poll[id] EXCEPT !.ran = @ + 1]
                  [] OTHER -> poll[id]]
  /\ poll' # poll
  /\ UNCHANGED <<runVars, queue, status, mediaVars, opsVars, pageVars, level, tables, budget>>

-----------------------------------------------------------------------------
(* The media worker (mediaingest.Manager).                                  *)

MediaRows(code) ==
  IF code = "" THEN OneRow("module", "media_ingest", "healthy", "")
  ELSE OneRow("module", "media_ingest", "unavailable", code) ++ OneRow("fault", "media_ingest", "degraded", code)

\* ffprobe, a directory or the disk may be missing; the worker is then off for
\* the life of the process.
MediaInitialize(code) ==
  /\ media = "init"
  /\ code = "" => CoreWritesAllowed /\ ~cancelled
  /\ media' = IF code = "" THEN "run" ELSE "off"
  /\ mediaStatus' = Seen(code)
  /\ AppendRows(MediaRows(code), ~cancelled)
  /\ UNCHANGED <<runVars, pollVars, opsVars, pageVars, level>>

\* A scan that is cut short by the shutdown records nothing.
MediaScan(code) ==
  /\ media = "run" /\ ~cancelled
  /\ mediaStatus' = Seen(code)
  /\ AppendRows(StatusRows("fault", "media_ingest", mediaStatus, code), TRUE)
  /\ UNCHANGED <<runVars, media, pollVars, opsVars, pageVars, level>>

MediaStops ==
  /\ media = "run" /\ cancelled
  /\ media' = "end"
  /\ UNCHANGED <<runVars, mediaStatus, pollVars, opsVars, pageVars, level, tables, budget>>

-----------------------------------------------------------------------------
(* The coverage page.  A request holds the projection gate until it has     *)
(* answered; its context ends with its connection.                          *)

Active == {r \in Request : page[r].pc # "idle"}

BeginCoverage(r) ==
  /\ r \in setup.pages /\ stage = "serve" /\ store = "open"
  /\ page[r].pc = "idle" /\ gate = None
  /\ page' = [page EXCEPT ![r].pc = "rebuild"]
  /\ gate' = r
  /\ UNCHANGED <<runVars, degraded, cut, pollVars, mediaVars, opsVars, level, tables, budget>>

ClientLeaves(r) ==
  /\ page[r].pc # "idle" /\ ~page[r].gone /\ budget.moves > 0
  /\ page' = [page EXCEPT ![r].gone = TRUE]
  /\ Spend("moves")
  /\ UNCHANGED <<runVars, gate, degraded, cut, pollVars, mediaVars, opsVars, level, tables>>

\* A handler that gives the gate back before it has recorded the change.
AfterSwap_GateFirst(r, changed, row) ==
  /\ page' = [page EXCEPT ![r] = IF changed THEN [@ EXCEPT !.pc = "tell", !.row = row] ELSE NoPage]
  /\ gate' = None

AfterSwap(r, changed, row) ==
  /\ page' = [page EXCEPT ![r] = IF changed THEN [@ EXCEPT !.pc = "tell", !.row = row] ELSE NoPage]
  /\ gate' = IF changed THEN gate ELSE None

\* The rebuild of a client that left fails, and one may fail by itself.
RebuildEnds(r, ok) ==
  /\ page[r].pc = "rebuild"
  /\ ok => ~page[r].gone /\ store = "open"
  /\ ~ok /\ ~page[r].gone /\ store = "open" => budget.faults > 0
  /\ IF ~ok /\ ~page[r].gone /\ store = "open" THEN Spend("faults") ELSE UNCHANGED budget
  /\ degraded' = ~ok
  /\ AfterSwap(r, degraded = ok, IF ok THEN "recovered" ELSE "degraded")
  /\ UNCHANGED <<runVars, cut, pollVars, mediaVars, opsVars, level, tables>>

CoverageRows(row) ==
  OneRow("fault", "coverage", row, "") ++
  OneRow("module", "coverage", IF row = "recovered" THEN "healthy" ELSE "degraded", "")

RecordCoverage(r) ==
  /\ page[r].pc = "tell"
  /\ AppendRows(CoverageRows(page[r].row), ~page[r].gone /\ store = "open")
  /\ page' = [page EXCEPT ![r] = NoPage]
  /\ gate' = IF gate = r THEN None ELSE gate
  /\ UNCHANGED <<runVars, degraded, cut, pollVars, mediaVars, opsVars, level>>

-----------------------------------------------------------------------------
(* Run, from main to the exit code.                                         *)

\* What a new process knows; the tables stay, their rows are another's.
Fresh ==
  /\ store' = None /\ media' = None /\ ops' = None
  /\ poll' = <<>> /\ queue' = <<>> /\ status' = <<>>
  /\ mediaStatus' = Unseen /\ reported' = "normal"
  /\ page' = [r \in Request |-> NoPage] /\ gate' = None /\ degraded' = FALSE
  /\ ledger' = [k \in DOMAIN ledger |-> [ledger[k] EXCEPT !.mine = FALSE]]
  /\ lost' = {}

\* main: a configuration that is rejected ends the process at once.
Launch(input) ==
  /\ stage = "down" /\ budget.starts > 0
  /\ cfg' = Load(input.file, input.env)
  /\ IF cfg' = Rejected THEN stage' = "down" /\ exit' = "usage"
     ELSE stage' = "listen" /\ exit' = None
  /\ stop' = FALSE /\ cancelled' = FALSE /\ cut' = FALSE
  /\ Fresh /\ Spend("starts")
  /\ UNCHANGED level

Ends(code) == stage' = "down" /\ exit' = code

Listen ==
  /\ stage = "listen"
  /\ \/ stage' = "open" /\ UNCHANGED <<exit, budget>>
     \/ budget.faults > 0 /\ Ends("runtime") /\ Spend("faults")
  /\ UNCHANGED <<cfg, stop, cancelled, store, pollVars, mediaVars, opsVars, pageVars, level, tables>>

\* A store that does not open leaves a server without goroutines.
OpenStore ==
  /\ stage = "open"
  /\ \/ ~stop /\ store' = "open" /\ stage' = "record" /\ UNCHANGED budget
     \/ /\ store' = "failed" /\ stage' = "serve"
        /\ IF stop THEN UNCHANGED budget ELSE budget.faults > 0 /\ Spend("faults")
  /\ UNCHANGED <<cfg, exit, stop, cancelled, pollVars, mediaVars, opsVars, pageVars, level, tables>>

DashboardState ==
  CASE ~DashboardIsEnabled(cfg) -> "disabled"
    [] setup.assets -> "healthy"
    [] OTHER -> "unavailable"

\* The mode, when it is another than the last one recorded.
ModeRows ==
  LET last == LastRow("mode", "runtime").status IN
  IF last = cfg.mode THEN <<>> ELSE OneRow("mode", "runtime", cfg.mode, last)

StartStates ==
  [retention    |-> IF cfg.retention THEN "healthy" ELSE "disabled",
   dashboard    |-> DashboardState,
   coverage     |-> "healthy",
   generic_json |-> IF cfg.mode = "minimum" THEN "disabled" ELSE "healthy",
   media_ingest |-> IF cfg.media THEN "unavailable" ELSE "disabled"]

\* The rows of a start: what the configuration and the disk say.
StartRows ==
  [k \in {<<"module", m>> : m \in DOMAIN StartStates} |-> Row(StartStates[k[2]], "")] ++
  [k \in {<<"collector", cfg.collectors[n].id>> : n \in DOMAIN cfg.collectors} |->
     Row(IF \E n \in DOMAIN cfg.collectors : cfg.collectors[n].id = k[2] /\ cfg.collectors[n].enabled
         THEN "healthy" ELSE "disabled", "")] ++
  (DiskRows ++ ModeRows)

StartGoroutines ==
  /\ stage = "record"
  /\ stage' = "serve"
  /\ AppendRows(StartRows, ~stop)
  /\ reported' = DiskLevel
  /\ ops' = "run"
  /\ media' = IF cfg.media THEN "init" ELSE None
  /\ poll' = [id \in Polled |-> Idle]
  /\ status' = [id \in Polled |-> Unseen]
  /\ UNCHANGED <<cfg, exit, stop, cancelled, store, queue, mediaStatus, pageVars, level>>

\* A signal, or the end of --run-for.
StopSignal ==
  /\ stage # "down" /\ ~stop /\ setup.signals
  /\ stop' = TRUE /\ cancelled' = TRUE
  /\ UNCHANGED <<cfg, stage, exit, store, pollVars, mediaVars, opsVars, pageVars, level, tables, budget>>

\* A Run that waits for goroutines it has not told to stop.
Returned_NoCancel(code) == stage' = "join" /\ exit' = code /\ UNCHANGED cancelled

\* Serve returns: Run cancels the goroutines and waits for them.
Returned(code) == stage' = "join" /\ exit' = code /\ cancelled' = TRUE

ServeFails ==
  /\ stage = "serve" /\ ~stop /\ budget.faults > 0
  /\ Returned("runtime")
  /\ Spend("faults")
  /\ UNCHANGED <<cfg, stop, store, pollVars, mediaVars, opsVars, pageVars, level, tables>>

\* Shutdown: no new request, and a wait for those in flight.
BeginShutdown ==
  /\ stage = "serve" /\ stop
  /\ stage' = "drain"
  /\ UNCHANGED <<cfg, exit, stop, cancelled, store, pollVars, mediaVars, opsVars, pageVars, level, tables, budget>>

Drained ==
  /\ stage = "drain" /\ Active = {}
  /\ Returned("ok")
  /\ UNCHANGED <<cfg, stop, store, pollVars, mediaVars, opsVars, pageVars, level, tables, budget>>

ShutdownCode == "runtime"

\* The shutdown timeout: the connections are closed, their handlers go on.
ShutdownTimesOut ==
  /\ stage = "drain" /\ Active # {}
  /\ Returned(ShutdownCode)
  /\ page' = [r \in Request |-> IF r \in Active THEN [page[r] EXCEPT !.gone = TRUE] ELSE page[r]]
  /\ cut' = TRUE
  /\ UNCHANGED <<cfg, stop, store, gate, degraded, pollVars, mediaVars, opsVars, level, tables, budget>>

\* A Run that forgets the collectors.
Joined_WorkersOnly == media \in {None, "off", "end"} /\ ops \in {None, "end"}

Joined ==
  /\ media \in {None, "off", "end"}
  /\ \A id \in DOMAIN poll : poll[id].pc = "end"
  /\ ops \in {None, "end"}

CloseStore ==
  /\ stage = "join" /\ Joined
  /\ stage' = "return"
  /\ store' = IF store = "open" THEN "closed" ELSE store
  /\ UNCHANGED <<cfg, exit, stop, cancelled, pollVars, mediaVars, opsVars, pageVars, level, tables, budget>>

Exit ==
  /\ stage = "return"
  /\ stage' = "down"
  /\ UNCHANGED <<cfg, exit, stop, cancelled, store, pollVars, mediaVars, opsVars, pageVars, level, tables, budget>>

Crash ==
  /\ stage # "down" /\ budget.faults > 0
  /\ Ends("crash") /\ Spend("faults")
  /\ Fresh
  /\ UNCHANGED <<cfg, stop, cancelled, cut, level>>

DiskChanges ==
  /\ budget.moves > 0 /\ stage # "down"
  /\ level' \in setup.levels \ {level}
  /\ Spend("moves")
  /\ UNCHANGED <<runVars, pollVars, mediaVars, opsVars, pageVars, tables>>

-----------------------------------------------------------------------------

Main ==
  \/ Listen \/ OpenStore \/ StartGoroutines
  \/ BeginShutdown \/ Drained \/ ShutdownTimesOut \/ CloseStore \/ Exit

Up == stage # "down"

Collector(id) ==
  \/ BeginPoll(id) \/ GiveUp(id) \/ CollectorStops(id)
  \/ \E code \in setup.outcomes : EndPoll(id, code)

Worker ==
  \/ \E code \in {"", "PROBE_MISSING"} : MediaInitialize(code)
  \/ \E code \in {"", "STORAGE_PROTECTED", "DATABASE_FAILED"} : MediaScan(code)
  \/ MediaStops

Operations ==
  \/ ScanDisk \/ OperationsStops
  \/ \E source \in {"storage", "media_ingest", "retention"} : MaintenanceFails(source)

Viewer(r) ==
  \/ BeginCoverage(r) \/ ClientLeaves(r) \/ RecordCoverage(r)
  \/ \E ok \in BOOLEAN : RebuildEnds(r, ok)

Next ==
  /\ UNCHANGED setup
  /\ \/ \E input \in setup.inputs : Launch(input)
     \/ Main \/ StopSignal \/ ServeFails \/ Crash \/ DiskChanges
     \/ Up /\ (Tick \/ Worker \/ Operations)
     \/ Up /\ \E id \in DOMAIN poll : Collector(id)
     \/ Up /\ \E r \in Request : Viewer(r)

Spec == Init /\ [][Next]_vars

\* Goroutines are scheduled, a call whose context is cancelled returns, and a
\* goroutine that is offered its next tick and the end of its context takes the
\* end at some time.  Requests may hang for ever.
Fairness ==
  /\ WF_vars(Main /\ UNCHANGED setup)
  /\ WF_vars(Up /\ UNCHANGED setup /\ cancelled /\ Worker)
  /\ WF_vars(Up /\ UNCHANGED setup /\ OperationsStops)
  /\ \A id \in CollectorId :
       /\ SF_vars(Up /\ UNCHANGED setup /\ id \in DOMAIN poll /\ CollectorStops(id))
       /\ WF_vars(Up /\ UNCHANGED setup /\ id \in DOMAIN poll /\ cancelled /\
                  (EndPoll(id, "REQUEST_FAILED") \/ GiveUp(id)))

FairSpec == Spec /\ Fairness

-----------------------------------------------------------------------------
(* Properties.                                                              *)

\* The waves of the two slots fit into the shortest offline_after of an accepted
\* configuration: no more polls run than there are slots, every attempt gets a
\* slot in time, and once it has one, its whole execution budget lies before its
\* deadline.
PollsInTime ==
  /\ Cardinality(Running) <= Slots
  /\ \A id \in DOMAIN poll :
       /\ poll[id].pc = "wait" => poll[id].waited < Offline(id)
       /\ poll[id].pc = "run" => poll[id].waited + ExecutionLimit <= Offline(id)

\* The database is closed under no goroutine: when it is, none of them can call
\* it any more, whichever way the serving ended.  And an exit code of success means
\* that every request that was let in was answered.
EndsClean ==
  /\ store = "closed" => Running = {} /\ queue = <<>> /\ ops = "end" /\ media # "run"
  /\ exit = "ok" => ~cut /\ Active = {}

\* A source that is bad has a last row of this process that says so.  One that is
\* not has no other last row of this process than a recovery; a row of an earlier
\* process is not judged: the code starts from normal.  No row ever says that maintenance works again.
FaultTold(table, source, bad) ==
  LET row == LastRow(table, source) IN
  <<table, source>> \notin lost =>
    IF bad THEN row.mine /\ row.status \in {"degraded", "active"}
    ELSE row.mine => row.status = "recovered" \/ row.code = Maintenance

ModuleTold(m, state) == <<"module", m>> \notin lost => LastRow("module", m).status = state

Telling == \E r \in Request : page[r].pc = "tell"

\* What the running process wrote is true: while it serves, and unless an append
\* failed, every fault it sees is the last row of its source and was written by it,
\* no fault row of its own outlives the fault, and the last rows of modules and mode
\* are those of its worker, coverage and configuration, in whatever order requests
\* and goroutines wrote.
HistoryTells ==
  stage = "serve" /\ store = "open" =>
    /\ FaultTold("fault", "storage", reported # "normal")
    /\ \A id \in DOMAIN status :
         /\ FaultTold("activitywatch", id, status[id].code # "")
         /\ status[id].code # "" /\ <<"activitywatch", id>> \notin lost =>
              LastRow("activitywatch", id).code = status[id].code
    /\ FaultTold("fault", "media_ingest", mediaStatus.code # "")
    /\ ~Telling => FaultTold("fault", "coverage", degraded) /\ ModuleTold("coverage", IF degraded THEN "degraded" ELSE "healthy")
    /\ ModuleTold("dashboard", DashboardState)
    /\ ModuleTold("media_ingest", CASE media = None -> "disabled"
                                     [] media \in {"run", "end"} -> "healthy"
                                     [] OTHER -> "unavailable")
    /\ <<"mode", "runtime">> \notin lost => LastRow("mode", "runtime").status = cfg.mode

\* No mixture of file and environment starts a process outside its contract: in
\* minimum mode it records the two essential sources and shows no dashboard,
\* deletion needs a backup, sources and managed files are apart, and it is
\* reachable from outside only when told so.
ContractKept ==
  stage \in {"serve", "drain"} =>
    /\ cfg.mode = "minimum" =>
         /\ ~DashboardIsEnabled(cfg) /\ EnabledOf(cfg, "generic_json") = {}
         /\ store = "open" => media # None /\ DOMAIN poll # {}
    /\ cfg.retention => cfg.fullBackup
    /\ ~PathsOverlap(cfg.inbox, MediaStorage(cfg))
    /\ cfg.address # "loopback" => cfg.allowOpen
    /\ \A id \in DOMAIN poll : Offline(id) <= ActivityWatchSla

\* A process that is told to stop, or whose server failed, ends, whatever its
\* goroutines and requests are doing.
Stops == (stop \/ stage = "join") ~> ~Up

=============================================================================
