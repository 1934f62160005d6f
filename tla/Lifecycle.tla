----------------------------- MODULE Lifecycle -----------------------------
(***************************************************************************)
(* How releases are installed, started, supervised and rolled back: the    *)
(* scheduled task, scripts/run-supervised.ps1 with its crash window kept   *)
(* in state/supervisor-state.json, and install.ps1, rollback.ps1 and       *)
(* uninstall.ps1, which stop every managed process, move the pointers      *)
(* current.json and previous.json, start the task and undo the switch when *)
(* the health check fails.  One script runs at a time; it, the supervisor, *)
(* every process or the whole machine may end at any step.                 *)
(***************************************************************************)
EXTENDS Release

CONSTANTS
  MaxRestarts,   \* crashes in the window that end supervision
  Window,        \* CrashWindowSeconds, in ticks
  MaxTime,       \* bound: ticks
  MaxEvents,     \* bound: starts by logon or RestartOnFailure, crashes, shutdowns, failed calls, interruptions
  Initial,       \* what may be installed at the start
  MaxScripts     \* bound: scripts run

ASSUME LifecycleAssumption ==
  /\ Initial \subseteq Releases \cup {NoRelease}
  /\ MaxRestarts \in Nat \ {0}
  /\ Window \in Nat \ {0}
  /\ {MaxTime, MaxEvents, MaxScripts} \subseteq Nat

VARIABLES
  installed,     \* releases with a complete directory under releases/
  current, previous, \* the pointer files
  task,          \* is the scheduled task registered?
  state,         \* supervisor-state.json: release and crash times
  sup,           \* the supervisor the task runs
  script,        \* the operator's script
  now,           \* the clock
  spent,         \* how much of each bound is used
  seen,          \* history: crashes the supervisors saw in the window, since a clean stop or another release
  cut,           \* history: was a script cut off between its writes of the pointers?
  stray          \* history: when the pointer was last switched, did something run again?

vars == <<processVars, installed, current, previous, task, state, sup, script, now, spent, seen, cut, stray>>

Pointers == Releases \cup {NoRelease}
Times == 0..MaxTime
NoSup == [at |-> "none", rel |-> NoRelease, crashes |-> << >>, started |-> 0]
Bounds == [events |-> MaxEvents, scripts |-> MaxScripts]
NoScript == [op |-> "none", at |-> "none", target |-> NoRelease, old |-> NoRelease, oldPrevious |-> NoRelease,
             failed |-> FALSE, result |-> "none"]

\* Type correctness of the lifecycle.
TypeOK ==
  /\ ProcessTypeOK
  /\ installed \subseteq Releases
  /\ {current, previous} \ {NoRelease} \subseteq installed
  /\ task \in BOOLEAN
  /\ state.rel \in Pointers /\ Len(state.crashes) <= MaxRestarts
  /\ sup.at \in {"none", "check", "spawned", "waiting"} /\ sup.rel \in Pointers
  /\ Len(sup.crashes) <= MaxRestarts /\ sup.started \in Times
  /\ (child # 0) <=> sup.at \in {"spawned", "waiting"}
  /\ script.op \in {"none", "install", "rollback", "uninstall"}
  /\ script.at \in {"none", "end", "stop", "switch", "point", "run", "live", "ready", "record",
                    "restore", "restorePrevious", "rerun", "delete"}
  /\ {script.target, script.old, script.oldPrevious} \subseteq Pointers
  /\ now \in Times
  /\ \A b \in DOMAIN Bounds : spent[b] \in 0..Bounds[b]
  /\ {cut, stray} \subseteq BOOLEAN

\* A fresh machine, or one on which a release was installed and migrated the database.
Init ==
  /\ current \in Initial
  /\ installed = {current} \ {NoRelease}
  /\ previous = NoRelease
  /\ task = (current # NoRelease)
  /\ db = IF current = NoRelease THEN [l \in LedgerNames |-> << >>] ELSE Known[current]
  /\ ProcessInit
  /\ state = [rel |-> NoRelease, crashes |-> << >>]
  /\ sup = NoSup
  /\ script = NoScript
  /\ now = 0
  /\ spent = [b \in DOMAIN Bounds |-> 0]
  /\ seen = [rel |-> NoRelease, times |-> << >>]
  /\ cut = FALSE /\ stray = FALSE

files == <<installed, current, previous, task>>
history == <<seen, cut, stray>>

Spend(b) == spent[b] < Bounds[b] /\ spent' = [spent EXCEPT ![b] = @ + 1]

----------------------------------------------------------------------------
(* The supervisor *)

\* Where-Object on a list of times.  The list is appended to as time goes by, so what it
\* keeps is the list from the first entry that qualifies.
From(times, qualify) ==
  IF qualify = {} THEN << >>
  ELSE SubSeq(times, CHOOSE i \in qualify : \A j \in qualify : i <= j, Len(times))

InWindow(times, at) == From(times, {i \in DOMAIN times : times[i] + Window >= at})

\* For the history, the latest MaxRestarts crashes less than the window back (at its edge a
\* long run also clears the list).
Recent(times, at) ==
  LET inside == From(times, {i \in DOMAIN times : times[i] + Window > at})
  IN IF Len(inside) > MaxRestarts THEN Tail(inside) ELSE inside

\* The crash times of this release's earlier supervisors.
KeptCrashes_Forgotten == << >>

KeptCrashes == IF state.rel = current THEN state.crashes ELSE << >>

\* The scheduled task starts the supervisor unless one runs (IgnoreNew); without a current release it ends at once.
RunTask ==
  sup' = IF sup.at = "none" /\ task' /\ current # NoRelease
         THEN [NoSup EXCEPT !.at = "check", !.rel = current, !.crashes = KeptCrashes]
         ELSE sup

\* Logon, or RestartOnFailure after the supervisor failed.
TaskFires ==
  /\ sup.at = "none" /\ task
  /\ Spend("events")
  /\ UNCHANGED files
  /\ RunTask
  /\ UNCHANGED <<processVars, state, script, now, history>>

\* Too many crashes in the window: degraded, exit 3.
GiveUp ==
  /\ sup.at = "check"
  /\ LET recent == InWindow(sup.crashes, now)
     IN /\ Len(recent) >= MaxRestarts
        /\ state' = [rel |-> sup.rel, crashes |-> recent]
  /\ sup' = NoSup
  /\ UNCHANGED <<processVars, files, script, now, spent, history>>

Spawn ==
  /\ sup.at = "check"
  /\ Len(InWindow(sup.crashes, now)) < MaxRestarts
  /\ \E p \in Procs :
       /\ procs[p].at = "none" /\ \A q \in 1..(p - 1) : procs[q].at # "none"
       /\ procs' = Launched(p, sup.rel)
       /\ child' = p
  /\ sup' = [sup EXCEPT !.at = "spawned", !.crashes = InWindow(sup.crashes, now), !.started = now]
  /\ UNCHANGED <<db, files, state, script, now, spent, history>>

\* The supervisor writes its state.
WriteRunning ==
  /\ sup.at = "spawned"
  /\ sup' = [sup EXCEPT !.at = "waiting"]
  /\ state' = [rel |-> sup.rel, crashes |-> sup.crashes]
  /\ seen' = IF seen.rel = sup.rel THEN seen ELSE [rel |-> sup.rel, times |-> << >>]
  /\ UNCHANGED <<processVars, files, script, now, spent, cut, stray>>

CrashesAfter_NotRecorded == sup.crashes

CrashesAfter == Append(IF now - sup.started >= Window THEN << >> ELSE sup.crashes, now)

\* Exit code 0 ends supervision and clears the window; any other exit is a crash, followed by a back-off.
ChildExited ==
  /\ sup.at = "waiting" /\ procs[child].at = "exited"
  /\ LET clean == procs[child].code = 0
         crashes == IF clean THEN << >> ELSE CrashesAfter
     IN /\ sup' = IF clean THEN NoSup ELSE [sup EXCEPT !.at = "check", !.crashes = crashes]
        /\ state' = [rel |-> sup.rel, crashes |-> crashes]
        /\ seen' = [seen EXCEPT !.times = IF clean THEN << >> ELSE Recent(Append(@, now), now)]
  /\ procs' = [procs EXCEPT ![child] = NoProc]
  /\ child' = 0
  /\ UNCHANGED <<db, files, script, now, spent, cut, stray>>

Supervise == GiveUp \/ Spawn \/ WriteRunning \/ ChildExited

----------------------------------------------------------------------------
(* The scripts *)

\* The supervisor ends; its process, if it lives, goes on without one.
SupervisorGone ==
  /\ sup' = NoSup
  /\ child' = 0
  /\ procs' = [p \in Procs |-> IF procs[p].at = "exited" THEN NoProc ELSE procs[p]]

Script(changes) == script' = changes
Done(result) == Script([NoScript EXCEPT !.result = result])
Goto(label) == Script([script EXCEPT !.at = label])
Fail == Script([script EXCEPT !.at = "end", !.failed = TRUE])

Begin(op, target) ==
  /\ script.op = "none"
  /\ Spend("scripts")
  /\ Script([NoScript EXCEPT !.op = op, !.at = "end", !.target = target, !.old = current, !.oldPrevious = previous])

\* install.ps1 up to the stop: the release directory appears complete, by one rename.
BeginInstall(r) ==
  /\ Begin("install", r)
  /\ installed' = installed \cup {r}
  /\ UNCHANGED <<processVars, current, previous, task, state, sup, now, history>>

\* rollback.ps1 up to the stop: two releases, and a schema the previous one supports.
RollbackAllowed == SchemaReadable /\ InRange(previous)

BeginRollback ==
  /\ current # NoRelease /\ previous # NoRelease
  /\ RollbackAllowed
  /\ Begin("rollback", previous)
  /\ UNCHANGED <<processVars, files, state, sup, now, history>>

BeginUninstall ==
  /\ Begin("uninstall", NoRelease)
  /\ UNCHANGED <<processVars, files, state, sup, now, history>>

\* schtasks /End, then the supervisor named in the state file.  When /End fails, one that
\* has not written its state escapes, and any does when the file cannot be read.
EndSupervisor ==
  /\ script.at = "end"
  /\ Goto("stop")
  /\ \/ /\ SupervisorGone
        /\ UNCHANGED spent
     \/ /\ sup.at # "none"
        /\ Spend("events")
        /\ UNCHANGED <<sup, child, procs>>
  /\ UNCHANGED <<db, files, state, now, history>>

\* Every process whose binary lies under releases/, whoever started it.
Managed == {p \in Procs : Alive(p)}

AfterStop == IF script.failed THEN "restore" ELSE IF script.op = "uninstall" THEN "delete" ELSE "switch"

\* The loop ends when a listing finds no managed process.
StopProcesses ==
  /\ script.at = "stop"
  /\ IF Managed = {}
     THEN Goto(AfterStop) /\ UNCHANGED procs
     ELSE procs' = [p \in Procs |-> IF p \in Managed THEN Ended(p, 1) ELSE procs[p]] /\ UNCHANGED script
  /\ UNCHANGED <<db, child, files, state, sup, now, spent, history>>

\* A script has made one of the two writes that swap the pointers or undo that.
Halfway ==
  \/ script.op = "install" /\ script.at \in {"point", "restorePrevious"}
  \/ script.op = "rollback" /\ script.at \in {"run", "live", "ready", "record", "restore"}
  \/ script.op = "rollback" /\ script.failed /\ script.at \in {"end", "stop"}

\* A process outlives its deadline and the script throws; in the recovery the pointers are not restored.
StopFails ==
  /\ script.at \in {"end", "stop"}
  /\ Spend("events")
  /\ Done("none")
  /\ cut' = (cut \/ Halfway)
  /\ UNCHANGED <<processVars, files, state, sup, now, seen, stray>>

\* Installing the current version again keeps the previous pointer.
NewPrevious_Always == IF script.old # NoRelease THEN script.old ELSE previous

NewPrevious == IF script.old \notin {NoRelease, script.target} THEN script.old ELSE previous

WritePrevious ==
  /\ script.at = "switch" /\ script.op = "install"
  /\ previous' = NewPrevious
  /\ Goto("point")
  /\ UNCHANGED <<processVars, installed, current, task, state, sup, now, spent, history>>

WriteCurrent ==
  /\ \/ script.at = "point"
     \/ script.at = "switch" /\ script.op = "rollback"
  /\ current' = script.target
  /\ Goto("run")
  /\ stray' = (sup.at # "none" \/ Managed # {})
  /\ UNCHANGED <<processVars, installed, previous, task, state, sup, now, spent, seen, cut>>

\* install.ps1 registers the task; both start it.
StartTask ==
  /\ script.at = "run"
  /\ task' = (task \/ script.op = "install")
  /\ RunTask
  /\ Goto("live")
  /\ UNCHANGED <<processVars, installed, current, previous, state, now, spent, history>>

\* Registration or start fails.
StartTaskFails ==
  /\ script.at = "run"
  /\ Spend("events")
  /\ \E registered \in BOOLEAN : task' = (task \/ (registered /\ script.op = "install"))
  /\ Fail
  /\ UNCHANGED <<processVars, installed, current, previous, state, sup, now, history>>

\* /health/live names the target version.
CheckLive ==
  /\ script.at = "live"
  /\ \E p \in Procs : Listening(p) /\ procs[p].at = "serve" /\ procs[p].rel = script.target
  /\ Goto("ready")
  /\ UNCHANGED <<processVars, files, state, sup, now, spent, history>>

\* What the health check asks of /health/ready.
Ready_Answers == \E p \in Procs : Listening(p) /\ procs[p].at = "serve"

Ready == \E p \in Procs : Listening(p) /\ Writable(p)

\* /health/ready says writable, or the check starts again.
CheckReady ==
  /\ script.at = "ready"
  /\ IF ~Ready THEN Goto("live")
     ELSE IF script.op = "install" THEN Done("switched")
     ELSE Goto("record")
  /\ UNCHANGED <<processVars, files, state, sup, now, spent, history>>

HealthTimesOut ==
  /\ script.at \in {"live", "ready"}
  /\ Fail
  /\ UNCHANGED <<processVars, files, state, sup, now, spent, history>>

RecordPrevious ==
  /\ script.at = "record"
  /\ previous' = script.old
  /\ Done("switched")
  /\ UNCHANGED <<processVars, installed, current, task, state, sup, now, spent, history>>

\* A pointer that rollback.ps1 cannot write is handled as a failed health check is.
RollbackWriteFails ==
  /\ script.op = "rollback" /\ script.at \in {"switch", "record"}
  /\ Spend("events")
  /\ Fail
  /\ UNCHANGED <<processVars, files, state, sup, now, history>>

RestoreCurrent ==
  /\ script.at = "restore"
  /\ current' = script.old
  /\ Goto(IF script.op = "install" THEN "restorePrevious" ELSE "rerun")
  /\ UNCHANGED <<processVars, installed, previous, task, state, sup, now, spent, history>>

RestorePrevious ==
  /\ script.at = "restorePrevious"
  /\ previous' = script.oldPrevious
  /\ Goto("rerun")
  /\ UNCHANGED <<processVars, installed, current, task, state, sup, now, spent, history>>

\* The old release is started again; after a failed first installation the task goes.
Rerun ==
  /\ script.at = "rerun"
  /\ task' = (task /\ script.old # NoRelease)
  /\ RunTask
  /\ Done("none")
  /\ UNCHANGED <<processVars, installed, current, previous, state, now, spent, history>>

DeleteTask ==
  /\ script.at = "delete"
  /\ task' = FALSE
  /\ Done("none")
  /\ UNCHANGED <<processVars, installed, current, previous, state, sup, now, spent, history>>

ScriptStep ==
  \/ EndSupervisor \/ StopProcesses \/ StopFails
  \/ WritePrevious \/ WriteCurrent \/ StartTask \/ StartTaskFails
  \/ CheckLive \/ CheckReady \/ HealthTimesOut \/ RollbackWriteFails \/ RecordPrevious
  \/ RestoreCurrent \/ RestorePrevious \/ Rerun \/ DeleteTask

----------------------------------------------------------------------------
(* Processes and surroundings *)

Others == <<files, state, sup, script, now, history>>

ProcessStep(p) == (Listen(p) \/ Migrate(p)) /\ UNCHANGED <<Others, spent>>

ProcessFails(p) ==
  \/ MigrationFails(p) /\ Spend("events") /\ UNCHANGED Others
  \/ (Crash(p) \/ Shutdown(p)) /\ Spend("events") /\ UNCHANGED Others

\* The supervisor ends by itself or is ended from outside.
SupervisorDies ==
  /\ sup.at # "none"
  /\ Spend("events")
  /\ SupervisorGone
  /\ UNCHANGED <<db, files, state, script, now, history>>

\* The operator's window closes, or a write that no catch guards throws.
Interrupt ==
  /\ script.op # "none"
  /\ Spend("events")
  /\ Done("none")
  /\ cut' = (cut \/ Halfway)
  /\ UNCHANGED <<processVars, files, state, sup, now, seen, stray>>

PowerLoss ==
  /\ Spend("events")
  /\ procs' = [p \in Procs |-> NoProc]
  /\ child' = 0
  /\ sup' = NoSup
  /\ script' = IF script.op = "none" THEN script ELSE NoScript
  /\ cut' = (cut \/ Halfway)
  /\ UNCHANGED <<db, files, state, now, seen, stray>>

Tick ==
  /\ now < MaxTime
  /\ now' = now + 1
  /\ seen' = [seen EXCEPT !.times = Recent(@, now + 1)]
  /\ UNCHANGED <<processVars, files, state, sup, script, spent, cut, stray>>

Next ==
  \/ TaskFires \/ Supervise
  \/ \E r \in Releases : BeginInstall(r)
  \/ BeginRollback \/ BeginUninstall \/ ScriptStep
  \/ \E p \in Procs : ProcessStep(p) \/ ProcessFails(p)
  \/ SupervisorDies \/ Interrupt \/ PowerLoss \/ Tick

Spec == Init /\ [][Next]_vars

\* The supervisor and the processes are scheduled by the operating system.
FairSpec ==
  /\ Spec
  /\ WF_vars(Supervise)
  /\ \A p \in Procs : WF_vars(ProcessStep(p))
  /\ WF_vars(ScriptStep)

----------------------------------------------------------------------------
(* Properties *)

\* A server that reports a writable store runs on a database to which every migration it
\* knows was applied, by whichever release, however often a start ended between two groups.
WritableMigrated ==
  \A p \in Procs : procs[p].store = "open" =>
    \A l \in LedgerNames : Prefix(Known[procs[p].rel][l], db[l])

\* After install.ps1 or rollback.ps1 reported success the current release can open the
\* database, also when a migration ran between the schema check and the stop or an earlier
\* script was cut off, and nothing else runs, unless a process was started between the stop
\* and the new pointer.
SwitchComplete ==
  ~stray /\ script.result = "switched" =>
    CanOpen(current) /\ \A p \in Procs : Alive(p) => procs[p].rel = current

\* Between scripts the previous pointer names another release than the current one:
\* a rollback has somewhere to go, after failed, repeated and interrupted installations
\* too, unless a script was cut off between the two writes that swap the pointers.
RollbackTarget == ~cut /\ script.op = "none" /\ previous # NoRelease => previous # current

\* Across restarts of the supervisor and the machine, no process is started once MaxRestarts
\* crashes of its release lie less than the window back.
CrashLoopBounded ==
  [][sup.at = "check" /\ sup'.at = "spawned" /\ seen.rel = sup.rel =>
       Len(seen.times) < MaxRestarts]_vars

\* Supervision comes to rest: the server it waits for serves, or it ends (degraded, stopped).
SupervisionSettles ==
  sup.at # "none" ~> sup.at = "none" \/ (child # 0 /\ procs[child].at = "serve")

=============================================================================
