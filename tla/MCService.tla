----------------------------- MODULE MCService -----------------------------
(***************************************************************************)
(* Small installations for the model checker.                              *)
(***************************************************************************)
EXTENDS Service, TLC

CONSTANTS Root, r1, r2

InRoot == <<Root, "ExamMonitor">>

Collector0 ==
  [id |-> "a", kind |-> "activitywatch", enabled |-> TRUE, heartbeat |-> 1, lateness |-> 1, offline |-> 4,
   settings |-> TRUE, poll |-> 1, pageSize |-> 10, windows |-> 1]

Watcher(id, offline) == [Collector0 EXCEPT !.id = id, !.offline = offline]
Camera(on) == [Collector0 EXCEPT !.id = "cam", !.kind = "media", !.settings = FALSE, !.enabled = on]
Phone == [Collector0 EXCEPT !.id = "phone", !.kind = "generic_json", !.settings = FALSE]

File(collectors) == [schema |-> 1, collectors |-> collectors]
MediaFile(collectors) == File(collectors) @@ [ffprobe |-> <<Root, "ffprobe">>]
Input(file, env) == [file |-> file, env |-> env]
NoEnv == <<>>
Minimum == [mode |-> "minimum", media |-> TRUE]

Failing == {"REQUEST_FAILED"}
Quiet ==
  [inputs |-> {}, outcomes |-> Failing, levels |-> {}, pages |-> {}, starts |-> 1, moves |-> 0, faults |-> 0,
   timed |-> FALSE, signals |-> TRUE, assets |-> TRUE]

\* Three and four watchers share the two slots.
Waves4 ==
  [Quiet EXCEPT
     !.inputs = {Input(File(<<Watcher("a", 4), Watcher("b", 6), Watcher("c", 4), Watcher("d", 4)>>), NoEnv),
                 Input(File(<<Watcher("a", 4), Watcher("b", 4), Watcher("c", 6)>>), NoEnv)},
     !.timed = TRUE, !.signals = FALSE]

\* A shutdown finds polls that run and one that waits.
Queued ==
  [Quiet EXCEPT !.inputs = {Input(File(<<Watcher("a", 4), Watcher("b", 4), Watcher("c", 4)>>), NoEnv)}]

\* Restarts under what a file and an environment make together, some of it refused.
Layers ==
  [Quiet EXCEPT
     !.inputs =
       {Input(MediaFile(<<Watcher("a", 4), Camera(TRUE)>>), Minimum),
        Input(MediaFile(<<Watcher("a", 4), Camera(TRUE)>>), [dashboard |-> FALSE]),
        Input(MediaFile(<<Watcher("a", 4), Camera(TRUE), Phone>>), Minimum),
        Input(MediaFile(<<Watcher("a", 4), Camera(FALSE)>>), Minimum),
        Input(File(<<Watcher("a", 4)>>) @@ [retention |-> TRUE, fullBackup |-> FALSE], NoEnv),
        Input(File(<<Watcher("a", 12)>>), NoEnv),
        Input(File(<<>>), [address |-> "open"]),
        Input(File(<<>>), [inbox |-> <<"media", "in">>]),
        Input(File(<<>>), [media |-> Garbage])},
     !.starts = 2]

\* A watcher that fails, recovers and meets a full disk, across a crash or a lost row.
Watching ==
  [Quiet EXCEPT
     !.inputs = {Input(File(<<Watcher("a", 4)>>), NoEnv)}, !.outcomes = {"", "REQUEST_FAILED"},
     !.levels = {"normal", "reserve"}, !.starts = 2, !.moves = 2, !.faults = 1]

\* The disk fills up and empties again around a restart of the media worker.
Disk ==
  [Quiet EXCEPT
     !.inputs = {Input(MediaFile(<<>>), [media |-> TRUE])},
     !.levels = {"normal", "unknown", "reserve"}, !.starts = 2, !.moves = 2]

\* Requests of the coverage page around a shutdown; the dashboard's files are broken.
Pages ==
  [Quiet EXCEPT
     !.inputs = {Input(File(<<>>), NoEnv)},
     !.pages = {r1, r2}, !.starts = 2, !.moves = 1, !.faults = 1, !.assets = FALSE]

Installations == {Waves4, Queued, Layers, Watching, Disk, Pages}
=============================================================================
