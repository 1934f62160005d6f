------------------------------- MODULE Config -------------------------------
(***************************************************************************)
(* config.Load: the defaults, a JSON file and the environment, laid over   *)
(* each other, resolved to absolute paths and validated as a whole.        *)
(*                                                                         *)
(* Settings is a record of the values that depend on each other; a value   *)
(* that has limits of its own only is left out, and `broken' names the     *)
(* error codes of those that are outside theirs.  Garbage is text that is  *)
(* no number, duration or boolean.  Collectors' durations count units of   *)
(* 30 s.  A path is a sequence of names, absolute when it starts with the  *)
(* drive.  A definition X_<Bug> is X with a plausible bug in it; no        *)
(* specification uses it.                                                  *)
(***************************************************************************)
EXTENDS Integers, Sequences, FiniteSets

CONSTANTS
  Garbage,
  Drive, AppData       \* the root of absolute paths, %LOCALAPPDATA%\ExamMonitor

ActivityWatchSla == 10     \* 5 minutes
MediaSla         == 30     \* 15 minutes

Defaults ==
  [schema |-> 1, mode |-> "record-only", backup |-> TRUE,
   address |-> "loopback", allowOpen |-> FALSE, readHeader |-> 5, read |-> 10,
   data |-> <<"data">>, inbox |-> <<"media-inbox">>,
   warning |-> 10, critical |-> 5, reserve |-> 1,
   requestBytes |-> 16, eventBytes |-> 1, maxBatch |-> 100, page |-> 100, maxPage |-> 500,
   media |-> FALSE, ffprobe |-> <<>>, retention |-> FALSE, fullBackup |-> TRUE,
   collectors |-> <<>>, dashboard |-> TRUE, broken |-> {}]

\* The dashboard switch is no field of the file, and collectors, thresholds and
\* retention are no variables of the environment.
FileFields == DOMAIN Defaults \ {"dashboard"}
EnvFields  ==
  {"mode", "dashboard", "address", "allowOpen", "data", "media", "inbox", "ffprobe",
   "readHeader", "read", "maxBatch", "eventBytes", "requestBytes", "page", "maxPage", "broken"}

\* Parsed where the environment is applied; the others where they are validated.
TypedEnv ==
  {"dashboard", "allowOpen", "media", "maxBatch", "eventBytes", "requestBytes", "page", "maxPage"}

\* Two functions laid over each other: the left one wins.
f ++ g == [k \in DOMAIN f \cup DOMAIN g |-> IF k \in DOMAIN f THEN f[k] ELSE g[k]]

-----------------------------------------------------------------------------
(* Paths.                                                                   *)

IsAbs(p) == p # <<>> /\ p[1] = Drive

\* A relative path that does not climb out of where it starts.
IsLocal(p) == p # <<>> /\ ".." \notin {p[n] : n \in DOMAIN p}

PathContains(root, p) == Len(root) <= Len(p) /\ SubSeq(p, 1, Len(root)) = root
PathsOverlap(p, q) == PathContains(p, q) \/ PathContains(q, p)

MediaStorage(c) == c.data \o <<"media">>

\* The inbox is resolved inside the data directory, so the data directory first.
Resolve(c) ==
  LET data  == IF IsAbs(c.data) THEN c.data ELSE AppData \o c.data
      inbox == IF IsAbs(c.inbox) THEN c.inbox ELSE data \o c.inbox
  IN  [c EXCEPT !.data = data, !.inbox = inbox]

Resolvable(c) == (IsAbs(c.data) \/ IsLocal(c.data)) /\ (IsAbs(c.inbox) \/ IsLocal(c.inbox))

-----------------------------------------------------------------------------
(* Validation.                                                              *)

EnabledOf(c, kind) ==
  {n \in DOMAIN c.collectors : c.collectors[n].enabled /\ c.collectors[n].kind = kind}

\* What decoding leaves: settings of the right type, and those of an enabled
\* collector within their own limits.
CollectorSettings ==
  [id : STRING, kind : STRING, enabled : BOOLEAN, heartbeat : Nat, lateness : Nat, offline : Nat,
   settings : BOOLEAN, poll : Nat, pageSize : Nat, windows : Nat]

CollectorsTyped(cs) ==
  cs \in Seq(CollectorSettings) /\ \A n \in DOMAIN cs : cs[n].enabled => cs[n].offline >= 1

ActivityWatchValid(c, x) ==
  /\ x.offline <= ActivityWatchSla
  /\ x.poll <= x.heartbeat
  /\ x.pageSize <= c.maxBatch

CollectorValid(c, x) ==
  x.enabled =>
    /\ x.heartbeat + x.lateness <= x.offline
    /\ x.settings <=> x.kind = "activitywatch"
    /\ x.kind = "activitywatch" => ActivityWatchValid(c, x)
    /\ x.kind = "media" => x.offline <= MediaSla
    /\ x.windows \in 1 .. 64

CollectorsValid(c) ==
  /\ Len(c.collectors) <= 64
  /\ \A m, n \in DOMAIN c.collectors : c.collectors[m].id = c.collectors[n].id => m = n
  /\ \A n \in DOMAIN c.collectors :
       /\ c.collectors[n].kind \in {"activitywatch", "generic_json", "media"}
       /\ CollectorValid(c, c.collectors[n])
  /\ Cardinality(EnabledOf(c, "activitywatch")) <= 4

\* Minimum mode is the two essential sources with their media worker and a
\* backup, and nothing else.
MinimumValid(c) ==
  c.mode = "minimum" =>
    /\ c.backup /\ c.media
    /\ EnabledOf(c, "activitywatch") # {} /\ EnabledOf(c, "media") # {}
    /\ EnabledOf(c, "generic_json") = {}

Validate(c) ==
  /\ c.schema = 1
  /\ c.address # Garbage /\ (c.address = "loopback" \/ c.allowOpen)
  /\ IsAbs(c.data) /\ IsAbs(c.inbox) /\ ~PathsOverlap(c.inbox, MediaStorage(c))
  /\ c.mode \in {"record-only", "minimum"}
  /\ {c.readHeader, c.read} \cap {Garbage} = {} /\ c.read >= c.readHeader
  /\ c.warning > c.critical /\ c.critical > c.reserve
  /\ c.retention => c.fullBackup
  /\ c.eventBytes < c.requestBytes
  /\ c.page >= 1 /\ c.maxPage >= c.page
  /\ c.media => IsAbs(c.ffprobe)
  /\ c.broken = {}
  /\ CollectorsValid(c) /\ MinimumValid(c)

-----------------------------------------------------------------------------
(* Load.  A file is a record of the fields it has; a start without one is   *)
(* a start with a file that says schema_version 1 and no more.             *)

DecodeFile(file) == DOMAIN file \subseteq FileFields /\ "schema" \in DOMAIN file

\* Other variables of the environment are not looked at.
Overrides(env) == [f \in DOMAIN env \cap EnvFields |-> env[f]]

ApplyEnvironment(env) == \A f \in DOMAIN env \cap TypedEnv : env[f] # Garbage

Rejected == [mode |-> "rejected", collectors |-> <<>>]

\* A start that looks at the file alone and applies the environment to what passed.
Load_FileOnly(file, env) ==
  LET c == Resolve(Overrides(env) ++ file ++ Defaults) IN
  IF /\ DecodeFile(file) /\ ApplyEnvironment(env) /\ Resolvable(c)
     /\ Validate(Resolve(file ++ Defaults))
  THEN c ELSE Rejected

\* The environment wins over the file, which wins over the defaults, and what
\* comes out is validated.
Load(file, env) ==
  LET c == Overrides(env) ++ file ++ Defaults IN
  IF DecodeFile(file) /\ ApplyEnvironment(env) /\ Resolvable(c) /\ Validate(Resolve(c))
  THEN Resolve(c) ELSE Rejected

\* The dashboard is never part of minimum mode.
DashboardIsEnabled(c) == c.dashboard /\ c.mode = "record-only"
=============================================================================
