--------------------------- MODULE Lifecycle_proofs ---------------------------
(***************************************************************************)
(* Installation, supervision and rollback, for any number of releases,     *)
(* migrations, processes, crashes, scripts and restarts of the machine:    *)
(* a writable store is migrated, a completed switch left only the current  *)
(* release running, a rollback has a target, and a crash loop is bounded.  *)
(***************************************************************************)
EXTENDS Lifecycle, SequenceTheorems, WellFoundedInduction, TLAPS

-----------------------------------------------------------------------------
(* Lists of crash times.                                                    *)

\* b is what a ends with.
EndsWith(a, b) == Len(b) <= Len(a) /\ \A i \in 1 .. Len(b) : b[i] = a[Len(a) - Len(b) + i]

LEMMA LeastExists ==
  ASSUME NEW S, S \subseteq Nat, S # {}
  PROVE  LET m == CHOOSE i \in S : \A j \in S : i <= j IN m \in S /\ \A j \in S : m <= j
<1>1. PICK x \in S : \A y \in S : ~(<<y, x>> \in OpToRel(<, Nat))
  BY NatLessThanWellFounded, WFMin
<1>2. \A y \in S : ~(y < x)
  BY <1>1 DEF OpToRel
<1>3. \A y \in S : x <= y
  BY <1>2
<1> QED BY <1>3

\* What From keeps is the end of the list, beginning at its first qualifying entry.
LEMMA FromIsSuffix ==
  ASSUME NEW S, NEW times \in Seq(S), NEW qualify, qualify \subseteq DOMAIN times
  PROVE  LET kept == From(times, qualify) IN
         /\ kept \in Seq(S) /\ EndsWith(times, kept)
         /\ \A i \in qualify : i > Len(times) - Len(kept)
         /\ kept # << >> => Len(times) - Len(kept) + 1 \in qualify
<1>1. CASE qualify = {}
  BY <1>1 DEF From, EndsWith
<1>2. CASE qualify # {}
  <2> DEFINE m == CHOOSE i \in qualify : \A j \in qualify : i <= j
  <2>1. DOMAIN times = 1 .. Len(times) /\ Len(times) \in Nat
    OBVIOUS
  <2>2. m \in qualify /\ \A j \in qualify : m <= j
    BY <1>2, <2>1, LeastExists
  <2>3. m \in 1 .. Len(times)
    BY <2>1, <2>2
  <2>4. From(times, qualify) = SubSeq(times, m, Len(times))
    BY <1>2 DEF From
  <2> HIDE DEF m
  <2>5. /\ SubSeq(times, m, Len(times)) \in Seq(S)
        /\ Len(SubSeq(times, m, Len(times))) = Len(times) - m + 1
        /\ \A i \in 1 .. Len(times) - m + 1 : SubSeq(times, m, Len(times))[i] = times[m + i - 1]
    BY <2>1, <2>3, SubSeqProperties
  <2>6. EndsWith(times, SubSeq(times, m, Len(times)))
    BY <2>1, <2>3, <2>5 DEF EndsWith
  <2>7. \A i \in qualify : i > Len(times) - (Len(times) - m + 1)
    BY <2>1, <2>2, <2>3
  <2>8. Len(times) - (Len(times) - m + 1) + 1 = m
    BY <2>1, <2>3
  <2> QED BY <2>2, <2>4, <2>5, <2>6, <2>7, <2>8
<1> QED BY <1>1, <1>2

LEMMA WindowKept ==
  ASSUME NEW S \in SUBSET Nat, NEW times \in Seq(S), NEW at \in Nat
  PROVE  /\ InWindow(times, at) \in Seq(S) /\ EndsWith(times, InWindow(times, at))
         /\ \A i \in DOMAIN times :
              times[i] + Window >= at => i > Len(times) - Len(InWindow(times, at))
<1> DEFINE q == {i \in DOMAIN times : times[i] + Window >= at}
<1>1. InWindow(times, at) = From(times, q)
  BY DEF InWindow
<1>2. q \subseteq DOMAIN times /\ \A i \in DOMAIN times : times[i] + Window >= at => i \in q
  OBVIOUS
<1> HIDE DEF q
<1> QED BY <1>1, <1>2, FromIsSuffix

\* The end of the end of a list is its end.
LEMMA EndsWithTransitive ==
  ASSUME NEW S, NEW a \in Seq(S), NEW b \in Seq(S), NEW c \in Seq(S), EndsWith(a, b), EndsWith(b, c)
  PROVE  EndsWith(a, c)
<1>1. Len(a) \in Nat /\ Len(b) \in Nat /\ Len(c) \in Nat /\ Len(c) <= Len(b) /\ Len(b) <= Len(a)
  BY DEF EndsWith
<1>2. ASSUME NEW i \in 1 .. Len(c) PROVE c[i] = a[Len(a) - Len(c) + i]
  <2>1. Len(b) - Len(c) + i \in 1 .. Len(b)
    BY <1>1
  <2>2. c[i] = b[Len(b) - Len(c) + i]
    BY DEF EndsWith
  <2>3. b[Len(b) - Len(c) + i] = a[Len(a) - Len(b) + (Len(b) - Len(c) + i)]
    BY <2>1 DEF EndsWith
  <2>4. Len(a) - Len(b) + (Len(b) - Len(c) + i) = Len(a) - Len(c) + i
    BY <1>1
  <2> QED BY <2>2, <2>3, <2>4
<1> QED BY <1>1, <1>2 DEF EndsWith

LEMMA EndsWithAppend ==
  ASSUME NEW S, NEW a \in Seq(S), NEW b \in Seq(S), NEW e \in S, EndsWith(a, b)
  PROVE  EndsWith(Append(a, e), Append(b, e))
<1> DEFINE x == Append(a, e)
           y == Append(b, e)
<1>1. Len(a) \in Nat /\ Len(b) \in Nat /\ Len(b) <= Len(a)
  BY DEF EndsWith
<1>2. Len(x) = Len(a) + 1 /\ Len(y) = Len(b) + 1
  OBVIOUS
<1>3. ASSUME NEW i \in 1 .. Len(b) + 1 PROVE y[i] = x[Len(a) - Len(b) + i]
  <2>1. CASE i = Len(b) + 1
    BY <1>1, <2>1
  <2>2. CASE i \in 1 .. Len(b)
    <3>1. Len(a) - Len(b) + i \in 1 .. Len(a)
      BY <1>1, <2>2
    <3>2. b[i] = a[Len(a) - Len(b) + i]
      BY <2>2 DEF EndsWith
    <3> QED BY <2>2, <3>1, <3>2
  <2> QED BY <1>1, <2>1, <2>2
<1> HIDE DEF x, y
<1>4. \A i \in 1 .. Len(y) : y[i] = x[Len(x) - Len(y) + i]
  BY <1>1, <1>2, <1>3
<1>5. EndsWith(x, y)
  BY <1>1, <1>2, <1>4 DEF EndsWith
<1> QED BY <1>5 DEF x, y

-----------------------------------------------------------------------------
(* Types.                                                                   *)

ProcRecord ==
  [rel : Pointers, at : {"none", "listen", "open", "serve", "exited"}, ledger : 1 .. 4,
   store : {"closed", "open", "failed"}, code : {0, 1}]

SupRecord ==
  [at : {"none", "check", "spawned", "waiting"}, rel : Pointers, crashes : Seq(Times),
   started : Times]

ScriptRecord ==
  [op : {"none", "install", "rollback", "uninstall"},
   at : {"none", "end", "stop", "switch", "point", "run", "live", "ready", "record",
         "restore", "restorePrevious", "rerun", "delete"},
   target : Pointers, old : Pointers, oldPrevious : Pointers,
   failed : BOOLEAN, result : {"none", "switched"}]

\* A process runs a release, and its store is open only while it serves.
ProcOK ==
  /\ procs \in [Procs -> ProcRecord]
  /\ child \in 0 .. MaxProcs
  /\ \A p \in Procs : /\ procs[p].at = "exited" => p = child
                      /\ Alive(p) => procs[p].rel \in Releases
                      /\ procs[p].store = "open" => procs[p].at = "serve"

\* A supervisor waits for a child exactly after it spawned one.
SupOK ==
  /\ sup \in SupRecord
  /\ sup.at # "none" => sup.rel \in Releases
  /\ child # 0 <=> sup.at \in {"spawned", "waiting"}

ClockOK == now \in Times /\ spent \in [DOMAIN Bounds -> Nat]
           /\ \A b \in DOMAIN Bounds : spent[b] <= Bounds[b]

StateOK ==
  /\ state \in [rel : Pointers, crashes : Seq(Times)]
  /\ seen \in [rel : Pointers, times : Seq(Times)]

ScriptOK == script \in ScriptRecord /\ cut \in BOOLEAN /\ stray \in BOOLEAN

\* Pointers, and what a script will make them, name installed releases.
FilesOK ==
  /\ installed \subseteq Releases /\ task \in BOOLEAN
  /\ {current, previous, script.target, script.old, script.oldPrevious}
       \subseteq installed \cup {NoRelease}

Types == ProcOK /\ SupOK /\ ClockOK /\ StateOK /\ ScriptOK /\ FilesOK

LEMMA NoRecords ==
  /\ NoProc \in ProcRecord /\ NoSup \in SupRecord /\ NoScript \in ScriptRecord
  /\ NoProc.at = "none" /\ NoProc.store = "closed" /\ NoSup.at = "none" /\ NoSup.crashes = << >>
  /\ NoScript.op = "none" /\ NoScript.at = "none" /\ NoScript.result = "none"
BY LifecycleAssumption
   DEF NoProc, NoSup, NoScript, ProcRecord, SupRecord, ScriptRecord, Pointers, Times

LEMMA TypesInit == Init => Types
<1> SUFFICES ASSUME Init PROVE Types
  OBVIOUS
<1>1. ProcOK
  BY NoRecords, ReleaseAssumption DEF Init, ProcessInit, ProcOK, Alive
<1>2. SupOK
  BY NoRecords DEF Init, ProcessInit, SupOK
<1>3. ClockOK
  BY LifecycleAssumption DEF Init, ClockOK, Bounds, Times
<1>4. StateOK
  BY DEF Init, StateOK, Pointers
<1>5. ScriptOK
  BY NoRecords DEF Init, ScriptOK
<1>6. FilesOK
  BY LifecycleAssumption DEF Init, FilesOK, NoScript
<1> QED BY <1>1, <1>2, <1>3, <1>4, <1>5, <1>6 DEF Types

\* A call that may fail uses up part of a bound.
LEMMA SpendKeepsClock ==
  ASSUME ClockOK, NEW b \in DOMAIN Bounds, Spend(b), UNCHANGED now
  PROVE  ClockOK'
<1>1. DOMAIN Bounds = {"events", "scripts"} /\ Bounds.events \in Nat /\ Bounds.scripts \in Nat
  BY LifecycleAssumption DEF Bounds
<1> QED BY <1>1 DEF ClockOK, Spend

LEMMA ClockKept ==
  ASSUME Types, [Next]_vars
  PROVE  ClockOK'
<1>1. CASE UNCHANGED <<now, spent>>
  BY <1>1 DEF Types, ClockOK
<1>2. CASE UNCHANGED now /\ \E b \in DOMAIN Bounds : Spend(b)
  BY <1>2, SpendKeepsClock DEF Types
<1>3. CASE Tick
  <2>1. now' \in Times
    BY <1>3, LifecycleAssumption DEF Tick, Types, ClockOK, Times
  <2> QED BY <1>3, <2>1 DEF Tick, Types, ClockOK
<1>4. "events" \in DOMAIN Bounds /\ "scripts" \in DOMAIN Bounds
  BY DEF Bounds
<1>5. CASE TaskFires \/ Supervise
  BY <1>1, <1>2, <1>4, <1>5 DEF TaskFires, Supervise, GiveUp, Spawn, WriteRunning, ChildExited
<1>6. CASE (\E r \in Releases : BeginInstall(r)) \/ BeginRollback \/ BeginUninstall
  BY <1>2, <1>4, <1>6 DEF BeginInstall, BeginRollback, BeginUninstall, Begin
<1>7. CASE ScriptStep
  BY <1>1, <1>2, <1>4, <1>7 DEF ScriptStep, EndSupervisor, StopProcesses, StopFails, WritePrevious,
     WriteCurrent, StartTask, StartTaskFails, CheckLive, CheckReady, HealthTimesOut, RollbackWriteFails,
     RecordPrevious, RestoreCurrent, RestorePrevious, Rerun, DeleteTask
<1>8. CASE \E p \in Procs : ProcessStep(p) \/ ProcessFails(p)
  BY <1>1, <1>2, <1>4, <1>8 DEF ProcessStep, ProcessFails, Others
<1>9. CASE SupervisorDies \/ Interrupt \/ PowerLoss
  BY <1>2, <1>4, <1>9 DEF SupervisorDies, Interrupt, PowerLoss
<1>10. CASE UNCHANGED vars
  BY <1>1, <1>10 DEF vars
<1> QED BY <1>3, <1>5, <1>6, <1>7, <1>8, <1>9, <1>10 DEF Next

-----------------------------------------------------------------------------
(* What a step does to the supervisor.                                      *)

\* The task starts one for the current release, with the crash times kept for it.
SupStarted ==
  /\ sup.at = "none" /\ current # NoRelease
  /\ sup' = [NoSup EXCEPT !.at = "check", !.rel = current, !.crashes = KeptCrashes]
  /\ UNCHANGED <<child, procs, current, state, seen, now>>

SupEnded == sup' = NoSup /\ child' = 0 /\ UNCHANGED <<current, seen, now>>

LEMMA SupStep ==
  ASSUME [Next]_vars
  PROVE  \/ UNCHANGED <<sup, child, state, seen, now>>
         \/ UNCHANGED <<sup, child, state>> /\ Tick
         \/ SupStarted \/ (SupEnded /\ UNCHANGED state)
         \/ GiveUp \/ Spawn \/ WriteRunning \/ ChildExited
<1>1. CASE TaskFires \/ Supervise
  BY <1>1 DEF TaskFires, Supervise, RunTask, SupStarted, files, history, processVars
<1>2. CASE (\E r \in Releases : BeginInstall(r)) \/ BeginRollback \/ BeginUninstall
  BY <1>2 DEF BeginInstall, BeginRollback, BeginUninstall, history, processVars
<1>3. CASE EndSupervisor \/ SupervisorDies \/ PowerLoss
  BY <1>3 DEF EndSupervisor, SupervisorDies, PowerLoss, SupervisorGone, SupEnded, files, history
<1>4. CASE StartTask \/ Rerun
  BY <1>4 DEF StartTask, Rerun, RunTask, SupStarted, history, processVars
<1>5. CASE ScriptStep /\ ~EndSupervisor /\ ~StartTask /\ ~Rerun
  BY <1>5 DEF ScriptStep, StopProcesses, StopFails, WritePrevious,
     WriteCurrent, StartTaskFails, CheckLive, CheckReady, HealthTimesOut, RollbackWriteFails,
     RecordPrevious, RestoreCurrent, RestorePrevious, DeleteTask, history, processVars
<1>6. CASE \E p \in Procs : ProcessStep(p) \/ ProcessFails(p)
  BY <1>6 DEF ProcessStep, ProcessFails, Others, Listen, Migrate, MigrationFails, Crash, Shutdown,
     history
<1>7. CASE Interrupt \/ Tick
  BY <1>7 DEF Interrupt, Tick, processVars
<1>8. CASE UNCHANGED vars
  BY <1>8 DEF vars, processVars
<1> QED BY <1>1, <1>2, <1>3, <1>4, <1>5, <1>6, <1>7, <1>8 DEF Next

LEMMA SupKept ==
  ASSUME Types, [Next]_vars
  PROVE  SupOK'
<1>1. sup \in SupRecord /\ state \in [rel : Pointers, crashes : Seq(Times)] /\ now \in Times
  BY DEF Types, SupOK, StateOK, ClockOK
<1>2. Times \in SUBSET Nat /\ now \in Nat
  BY <1>1, LifecycleAssumption DEF Times
<1>3. CASE UNCHANGED <<sup, child>>
  BY <1>3 DEF Types, SupOK
<1>4. CASE SupStarted
  <2>1. current \in Releases
    BY <1>4 DEF SupStarted, Types, FilesOK
  <2>2. KeptCrashes \in Seq(Times)
    BY <1>1 DEF KeptCrashes
  <2>3. sup' = [at |-> "check", rel |-> current, crashes |-> KeptCrashes, started |-> 0]
    BY <1>4 DEF SupStarted, NoSup
  <2>4. 0 \in Times
    BY LifecycleAssumption DEF Times
  <2>5. sup' \in SupRecord /\ sup'.at = "check" /\ sup'.rel = current
    BY <2>1, <2>2, <2>3, <2>4 DEF SupRecord, Pointers
  <2>6. child' = 0
    BY <1>4 DEF SupStarted, Types, SupOK
  <2> QED BY <2>1, <2>5, <2>6 DEF SupOK
<1>5. CASE sup' = NoSup /\ child' = 0
  BY <1>5, NoRecords DEF SupOK
<1>6. CASE GiveUp
  <2>1. child = 0
    BY <1>6 DEF GiveUp, Types, SupOK
  <2> QED BY <1>5, <1>6, <2>1 DEF GiveUp, processVars
<1>7. CASE Spawn
  <2>1. InWindow(sup.crashes, now) \in Seq(Times)
    BY <1>1, <1>2, WindowKept DEF SupRecord
  <2>2. sup' = [sup EXCEPT !.at = "spawned", !.crashes = InWindow(sup.crashes, now), !.started = now]
        /\ sup.at = "check" /\ child' \in Procs
    BY <1>7 DEF Spawn
  <2>3. sup' \in SupRecord /\ sup'.at = "spawned" /\ sup'.rel = sup.rel
    BY <1>1, <2>1, <2>2 DEF SupRecord
  <2>4. child' # 0
    BY <2>2 DEF Procs
  <2> QED BY <2>2, <2>3, <2>4 DEF Types, SupOK
<1>8. CASE WriteRunning
  <2>1. sup' = [sup EXCEPT !.at = "waiting"] /\ sup.at = "spawned" /\ UNCHANGED child
    BY <1>8 DEF WriteRunning, processVars
  <2>2. sup' \in SupRecord /\ sup'.at = "waiting" /\ sup'.rel = sup.rel
    BY <1>1, <2>1 DEF SupRecord
  <2> QED BY <2>1, <2>2 DEF Types, SupOK
<1>9. CASE ChildExited
  <2>1. CrashesAfter \in Seq(Times)
    BY <1>1 DEF CrashesAfter, SupRecord
  <2>2. \/ sup' = NoSup
        \/ sup' = [sup EXCEPT !.at = "check", !.crashes = CrashesAfter]
    BY <1>9 DEF ChildExited
  <2>3. child' = 0 /\ sup.at = "waiting"
    BY <1>9 DEF ChildExited
  <2>4. CASE sup' = [sup EXCEPT !.at = "check", !.crashes = CrashesAfter]
    <3>1. sup' \in SupRecord /\ sup'.at = "check" /\ sup'.rel = sup.rel
      BY <1>1, <2>1, <2>4 DEF SupRecord
    <3> QED BY <2>3, <3>1 DEF Types, SupOK
  <2> QED BY <1>5, <2>2, <2>3, <2>4
<1> QED BY <1>3, <1>4, <1>5, <1>6, <1>7, <1>8, <1>9, SupStep DEF SupEnded

\* The history keeps the end of the list, of which every entry lies in the window.
Ordered(q) == \A i, j \in DOMAIN q : i <= j => q[i] <= q[j]

LEMMA RecentKept ==
  ASSUME NEW S \in SUBSET Nat, NEW times \in Seq(S), NEW at \in Nat
  PROVE  /\ Recent(times, at) \in Seq(S) /\ EndsWith(times, Recent(times, at))
         /\ Ordered(times) =>
              \A i \in DOMAIN Recent(times, at) : Recent(times, at)[i] + Window > at
<1> DEFINE q == {i \in DOMAIN times : times[i] + Window > at}
           inside == From(times, q)
<1>1. q \subseteq DOMAIN times /\ \A i \in q : i \in DOMAIN times /\ times[i] + Window > at
  OBVIOUS
<1>2. Recent(times, at) = IF Len(inside) > MaxRestarts THEN Tail(inside) ELSE inside
  BY DEF Recent
<1> HIDE DEF q
<1>3. /\ inside \in Seq(S) /\ EndsWith(times, inside)
      /\ inside # << >> => Len(times) - Len(inside) + 1 \in q
  BY <1>1, FromIsSuffix
<1> HIDE DEF inside
<1>4. ASSUME Ordered(times), NEW i \in DOMAIN inside PROVE inside[i] + Window > at
  <2> DEFINE m == Len(times) - Len(inside) + 1
             n == Len(times) - Len(inside) + i
  <2>1. i \in 1 .. Len(inside) /\ Len(inside) \in Nat /\ Len(times) \in Nat
    BY <1>3
  <2>2. inside # << >>
    BY <2>1
  <2>3. m \in q /\ m \in DOMAIN times /\ times[m] + Window > at
    BY <1>1, <1>3, <2>2
  <2>4. n \in DOMAIN times /\ m <= n /\ inside[i] = times[n]
    BY <1>3, <2>1, <2>3 DEF EndsWith
  <2> HIDE DEF m, n
  <2>5. times[m] <= times[n]
    BY <1>4, <2>3, <2>4 DEF Ordered
  <2>6. times[m] \in Nat /\ times[n] \in Nat
    <3>1. \A k \in DOMAIN times : times[k] \in S
      BY ElementOfSeq
    <3> QED BY <2>3, <2>4, <3>1
  <2> QED BY <2>3, <2>4, <2>5, <2>6, LifecycleAssumption
<1>5. CASE Len(inside) > MaxRestarts
  <2>1. inside # << >> /\ Len(inside) \in Nat /\ MaxRestarts \in Nat
    BY <1>3, <1>5, LifecycleAssumption
  <2>2. /\ Tail(inside) \in Seq(S) /\ Len(Tail(inside)) = Len(inside) - 1
        /\ \A i \in 1 .. Len(Tail(inside)) : Tail(inside)[i] = inside[i + 1]
    BY <1>3, <2>1, HeadTailProperties
  <2>3. EndsWith(inside, Tail(inside))
    BY <2>1, <2>2 DEF EndsWith
  <2>4. EndsWith(times, Tail(inside))
    BY <1>3, <2>2, <2>3, EndsWithTransitive
  <2>5. ASSUME Ordered(times), NEW i \in DOMAIN Tail(inside) PROVE Tail(inside)[i] + Window > at
    <3>1. i \in 1 .. Len(Tail(inside)) /\ i + 1 \in DOMAIN inside
      BY <1>3, <2>1, <2>2
    <3>2. inside[i + 1] + Window > at
      BY <1>4, <2>5, <3>1
    <3> QED BY <2>2, <3>1, <3>2
  <2> QED BY <1>2, <1>5, <2>2, <2>4, <2>5
<1>6. CASE ~(Len(inside) > MaxRestarts)
  BY <1>2, <1>3, <1>4, <1>6
<1> QED BY <1>5, <1>6

LEMMA StateKept ==
  ASSUME Types, [Next]_vars
  PROVE  StateOK'
<1>1. /\ sup \in SupRecord /\ now \in Times /\ Times \in SUBSET Nat /\ now \in Nat /\ now + 1 \in Nat
      /\ state \in [rel : Pointers, crashes : Seq(Times)]
      /\ seen \in [rel : Pointers, times : Seq(Times)]
  BY LifecycleAssumption DEF Types, SupOK, ClockOK, StateOK, Times
<1>2. sup.rel \in Pointers /\ sup.crashes \in Seq(Times) /\ seen.rel \in Pointers /\ seen.times \in Seq(Times)
  BY <1>1 DEF SupRecord
<1>3. ASSUME NEW t \in Seq(Times) PROVE [seen EXCEPT !.times = t] \in [rel : Pointers, times : Seq(Times)]
  BY <1>1
<1>4. ASSUME NEW t \in Seq(Times), NEW r \in Pointers
      PROVE  [rel |-> r, crashes |-> t] \in [rel : Pointers, crashes : Seq(Times)]
  OBVIOUS
<1>5. CASE UNCHANGED <<state, seen>>
  BY <1>5 DEF Types, StateOK
<1>6. CASE UNCHANGED state /\ Tick
  <2>1. Recent(seen.times, now + 1) \in Seq(Times)
    BY <1>1, <1>2, RecentKept
  <2>2. seen' = [seen EXCEPT !.times = Recent(seen.times, now + 1)]
    BY <1>6 DEF Tick
  <2> QED BY <1>1, <1>3, <1>6, <2>1, <2>2 DEF StateOK
<1>7. CASE GiveUp
  <2>1. InWindow(sup.crashes, now) \in Seq(Times)
    BY <1>1, <1>2, WindowKept
  <2>2. state' = [rel |-> sup.rel, crashes |-> InWindow(sup.crashes, now)] /\ UNCHANGED seen
    BY <1>7 DEF GiveUp, history
  <2> QED BY <1>1, <1>2, <1>4, <2>1, <2>2 DEF StateOK
<1>8. CASE Spawn
  BY <1>5, <1>8 DEF Spawn, history
<1>9. CASE WriteRunning
  <2>1. << >> \in Seq(Times)
    OBVIOUS
  <2>2. [rel |-> sup.rel, times |-> << >>] \in [rel : Pointers, times : Seq(Times)]
    BY <1>2, <2>1
  <2>3. state' = [rel |-> sup.rel, crashes |-> sup.crashes]
        /\ (seen' = seen \/ seen' = [rel |-> sup.rel, times |-> << >>])
    BY <1>9 DEF WriteRunning
  <2> QED BY <1>1, <1>2, <1>4, <2>2, <2>3 DEF StateOK
<1>10. CASE ChildExited
  <2>1. CrashesAfter \in Seq(Times) /\ Append(seen.times, now) \in Seq(Times) /\ << >> \in Seq(Times)
    BY <1>1, <1>2 DEF CrashesAfter
  <2>2. Recent(Append(seen.times, now), now) \in Seq(Times)
    BY <1>1, <2>1, RecentKept
  <2>3. \E t \in {<< >>, CrashesAfter} : state' = [rel |-> sup.rel, crashes |-> t]
    BY <1>10 DEF ChildExited
  <2>4. \E t \in {<< >>, Recent(Append(seen.times, now), now)} : seen' = [seen EXCEPT !.times = t]
    BY <1>10 DEF ChildExited
  <2> QED BY <1>2, <1>3, <1>4, <2>1, <2>2, <2>3, <2>4 DEF StateOK
<1> QED BY <1>5, <1>6, <1>7, <1>8, <1>9, <1>10, SupStep DEF SupStarted, SupEnded

-----------------------------------------------------------------------------
(* What a step does to the script.                                          *)

ScriptLabel ==
  {"none", "end", "stop", "switch", "point", "run", "live", "ready", "record",
   "restore", "restorePrevious", "rerun", "delete"}

Begun(op, target) ==
  /\ script.op = "none"
  /\ script' = [NoScript EXCEPT !.op = op, !.at = "end", !.target = target,
                                !.old = current, !.oldPrevious = previous]

LEMMA ScriptForms ==
  ASSUME [Next]_vars
  PROVE  \/ UNCHANGED <<script, current, previous, installed>>
         \/ \E r \in Releases : Begun("install", r) /\ installed' = installed \cup {r}
                                /\ UNCHANGED <<current, previous>>
         \/ Begun("rollback", previous) /\ UNCHANGED <<current, previous, installed>>
         \/ Begun("uninstall", NoRelease) /\ UNCHANGED <<current, previous, installed>>
         \/ ScriptStep /\ UNCHANGED installed
         \/ (script' = NoScript \/ script' = [NoScript EXCEPT !.result = "none"])
            /\ UNCHANGED <<current, previous, installed>>
<1>1. CASE TaskFires \/ Supervise
  BY <1>1 DEF TaskFires, Supervise, GiveUp, Spawn, WriteRunning, ChildExited, files
<1>2. CASE \E r \in Releases : BeginInstall(r)
  BY <1>2 DEF BeginInstall, Begin, Begun, Script
<1>3. CASE BeginRollback \/ BeginUninstall
  BY <1>3 DEF BeginRollback, BeginUninstall, Begin, Begun, Script, files
<1>4. CASE ScriptStep
  BY <1>4 DEF ScriptStep, EndSupervisor, StopProcesses, StopFails, WritePrevious,
     WriteCurrent, StartTask, StartTaskFails, CheckLive, CheckReady, HealthTimesOut, RollbackWriteFails,
     RecordPrevious, RestoreCurrent, RestorePrevious, Rerun, DeleteTask, files
<1>5. CASE \E p \in Procs : ProcessStep(p) \/ ProcessFails(p)
  BY <1>5 DEF ProcessStep, ProcessFails, Others, files
<1>6. CASE SupervisorDies \/ Interrupt \/ PowerLoss \/ Tick
  BY <1>6 DEF SupervisorDies, Interrupt, PowerLoss, Tick, Done, Script, files
<1>7. CASE UNCHANGED vars
  BY <1>7 DEF vars, files
<1> QED BY <1>1, <1>2, <1>3, <1>4, <1>5, <1>6, <1>7 DEF Next

\* A step of the script moves to a label, fails over to the recovery, or is done.
LEMMA ScriptStepForms ==
  ASSUME ScriptStep
  PROVE  \/ UNCHANGED script
         \/ \E l \in ScriptLabel : script' = [script EXCEPT !.at = l]
         \/ script' = [script EXCEPT !.at = "end", !.failed = TRUE]
         \/ \E r \in {"none", "switched"} : script' = [NoScript EXCEPT !.result = r]
<1>1. CASE EndSupervisor \/ StopProcesses \/ StopFails
  BY <1>1 DEF EndSupervisor, StopProcesses, StopFails, Goto, Done, Script, AfterStop, ScriptLabel
<1>2. CASE WritePrevious \/ WriteCurrent \/ StartTask \/ StartTaskFails
  BY <1>2 DEF WritePrevious, WriteCurrent, StartTask, StartTaskFails, Goto, Fail, Script, ScriptLabel
<1>3. CASE CheckLive \/ CheckReady \/ HealthTimesOut \/ RollbackWriteFails \/ RecordPrevious
  BY <1>3 DEF CheckLive, CheckReady, HealthTimesOut, RollbackWriteFails, RecordPrevious, Goto, Fail, Done, Script,
     ScriptLabel
<1>4. CASE RestoreCurrent \/ RestorePrevious \/ Rerun \/ DeleteTask
  BY <1>4 DEF RestoreCurrent, RestorePrevious, Rerun, DeleteTask, Goto, Done, Script, ScriptLabel
<1> QED BY <1>1, <1>2, <1>3, <1>4 DEF ScriptStep

\* A script keeps the pointers it found and its target until it is done.
SamePlan ==
  /\ script'.op = script.op /\ script'.target = script.target
  /\ script'.old = script.old /\ script'.oldPrevious = script.oldPrevious

NothingPlanned ==
  /\ script' \in ScriptRecord /\ script'.op = "none" /\ script'.at = "none"
  /\ script'.failed = FALSE
  /\ script'.target = NoRelease /\ script'.old = NoRelease /\ script'.oldPrevious = NoRelease

LEMMA PlanKept ==
  ASSUME ScriptOK, ScriptStep
  PROVE  script' \in ScriptRecord /\ (SamePlan \/ NothingPlanned)
<1>1. script \in ScriptRecord
  BY DEF ScriptOK
<1>2. CASE UNCHANGED script
  BY <1>1, <1>2 DEF SamePlan
<1>3. CASE \E l \in ScriptLabel : script' = [script EXCEPT !.at = l]
  BY <1>1, <1>3 DEF SamePlan, ScriptRecord, ScriptLabel
<1>4. CASE script' = [script EXCEPT !.at = "end", !.failed = TRUE]
  BY <1>1, <1>4 DEF SamePlan, ScriptRecord
<1>5. CASE \E r \in {"none", "switched"} : script' = [NoScript EXCEPT !.result = r]
  BY <1>5 DEF NothingPlanned, ScriptRecord, NoScript, Pointers
<1> QED BY <1>2, <1>3, <1>4, <1>5, ScriptStepForms

LEMMA CutKept ==
  ASSUME ScriptOK, [Next]_vars
  PROVE  cut' \in BOOLEAN /\ stray' \in BOOLEAN
<1>1. CASE TaskFires \/ Supervise
  BY <1>1 DEF TaskFires, Supervise, GiveUp, Spawn, WriteRunning, ChildExited, history, ScriptOK
<1>2. CASE (\E r \in Releases : BeginInstall(r)) \/ BeginRollback \/ BeginUninstall
  BY <1>2 DEF BeginInstall, BeginRollback, BeginUninstall, history, ScriptOK
<1>3. CASE StopFails \/ WriteCurrent \/ Interrupt \/ PowerLoss
  BY <1>3 DEF StopFails, WriteCurrent, Interrupt, PowerLoss, ScriptOK
<1>4. CASE ScriptStep /\ ~StopFails /\ ~WriteCurrent
  BY <1>4 DEF ScriptStep, EndSupervisor, StopProcesses, WritePrevious,
     StartTask, StartTaskFails, CheckLive, CheckReady, HealthTimesOut, RollbackWriteFails,
     RecordPrevious, RestoreCurrent, RestorePrevious, Rerun, DeleteTask, history, ScriptOK
<1>5. CASE \E p \in Procs : ProcessStep(p) \/ ProcessFails(p)
  BY <1>5 DEF ProcessStep, ProcessFails, Others, history, ScriptOK
<1>6. CASE SupervisorDies \/ Tick \/ UNCHANGED vars
  BY <1>6 DEF SupervisorDies, Tick, vars, history, ScriptOK
<1> QED BY <1>1, <1>2, <1>3, <1>4, <1>5, <1>6 DEF Next

LEMMA TaskKept ==
  ASSUME FilesOK, [Next]_vars
  PROVE  task' \in BOOLEAN
<1>1. CASE StartTask \/ StartTaskFails \/ Rerun \/ DeleteTask
  BY <1>1 DEF StartTask, StartTaskFails, Rerun, DeleteTask
<1>2. CASE ScriptStep /\ ~StartTask /\ ~StartTaskFails /\ ~Rerun /\ ~DeleteTask
  BY <1>2 DEF ScriptStep, EndSupervisor, StopProcesses, StopFails, WritePrevious, WriteCurrent,
     CheckLive, CheckReady, HealthTimesOut, RollbackWriteFails, RecordPrevious, RestoreCurrent, RestorePrevious,
     files, FilesOK
<1>3. CASE TaskFires \/ Supervise
  BY <1>3 DEF TaskFires, Supervise, GiveUp, Spawn, WriteRunning, ChildExited, files, FilesOK
<1>4. CASE (\E r \in Releases : BeginInstall(r)) \/ BeginRollback \/ BeginUninstall
  BY <1>4 DEF BeginInstall, BeginRollback, BeginUninstall, files, FilesOK
<1>5. CASE \E p \in Procs : ProcessStep(p) \/ ProcessFails(p)
  BY <1>5 DEF ProcessStep, ProcessFails, Others, files, FilesOK
<1>6. CASE SupervisorDies \/ Interrupt \/ PowerLoss \/ Tick \/ UNCHANGED vars
  BY <1>6 DEF SupervisorDies, Interrupt, PowerLoss, Tick, vars, files, FilesOK
<1> QED BY <1>1, <1>2, <1>3, <1>4, <1>5, <1>6 DEF Next

LEMMA FilesKept ==
  ASSUME Types, [Next]_vars
  PROVE  ScriptOK' /\ FilesOK'
<1> DEFINE ok(r) == r \in installed \cup {NoRelease}
<1>1. /\ installed \subseteq Releases /\ ok(current) /\ ok(previous)
      /\ ok(script.target) /\ ok(script.old) /\ ok(script.oldPrevious) /\ script \in ScriptRecord
  BY DEF Types, FilesOK, ScriptOK
<1>2. cut' \in BOOLEAN /\ stray' \in BOOLEAN /\ task' \in BOOLEAN
  BY CutKept, TaskKept DEF Types
<1>3. ASSUME NEW op \in {"install", "rollback", "uninstall"}, NEW r \in Pointers, Begun(op, r),
             UNCHANGED <<current, previous>>, installed \subseteq installed',
             installed' \subseteq Releases, r \in installed' \cup {NoRelease}
      PROVE  ScriptOK' /\ FilesOK'
  <2>1. script' = [op |-> op, at |-> "end", target |-> r, old |-> current,
                   oldPrevious |-> previous, failed |-> FALSE, result |-> "none"]
    BY <1>3 DEF Begun, NoScript
  <2>2. current \in Pointers /\ previous \in Pointers
    BY <1>1 DEF Pointers
  <2>3. script' \in ScriptRecord
    BY <2>1, <2>2 DEF ScriptRecord
  <2> QED BY <1>1, <1>2, <1>3, <2>1, <2>3 DEF ScriptOK, FilesOK
<1>4. CASE UNCHANGED <<script, current, previous, installed>>
  BY <1>1, <1>2, <1>4 DEF ScriptOK, FilesOK
<1>5. CASE (script' = NoScript \/ script' = [NoScript EXCEPT !.result = "none"])
           /\ UNCHANGED <<current, previous, installed>>
  <2>1. /\ script' \in ScriptRecord
        /\ script'.target = NoRelease /\ script'.old = NoRelease /\ script'.oldPrevious = NoRelease
    <3>1. CASE script' = NoScript
      BY <3>1, NoRecords DEF NoScript
    <3>2. CASE script' = [NoScript EXCEPT !.result = "none"]
      BY <3>2 DEF NoScript, ScriptRecord, Pointers
    <3> QED BY <1>5, <3>1, <3>2
  <2> QED BY <1>1, <1>2, <1>5, <2>1 DEF ScriptOK, FilesOK
<1>6. CASE ScriptStep /\ UNCHANGED installed
  <2>1. script' \in ScriptRecord /\ ok(script'.target) /\ ok(script'.old) /\ ok(script'.oldPrevious)
    BY <1>1, <1>6, PlanKept DEF SamePlan, NothingPlanned, ScriptOK, Types
  <2>2. ok(current') /\ ok(previous')
    <3>1. current' \in {current, script.target, script.old}
      BY <1>6 DEF ScriptStep, EndSupervisor, StopProcesses, StopFails, WritePrevious,
         WriteCurrent, StartTask, StartTaskFails, CheckLive, CheckReady, HealthTimesOut, RollbackWriteFails,
         RecordPrevious, RestoreCurrent, RestorePrevious, Rerun, DeleteTask, files
    <3>2. previous' \in {previous, script.old, script.oldPrevious}
      BY <1>6 DEF ScriptStep, EndSupervisor, StopProcesses, StopFails, WritePrevious, NewPrevious,
         WriteCurrent, StartTask, StartTaskFails, CheckLive, CheckReady, HealthTimesOut, RollbackWriteFails,
         RecordPrevious, RestoreCurrent, RestorePrevious, Rerun, DeleteTask, files
    <3> QED BY <1>1, <3>1, <3>2
  <2> QED BY <1>1, <1>2, <1>6, <2>1, <2>2 DEF ScriptOK, FilesOK
<1>7. CASE \E r \in Releases : Begun("install", r) /\ installed' = installed \cup {r}
                               /\ UNCHANGED <<current, previous>>
  BY <1>1, <1>3, <1>7 DEF Pointers
<1>8. CASE Begun("rollback", previous) /\ UNCHANGED <<current, previous, installed>>
  BY <1>1, <1>3, <1>8 DEF Pointers
<1>9. CASE Begun("uninstall", NoRelease) /\ UNCHANGED <<current, previous, installed>>
  BY <1>1, <1>3, <1>9 DEF Pointers
<1> QED BY <1>4, <1>5, <1>6, <1>7, <1>8, <1>9, ScriptForms

-----------------------------------------------------------------------------
(* What a step does to one process.                                         *)

Over(q) ==
  /\ procs'[q] \in ProcRecord /\ procs'[q].at \in {"none", "exited"} /\ procs'[q].store = "closed"
  /\ procs'[q].at = "exited" => q = child'

Launch(q) ==
  /\ sup.at = "check" /\ procs'[q] \in ProcRecord
  /\ procs'[q].rel = sup.rel /\ procs'[q].at = "listen" /\ procs'[q].ledger = 1
  /\ procs'[q].store = "closed"

Moved(q, at, ledger, store) ==
  /\ procs'[q] \in ProcRecord /\ procs'[q].rel = procs[q].rel
  /\ procs'[q].at = at /\ procs'[q].ledger = ledger /\ procs'[q].store = store

Heard(q) == procs[q].at = "listen" /\ Moved(q, "open", procs[q].ledger, procs[q].store)

Failed(q) == procs[q].at = "open" /\ Moved(q, "serve", procs[q].ledger, "failed")

Migrated(q) ==
  LET n == procs[q].ledger
      l == Ledgers[n]
      known == Known[procs[q].rel][l]
  IN /\ procs[q].at = "open" /\ Prefix(db[l], known) /\ db' = [db EXCEPT ![l] = known]
     /\ \/ n < 4 /\ Moved(q, "open", n + 1, procs[q].store)
        \/ n = 4 /\ Moved(q, "serve", n, "open")

ProcMoves(q) ==
  \/ procs'[q] = procs[q] /\ (procs[q].at = "exited" => q = child')
  \/ Over(q) \/ Launch(q) \/ Heard(q) \/ Failed(q) \/ Migrated(q)

ProcGoal ==
  /\ procs' \in [Procs -> ProcRecord] /\ child' \in 0 .. MaxProcs
  /\ \A q \in Procs : ProcMoves(q)
  /\ UNCHANGED db \/ \E q \in Procs : Migrated(q)

LEMMA SameProcs ==
  ASSUME Types, UNCHANGED processVars
  PROVE  ProcGoal
BY DEF Types, ProcOK, ProcGoal, ProcMoves, processVars

LEMMA EndedIsOver ==
  ASSUME Types, NEW p \in Procs, NEW code \in {0, 1}
  PROVE  /\ Ended(p, code) \in ProcRecord /\ Ended(p, code).at \in {"none", "exited"}
         /\ Ended(p, code).store = "closed" /\ (Ended(p, code).at = "exited" => p = child)
<1>1. procs[p] \in ProcRecord
  BY DEF Types, ProcOK
<1>2. CASE p = child
  BY <1>1, <1>2 DEF Ended, ProcRecord
<1>3. CASE p # child
  BY <1>3, NoRecords DEF Ended
<1> QED BY <1>2, <1>3

LEMMA ExitGoal ==
  ASSUME Types, NEW p \in Procs, NEW code \in {0, 1}, Exit(p, code), UNCHANGED <<db, child>>
  PROVE  ProcGoal
<1>1. procs \in [Procs -> ProcRecord] /\ child \in 0 .. MaxProcs
      /\ \A q \in Procs : procs[q].at = "exited" => q = child
  BY DEF Types, ProcOK
<1>2. procs' = [procs EXCEPT ![p] = Ended(p, code)]
  BY DEF Exit
<1>3. procs' \in [Procs -> ProcRecord]
  BY <1>1, <1>2, EndedIsOver
<1>4. Over(p)
  BY <1>1, <1>2, EndedIsOver DEF Over
<1>5. \A q \in Procs \ {p} : procs'[q] = procs[q]
  BY <1>1, <1>2
<1> QED BY <1>1, <1>3, <1>4, <1>5 DEF ProcGoal, ProcMoves

LEMMA SupervisorProcs ==
  ASSUME Types, Spawn \/ ChildExited \/ (SupervisorGone /\ UNCHANGED db) \/ PowerLoss
  PROVE  ProcGoal
<1>1. /\ procs \in [Procs -> ProcRecord] /\ child \in 0 .. MaxProcs /\ 0 \in 0 .. MaxProcs
      /\ \A q \in Procs : procs[q].at = "exited" => q = child
  BY ReleaseAssumption DEF Types, ProcOK
<1>2. ASSUME NEW q \in Procs, procs'[q] = NoProc PROVE Over(q)
  BY <1>2, NoRecords DEF Over
<1>3. CASE Spawn
  <2>1. PICK p \in Procs : /\ procs' = Launched(p, sup.rel) /\ child' = p
    BY <1>3 DEF Spawn
  <2>2. sup.rel \in Pointers /\ sup.at = "check" /\ child = 0
    BY <1>3 DEF Spawn, Types, SupOK, SupRecord
  <2> DEFINE new == [NoProc EXCEPT !.rel = sup.rel, !.at = "listen"]
  <2>3. procs' = [procs EXCEPT ![p] = new]
    BY <2>1 DEF Launched
  <2>9. NoProc \in ProcRecord /\ NoProc.ledger = 1 /\ NoProc.store = "closed"
    BY NoRecords DEF NoProc
  <2>4. /\ new \in ProcRecord /\ new.rel = sup.rel /\ new.at = "listen" /\ new.ledger = 1
        /\ new.store = "closed"
    BY <2>2, <2>9 DEF ProcRecord
  <2> HIDE DEF new
  <2>5. procs' \in [Procs -> ProcRecord] /\ procs'[p] = new /\ \A q \in Procs \ {p} : procs'[q] = procs[q]
    BY <1>1, <2>3, <2>4
  <2>6. Launch(p)
    BY <2>2, <2>4, <2>5 DEF Launch
  <2>7. p \in 0 .. MaxProcs /\ 0 \notin Procs
    BY DEF Procs
  <2>8. UNCHANGED db
    BY <1>3 DEF Spawn
  <2> QED BY <1>1, <2>1, <2>2, <2>5, <2>6, <2>7, <2>8 DEF ProcGoal, ProcMoves
<1>4. CASE ChildExited
  <2>1. procs' = [procs EXCEPT ![child] = NoProc] /\ child' = 0 /\ UNCHANGED db
    BY <1>4 DEF ChildExited
  <2>2. procs' \in [Procs -> ProcRecord]
        /\ \A q \in Procs : procs'[q] = IF q = child THEN NoProc ELSE procs[q]
    BY <1>1, <2>1, NoRecords
  <2> QED BY <1>1, <1>2, <2>1, <2>2 DEF ProcGoal, ProcMoves
<1>5. CASE SupervisorGone /\ UNCHANGED db
  <2>1. procs' = [p \in Procs |-> IF procs[p].at = "exited" THEN NoProc ELSE procs[p]] /\ child' = 0
    BY <1>5 DEF SupervisorGone
  <2>2. procs' \in [Procs -> ProcRecord]
        /\ \A q \in Procs : procs'[q] = IF procs[q].at = "exited" THEN NoProc ELSE procs[q]
    BY <1>1, <2>1, NoRecords
  <2> QED BY <1>1, <1>2, <1>5, <2>1, <2>2 DEF ProcGoal, ProcMoves
<1>6. CASE PowerLoss
  <2>1. procs' = [p \in Procs |-> NoProc] /\ child' = 0 /\ UNCHANGED db
    BY <1>6 DEF PowerLoss
  <2>2. procs' \in [Procs -> ProcRecord] /\ \A q \in Procs : procs'[q] = NoProc
    BY <2>1, NoRecords
  <2> QED BY <1>1, <1>2, <2>1, <2>2 DEF ProcGoal, ProcMoves
<1> QED BY <1>3, <1>4, <1>5, <1>6

LEMMA StopProcs ==
  ASSUME Types, StopProcesses
  PROVE  ProcGoal
<1>1. /\ procs \in [Procs -> ProcRecord] /\ child \in 0 .. MaxProcs
      /\ \A q \in Procs : procs[q].at = "exited" => q = child
  BY DEF Types, ProcOK
<1>2. UNCHANGED <<db, child>>
  BY DEF StopProcesses
<1>3. CASE UNCHANGED procs
  BY <1>2, <1>3, SameProcs DEF processVars
<1>4. CASE procs' = [p \in Procs |-> IF p \in Managed THEN Ended(p, 1) ELSE procs[p]]
  <2>1. \A q \in Procs : procs'[q] = IF q \in Managed THEN Ended(q, 1) ELSE procs[q]
    BY <1>4
  <2>2. procs' \in [Procs -> ProcRecord]
    BY <1>1, <1>4, EndedIsOver
  <2>3. ASSUME NEW q \in Procs PROVE ProcMoves(q)
    <3>1. CASE q \in Managed
      BY <1>2, <2>1, <3>1, EndedIsOver DEF ProcMoves, Over
    <3>2. CASE q \notin Managed
      BY <1>1, <1>2, <2>1, <3>2 DEF ProcMoves
    <3> QED BY <3>1, <3>2
  <2> QED BY <1>1, <1>2, <2>2, <2>3 DEF ProcGoal
<1> QED BY <1>3, <1>4 DEF StopProcesses

LEMMA MoveProcs ==
  ASSUME Types, NEW p \in Procs,
         Listen(p) \/ Migrate(p) \/ MigrationFails(p) \/ Crash(p) \/ Shutdown(p)
  PROVE  ProcGoal
<1>1. /\ procs \in [Procs -> ProcRecord] /\ child \in 0 .. MaxProcs
      /\ \A q \in Procs : procs[q].at = "exited" => q = child
      /\ procs[p] \in ProcRecord
  BY DEF Types, ProcOK
<1>2. UNCHANGED child
  BY DEF Listen, Migrate, MigrationFails, Crash, Shutdown
<1>3. ASSUME NEW r \in ProcRecord, procs' = [procs EXCEPT ![p] = r]
      PROVE  /\ procs' \in [Procs -> ProcRecord] /\ procs'[p] = r
             /\ \A q \in Procs \ {p} : ProcMoves(q)
  <2>1. \A q \in Procs \ {p} : procs'[q] = procs[q]
    BY <1>1, <1>3
  <2>2. procs' \in [Procs -> ProcRecord] /\ procs'[p] = r
    BY <1>1, <1>3
  <2> QED BY <1>1, <1>2, <2>1, <2>2 DEF ProcMoves
<1>4. CASE Crash(p) \/ Shutdown(p)
  BY <1>4, ExitGoal DEF Crash, Shutdown
<1>5. CASE Listen(p)
  <2>1. CASE Exit(p, 1)
    BY <1>5, <2>1, ExitGoal DEF Listen
  <2>2. CASE procs' = [procs EXCEPT ![p].at = "open"]
    <3> DEFINE r == [procs[p] EXCEPT !.at = "open"]
    <3>1. /\ r \in ProcRecord /\ r.rel = procs[p].rel /\ r.at = "open"
          /\ r.ledger = procs[p].ledger /\ r.store = procs[p].store
      BY <1>1 DEF ProcRecord
    <3>2. procs' = [procs EXCEPT ![p] = r]
      BY <2>2
    <3> HIDE DEF r
    <3>3. Heard(p)
      BY <1>3, <1>5, <3>1, <3>2 DEF Heard, Moved, Listen
    <3> QED BY <1>1, <1>2, <1>3, <1>5, <3>1, <3>2, <3>3 DEF ProcGoal, ProcMoves, Listen
  <2> QED BY <1>5, <2>1, <2>2 DEF Listen
<1>6. ASSUME OpenFails(p), procs[p].at = "open", UNCHANGED db PROVE ProcGoal
  <2> DEFINE r == [procs[p] EXCEPT !.at = "serve", !.store = "failed"]
  <2>1. /\ r \in ProcRecord /\ r.rel = procs[p].rel /\ r.at = "serve"
        /\ r.ledger = procs[p].ledger /\ r.store = "failed"
    BY <1>1 DEF ProcRecord
  <2>2. procs' = [procs EXCEPT ![p] = r]
    BY <1>1, <1>6 DEF OpenFails
  <2> HIDE DEF r
  <2>3. Failed(p)
    BY <1>3, <1>6, <2>1, <2>2 DEF Failed, Moved
  <2> QED BY <1>1, <1>2, <1>3, <1>6, <2>1, <2>2, <2>3 DEF ProcGoal, ProcMoves
<1>7. CASE MigrationFails(p)
  BY <1>6, <1>7 DEF MigrationFails
<1>8. CASE Migrate(p)
  <2> DEFINE n == procs[p].ledger
             l == Ledgers[n]
             known == Known[procs[p].rel][l]
  <2>1. CASE OpenFails(p) /\ UNCHANGED db
    BY <1>6, <1>8, <2>1 DEF Migrate
  <2>2. CASE Supported(db[l], known) /\ db' = [db EXCEPT ![l] = known] /\ OpenedLedger(p)
    <3>1. n \in 1 .. 4 /\ procs[p].at = "open"
      BY <1>1, <1>8 DEF Migrate, ProcRecord
    <3>2. CASE n < 4
      <4> DEFINE r == [procs[p] EXCEPT !.ledger = n + 1]
      <4>1. /\ r \in ProcRecord /\ r.rel = procs[p].rel /\ r.at = "open"
            /\ r.ledger = n + 1 /\ r.store = procs[p].store
        BY <1>1, <3>1, <3>2 DEF ProcRecord
      <4>2. procs' = [procs EXCEPT ![p] = r]
        BY <1>1, <2>2, <3>2 DEF OpenedLedger
      <4> HIDE DEF r
      <4>3. Moved(p, "open", n + 1, procs[p].store)
        BY <1>3, <4>1, <4>2 DEF Moved
      <4>4. Migrated(p)
        BY <2>2, <3>1, <3>2, <4>3 DEF Migrated, Supported
      <4> QED BY <1>1, <1>2, <1>3, <4>1, <4>2, <4>4 DEF ProcGoal, ProcMoves
    <3>3. CASE ~(n < 4)
      <4> DEFINE r == [procs[p] EXCEPT !.at = "serve", !.store = "open"]
      <4>1. /\ r \in ProcRecord /\ r.rel = procs[p].rel /\ r.at = "serve"
            /\ r.ledger = n /\ r.store = "open"
        BY <1>1 DEF ProcRecord
      <4>5. n = 4
        BY <3>1, <3>3
      <4>2. procs' = [procs EXCEPT ![p] = r]
        BY <1>1, <2>2, <3>3 DEF OpenedLedger
      <4> HIDE DEF r
      <4>3. Moved(p, "serve", n, "open")
        BY <1>3, <4>1, <4>2 DEF Moved
      <4>4. Migrated(p)
        BY <2>2, <3>1, <4>5, <4>3 DEF Migrated, Supported
      <4> QED BY <1>1, <1>2, <1>3, <4>1, <4>2, <4>4 DEF ProcGoal, ProcMoves
    <3> QED BY <3>2, <3>3
  <2> QED BY <1>8, <2>1, <2>2 DEF Migrate
<1> QED BY <1>4, <1>5, <1>7, <1>8

LEMMA ProcStep ==
  ASSUME Types, [Next]_vars
  PROVE  ProcGoal
<1>1. CASE TaskFires \/ GiveUp \/ WriteRunning
  BY <1>1, SameProcs DEF TaskFires, GiveUp, WriteRunning
<1>2. CASE Spawn \/ ChildExited \/ SupervisorDies \/ PowerLoss
  BY <1>2, SupervisorProcs DEF SupervisorDies
<1>3. CASE (\E r \in Releases : BeginInstall(r)) \/ BeginRollback \/ BeginUninstall
  BY <1>3, SameProcs DEF BeginInstall, BeginRollback, BeginUninstall
<1>4. CASE EndSupervisor
  BY <1>4, SupervisorProcs, SameProcs DEF EndSupervisor, processVars
<1>5. CASE StopProcesses
  BY <1>5, StopProcs
<1>6. CASE ScriptStep /\ ~EndSupervisor /\ ~StopProcesses
  BY <1>6, SameProcs DEF ScriptStep, StopFails, WritePrevious,
     WriteCurrent, StartTask, StartTaskFails, CheckLive, CheckReady, HealthTimesOut, RollbackWriteFails,
     RecordPrevious, RestoreCurrent, RestorePrevious, Rerun, DeleteTask
<1>7. CASE \E p \in Procs : ProcessStep(p) \/ ProcessFails(p)
  BY <1>7, MoveProcs DEF ProcessStep, ProcessFails
<1>8. CASE Interrupt \/ Tick \/ UNCHANGED vars
  BY <1>8, SameProcs DEF Interrupt, Tick, vars
<1> QED BY <1>1, <1>2, <1>3, <1>4, <1>5, <1>6, <1>7, <1>8 DEF Next, Supervise

LEMMA ProcKept ==
  ASSUME Types, [Next]_vars
  PROVE  ProcOK'
<1>1. ProcGoal
  BY ProcStep
<1>2. ASSUME NEW q \in Procs
      PROVE  /\ procs'[q].at = "exited" => q = child'
             /\ procs'[q].at \notin {"none", "exited"} => procs'[q].rel \in Releases
             /\ procs'[q].store = "open" => procs'[q].at = "serve"
  <2>1. ProcMoves(q)
    BY <1>1 DEF ProcGoal
  <2>2. /\ procs[q].at \notin {"none", "exited"} => procs[q].rel \in Releases
        /\ procs[q].store = "open" => procs[q].at = "serve"
        /\ sup.at = "check" => sup.rel \in Releases
    BY DEF Types, ProcOK, SupOK, Alive
  <2> QED BY <2>1, <2>2 DEF ProcMoves, Over, Launch, Heard, Failed, Migrated, Moved
<1> QED BY <1>1, <1>2 DEF ProcOK, ProcGoal, Alive

LEMMA TypesStep == Types /\ [Next]_vars => Types'
BY ProcKept, SupKept, ClockKept, StateKept, FilesKept DEF Types

LEMMA TypesInvariant == Spec => []Types
BY TypesInit, TypesStep, PTL DEF Spec

-----------------------------------------------------------------------------
(* The migration ledgers.                                                   *)

LEMMA PrefixElements ==
  ASSUME NEW S, NEW s \in Seq(S), NEW t \in Seq(S)
  PROVE  Prefix(s, t) <=> Len(s) <= Len(t) /\ \A i \in 1 .. Len(s) : s[i] = t[i]
<1>1. Len(s) \in Nat /\ Len(t) \in Nat
  OBVIOUS
<1>2. CASE Len(s) <= Len(t)
  <2>1. /\ SubSeq(t, 1, Len(s)) \in Seq(S) /\ Len(SubSeq(t, 1, Len(s))) = Len(s)
        /\ \A i \in 1 .. Len(s) : SubSeq(t, 1, Len(s))[i] = t[i]
    BY <1>1, <1>2
  <2>2. s = SubSeq(t, 1, Len(s)) <=> \A i \in 1 .. Len(s) : s[i] = SubSeq(t, 1, Len(s))[i]
    BY <2>1, SeqEqual
  <2> QED BY <1>2, <2>1, <2>2 DEF Prefix
<1>3. CASE ~(Len(s) <= Len(t))
  BY <1>3 DEF Prefix
<1> QED BY <1>2, <1>3

LEMMA PrefixOrder ==
  ASSUME NEW S, NEW s \in Seq(S), NEW t \in Seq(S), NEW u \in Seq(S)
  PROVE  /\ Prefix(s, s)
         /\ Prefix(s, t) /\ Prefix(t, u) => Prefix(s, u)
         /\ Prefix(s, t) /\ Prefix(t, s) => s = t
<1>1. Len(s) \in Nat /\ Len(t) \in Nat /\ Len(u) \in Nat
  OBVIOUS
<1>2. Prefix(s, s)
  BY <1>1, PrefixElements
<1>3. ASSUME Prefix(s, t), Prefix(t, u) PROVE Prefix(s, u)
  <2>1. Len(s) <= Len(t) /\ \A i \in 1 .. Len(s) : s[i] = t[i]
    BY <1>3, PrefixElements
  <2>2. Len(t) <= Len(u) /\ \A i \in 1 .. Len(t) : t[i] = u[i]
    BY <1>3, PrefixElements
  <2>3. Len(s) <= Len(u) /\ \A i \in 1 .. Len(s) : s[i] = u[i]
    BY <1>1, <2>1, <2>2
  <2> QED BY <2>3, PrefixElements
<1>4. ASSUME Prefix(s, t), Prefix(t, s) PROVE s = t
  <2>1. Len(s) <= Len(t) /\ Len(t) <= Len(s) /\ \A i \in 1 .. Len(s) : s[i] = t[i]
    BY <1>4, PrefixElements
  <2> QED BY <1>1, <2>1, SeqEqual
<1> QED BY <1>2, <1>3, <1>4

\* Every ledger is what some release's migrations leave, up to some version.
DbOK ==
  /\ db \in [LedgerNames -> Seq(STRING)]
  /\ \A l \in LedgerNames : \E r \in Releases : \E n \in 0 .. Len(Known[r][l]) :
       db[l] = SubSeq(Known[r][l], 1, n)

LEMMA LedgerNumbers ==
  /\ \A i \in 1 .. 4 : Ledgers[i] \in LedgerNames
  /\ \A l \in LedgerNames : \E i \in 1 .. 4 : l = Ledgers[i]
  /\ \A i, j \in 1 .. 4 : Ledgers[i] = Ledgers[j] => i = j
<1>1. \A i, j \in 1 .. 4 : Ledgers[i] = Ledgers[j] => i = j
  BY DEF Ledgers
<1>2. /\ \A i \in 1 .. 4 : Ledgers[i] \in LedgerNames
      /\ \A l \in LedgerNames : \E i \in 1 .. 4 : l = Ledgers[i]
  BY DEF LedgerNames
<1> QED BY <1>1, <1>2

\* A step leaves the ledgers or completes one of them, for a live process's release.
LEMMA LedgerStep ==
  ASSUME Types, DbOK, [Next]_vars
  PROVE  /\ DbOK'
         /\ \A l \in LedgerNames : Prefix(db[l], db'[l])
<1>1. /\ db \in [LedgerNames -> Seq(STRING)]
      /\ \A r \in Releases, l \in LedgerNames : Known[r][l] \in Seq(STRING)
  BY ReleaseAssumption DEF DbOK
<1>2. CASE UNCHANGED db
  <2>1. \A l \in LedgerNames : Prefix(db[l], db[l])
    BY <1>1, PrefixOrder
  <2> QED BY <1>2, <2>1 DEF DbOK
<1>3. ASSUME NEW q \in Procs, Migrated(q)
      PROVE  DbOK' /\ \A l \in LedgerNames : Prefix(db[l], db'[l])
  <2> DEFINE n == procs[q].ledger
             k == Ledgers[n]
             known == Known[procs[q].rel][k]
  <2>1. procs[q].at = "open" /\ Prefix(db[k], known) /\ db' = [db EXCEPT ![k] = known]
    BY <1>3 DEF Migrated
  <2>2. procs[q].rel \in Releases /\ n \in 1 .. 4
    BY <2>1 DEF Types, ProcOK, Alive, ProcRecord
  <2>3. k \in LedgerNames
    BY <2>2, LedgerNumbers
  <2>4. known \in Seq(STRING)
    BY <1>1, <2>2, <2>3
  <2>5. known = SubSeq(known, 1, Len(known)) /\ Len(known) \in 0 .. Len(known)
    <3>1. Len(known) \in Nat
      BY <2>4
    <3>2. Prefix(known, known)
      BY <2>4, PrefixOrder
    <3> QED BY <3>1, <3>2 DEF Prefix
  <2>6. \E r \in Releases : \E m \in 0 .. Len(Known[r][k]) : known = SubSeq(Known[r][k], 1, m)
    BY <2>2, <2>5
  <2> HIDE DEF known, k
  <2>7. \A l \in LedgerNames : db'[l] = IF l = k THEN known ELSE db[l]
    BY <1>1, <2>1
  <2>8. db' \in [LedgerNames -> Seq(STRING)]
    BY <1>1, <2>1, <2>4
  <2>9. \A l \in LedgerNames : Prefix(db[l], db[l])
    BY <1>1, PrefixOrder
  <2> QED BY <2>1, <2>6, <2>7, <2>8, <2>9 DEF DbOK
<1> QED BY <1>2, <1>3, ProcStep DEF ProcGoal

\* A process that opens the store has completed the ledgers before the one it is at,
\* and no release takes a migration away again.
MigratedInv ==
  \A p \in Procs :
    /\ procs[p].at = "listen" => procs[p].ledger = 1
    /\ procs[p].at = "open" => \A i \in 1 .. 4 :
         i < procs[p].ledger => Prefix(Known[procs[p].rel][Ledgers[i]], db[Ledgers[i]])
    /\ procs[p].store = "open" => \A l \in LedgerNames : Prefix(Known[procs[p].rel][l], db[l])

LEMMA MigratedInit == Init => DbOK /\ MigratedInv
<1> SUFFICES ASSUME Init PROVE DbOK /\ MigratedInv
  OBVIOUS
<1>1. MigratedInv
  BY NoRecords DEF Init, ProcessInit, MigratedInv
<1>2. /\ \A r \in Releases, l \in LedgerNames : Known[r][l] \in Seq(STRING)
      /\ \E r \in Releases : TRUE
  BY ReleaseAssumption
<1>3. CASE current = NoRelease
  <2>1. db = [l \in LedgerNames |-> << >>]
    BY <1>3 DEF Init
  <2>2. ASSUME NEW l \in LedgerNames, NEW r \in Releases PROVE << >> = SubSeq(Known[r][l], 1, 0)
    BY <1>2, SubSeqEmpty
  <2>3. ASSUME NEW l \in LedgerNames, NEW r \in Releases PROVE 0 \in 0 .. Len(Known[r][l])
    BY <1>2
  <2> QED BY <1>1, <1>2, <2>1, <2>2, <2>3 DEF DbOK
<1>4. CASE current # NoRelease
  <2>1. current \in Releases /\ db = Known[current]
    BY <1>4, LifecycleAssumption DEF Init
  <2>2. db \in [LedgerNames -> Seq(STRING)]
    BY <2>1, ReleaseAssumption
  <2>3. ASSUME NEW l \in LedgerNames
        PROVE  db[l] = SubSeq(Known[current][l], 1, Len(Known[current][l]))
               /\ Len(Known[current][l]) \in 0 .. Len(Known[current][l])
    <3>1. Known[current][l] \in Seq(STRING) /\ db[l] = Known[current][l]
      BY <1>2, <2>1
    <3>2. Prefix(Known[current][l], Known[current][l]) /\ Len(Known[current][l]) \in Nat
      BY <3>1, PrefixOrder
    <3> QED BY <3>1, <3>2 DEF Prefix
  <2> QED BY <1>1, <2>1, <2>2, <2>3 DEF DbOK
<1> QED BY <1>3, <1>4

LEMMA MigratedStep ==
  ASSUME Types, DbOK, MigratedInv, [Next]_vars
  PROVE  MigratedInv'
<1>1. DbOK' /\ \A l \in LedgerNames : Prefix(db[l], db'[l])
  BY LedgerStep
<1>2. ASSUME NEW r \in Releases, NEW l \in LedgerNames, Prefix(Known[r][l], db[l])
      PROVE  Prefix(Known[r][l], db'[l])
  <2>1. db[l] \in Seq(STRING) /\ db'[l] \in Seq(STRING) /\ Known[r][l] \in Seq(STRING)
    BY <1>1, ReleaseAssumption DEF DbOK
  <2> QED BY <1>1, <1>2, <2>1, PrefixOrder
<1> SUFFICES ASSUME NEW p \in Procs
    PROVE  /\ procs'[p].at = "listen" => procs'[p].ledger = 1
           /\ procs'[p].at = "open" => \A i \in 1 .. 4 :
                i < procs'[p].ledger => Prefix(Known[procs'[p].rel][Ledgers[i]], db'[Ledgers[i]])
           /\ procs'[p].store = "open" =>
                \A l \in LedgerNames : Prefix(Known[procs'[p].rel][l], db'[l])
  BY DEF MigratedInv
<1>3. ProcMoves(p)
  BY ProcStep DEF ProcGoal
<1>4. /\ procs[p] \in ProcRecord /\ (Alive(p) => procs[p].rel \in Releases)
      /\ procs[p].store = "open" => procs[p].at = "serve"
  BY DEF Types, ProcOK
<1>5. CASE procs'[p] = procs[p]
  <2>1. procs[p].at = "open" \/ procs[p].store = "open" => procs[p].rel \in Releases
    BY <1>4 DEF Alive
  <2>2. procs[p].at = "open" => \A i \in 1 .. 4 :
           i < procs[p].ledger => Prefix(Known[procs[p].rel][Ledgers[i]], db'[Ledgers[i]])
    BY <1>2, <2>1, LedgerNumbers DEF MigratedInv
  <2>3. procs[p].store = "open" => \A l \in LedgerNames : Prefix(Known[procs[p].rel][l], db'[l])
    BY <1>2, <2>1 DEF MigratedInv
  <2> QED BY <1>5, <2>2, <2>3 DEF MigratedInv
<1>6. CASE Over(p)
  BY <1>6 DEF Over
<1>7. CASE Launch(p)
  BY <1>7 DEF Launch
<1>8. CASE Heard(p)
  <2>1. procs'[p].at = "open" /\ procs'[p].ledger = 1 /\ procs'[p].store # "open"
    BY <1>4, <1>8 DEF Heard, Moved, MigratedInv
  <2> QED BY <2>1
<1>9. CASE Failed(p)
  BY <1>9 DEF Failed, Moved
<1>10. CASE Migrated(p)
  <2> DEFINE n == procs[p].ledger
             r == procs[p].rel
  <2>1. /\ procs[p].at = "open" /\ procs'[p].rel = r /\ db' = [db EXCEPT ![Ledgers[n]] = Known[r][Ledgers[n]]]
        /\ \/ n < 4 /\ procs'[p].at = "open" /\ procs'[p].ledger = n + 1 /\ procs'[p].store = procs[p].store
           \/ n = 4 /\ procs'[p].at = "serve" /\ procs'[p].store = "open"
    BY <1>10 DEF Migrated, Moved
  <2>2. r \in Releases /\ n \in 1 .. 4
    BY <1>4, <2>1 DEF Alive, ProcRecord
  <2>3. db'[Ledgers[n]] = Known[r][Ledgers[n]] /\ Known[r][Ledgers[n]] \in Seq(STRING)
    <3>1. Ledgers[n] \in LedgerNames
      BY <2>2, LedgerNumbers
    <3>2. DOMAIN db = LedgerNames
      BY DEF DbOK
    <3>3. Known[r][Ledgers[n]] \in Seq(STRING)
      BY <2>2, <3>1, ReleaseAssumption
    <3> QED BY <2>1, <3>1, <3>2, <3>3
  <2>4. Prefix(Known[r][Ledgers[n]], db'[Ledgers[n]])
    BY <2>3, PrefixOrder
  <2>5. \A i \in 1 .. 4 : i < n => Prefix(Known[r][Ledgers[i]], db'[Ledgers[i]])
    BY <1>2, <2>1, <2>2, LedgerNumbers DEF MigratedInv
  <2> HIDE DEF n, r
  <2>6. \A i \in 1 .. 4 : i < n + 1 => Prefix(Known[r][Ledgers[i]], db'[Ledgers[i]])
    <3> SUFFICES ASSUME NEW i \in 1 .. 4, i < n + 1
                 PROVE  Prefix(Known[r][Ledgers[i]], db'[Ledgers[i]])
      OBVIOUS
    <3>1. i < n \/ i = n
      BY <2>2
    <3> QED BY <2>4, <2>5, <3>1
  <2>7. CASE procs'[p].at = "open"
    BY <1>4, <2>1, <2>6, <2>7 DEF n
  <2>8. CASE n = 4 /\ procs'[p].at = "serve" /\ procs'[p].store = "open"
    <3>1. \A i \in 1 .. 4 : Prefix(Known[r][Ledgers[i]], db'[Ledgers[i]])
      BY <2>6, <2>8
    <3>2. \A l \in LedgerNames : Prefix(Known[r][l], db'[l])
      BY <3>1, LedgerNumbers
    <3> QED BY <2>1, <2>8, <3>2
  <2> QED BY <2>1, <2>7, <2>8
<1> QED BY <1>3, <1>5, <1>6, <1>7, <1>8, <1>9, <1>10 DEF ProcMoves

LEMMA MigratedInvariant == Spec => [](Types /\ DbOK /\ MigratedInv)
BY TypesInit, TypesStep, MigratedInit, MigratedStep, LedgerStep, PTL DEF Spec

\* However often a start ended between two groups of migrate(), and whichever releases ran
\* since, a process whose store is open finds every migration it knows in the database.
THEOREM StoreMigrated == Spec => []WritableMigrated
<1>1. MigratedInv => WritableMigrated
  BY DEF MigratedInv, WritableMigrated
<1> QED BY <1>1, MigratedInvariant, PTL
-----------------------------------------------------------------------------
(* The pointer files.                                                       *)

ScriptAt(l) ==
  SamePlan /\ script'.failed = script.failed /\ script'.result = script.result /\ script'.at = l

ScriptFails ==
  SamePlan /\ script'.failed = TRUE /\ script'.result = script.result /\ script'.at = "end"

ScriptDone(r) ==
  script'.op = "none" /\ script'.at = "none" /\ script'.failed = FALSE /\ script'.result = r

ScriptNew(op, target) ==
  /\ script.op = "none" /\ script'.op = op /\ script'.at = "end" /\ script'.target = target
  /\ script'.old = current /\ script'.oldPrevious = previous
  /\ script'.failed = FALSE /\ script'.result = "none"

LEMMA ScriptEffects ==
  ASSUME ScriptOK
  PROVE  /\ \A l : Goto(l) => ScriptAt(l)
         /\ Fail => ScriptFails
         /\ \A r : Done(r) => ScriptDone(r)
         /\ \A op, target : Begin(op, target) => ScriptNew(op, target)
         /\ script' = NoScript => ScriptDone("none")
<1>1. script \in ScriptRecord
  BY DEF ScriptOK
<1>2. ASSUME NEW l, Goto(l) PROVE ScriptAt(l)
  BY <1>1, <1>2 DEF Goto, Script, ScriptAt, SamePlan, ScriptRecord
<1>3. ASSUME Fail PROVE ScriptFails
  BY <1>1, <1>3 DEF Fail, Script, ScriptFails, SamePlan, ScriptRecord
<1>4. ASSUME NEW r, Done(r) PROVE ScriptDone(r)
  BY <1>4 DEF Done, Script, ScriptDone, NoScript
<1>5. ASSUME NEW op, NEW target, Begin(op, target) PROVE ScriptNew(op, target)
  BY <1>5 DEF Begin, Script, ScriptNew, NoScript
<1>6. ASSUME script' = NoScript PROVE ScriptDone("none")
  BY <1>6 DEF ScriptDone, NoScript
<1> QED BY <1>2, <1>3, <1>4, <1>5, <1>6

\* The pointers, the script and its interruption are left alone, a script begins, takes a
\* step, or is cut off.
LEMMA PointerForms ==
  ASSUME ScriptOK, [Next]_vars
  PROVE  \/ UNCHANGED <<script, current, previous, cut>>
         \/ /\ \/ \E r \in Releases : ScriptNew("install", r)
               \/ ScriptNew("rollback", previous) /\ current # NoRelease /\ previous # NoRelease
               \/ ScriptNew("uninstall", NoRelease)
            /\ UNCHANGED <<current, previous, cut>>
         \/ ScriptStep
         \/ ScriptDone("none") /\ cut' = (cut \/ Halfway) /\ UNCHANGED <<current, previous>>
<1>1. CASE TaskFires \/ Supervise
  BY <1>1 DEF TaskFires, Supervise, GiveUp, Spawn, WriteRunning, ChildExited, files, history
<1>2. CASE \E r \in Releases : BeginInstall(r)
  BY <1>2, ScriptEffects DEF BeginInstall, history
<1>3. CASE BeginRollback \/ BeginUninstall
  BY <1>3, ScriptEffects DEF BeginRollback, BeginUninstall, files, history
<1>4. CASE ScriptStep
  BY <1>4
<1>5. CASE \E p \in Procs : ProcessStep(p) \/ ProcessFails(p)
  BY <1>5 DEF ProcessStep, ProcessFails, Others, files, history
<1>6. CASE SupervisorDies \/ Tick
  BY <1>6 DEF SupervisorDies, Tick, files, history
<1>7. CASE Interrupt
  BY <1>7, ScriptEffects DEF Interrupt, files
<1>8. CASE PowerLoss
  <2>1. UNCHANGED <<current, previous>>
    BY <1>8 DEF PowerLoss, files
  <2>2. CASE script.op = "none"
    <3>1. UNCHANGED script /\ cut' = (cut \/ FALSE)
      BY <1>8, <2>2 DEF PowerLoss, Halfway
    <3>2. UNCHANGED cut
      BY <3>1 DEF ScriptOK
    <3> QED BY <2>1, <3>1, <3>2
  <2>3. CASE script.op # "none"
    BY <1>8, <2>1, <2>3, ScriptEffects DEF PowerLoss
  <2> QED BY <2>2, <2>3
<1>9. CASE UNCHANGED vars
  BY <1>9 DEF vars
<1> QED BY <1>1, <1>2, <1>3, <1>4, <1>5, <1>6, <1>7, <1>8, <1>9 DEF Next

\* Which labels go with which script, and that only a script under way has failed.
ScriptShape ==
  /\ script.op = "none" <=> script.at = "none"
  /\ script.op # "none" => script.result = "none"
  /\ script.failed => /\ script.at \in {"end", "stop", "restore", "restorePrevious", "rerun"}
                      /\ script.op \in {"install", "rollback"}
  /\ script.at \in {"restore", "restorePrevious", "rerun"} => script.failed
  /\ script.at \in {"point", "restorePrevious"} => script.op = "install"
  /\ script.at = "record" => script.op = "rollback"
  /\ script.at = "delete" => script.op = "uninstall"
  /\ script.op = "uninstall" => script.at \in {"end", "stop", "delete"}

\* Pointers a rollback can use: two releases, or no previous one.
Pair(c, p) == (p # NoRelease => p # c) /\ (c = NoRelease => p = NoRelease)

Switching == script.at \in {"run", "live", "ready", "record"}

\* What the pointers are at each label, from the ones the script found.
PointerInv ==
  /\ script.op = "none" => Pair(current, previous)
  /\ script.op # "none" =>
       /\ Pair(script.old, script.oldPrevious)
       /\ script.op = "install" => script.target # NoRelease
       /\ script.op = "rollback" => /\ script.target = script.oldPrevious
                                    /\ script.target # NoRelease /\ script.old # NoRelease
                                    /\ previous = script.oldPrevious
       /\ ~script.failed /\ script.at \in {"end", "stop", "switch", "delete"} =>
            current = script.old /\ previous = script.oldPrevious
       /\ script.at = "point" => current = script.old
       /\ script.at \in {"point", "run", "live", "ready"} /\ script.op = "install" =>
            Pair(script.target, previous)
       /\ script.failed /\ script.at \in {"end", "stop", "restore"} /\ script.op = "install" =>
            Pair(current, previous)
       /\ Switching => current = script.target
       /\ script.at \in {"restorePrevious", "rerun"} => current = script.old
       /\ script.at = "rerun" => previous = script.oldPrevious

LEMMA PointerInit == Init => ScriptShape /\ PointerInv
<1> SUFFICES ASSUME Init PROVE ScriptShape /\ PointerInv
  OBVIOUS
<1>1. script.op = "none" /\ script.at = "none" /\ script.failed = FALSE /\ previous = NoRelease
  BY DEF Init, NoScript
<1> QED BY <1>1 DEF ScriptShape, PointerInv, Pair

\* A step of the script, unless it or an earlier one was cut off.
LEMMA ScriptPointers ==
  ASSUME ScriptOK, ScriptShape, cut \/ PointerInv, ScriptStep
  PROVE  ScriptShape' /\ (cut' \/ PointerInv')
<1> USE DEF ScriptShape, PointerInv, Pair, Switching, ScriptAt, ScriptFails, ScriptDone, SamePlan
<1>1. CASE EndSupervisor
  <2>1. script.at = "end" /\ ScriptAt("stop") /\ UNCHANGED <<current, previous, cut>>
    BY <1>1, ScriptEffects DEF EndSupervisor, files, history
  <2> QED BY <2>1
<1>2. CASE StopProcesses
  <2>1. script.at = "stop" /\ UNCHANGED <<current, previous, cut>>
        /\ (UNCHANGED script \/ ScriptAt(AfterStop))
    BY <1>2, ScriptEffects DEF StopProcesses, files, history
  <2>2. CASE UNCHANGED script
    BY <2>1, <2>2
  <2>3. CASE ScriptAt(AfterStop)
    BY <2>1, <2>3 DEF AfterStop, ScriptOK, ScriptRecord
  <2> QED BY <2>1, <2>2, <2>3
<1>3. CASE StopFails
  <2>1. /\ script.at \in {"end", "stop"} /\ ScriptDone("none") /\ UNCHANGED <<current, previous>>
        /\ cut' = (cut \/ Halfway)
    BY <1>3, ScriptEffects DEF StopFails, files
  <2> QED BY <2>1 DEF ScriptOK, ScriptRecord, Halfway
<1>4. CASE WritePrevious
  <2>1. /\ script.at = "switch" /\ script.op = "install" /\ previous' = NewPrevious
        /\ ScriptAt("point") /\ UNCHANGED <<current, cut>>
    BY <1>4, ScriptEffects DEF WritePrevious, history
  <2> QED BY <2>1 DEF NewPrevious
<1>5. CASE WriteCurrent
  <2>1. /\ script.at = "point" \/ (script.at = "switch" /\ script.op = "rollback")
        /\ current' = script.target /\ ScriptAt("run") /\ UNCHANGED <<previous, cut>>
    BY <1>5, ScriptEffects DEF WriteCurrent
  <2> QED BY <2>1
<1>6. CASE StartTask
  <2>1. script.at = "run" /\ ScriptAt("live") /\ UNCHANGED <<current, previous, cut>>
    BY <1>6, ScriptEffects DEF StartTask, history
  <2> QED BY <2>1
<1>7. CASE StartTaskFails \/ HealthTimesOut \/ RollbackWriteFails
  <2>1. script.at \in {"switch", "run", "live", "ready", "record"} /\ ScriptFails /\ UNCHANGED <<current, previous, cut>>
    BY <1>7, ScriptEffects DEF StartTaskFails, HealthTimesOut, RollbackWriteFails, files, history
  <2> QED BY <2>1 DEF ScriptOK, ScriptRecord
<1>8. CASE CheckLive
  <2>1. script.at = "live" /\ ScriptAt("ready") /\ UNCHANGED <<current, previous, cut>>
    BY <1>8, ScriptEffects DEF CheckLive, files, history
  <2> QED BY <2>1
<1>9. CASE CheckReady
  <2>1. /\ script.at = "ready" /\ UNCHANGED <<current, previous, cut>>
        /\ \/ ScriptAt("live")
           \/ script.op = "install" /\ ScriptDone("switched")
           \/ script.op # "install" /\ ScriptAt("record")
    BY <1>9, ScriptEffects DEF CheckReady, files, history
  <2> QED BY <2>1 DEF ScriptOK, ScriptRecord
<1>10. CASE RecordPrevious
  <2>1. script.at = "record" /\ previous' = script.old /\ ScriptDone("switched") /\ UNCHANGED <<current, cut>>
    BY <1>10, ScriptEffects DEF RecordPrevious, history
  <2> QED BY <2>1
<1>11. CASE RestoreCurrent
  <2>1. /\ script.at = "restore" /\ current' = script.old /\ UNCHANGED <<previous, cut>>
        /\ \/ script.op = "install" /\ ScriptAt("restorePrevious")
           \/ script.op # "install" /\ ScriptAt("rerun")
    BY <1>11, ScriptEffects DEF RestoreCurrent, history
  <2> QED BY <2>1
<1>12. CASE RestorePrevious
  <2>1. /\ script.at = "restorePrevious" /\ previous' = script.oldPrevious /\ ScriptAt("rerun")
        /\ UNCHANGED <<current, cut>>
    BY <1>12, ScriptEffects DEF RestorePrevious, history
  <2> QED BY <2>1
<1>13. CASE Rerun \/ DeleteTask
  <2>1. script.at \in {"rerun", "delete"} /\ ScriptDone("none") /\ UNCHANGED <<current, previous, cut>>
    BY <1>13, ScriptEffects DEF Rerun, DeleteTask, history
  <2> QED BY <2>1
<1> QED BY <1>1, <1>2, <1>3, <1>4, <1>5, <1>6, <1>7, <1>8, <1>9, <1>10, <1>11, <1>12, <1>13
        DEF ScriptStep

LEMMA PointerStep ==
  ASSUME ScriptOK, ScriptShape, cut \/ PointerInv, [Next]_vars
  PROVE  ScriptShape' /\ (cut' \/ PointerInv')
<1>1. CASE UNCHANGED <<script, current, previous, cut>>
  BY <1>1 DEF ScriptShape, PointerInv, Pair, Switching
<1>2. ASSUME NEW op \in {"install", "rollback", "uninstall"}, NEW target, ScriptNew(op, target),
             op = "install" => target \in Releases,
             op = "rollback" => target = previous /\ current # NoRelease /\ previous # NoRelease,
             UNCHANGED <<current, previous, cut>>
      PROVE  ScriptShape' /\ (cut' \/ PointerInv')
  BY <1>2, ReleaseAssumption DEF ScriptNew, ScriptShape, PointerInv, Pair, Switching
<1>3. CASE ScriptStep
  BY <1>3, ScriptPointers
<1>4. CASE ScriptDone("none") /\ cut' = (cut \/ Halfway) /\ UNCHANGED <<current, previous>>
  <2>1. ScriptShape' /\ (Halfway => cut')
    BY <1>4 DEF ScriptDone, ScriptShape
  <2>2. ASSUME PointerInv, ~Halfway PROVE Pair(current, previous)
    BY <2>2 DEF PointerInv, ScriptShape, Halfway, Pair, Switching, ScriptOK, ScriptRecord, ScriptLabel
  <2>3. ASSUME PointerInv, ~Halfway PROVE PointerInv'
    BY <1>4, <2>2, <2>3 DEF ScriptDone, PointerInv, Pair, Switching
  <2> QED BY <1>4, <2>1, <2>3
<1> QED BY <1>1, <1>2, <1>3, <1>4, PointerForms

LEMMA PointerInvariant == Spec => [](Types /\ ScriptShape /\ (cut \/ PointerInv))
<1>1. Init => Types /\ ScriptShape /\ (cut \/ PointerInv)
  BY TypesInit, PointerInit
<1>2. Types /\ ScriptShape /\ (cut \/ PointerInv) /\ [Next]_vars
      => (Types /\ ScriptShape /\ (cut \/ PointerInv))'
  BY TypesStep, PointerStep DEF Types
<1> QED BY <1>1, <1>2, PTL DEF Spec

\* After any sequence of installations, repeated ones, rollbacks, failures and recoveries,
\* unless a script was cut off between its writes of the pointers, the previous pointer names another release than the current.
THEOREM RollbackHasTarget == Spec => []RollbackTarget
<1>1. cut \/ PointerInv => RollbackTarget
  BY DEF PointerInv, Pair, RollbackTarget
<1> QED BY <1>1, PointerInvariant, PTL
-----------------------------------------------------------------------------
(* A completed switch.                                                      *)

Confirmed == script.at = "record" \/ script.result = "switched"

\* From the moment the pointer moved until another script begins.
SwitchPhase == Switching \/ Confirmed

\* Only the current release runs, so the ledgers it has completed are exactly its own.
Settled ==
  /\ \A p \in Procs : Alive(p) => procs[p].rel = current
  /\ sup.at # "none" => sup.rel = current
  /\ \A p \in Procs :
       /\ procs[p].at = "open" => \A i \in 1 .. 4 :
            i < procs[p].ledger => db[Ledgers[i]] = Known[current][Ledgers[i]]
       /\ procs[p].store = "open" => \A l \in LedgerNames : db[l] = Known[current][l]
  /\ Confirmed => CanOpen(current)

SettledInv == stray \/ ~SwitchPhase \/ Settled

\* Only writing the pointer asks what runs.
LEMMA StrayForms ==
  ASSUME [Next]_vars
  PROVE  WriteCurrent \/ UNCHANGED stray
<1>1. CASE TaskFires \/ Supervise
  BY <1>1 DEF TaskFires, Supervise, GiveUp, Spawn, WriteRunning, ChildExited, history
<1>2. CASE (\E r \in Releases : BeginInstall(r)) \/ BeginRollback \/ BeginUninstall
  BY <1>2 DEF BeginInstall, BeginRollback, BeginUninstall, history
<1>3. CASE ScriptStep
  BY <1>3 DEF ScriptStep, EndSupervisor, StopProcesses, StopFails, WritePrevious,
     StartTask, StartTaskFails, CheckLive, CheckReady, HealthTimesOut, RollbackWriteFails,
     RecordPrevious, RestoreCurrent, RestorePrevious, Rerun, DeleteTask, history
<1>4. CASE \E p \in Procs : ProcessStep(p) \/ ProcessFails(p)
  BY <1>4 DEF ProcessStep, ProcessFails, Others, history
<1>5. CASE SupervisorDies \/ Interrupt \/ PowerLoss \/ Tick \/ UNCHANGED vars
  BY <1>5 DEF SupervisorDies, Interrupt, PowerLoss, Tick, vars, history
<1> QED BY <1>1, <1>2, <1>3, <1>4, <1>5 DEF Next

\* The phase is entered by writing the pointer; within it the pointer stays, and success is
\* reported only after a server said it is writable.
LEMMA PhaseForms ==
  ASSUME ScriptOK, ScriptShape, [Next]_vars, SwitchPhase'
  PROVE  \/ WriteCurrent
         \/ /\ SwitchPhase /\ UNCHANGED <<current, stray>>
            /\ Confirmed' => Confirmed \/ (Ready /\ UNCHANGED processVars)
<1> USE DEF ScriptShape, SwitchPhase, Switching, Confirmed, ScriptAt, ScriptFails, ScriptDone, SamePlan
<1>1. CASE UNCHANGED <<script, current>>
  BY <1>1, StrayForms
<1>2. ASSUME NEW op, NEW target, ScriptNew(op, target) PROVE FALSE
  BY <1>2 DEF ScriptNew
<1>3. CASE ScriptDone("none")
  BY <1>3
<1>4. CASE ScriptStep
  <2>1. CASE EndSupervisor
    <3>1. script.at = "end" /\ ScriptAt("stop")
      BY <2>1, ScriptEffects DEF EndSupervisor
    <3> QED BY <3>1
  <2>2. CASE StopProcesses
    <3>1. script.at = "stop" /\ (UNCHANGED script \/ ScriptAt(AfterStop))
      BY <2>2, ScriptEffects DEF StopProcesses
    <3>2. AfterStop \in {"restore", "delete", "switch"}
      BY DEF AfterStop
    <3> QED BY <3>1, <3>2
  <2>3. CASE StopFails \/ Rerun \/ DeleteTask
    BY <1>3, <2>3, ScriptEffects DEF StopFails, Rerun, DeleteTask
  <2>4. CASE WritePrevious
    <3>1. script.at = "switch" /\ ScriptAt("point")
      BY <2>4, ScriptEffects DEF WritePrevious
    <3> QED BY <3>1
  <2>5. CASE WriteCurrent
    BY <2>5
  <2>6. CASE StartTask \/ CheckLive
    <3>1. /\ script.at \in {"run", "live"} /\ (ScriptAt("live") \/ ScriptAt("ready"))
          /\ UNCHANGED current
      BY <2>6, ScriptEffects DEF StartTask, CheckLive, files, history
    <3> QED BY <3>1, StrayForms
  <2>7. CASE StartTaskFails \/ HealthTimesOut \/ RollbackWriteFails
    <3>1. script.at \in {"switch", "run", "live", "ready", "record"} /\ ScriptFails
      BY <2>7, ScriptEffects DEF StartTaskFails, HealthTimesOut, RollbackWriteFails
    <3> QED BY <3>1
  <2>8. CASE CheckReady
    <3>1. /\ script.at = "ready" /\ UNCHANGED <<current, processVars>>
          /\ \/ ScriptAt("live")
             \/ Ready
      BY <2>8, ScriptEffects DEF CheckReady, files, history
    <3> QED BY <3>1, StrayForms
  <2>9. CASE RecordPrevious
    <3>1. script.at = "record" /\ UNCHANGED current
      BY <2>9 DEF RecordPrevious, history
    <3> QED BY <3>1, StrayForms
  <2>10. CASE RestoreCurrent \/ RestorePrevious
    <3>1. /\ script.at \in {"restore", "restorePrevious"}
          /\ ScriptAt("restorePrevious") \/ ScriptAt("rerun")
      BY <2>10, ScriptEffects DEF RestoreCurrent, RestorePrevious
    <3> QED BY <3>1
  <2> QED BY <1>4, StrayForms, <2>1, <2>2, <2>3, <2>4, <2>5, <2>6, <2>7, <2>8, <2>9, <2>10 DEF ScriptStep
<1> QED BY <1>1, <1>2, <1>3, <1>4, PointerForms

\* A supervisor runs the release it was started for, which was the current one then.
LEMMA SupRelease ==
  ASSUME Types, [Next]_vars, sup'.at # "none"
  PROVE  \/ sup.at # "none" /\ sup'.rel = sup.rel
         \/ SupStarted /\ sup'.rel = current
<1>1. sup \in SupRecord
  BY DEF Types, SupOK
<1>2. CASE SupStarted
  BY <1>2 DEF SupStarted, NoSup
<1>3. CASE sup' = NoSup
  BY <1>3, NoRecords
<1>4. CASE Spawn
  <2>1. sup.at = "check"
        /\ sup' = [sup EXCEPT !.at = "spawned", !.crashes = InWindow(sup.crashes, now), !.started = now]
    BY <1>4 DEF Spawn
  <2> QED BY <1>1, <2>1 DEF SupRecord
<1>5. CASE WriteRunning
  <2>1. sup.at = "spawned" /\ sup' = [sup EXCEPT !.at = "waiting"]
    BY <1>5 DEF WriteRunning
  <2> QED BY <1>1, <2>1 DEF SupRecord
<1>6. CASE ChildExited
  <2>1. sup.at = "waiting"
        /\ (sup' = NoSup \/ sup' = [sup EXCEPT !.at = "check", !.crashes = CrashesAfter])
    BY <1>6 DEF ChildExited
  <2> QED BY <1>1, <1>3, <2>1 DEF SupRecord
<1>7. CASE UNCHANGED sup
  BY <1>7
<1> QED BY <1>2, <1>3, <1>4, <1>5, <1>6, <1>7, SupStep DEF SupEnded, GiveUp

LEMMA SettledStep ==
  ASSUME Types, DbOK, MigratedInv, ScriptShape, SettledInv, [Next]_vars
  PROVE  SettledInv'
<1> SUFFICES ASSUME ~stray', SwitchPhase' PROVE Settled'
  BY DEF SettledInv
<1>1. CASE WriteCurrent
  <2>1. /\ UNCHANGED <<procs, sup>> /\ ~(sup.at # "none" \/ Managed # {})
        /\ script.at \in {"point", "switch"}
    BY <1>1 DEF WriteCurrent, processVars
  <2>2. ScriptAt("run")
    BY <1>1, ScriptEffects DEF WriteCurrent, Types
  <2>3. ~Confirmed'
    BY <2>1, <2>2 DEF Confirmed, ScriptAt, ScriptShape
  <2>4. \A p \in Procs : ~Alive(p)
    BY <2>1 DEF Managed
  <2>5. \A p \in Procs : procs[p].at # "open" /\ procs[p].store # "open"
    BY <2>4 DEF Types, ProcOK, Alive
  <2> QED BY <2>1, <2>3, <2>4, <2>5 DEF Settled, Alive
<1>2. CASE /\ SwitchPhase /\ UNCHANGED <<current, stray>>
           /\ Confirmed' => Confirmed \/ (Ready /\ UNCHANGED processVars)
  <2> DEFINE c == current
  <2>1. Settled /\ current' = c
    BY <1>2 DEF SettledInv
  <2>2. \A p \in Procs : Alive(p) => procs[p].rel = c /\ c \in Releases
    BY <2>1 DEF Settled, Types, ProcOK
  <2>3. ASSUME NEW l \in LedgerNames
        PROVE  db'[l] = db[l] \/ (db'[l] = Known[c][l] /\ c \in Releases)
    <3>1. CASE UNCHANGED db
      BY <3>1
    <3>2. ASSUME NEW q \in Procs, Migrated(q)
          PROVE  db'[l] = db[l] \/ (db'[l] = Known[c][l] /\ c \in Releases)
      <4>1. procs[q].rel = c /\ c \in Releases
        BY <2>2, <3>2 DEF Migrated, Alive
      <4>2. db' = [db EXCEPT ![Ledgers[procs[q].ledger]] = Known[c][Ledgers[procs[q].ledger]]]
        BY <3>2, <4>1 DEF Migrated
      <4>3. DOMAIN db = LedgerNames
        BY DEF DbOK
      <4> QED BY <4>1, <4>2, <4>3
    <3> QED BY <3>1, <3>2, ProcStep DEF ProcGoal
  <2>4. ASSUME NEW l \in LedgerNames, db[l] = Known[c][l] PROVE db'[l] = Known[c][l]
    BY <2>3, <2>4
  <2>5. sup'.at # "none" => sup'.rel = c
    BY <2>1, SupRelease DEF Settled
  <2>6. ASSUME NEW p \in Procs
        PROVE  /\ procs'[p].at \notin {"none", "exited"} => procs'[p].rel = c
               /\ procs'[p].at = "open" => \A i \in 1 .. 4 :
                    i < procs'[p].ledger => db'[Ledgers[i]] = Known[c][Ledgers[i]]
               /\ procs'[p].store = "open" => \A l \in LedgerNames : db'[l] = Known[c][l]
    <3>1. ProcMoves(p)
      BY ProcStep DEF ProcGoal
    <3>2. /\ procs[p] \in ProcRecord
          /\ procs[p].at \notin {"none", "exited"} => procs[p].rel = c
          /\ procs[p].store = "open" => procs[p].at = "serve"
          /\ procs[p].at = "listen" => procs[p].ledger = 1
      BY <2>2 DEF Types, ProcOK, MigratedInv, Alive
    <3>3. CASE procs'[p] = procs[p]
      <4>1. procs[p].at = "open" => \A i \in 1 .. 4 :
              i < procs[p].ledger => db'[Ledgers[i]] = Known[c][Ledgers[i]]
        BY <2>1, <2>4, LedgerNumbers DEF Settled
      <4>2. procs[p].store = "open" => \A l \in LedgerNames : db'[l] = Known[c][l]
        BY <2>1, <2>4 DEF Settled
      <4> QED BY <3>2, <3>3, <4>1, <4>2
    <3>4. CASE Over(p)
      BY <3>4 DEF Over
    <3>5. CASE Launch(p)
      <4>1. procs'[p].rel = sup.rel /\ sup.at = "check" /\ procs'[p].at = "listen" /\ procs'[p].store = "closed"
        BY <3>5 DEF Launch
      <4>2. sup.rel = c
        BY <2>1, <4>1 DEF Settled
      <4> QED BY <4>1, <4>2
    <3>6. CASE Heard(p)
      <4>1. /\ procs[p].at = "listen" /\ procs'[p].rel = procs[p].rel /\ procs'[p].at = "open"
            /\ procs'[p].ledger = 1 /\ procs'[p].store # "open"
        BY <3>2, <3>6 DEF Heard, Moved
      <4> QED BY <3>2, <4>1
    <3>7. CASE Failed(p)
      BY <3>2, <3>7 DEF Failed, Moved
    <3>8. CASE Migrated(p)
      <4> DEFINE n == procs[p].ledger
      <4>1. /\ procs[p].at = "open" /\ procs'[p].rel = procs[p].rel
            /\ db' = [db EXCEPT ![Ledgers[n]] = Known[procs[p].rel][Ledgers[n]]]
            /\ \/ n < 4 /\ procs'[p].at = "open" /\ procs'[p].ledger = n + 1 /\ procs'[p].store = procs[p].store
               \/ n = 4 /\ procs'[p].at = "serve" /\ procs'[p].store = "open"
        BY <3>8 DEF Migrated, Moved
      <4>2. procs[p].rel = c /\ n \in 1 .. 4
        BY <3>2, <4>1 DEF ProcRecord
      <4>3. db'[Ledgers[n]] = Known[c][Ledgers[n]]
        <5>1. DOMAIN db = LedgerNames
          BY DEF DbOK
        <5>2. Ledgers[n] \in LedgerNames
          BY <4>2, LedgerNumbers
        <5> QED BY <4>1, <4>2, <5>1, <5>2
      <4>4. \A i \in 1 .. 4 : i < n => db'[Ledgers[i]] = Known[c][Ledgers[i]]
        BY <2>1, <2>4, <4>1, LedgerNumbers DEF Settled
      <4> HIDE DEF n
      <4>5. \A i \in 1 .. 4 : i < n + 1 => db'[Ledgers[i]] = Known[c][Ledgers[i]]
        <5> SUFFICES ASSUME NEW i \in 1 .. 4, i < n + 1 PROVE db'[Ledgers[i]] = Known[c][Ledgers[i]]
          OBVIOUS
        <5>1. i < n \/ i = n
          BY <4>2
        <5> QED BY <4>3, <4>4, <5>1
      <4>6. CASE procs'[p].at = "open"
        BY <3>2, <4>1, <4>2, <4>5, <4>6 DEF n
      <4>7. CASE n = 4 /\ procs'[p].at = "serve" /\ procs'[p].store = "open"
        <5>1. \A i \in 1 .. 4 : db'[Ledgers[i]] = Known[c][Ledgers[i]]
          BY <4>5, <4>7
        <5>2. \A l \in LedgerNames : db'[l] = Known[c][l]
          BY <5>1, LedgerNumbers
        <5> QED BY <4>1, <4>2, <4>7, <5>2
      <4> QED BY <4>1, <4>6, <4>7
    <3> QED BY <3>1, <3>3, <3>4, <3>5, <3>6, <3>7, <3>8 DEF ProcMoves
  <2>7. ASSUME NEW l \in LedgerNames, c \in Releases PROVE Prefix(Known[c][l], Known[c][l])
    BY <2>7, ReleaseAssumption, PrefixOrder
  <2>8. Confirmed' => \A l \in LedgerNames : Prefix(db'[l], Known[c][l])
    <3>1. CASE Confirmed
      <4>1. \A l \in LedgerNames : Prefix(db[l], Known[c][l])
        BY <2>1, <3>1 DEF Settled, CanOpen, Supported
      <4> QED BY <2>3, <2>7, <4>1
    <3>2. CASE Ready /\ UNCHANGED processVars
      <4>1. PICK p \in Procs : procs[p].at = "serve" /\ procs[p].store = "open"
        BY <3>2 DEF Ready, Writable
      <4>2. c \in Releases
        BY <2>2, <4>1 DEF Alive
      <4>3. \A l \in LedgerNames : db[l] = Known[c][l]
        BY <2>1, <4>1 DEF Settled
      <4> QED BY <2>7, <3>2, <4>2, <4>3 DEF processVars
    <3> QED BY <1>2, <3>1, <3>2
  <2> QED BY <2>1, <2>5, <2>6, <2>8 DEF Settled, Alive, CanOpen, Supported
<1> QED BY <1>1, <1>2, PhaseForms DEF Types

LEMMA SettledInvariant == Spec => []SettledInv
<1>1. Init => SettledInv
  BY DEF Init, SettledInv, SwitchPhase, Switching, Confirmed, NoScript
<1>2. Types /\ DbOK /\ MigratedInv /\ ScriptShape /\ SettledInv /\ [Next]_vars => SettledInv'
  BY SettledStep
<1> QED BY <1>1, <1>2, MigratedInvariant, PointerInvariant, PTL DEF Spec

\* Once install.ps1 or rollback.ps1 reported success, and until the next script begins, every
\* process runs the release the pointer names and that release can open the database.
THEOREM SwitchSucceeds == Spec => []SwitchComplete
<1>1. SettledInv => SwitchComplete
  BY DEF SettledInv, SwitchPhase, Confirmed, Settled, SwitchComplete
<1> QED BY <1>1, SettledInvariant, PTL
-----------------------------------------------------------------------------
(* The crash window.                                                        *)

LEMMA TimeFacts ==
  ASSUME NEW x \in Nat, NEW y \in Nat, NEW z \in Nat
  PROVE  /\ x + y > z => x + y >= z
         /\ x <= y => x <= y + 1
         /\ x <= y /\ y <= z => x <= z
         /\ ~(y - z >= x /\ \E t \in Nat : t <= z /\ t + x > y)
OBVIOUS

LEMMA AppendOrdered ==
  ASSUME NEW S \in SUBSET Nat, NEW s \in Seq(S), NEW e \in S, Ordered(s), \A i \in DOMAIN s : s[i] <= e
  PROVE  Ordered(Append(s, e)) /\ \A i \in DOMAIN Append(s, e) : Append(s, e)[i] <= e
<1> DEFINE t == Append(s, e)
<1>1. /\ Len(s) \in Nat /\ DOMAIN s = 1 .. Len(s) /\ DOMAIN t = 1 .. Len(s) + 1 /\ e \in Nat
      /\ t[Len(s) + 1] = e /\ \A i \in 1 .. Len(s) : t[i] = s[i]
  OBVIOUS
<1> HIDE DEF t
<1>2. \A i \in DOMAIN t : i \in DOMAIN s \/ i = Len(s) + 1
  BY <1>1
<1>3. e <= e
  BY <1>1
<1>4. \A i \in DOMAIN t : t[i] <= e
  BY <1>1, <1>2, <1>3
<1>5. ASSUME NEW i \in DOMAIN t, NEW j \in DOMAIN t, i <= j PROVE t[i] <= t[j]
  <2>1. CASE j \in DOMAIN s
    <3>1. i \in DOMAIN s
      BY <1>1, <1>5, <2>1
    <3> QED BY <1>1, <1>5, <2>1, <3>1 DEF Ordered
  <2>2. CASE j = Len(s) + 1
    BY <1>1, <1>4, <2>2
  <2> QED BY <1>2, <2>1, <2>2
<1>6. Ordered(t)
  BY <1>5 DEF Ordered
<1> QED BY <1>4, <1>6 DEF t

LEMMA EndsElements ==
  ASSUME NEW S \in SUBSET Nat, NEW a \in Seq(S), NEW b \in Seq(S), EndsWith(a, b)
  PROVE  /\ \A i \in DOMAIN b : \E j \in DOMAIN a : b[i] = a[j]
         /\ Ordered(a) => Ordered(b)
         /\ Len(b) <= Len(a)
<1>1. Len(a) \in Nat /\ Len(b) \in Nat /\ Len(b) <= Len(a) /\ DOMAIN a = 1 .. Len(a) /\ DOMAIN b = 1 .. Len(b)
  BY DEF EndsWith
<1>2. ASSUME NEW i \in DOMAIN b
      PROVE  Len(a) - Len(b) + i \in DOMAIN a /\ b[i] = a[Len(a) - Len(b) + i]
  BY <1>1, <1>2 DEF EndsWith
<1>3. ASSUME Ordered(a), NEW i \in DOMAIN b, NEW j \in DOMAIN b, i <= j PROVE b[i] <= b[j]
  <2>1. Len(a) - Len(b) + i <= Len(a) - Len(b) + j
    BY <1>1, <1>3
  <2> QED BY <1>2, <1>3, <2>1 DEF Ordered
<1> QED BY <1>1, <1>2, <1>3 DEF Ordered

\* Crashes that lie in the window survive the filter.
LEMMA WindowKeepsRecent ==
  ASSUME NEW a \in Seq(Times), NEW b \in Seq(Times), NEW at \in Nat, EndsWith(a, b),
         \A i \in DOMAIN b : b[i] + Window > at
  PROVE  EndsWith(InWindow(a, at), b)
<1> DEFINE kept == InWindow(a, at)
<1>1. Times \in SUBSET Nat
  BY DEF Times
<1>2. /\ kept \in Seq(Times) /\ EndsWith(a, kept)
      /\ \A i \in DOMAIN a : a[i] + Window >= at => i > Len(a) - Len(kept)
  BY <1>1, WindowKept
<1> HIDE DEF kept
<1>3. /\ Len(a) \in Nat /\ Len(b) \in Nat /\ Len(kept) \in Nat /\ Len(b) <= Len(a) /\ Len(kept) <= Len(a)
      /\ DOMAIN a = 1 .. Len(a) /\ DOMAIN b = 1 .. Len(b)
  BY <1>2 DEF EndsWith
<1>4. Len(b) <= Len(kept)
  <2>1. CASE Len(b) = 0
    BY <1>3, <2>1
  <2>2. CASE Len(b) # 0
    <3>1. 1 \in DOMAIN b /\ Len(a) - Len(b) + 1 \in DOMAIN a
      BY <1>3, <2>2
    <3>2. b[1] = a[Len(a) - Len(b) + 1]
      BY <1>3, <3>1 DEF EndsWith
    <3>3. b[1] \in Nat
      <4>1. b[1] \in Times
        BY <1>3, <3>1, ElementOfSeq
      <4> QED BY <1>1, <4>1
    <3>4. b[1] + Window >= at
      BY <3>1, <3>3, TimeFacts, LifecycleAssumption
    <3>5. Len(a) - Len(b) + 1 > Len(a) - Len(kept)
      BY <1>2, <3>1, <3>2, <3>4
    <3> QED BY <1>3, <3>5
  <2> QED BY <2>1, <2>2
<1>5. ASSUME NEW i \in 1 .. Len(b) PROVE b[i] = kept[Len(kept) - Len(b) + i]
  <2>1. Len(kept) - Len(b) + i \in 1 .. Len(kept)
    BY <1>3, <1>4
  <2>2. kept[Len(kept) - Len(b) + i] = a[Len(a) - Len(kept) + (Len(kept) - Len(b) + i)]
    BY <1>2, <2>1 DEF EndsWith
  <2>3. Len(a) - Len(kept) + (Len(kept) - Len(b) + i) = Len(a) - Len(b) + i
    BY <1>3
  <2>4. b[i] = a[Len(a) - Len(b) + i]
    BY DEF EndsWith
  <2> QED BY <2>2, <2>3, <2>4
<1>6. EndsWith(kept, b)
  BY <1>4, <1>5 DEF EndsWith
<1> QED BY <1>6 DEF kept

\* The history holds at most MaxRestarts crashes, also right after another one.
LEMMA RecentBounded ==
  ASSUME NEW times \in Seq(Times), NEW at \in Nat, Len(times) <= MaxRestarts + 1
  PROVE  Len(Recent(times, at)) <= MaxRestarts
<1> DEFINE q == {i \in DOMAIN times : times[i] + Window > at}
           inside == From(times, q)
<1>1. q \subseteq DOMAIN times
  OBVIOUS
<1>2. Recent(times, at) = IF Len(inside) > MaxRestarts THEN Tail(inside) ELSE inside
  BY DEF Recent
<1> HIDE DEF q
<1>3. inside \in Seq(Times) /\ EndsWith(times, inside)
  BY <1>1, FromIsSuffix
<1> HIDE DEF inside
<1>4. Len(inside) \in Nat /\ Len(times) \in Nat /\ Len(inside) <= MaxRestarts + 1 /\ MaxRestarts \in Nat
  BY <1>3, LifecycleAssumption DEF EndsWith
<1>5. CASE Len(inside) > MaxRestarts
  <2>1. inside # << >>
    BY <1>3, <1>4, <1>5
  <2>2. Len(Tail(inside)) = Len(inside) - 1
    BY <1>3, <2>1, HeadTailProperties
  <2> QED BY <1>2, <1>4, <1>5, <2>2
<1>6. CASE ~(Len(inside) > MaxRestarts)
  BY <1>2, <1>4, <1>6
<1> QED BY <1>5, <1>6

\* The crashes of the history are the latest of the list a supervisor works with and of the
\* list in the state file, in order and inside the window; no list outgrows its bound.
HistoryInv ==
  /\ seen.rel = state.rel
  /\ Ordered(seen.times) /\ Len(seen.times) <= MaxRestarts
  /\ \A i \in DOMAIN seen.times : seen.times[i] <= now /\ seen.times[i] + Window > now

ListInv ==
  /\ EndsWith(state.crashes, seen.times) /\ Len(state.crashes) <= MaxRestarts
  /\ sup.at # "none" /\ sup.rel = seen.rel => EndsWith(sup.crashes, seen.times)
  /\ Len(sup.crashes) <= MaxRestarts
  /\ sup.at = "waiting" => sup.rel = seen.rel
  /\ sup.at = "check" /\ sup.crashes # << >> => sup.rel = state.rel
  /\ sup.at \in {"spawned", "waiting"} =>
       /\ sup.started <= now /\ Len(sup.crashes) < MaxRestarts
       /\ sup.rel = seen.rel => \A i \in DOMAIN seen.times : seen.times[i] <= sup.started

CrashInv == HistoryInv /\ ListInv

LEMMA EndsWithEmpty ==
  ASSUME NEW S, NEW a \in Seq(S)
  PROVE  EndsWith(a, << >>)
BY DEF EndsWith

LEMMA CrashInit == Init => CrashInv
<1> SUFFICES ASSUME Init PROVE CrashInv
  OBVIOUS
<1>1. /\ seen.rel = state.rel /\ seen.times = << >> /\ state.crashes = << >>
      /\ sup.at = "none" /\ sup.crashes = << >>
  BY NoRecords DEF Init
<1>2. MaxRestarts \in Nat /\ Len(<< >>) = 0 /\ DOMAIN << >> = {}
  BY LifecycleAssumption
<1>3. EndsWith(<< >>, << >>)
  BY DEF EndsWith
<1>4. HistoryInv
  BY <1>1, <1>2 DEF HistoryInv, Ordered
<1>5. ListInv
  BY <1>1, <1>2, <1>3 DEF ListInv
<1> QED BY <1>4, <1>5 DEF CrashInv

\* The types the proofs below use.
LEMMA CrashTypes ==
  ASSUME Types
  PROVE  /\ Times \in SUBSET Nat /\ now \in Times /\ now \in Nat /\ now + 1 \in Nat
         /\ MaxRestarts \in Nat /\ MaxRestarts > 0 /\ Window \in Nat
         /\ seen.times \in Seq(Times) /\ state.crashes \in Seq(Times) /\ sup.crashes \in Seq(Times)
         /\ sup.started \in Nat /\ sup \in SupRecord
         /\ Len(seen.times) \in Nat /\ DOMAIN seen.times = 1 .. Len(seen.times)
         /\ Len(sup.crashes) \in Nat
         /\ \A i \in DOMAIN seen.times : seen.times[i] \in Nat
<1>1. now \in Times /\ sup \in SupRecord /\ seen.times \in Seq(Times) /\ state.crashes \in Seq(Times)
  BY DEF Types, ClockOK, SupOK, StateOK
<1>2. Times \in SUBSET Nat /\ MaxRestarts \in Nat /\ MaxRestarts > 0 /\ Window \in Nat
  BY LifecycleAssumption DEF Times
<1>3. sup.crashes \in Seq(Times) /\ sup.started \in Nat
  BY <1>1, <1>2 DEF SupRecord
<1>4. now \in Nat /\ now + 1 \in Nat
  BY <1>1, <1>2
<1>5. /\ Len(seen.times) \in Nat /\ DOMAIN seen.times = 1 .. Len(seen.times)
      /\ \A i \in DOMAIN seen.times : seen.times[i] \in Nat
  <2>1. ASSUME NEW t \in Seq(Times)
        PROVE  Len(t) \in Nat /\ DOMAIN t = 1 .. Len(t) /\ \A i \in DOMAIN t : t[i] \in Times
    OBVIOUS
  <2> QED BY <1>1, <1>2, <2>1
<1>6. Len(sup.crashes) \in Nat
  BY <1>3
<1> QED BY <1>1, <1>2, <1>3, <1>4, <1>5, <1>6

LEMMA TickKeepsCrashes ==
  ASSUME Types, CrashInv, Tick, UNCHANGED <<sup, child, state>>
  PROVE  CrashInv'
<1> DEFINE new == Recent(seen.times, now + 1)
<1>1. seen'.rel = seen.rel /\ seen'.times = new /\ now' = now + 1
  BY DEF Tick, Types, StateOK
<1>2. HistoryInv /\ ListInv
  BY DEF CrashInv
<1>3. /\ new \in Seq(Times) /\ EndsWith(seen.times, new)
      /\ \A i \in DOMAIN new : new[i] + Window > now + 1
  BY <1>2, CrashTypes, RecentKept DEF HistoryInv
<1> HIDE DEF new
<1>4. /\ \A i \in DOMAIN new : \E j \in DOMAIN seen.times : new[i] = seen.times[j]
      /\ Ordered(new) /\ Len(new) <= Len(seen.times)
  BY <1>2, <1>3, CrashTypes, EndsElements DEF HistoryInv
<1>5. HistoryInv'
  <2>1. \A i \in DOMAIN new : new[i] <= now + 1
    BY <1>2, <1>4, CrashTypes, TimeFacts DEF HistoryInv
  <2>2. Len(new) <= MaxRestarts
    <3>1. Len(new) \in Nat /\ Len(seen.times) <= MaxRestarts
      BY <1>2, <1>3 DEF HistoryInv
    <3> QED BY <1>4, <3>1, CrashTypes, TimeFacts
  <2> QED BY <1>1, <1>2, <1>3, <1>4, <2>1, <2>2 DEF HistoryInv
<1>6. EndsWith(state.crashes, new)
  BY <1>2, <1>3, CrashTypes, EndsWithTransitive DEF ListInv
<1>7. sup.at # "none" /\ sup.rel = seen.rel => EndsWith(sup.crashes, new)
  BY <1>2, <1>3, CrashTypes, EndsWithTransitive DEF ListInv
<1>8. sup.at \in {"spawned", "waiting"} =>
       /\ sup.started <= now + 1
       /\ sup.rel = seen.rel => \A i \in DOMAIN new : new[i] <= sup.started
  BY <1>2, <1>4, CrashTypes DEF ListInv
<1>9. ListInv'
  BY <1>1, <1>2, <1>6, <1>7, <1>8 DEF ListInv
<1> QED BY <1>5, <1>9 DEF CrashInv

LEMMA SpawnKeepsCrashes ==
  ASSUME Types, CrashInv, Spawn
  PROVE  CrashInv'
<1> DEFINE kept == InWindow(sup.crashes, now)
<1>1. sup.at = "check" /\ Len(kept) < MaxRestarts /\ UNCHANGED <<state, seen, now>>
  BY DEF Spawn, history
<1>2. /\ sup'.at = "spawned" /\ sup'.rel = sup.rel /\ sup'.crashes = kept /\ sup'.started = now
  <2>1. sup' = [sup EXCEPT !.at = "spawned", !.crashes = kept, !.started = now]
    BY DEF Spawn
  <2> QED BY <2>1, CrashTypes DEF SupRecord
<1>3. HistoryInv /\ ListInv
  BY DEF CrashInv
<1>4. HistoryInv'
  BY <1>1, <1>3 DEF HistoryInv
<1>5. sup.rel = seen.rel => EndsWith(kept, seen.times)
  BY <1>1, <1>3, CrashTypes, WindowKeepsRecent DEF HistoryInv, ListInv
<1>6. Len(kept) <= MaxRestarts /\ now <= now
  <2>1. kept \in Seq(Times)
    BY CrashTypes, WindowKept
  <2> QED BY <1>1, <2>1, CrashTypes
<1> HIDE DEF kept
<1>7. ListInv'
  BY <1>1, <1>2, <1>3, <1>5, <1>6 DEF ListInv, HistoryInv
<1> QED BY <1>4, <1>7 DEF CrashInv

LEMMA GiveUpKeepsCrashes ==
  ASSUME Types, CrashInv, GiveUp
  PROVE  CrashInv'
<1> DEFINE kept == InWindow(sup.crashes, now)
<1>1. /\ sup.at = "check" /\ Len(kept) >= MaxRestarts /\ UNCHANGED <<seen, now>>
      /\ state' = [rel |-> sup.rel, crashes |-> kept] /\ sup' = NoSup
  BY DEF GiveUp, history
<1>2. HistoryInv /\ ListInv
  BY DEF CrashInv
<1>3. kept \in Seq(Times) /\ EndsWith(sup.crashes, kept)
  BY CrashTypes, WindowKept
<1>4. Len(kept) <= Len(sup.crashes) /\ Len(kept) \in Nat /\ Len(sup.crashes) \in Nat
  BY <1>3, CrashTypes DEF EndsWith
<1>5. sup.crashes # << >> /\ Len(kept) <= MaxRestarts
  BY <1>1, <1>2, <1>4, CrashTypes DEF ListInv
<1>6. sup.rel = seen.rel
  BY <1>1, <1>2, <1>5 DEF HistoryInv, ListInv
<1>7. EndsWith(kept, seen.times)
  BY <1>1, <1>2, <1>6, CrashTypes, WindowKeepsRecent DEF HistoryInv, ListInv
<1> HIDE DEF kept
<1>8. state'.rel = sup.rel /\ state'.crashes = kept /\ sup'.at = "none" /\ sup'.crashes = << >>
  BY <1>1, NoRecords
<1>9. HistoryInv'
  BY <1>1, <1>2, <1>6, <1>8 DEF HistoryInv
<1>10. Len(<< >>) <= MaxRestarts
  BY CrashTypes
<1>11. ListInv'
  BY <1>1, <1>5, <1>7, <1>8, <1>10 DEF ListInv
<1> QED BY <1>9, <1>11 DEF CrashInv

LEMMA WriteKeepsCrashes ==
  ASSUME Types, CrashInv, WriteRunning
  PROVE  CrashInv'
<1>1. /\ sup.at = "spawned" /\ UNCHANGED now
      /\ state'.rel = sup.rel /\ state'.crashes = sup.crashes
      /\ \/ seen.rel = sup.rel /\ seen' = seen
         \/ seen'.rel = sup.rel /\ seen'.times = << >>
  BY DEF WriteRunning
<1>2. sup'.at = "waiting" /\ sup'.rel = sup.rel /\ sup'.crashes = sup.crashes /\ sup'.started = sup.started
  <2>1. sup' = [sup EXCEPT !.at = "waiting"]
    BY DEF WriteRunning
  <2> QED BY <2>1, CrashTypes DEF SupRecord
<1>3. HistoryInv /\ ListInv
  BY DEF CrashInv
<1>4. EndsWith(sup.crashes, << >>) /\ Len(<< >>) <= MaxRestarts /\ DOMAIN << >> = {}
  BY CrashTypes, EndsWithEmpty
<1>5. HistoryInv'
  BY <1>1, <1>3, <1>4 DEF HistoryInv, Ordered
<1>6. ListInv'
  BY <1>1, <1>2, <1>3, <1>4 DEF ListInv
<1> QED BY <1>5, <1>6 DEF CrashInv

LEMMA ExitKeepsCrashes ==
  ASSUME Types, CrashInv, ChildExited
  PROVE  CrashInv'
<1>1. sup.at = "waiting" /\ UNCHANGED now
  BY DEF ChildExited
<1>2. HistoryInv /\ ListInv
  BY DEF CrashInv
<1>3. sup.rel = seen.rel
  BY <1>1, <1>2 DEF ListInv
<1>4. CASE procs[child].code = 0
  <2>1. state' = [rel |-> sup.rel, crashes |-> << >>] /\ sup' = NoSup /\ seen' = [seen EXCEPT !.times = << >>]
    BY <1>4 DEF ChildExited
  <2>2. /\ state'.rel = sup.rel /\ state'.crashes = << >> /\ sup'.at = "none" /\ sup'.crashes = << >>
        /\ seen'.rel = seen.rel /\ seen'.times = << >>
    BY <2>1, NoRecords DEF Types, StateOK
  <2>3. EndsWith(<< >>, << >>) /\ Len(<< >>) <= MaxRestarts /\ DOMAIN << >> = {}
    BY CrashTypes DEF EndsWith
  <2>4. HistoryInv'
    BY <1>3, <2>2, <2>3 DEF HistoryInv, Ordered
  <2>5. ListInv'
    BY <2>2, <2>3 DEF ListInv
  <2> QED BY <2>4, <2>5 DEF CrashInv
<1>5. CASE procs[child].code # 0
  <2> DEFINE more == Append(seen.times, now)
             new == Recent(more, now)
             base == IF now - sup.started >= Window THEN << >> ELSE sup.crashes
  <2>1. /\ state' = [rel |-> sup.rel, crashes |-> CrashesAfter]
        /\ sup' = [sup EXCEPT !.at = "check", !.crashes = CrashesAfter]
        /\ seen' = [seen EXCEPT !.times = new]
    BY <1>5 DEF ChildExited
  <2>2. CrashesAfter = Append(base, now)
    BY DEF CrashesAfter
  <2>3. /\ state'.rel = sup.rel /\ state'.crashes = CrashesAfter
        /\ sup'.at = "check" /\ sup'.rel = sup.rel /\ sup'.crashes = CrashesAfter
        /\ seen'.rel = seen.rel /\ seen'.times = new
    BY <2>1, CrashTypes DEF Types, StateOK, SupRecord
  <2>4. /\ Len(sup.crashes) < MaxRestarts /\ Len(sup.crashes) \in Nat /\ sup.started <= now
        /\ EndsWith(sup.crashes, seen.times)
        /\ \A i \in DOMAIN seen.times : seen.times[i] <= sup.started
    BY <1>1, <1>2, <1>3, CrashTypes DEF ListInv
  <2>5. base \in Seq(Times) /\ Len(base) < MaxRestarts /\ Len(base) \in Nat
    BY <2>4, CrashTypes
  <2>6. EndsWith(base, seen.times)
    <3>1. CASE now - sup.started >= Window
      <4>1. ASSUME NEW i \in DOMAIN seen.times PROVE FALSE
        <5>1. /\ seen.times[i] \in Nat /\ seen.times[i] <= sup.started
              /\ seen.times[i] + Window > now
          BY <1>2, <2>4, CrashTypes DEF HistoryInv
        <5> QED BY <3>1, <5>1, CrashTypes, TimeFacts
      <4>2. seen.times = << >>
        <5>1. Len(seen.times) = 0
          <6>1. 1 \notin 1 .. Len(seen.times) /\ Len(seen.times) \in Nat
            BY <4>1, CrashTypes
          <6> QED BY <6>1
        <5> QED BY <5>1, CrashTypes, EmptySeq
      <4>3. base = << >>
        BY <3>1
      <4> QED BY <4>2, <4>3 DEF EndsWith
    <3>2. CASE ~(now - sup.started >= Window)
      BY <2>4, <3>2
    <3> QED BY <3>1, <3>2
  <2> HIDE DEF base
  <2>7. more \in Seq(Times) /\ Append(base, now) \in Seq(Times) /\ EndsWith(Append(base, now), more)
    BY <2>5, <2>6, CrashTypes, EndsWithAppend
  <2>8. Len(Append(base, now)) <= MaxRestarts /\ Append(base, now) # << >>
    <3>1. Len(Append(base, now)) = Len(base) + 1
      BY <2>5, CrashTypes
    <3>2. Len(base) + 1 <= MaxRestarts /\ Len(base) + 1 # 0
      BY <2>5, CrashTypes
    <3> QED BY <3>1, <3>2
  <2>9. Ordered(more) /\ \A i \in DOMAIN more : more[i] <= now
    BY <1>2, CrashTypes, AppendOrdered DEF HistoryInv
  <2>11. Len(more) <= MaxRestarts + 1
    BY <1>2, CrashTypes DEF HistoryInv
  <2> HIDE DEF more
  <2>12. /\ new \in Seq(Times) /\ EndsWith(more, new) /\ Len(new) <= MaxRestarts
         /\ \A i \in DOMAIN new : new[i] + Window > now
    BY <2>7, <2>9, <2>11, CrashTypes, RecentKept, RecentBounded
  <2> HIDE DEF new
  <2>13. /\ \A i \in DOMAIN new : \E j \in DOMAIN more : new[i] = more[j]
         /\ Ordered(new)
    BY <2>7, <2>9, <2>12, CrashTypes, EndsElements
  <2>14. \A i \in DOMAIN new : new[i] <= now
    BY <2>9, <2>13
  <2>15. EndsWith(CrashesAfter, new)
    BY <2>2, <2>7, <2>12, EndsWithTransitive
  <2>16. HistoryInv'
    BY <1>1, <1>3, <2>3, <2>12, <2>13, <2>14 DEF HistoryInv
  <2>17. ListInv'
    BY <1>3, <2>2, <2>3, <2>8, <2>15 DEF ListInv
  <2> QED BY <2>16, <2>17 DEF CrashInv
<1> QED BY <1>4, <1>5

LEMMA CrashStep ==
  ASSUME Types, CrashInv, [Next]_vars
  PROVE  CrashInv'
<1>1. HistoryInv /\ ListInv
  BY DEF CrashInv
<1>2. CASE UNCHANGED <<sup, child, state, seen, now>>
  BY <1>1, <1>2 DEF CrashInv, HistoryInv, ListInv
<1>3. CASE SupStarted
  <2>1. /\ UNCHANGED <<state, seen, now>>
        /\ sup'.at = "check" /\ sup'.rel = current /\ sup'.crashes = KeptCrashes
    BY <1>3 DEF SupStarted, NoSup
  <2>2. Len(<< >>) <= MaxRestarts
    BY CrashTypes
  <2>3. HistoryInv'
    BY <1>1, <2>1 DEF HistoryInv
  <2>4. ListInv'
    BY <1>1, <2>1, <2>2 DEF ListInv, HistoryInv, KeptCrashes
  <2> QED BY <2>3, <2>4 DEF CrashInv
<1>4. CASE SupEnded /\ UNCHANGED state
  <2>1. UNCHANGED <<state, seen, now>> /\ sup'.at = "none" /\ sup'.crashes = << >>
    BY <1>4, NoRecords DEF SupEnded
  <2>2. Len(<< >>) <= MaxRestarts
    BY CrashTypes
  <2> QED BY <1>1, <2>1, <2>2 DEF CrashInv, HistoryInv, ListInv
<1> QED BY <1>2, <1>3, <1>4, SupStep, TickKeepsCrashes, SpawnKeepsCrashes, GiveUpKeepsCrashes,
        WriteKeepsCrashes, ExitKeepsCrashes

LEMMA CrashInvariant == Spec => [](Types /\ CrashInv)
BY TypesInit, TypesStep, CrashInit, CrashStep, PTL DEF Spec

LEMMA SpawnBounded ==
  ASSUME Types, CrashInv, [Next]_vars, sup.at = "check", sup'.at = "spawned", seen.rel = sup.rel
  PROVE  Len(seen.times) < MaxRestarts
<1>1. Spawn
  <2>1. sup' # NoSup /\ sup' # sup
    BY NoRecords
  <2>2. ~ChildExited /\ ~WriteRunning /\ ~SupStarted
    BY DEF ChildExited, WriteRunning, SupStarted
  <2> QED BY <2>1, <2>2, SupStep DEF SupEnded, GiveUp
<1> DEFINE kept == InWindow(sup.crashes, now)
<1>2. Len(kept) < MaxRestarts
  BY <1>1 DEF Spawn
<1>3. EndsWith(kept, seen.times)
  BY CrashTypes, WindowKeepsRecent DEF CrashInv, HistoryInv, ListInv
<1>4. kept \in Seq(Times)
  BY CrashTypes, WindowKept
<1> HIDE DEF kept
<1>5. Len(seen.times) <= Len(kept) /\ Len(kept) \in Nat /\ Len(seen.times) \in Nat /\ MaxRestarts \in Nat
  BY <1>3, <1>4, CrashTypes DEF EndsWith
<1> QED BY <1>2, <1>5

\* Whoever restarts the supervisor or the machine, and however often, a release with
\* MaxRestarts crashes less than the window back is not started again.
THEOREM RestartsBounded == Spec => CrashLoopBounded
<1>1. Types /\ CrashInv /\ [Next]_vars
      => [sup.at = "check" /\ sup'.at = "spawned" /\ seen.rel = sup.rel =>
            Len(seen.times) < MaxRestarts]_vars
  BY SpawnBounded
<1> QED BY <1>1, CrashInvariant, PTL DEF Spec, CrashLoopBounded

\* Type correctness: pointers name installed releases, ledgers hold migrations some release
\* embeds, and the lists of crash times keep within the limit the supervisor reads them by.
THEOREM LifecycleTypes == Spec => []TypeOK
<1>1. Types /\ DbOK /\ CrashInv => TypeOK
  <2> SUFFICES ASSUME Types, DbOK, CrashInv PROVE TypeOK
    OBVIOUS
  <2>1. ProcessTypeOK
    BY DEF Types, ProcOK, DbOK, ProcessTypeOK, ProcRecord, Pointers
  <2>2. /\ state.rel \in Pointers /\ Len(state.crashes) <= MaxRestarts
        /\ Len(sup.crashes) <= MaxRestarts
    BY DEF Types, StateOK, CrashInv, ListInv
  <2>3. /\ sup.at \in {"none", "check", "spawned", "waiting"} /\ sup.rel \in Pointers
        /\ sup.started \in Times
        /\ (child # 0) <=> sup.at \in {"spawned", "waiting"}
    BY DEF Types, SupOK, SupRecord
  <2>4. /\ script.op \in {"none", "install", "rollback", "uninstall"}
        /\ script.at \in {"none", "end", "stop", "switch", "point", "run", "live", "ready", "record",
                          "restore", "restorePrevious", "rerun", "delete"}
        /\ {script.target, script.old, script.oldPrevious} \subseteq Pointers /\ {cut, stray} \subseteq BOOLEAN
    BY DEF Types, ScriptOK, ScriptRecord
  <2>5. /\ installed \subseteq Releases /\ {current, previous} \ {NoRelease} \subseteq installed
        /\ task \in BOOLEAN
    BY DEF Types, FilesOK
  <2>6. now \in Times /\ \A b \in DOMAIN Bounds : spent[b] \in 0 .. Bounds[b]
    <3>1. \A b \in DOMAIN Bounds : Bounds[b] \in Nat
      BY LifecycleAssumption DEF Bounds
    <3> QED BY <3>1 DEF Types, ClockOK
  <2> QED BY <2>1, <2>2, <2>3, <2>4, <2>5, <2>6 DEF TypeOK
<1> QED BY <1>1, MigratedInvariant, CrashInvariant, PTL
=============================================================================
