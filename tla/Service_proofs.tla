--------------------------- MODULE Service_proofs ---------------------------
(***************************************************************************)
(* Proofs about one process from its configuration to its exit code: the   *)
(* contract of the configuration, the deadlines of polls, the end of a     *)
(* process, and what the operations tables tell while it serves.           *)
(***************************************************************************)
EXTENDS Service, FiniteSetTheorems, SequenceTheorems, WellFoundedInduction, TLAPS

-----------------------------------------------------------------------------
(* The configuration.                                                       *)

\* A configuration that passed validation.
GoodConfig(c) == Validate(c) /\ CollectorsTyped(c.collectors)

\* Load never returns a configuration that it did not validate after the
\* environment was applied, nor one whose collectors it did not read.
LEMMA Loaded ==
  ASSUME NEW file, NEW env,
         "collectors" \in DOMAIN file => CollectorsTyped(file.collectors),
         Load(file, env) # Rejected
  PROVE  GoodConfig(Load(file, env))
<1> DEFINE c == Overrides(env) ++ file ++ Defaults
<1>1. c.collectors = IF "collectors" \in DOMAIN file THEN file.collectors ELSE <<>>
  <2>1. "collectors" \notin DOMAIN Overrides(env)
    BY DEF Overrides, EnvFields
  <2>2. "collectors" \in DOMAIN Defaults /\ Defaults.collectors = <<>>
    BY DEF Defaults
  <2> QED BY <2>1, <2>2 DEF ++
<1>2. CollectorsTyped(c.collectors)
  <2>1. CollectorsTyped(<<>>)
    BY DEF CollectorsTyped
  <2> QED BY <1>1, <2>1
<1>3. Load(file, env) = Resolve(c) /\ Validate(Resolve(c))
  BY DEF Load
<1>4. Resolve(c).collectors = c.collectors
  <2> HIDE DEF c
  <2> QED BY DEF Resolve
<1> QED BY <1>2, <1>3, <1>4 DEF GoodConfig

LEMMA CollectorFacts ==
  ASSUME NEW c, GoodConfig(c)
  PROVE  /\ Len(c.collectors) \in Nat /\ DOMAIN c.collectors = 1 .. Len(c.collectors)
         /\ \A n \in DOMAIN c.collectors :
              /\ c.collectors[n].id \in STRING /\ c.collectors[n].offline \in Nat
              /\ c.collectors[n].enabled => c.collectors[n].offline >= 1
<1> DEFINE cs == c.collectors
<1>1. cs \in Seq(CollectorSettings) /\ \A n \in DOMAIN cs : cs[n].enabled => cs[n].offline >= 1
  BY DEF GoodConfig, CollectorsTyped
<1> HIDE DEF cs
<1>2. Len(cs) \in Nat /\ DOMAIN cs = 1 .. Len(cs) /\ \A n \in DOMAIN cs : cs[n] \in CollectorSettings
  BY <1>1
<1>3. \A x \in CollectorSettings : x.id \in STRING /\ x.offline \in Nat
  BY DEF CollectorSettings
<1> QED BY <1>1, <1>2, <1>3 DEF cs

-----------------------------------------------------------------------------
(* The steps, by what they do to polls.                                     *)

PollStep ==
  \/ StartGoroutines
  \/ Up /\ Tick
  \/ Up /\ \E id \in DOMAIN poll :
       BeginPoll(id) \/ GiveUp(id) \/ CollectorStops(id) \/ \E code : EndPoll(id, code)

\* Every step is one of a poll, the start or end of a process, or leaves polls alone.
LEMMA PollForms ==
  ASSUME Next
  PROVE  \/ PollStep
         \/ \E input \in setup.inputs : Launch(input)
         \/ Crash
         \/ UNCHANGED <<cfg, pollVars>>
<1>1. CASE Main
  <2>1. CASE StartGoroutines
    BY <2>1 DEF PollStep
  <2>2. CASE Listen
    BY <2>2 DEF Listen, pollVars
  <2>3. CASE OpenStore
    BY <2>3 DEF OpenStore, pollVars
  <2>4. CASE BeginShutdown \/ Drained \/ ShutdownTimesOut \/ CloseStore \/ Exit
    BY <2>4 DEF BeginShutdown, Drained, ShutdownTimesOut, CloseStore, Exit, pollVars
  <2> QED BY <1>1, <2>1, <2>2, <2>3, <2>4 DEF Main
<1>2. CASE StopSignal \/ ServeFails \/ DiskChanges
  BY <1>2 DEF StopSignal, ServeFails, DiskChanges, runVars, pollVars
<1>3. CASE Up /\ Worker
  BY <1>3 DEF Worker, MediaInitialize, MediaScan, MediaStops, runVars, pollVars
<1>4. CASE Up /\ Operations
  BY <1>4 DEF Operations, ScanDisk, OperationsStops, MaintenanceFails, runVars, pollVars
<1>5. CASE Up /\ \E r \in Request : Viewer(r)
  BY <1>5 DEF Viewer, BeginCoverage, ClientLeaves, RecordCoverage, RebuildEnds, runVars, pollVars
<1>6. CASE Up /\ \E id \in DOMAIN poll : Collector(id)
  BY <1>6 DEF Collector, PollStep
<1>7. CASE Up /\ Tick
  BY <1>7 DEF PollStep
<1> QED BY <1>1, <1>2, <1>3, <1>4, <1>5, <1>6, <1>7 DEF Next

-----------------------------------------------------------------------------
(* Sequences of waiting polls.                                              *)

LEMMA Appended ==
  ASSUME NEW S, NEW s \in Seq(S), NEW x \in S
  PROVE  /\ Append(s, x) \in Seq(S) /\ Len(Append(s, x)) = Len(s) + 1
         /\ \A n \in 1 .. Len(s) : Append(s, x)[n] = s[n]
         /\ Append(s, x)[Len(s) + 1] = x
  OBVIOUS

LEMMA Tailed ==
  ASSUME NEW S, NEW s \in Seq(S), s # <<>>
  PROVE  /\ Len(s) \in Nat \ {0} /\ Head(s) = s[1] /\ Head(s) \in S
         /\ Tail(s) \in Seq(S) /\ Len(Tail(s)) = Len(s) - 1
         /\ \A n \in 1 .. Len(s) - 1 : Tail(s)[n] = s[n + 1]
  OBVIOUS

LEMMA Removed ==
  ASSUME NEW S, NEW s \in Seq(S), NEW i \in 1 .. Len(s)
  PROVE  /\ RemoveAt(s, i) \in Seq(S) /\ Len(RemoveAt(s, i)) = Len(s) - 1
         /\ \A n \in 1 .. Len(s) - 1 : RemoveAt(s, i)[n] = IF n < i THEN s[n] ELSE s[n + 1]
<1> DEFINE a == SubSeq(s, 1, i - 1)
           b == SubSeq(s, i + 1, Len(s))
<1>1. a \in Seq(S) /\ Len(a) = i - 1 /\ \A n \in 1 .. i - 1 : a[n] = s[n]
  <2>1. CASE i = 1
    BY <2>1
  <2>2. CASE i > 1
    BY <2>2
  <2> QED BY <2>1, <2>2
<1>2. b \in Seq(S) /\ Len(b) = Len(s) - i /\ \A n \in 1 .. Len(s) - i : b[n] = s[n + i]
  <2>1. CASE i = Len(s)
    BY <2>1
  <2>2. CASE i < Len(s)
    BY <2>2
  <2> QED BY <2>1, <2>2
<1> HIDE DEF a, b
<1>3. RemoveAt(s, i) = a \o b
  BY DEF RemoveAt, a, b
<1>0. Len(s) \in Nat /\ i \in Nat /\ i >= 1 /\ i <= Len(s)
  OBVIOUS
<1>4. a \o b \in Seq(S) /\ Len(a \o b) = Len(s) - 1
  <2>1. a \o b \in Seq(S) /\ Len(a \o b) = Len(a) + Len(b)
    BY <1>1, <1>2, ConcatProperties
  <2> QED BY <1>0, <1>1, <1>2, <2>1
<1>5. ASSUME NEW n \in 1 .. Len(s) - 1 PROVE (a \o b)[n] = IF n < i THEN s[n] ELSE s[n + 1]
  <2>1. CASE n < i
    BY <1>1, <1>2, <2>1
  <2>2. CASE n >= i
    <3>1. (a \o b)[n] = b[n - (i - 1)] /\ n - (i - 1) \in 1 .. Len(s) - i
      BY <1>1, <1>2, <2>2
    <3> QED BY <3>1, <1>2, <2>2
  <2>3. n < i \/ n >= i
    BY <1>0
  <2> QED BY <2>1, <2>2, <2>3, Zenon
<1> QED BY <1>3, <1>4, <1>5

-----------------------------------------------------------------------------
(* The configuration of a process never changes, and its goroutines are     *)
(* those it asks for.                                                       *)

CfgInv ==
  /\ setup \in Setups
  /\ stage # "down" => GoodConfig(cfg)
  /\ DOMAIN poll # {} => GoodConfig(cfg) /\ DOMAIN poll = Polled

LEMMA SameProcess ==
  ASSUME Next
  PROVE  \/ \E input \in setup.inputs : Launch(input)
         \/ cfg' = cfg /\ (stage' # "down" => stage # "down")
<1>1. CASE Main
  BY <1>1 DEF Main, Listen, OpenStore, StartGoroutines, BeginShutdown, Drained, ShutdownTimesOut,
    CloseStore, Exit, Returned, Ends
<1>2. CASE StopSignal \/ ServeFails \/ Crash \/ DiskChanges
  BY <1>2 DEF StopSignal, ServeFails, Crash, DiskChanges, Ends, Returned, runVars
<1>3. CASE Up /\ (Tick \/ Worker \/ Operations)
  BY <1>3 DEF Up, Tick, Worker, Operations, MediaInitialize, MediaScan, MediaStops, ScanDisk,
    OperationsStops, MaintenanceFails, runVars
<1>4. CASE Up /\ \E r \in Request : Viewer(r)
  BY <1>4 DEF Up, Viewer, BeginCoverage, ClientLeaves, RecordCoverage, RebuildEnds, runVars
<1>5. CASE Up /\ \E id \in DOMAIN poll : Collector(id)
  BY <1>5 DEF Up, Collector, BeginPoll, GiveUp, CollectorStops, EndPoll, runVars
<1> QED BY <1>1, <1>2, <1>3, <1>4, <1>5 DEF Next

LEMMA SamePolls ==
  ASSUME Next
  PROVE  \/ DOMAIN poll' = DOMAIN poll
         \/ DOMAIN poll' = {}
         \/ StartGoroutines /\ DOMAIN poll' = Polled /\ stage = "record"
<1>1. CASE \E input \in setup.inputs : Launch(input)
  BY <1>1 DEF Launch, Fresh
<1>2. CASE Crash
  BY <1>2 DEF Crash, Fresh
<1>3. CASE UNCHANGED <<cfg, pollVars>>
  BY <1>3 DEF pollVars
<1>4. CASE StartGoroutines
  BY <1>4 DEF StartGoroutines
<1>5. CASE Up /\ Tick
  BY <1>5 DEF Tick
<1>6. ASSUME NEW id \in DOMAIN poll,
             BeginPoll(id) \/ GiveUp(id) \/ CollectorStops(id) \/ \E code : EndPoll(id, code)
      PROVE  DOMAIN poll' = DOMAIN poll
  <2>1. CASE BeginPoll(id)
    BY <2>1 DEF BeginPoll
  <2>2. CASE GiveUp(id)
    BY <2>2 DEF GiveUp
  <2>3. CASE CollectorStops(id)
    BY <2>3 DEF CollectorStops
  <2>4. CASE \E code : EndPoll(id, code)
    BY <2>4 DEF EndPoll, ReleaseSlot
  <2> QED BY <1>6, <2>1, <2>2, <2>3, <2>4
<1> QED BY PollForms, <1>1, <1>2, <1>3, <1>4, <1>5, <1>6 DEF PollStep

LEMMA ConfigKept ==
  ASSUME CfgInv, [Next]_vars
  PROVE  CfgInv'
<1>1. CASE UNCHANGED vars
  BY <1>1 DEF CfgInv, Polled, vars, runVars, pollVars
<1>2. CASE \E input \in setup.inputs : Launch(input)
  <2>1. PICK input \in setup.inputs : Launch(input)
    BY <1>2
  <2>2. stage' # "down" => cfg' = Load(input.file, input.env) /\ cfg' # Rejected
    BY <2>1 DEF Launch
  <2>3. "collectors" \in DOMAIN input.file => CollectorsTyped(input.file.collectors)
    BY <2>1, ServiceAssumption DEF CfgInv
  <2>4. stage' # "down" => GoodConfig(cfg')
    BY <2>2, <2>3, Loaded
  <2>5. DOMAIN poll' = {}
    BY <2>1 DEF Launch, Fresh
  <2>6. CASE Next
    BY <2>4, <2>5, <2>6 DEF CfgInv, Next
  <2> QED BY <2>6, <1>1
<1>3. CASE Next /\ cfg' = cfg /\ (stage' # "down" => stage # "down")
  <2>1. setup' = setup
    BY <1>3 DEF Next
  <2>2. Polled' = Polled
    BY <1>3 DEF Polled, EnabledOf
  <2>3. GoodConfig(cfg)' <=> GoodConfig(cfg)
    BY <1>3
  <2> QED BY <1>3, <2>1, <2>2, <2>3, SamePolls DEF CfgInv
<1> QED BY <1>1, <1>2, <1>3, SameProcess

-----------------------------------------------------------------------------
(* Polls and their queue.                                                   *)

PollRec == [pc : {"idle", "wait", "run", "end"}, waited : Nat, ran : Nat]

PollTypes ==
  /\ \A id \in DOMAIN poll : id \in STRING /\ poll[id] \in PollRec
  /\ queue \in Seq(STRING)

\* The queue is the polls that wait, each once.
QueueInv ==
  /\ \A n \in 1 .. Len(queue) : queue[n] \in DOMAIN poll /\ poll[queue[n]].pc = "wait"
  /\ \A m, n \in 1 .. Len(queue) : queue[m] = queue[n] => m = n
  /\ \A id \in DOMAIN poll : poll[id].pc = "wait" => \E n \in 1 .. Len(queue) : queue[n] = id

\* What one poll does to itself.
Keeps(id) == DOMAIN poll' = DOMAIN poll /\ \A x \in DOMAIN poll \ {id} : poll'[x] = poll[x]

Moves(id, pc) ==
  /\ Keeps(id) /\ poll'[id] \in PollRec /\ poll'[id].pc = pc
  /\ poll'[id].waited = poll[id].waited /\ poll'[id].ran = poll[id].ran

Begins(id) == poll[id].pc = "idle" /\ Cardinality(Running) < Slots /\ Moves(id, "run") /\ queue' = queue
Queues(id) ==
  /\ poll[id].pc = "idle" /\ ~(Cardinality(Running) < Slots)
  /\ Moves(id, "wait") /\ queue' = Append(queue, id)
Leaves(id) == poll[id].pc = "idle" /\ cancelled /\ Moves(id, "end") /\ queue' = queue
Frees(id)  == poll[id].pc = "run" /\ queue = <<>> /\ Keeps(id) /\ poll'[id] = Idle /\ queue' = queue

\* A poll that ends passes its slot on to the next.
Passes(id) ==
  /\ poll[id].pc = "run" /\ queue # <<>> /\ queue' = Tail(queue)
  /\ DOMAIN poll' = DOMAIN poll /\ poll'[id] = Idle
  /\ LET h == queue[1] IN
     /\ h \in DOMAIN poll /\ poll[h].pc = "wait" /\ poll'[h] \in PollRec /\ poll'[h].pc = "run"
     /\ poll'[h].waited = poll[h].waited /\ poll'[h].ran = poll[h].ran
     /\ \A x \in DOMAIN poll \ {id, h} : poll'[x] = poll[x]

GivesUp(id) ==
  /\ poll[id].pc = "wait" /\ Keeps(id) /\ poll'[id] = Idle
  /\ \E n \in 1 .. Len(queue) : queue[n] = id /\ queue' = RemoveAt(queue, n)

\* Time passes for every attempt alike.
Ages ==
  /\ DOMAIN poll' = DOMAIN poll /\ queue' = queue
  /\ \A id \in DOMAIN poll :
       /\ ~OutOfTime(id) /\ poll'[id] \in PollRec /\ poll'[id].pc = poll[id].pc
       /\ poll'[id].waited = IF poll[id].pc = "wait" THEN poll[id].waited + 1 ELSE poll[id].waited
       /\ poll'[id].ran    = IF poll[id].pc = "run" THEN poll[id].ran + 1 ELSE poll[id].ran

PollEffect(id) ==
  \/ Begins(id) \/ Queues(id) \/ Leaves(id) \/ Frees(id) \/ Passes(id) \/ GivesUp(id)
  \/ UNCHANGED <<poll, queue>>

\* A record of a poll with one field changed.
LEMMA RecFields ==
  ASSUME NEW p \in PollRec
  PROVE  /\ \A pc \in {"idle", "wait", "run", "end"} :
              LET q == [p EXCEPT !.pc = pc]
              IN  q \in PollRec /\ q.pc = pc /\ q.waited = p.waited /\ q.ran = p.ran
         /\ LET q == [p EXCEPT !.waited = @ + 1]
            IN  q \in PollRec /\ q.pc = p.pc /\ q.waited = p.waited + 1 /\ q.ran = p.ran
         /\ LET q == [p EXCEPT !.ran = @ + 1]
            IN  q \in PollRec /\ q.pc = p.pc /\ q.waited = p.waited /\ q.ran = p.ran + 1
  BY DEF PollRec

LEMMA PollEffects ==
  ASSUME PollTypes, QueueInv, NEW id \in DOMAIN poll,
         BeginPoll(id) \/ GiveUp(id) \/ CollectorStops(id) \/ \E code : EndPoll(id, code)
  PROVE  PollEffect(id)
<1> DEFINE now(pc) == [poll[id] EXCEPT !.pc = pc]
<1>1. /\ poll[id] \in PollRec
      /\ \A pc \in {"idle", "wait", "run", "end"} :
           now(pc) \in PollRec /\ now(pc).pc = pc /\ now(pc).waited = poll[id].waited /\ now(pc).ran = poll[id].ran
  BY RecFields DEF PollTypes
<1>2. CASE BeginPoll(id)
  <2>1. CASE ~CoreWritesAllowed
    BY <1>2, <2>1 DEF BeginPoll, PollEffect
  <2>2. CASE CoreWritesAllowed /\ Cardinality(Running) < Slots
    <3>1. poll[id].pc = "idle" /\ poll' = [poll EXCEPT ![id] = now("run")] /\ queue' = queue
      BY <1>2, <2>2 DEF BeginPoll
    <3> HIDE DEF now
    <3>2. Begins(id)
      BY <1>1, <2>2, <3>1 DEF Begins, Moves, Keeps
    <3> QED BY <3>2 DEF PollEffect
  <2>3. CASE CoreWritesAllowed /\ ~(Cardinality(Running) < Slots)
    <3>1. poll[id].pc = "idle" /\ poll' = [poll EXCEPT ![id] = now("wait")] /\ queue' = Append(queue, id)
      BY <1>2, <2>3 DEF BeginPoll
    <3> HIDE DEF now
    <3>2. Queues(id)
      BY <1>1, <2>3, <3>1 DEF Queues, Moves, Keeps
    <3> QED BY <3>2 DEF PollEffect
  <2> QED BY <2>1, <2>2, <2>3
<1>3. CASE CollectorStops(id)
  <2>1. poll[id].pc = "idle" /\ cancelled /\ poll' = [poll EXCEPT ![id] = now("end")] /\ queue' = queue
    BY <1>3 DEF CollectorStops
  <2> HIDE DEF now
  <2>2. Leaves(id)
    BY <1>1, <2>1 DEF Leaves, Moves, Keeps
  <2> QED BY <2>2 DEF PollEffect
<1>4. CASE GiveUp(id)
  <2>1. /\ poll[id].pc = "wait" /\ poll' = [poll EXCEPT ![id] = Idle]
        /\ queue' = RemoveAt(queue, CHOOSE n \in DOMAIN queue : queue[n] = id)
    BY <1>4 DEF GiveUp
  <2>2. PICK n : n = (CHOOSE m \in DOMAIN queue : queue[m] = id)
    OBVIOUS
  <2>3. DOMAIN queue = 1 .. Len(queue)
    BY DEF PollTypes
  <2>4. n \in 1 .. Len(queue) /\ queue[n] = id
    BY <2>1, <2>2, <2>3 DEF QueueInv
  <2>5. GivesUp(id)
    BY <2>1, <2>2, <2>4 DEF GivesUp, Keeps
  <2> QED BY <2>5 DEF PollEffect
<1>5. CASE \E code : EndPoll(id, code)
  <2>1. poll[id].pc = "run" /\ ReleaseSlot(id)
    BY <1>5 DEF EndPoll
  <2>2. CASE queue = <<>>
    <3>1. Frees(id)
      BY <2>1, <2>2 DEF ReleaseSlot, Frees, Keeps
    <3> QED BY <3>1 DEF PollEffect
  <2>3. CASE queue # <<>>
    <3> DEFINE h == queue[1]
               next == [poll[h] EXCEPT !.pc = "run"]
    <3>1. Head(queue) = h /\ 1 \in 1 .. Len(queue)
      BY <2>3, Tailed DEF PollTypes
    <3>2. h \in DOMAIN poll /\ poll[h].pc = "wait" /\ poll[h] \in PollRec /\ h # id
      BY <2>1, <3>1 DEF QueueInv, PollTypes
    <3>3. next \in PollRec /\ next.pc = "run" /\ next.waited = poll[h].waited /\ next.ran = poll[h].ran
      BY <3>2, RecFields
    <3>4. poll' = [poll EXCEPT ![id] = Idle, ![h].pc = "run"] /\ queue' = Tail(queue)
      BY <2>1, <2>3, <3>1 DEF ReleaseSlot
    <3> HIDE DEF h
    <3>5. poll' = [[poll EXCEPT ![id] = Idle] EXCEPT ![h] = next]
      BY <3>2, <3>4
    <3> HIDE DEF next
    <3>6. /\ DOMAIN poll' = DOMAIN poll /\ poll'[id] = Idle /\ poll'[h] = next
          /\ \A x \in DOMAIN poll \ {id, h} : poll'[x] = poll[x]
      BY <3>2, <3>5
    <3>7. Passes(id)
      BY <2>1, <2>3, <3>2, <3>3, <3>4, <3>6 DEF Passes, h
    <3> QED BY <3>7 DEF PollEffect
  <2> QED BY <2>2, <2>3
<1> QED BY <1>2, <1>3, <1>4, <1>5

LEMMA TickAges ==
  ASSUME PollTypes, Tick
  PROVE  Ages
<1>1. DOMAIN poll' = DOMAIN poll /\ queue' = queue
  BY DEF Tick
<1>2. ASSUME NEW id \in DOMAIN poll
      PROVE  /\ ~OutOfTime(id) /\ poll'[id] \in PollRec /\ poll'[id].pc = poll[id].pc
             /\ poll'[id].waited = IF poll[id].pc = "wait" THEN poll[id].waited + 1 ELSE poll[id].waited
             /\ poll'[id].ran    = IF poll[id].pc = "run" THEN poll[id].ran + 1 ELSE poll[id].ran
  <2>1. poll[id] \in PollRec
    BY <1>2 DEF PollTypes
  <2>2. ~OutOfTime(id)
    BY <1>2 DEF Tick
  <2>3. CASE poll[id].pc = "wait"
    <3> DEFINE q == [poll[id] EXCEPT !.waited = @ + 1]
    <3>1. poll'[id] = q
      BY <1>2, <2>3 DEF Tick
    <3>2. q \in PollRec /\ q.pc = poll[id].pc /\ q.waited = poll[id].waited + 1 /\ q.ran = poll[id].ran
      BY <2>1, RecFields
    <3> HIDE DEF q
    <3> QED BY <2>2, <2>3, <3>1, <3>2
  <2>4. CASE poll[id].pc = "run"
    <3> DEFINE q == [poll[id] EXCEPT !.ran = @ + 1]
    <3>1. poll'[id] = q
      BY <1>2, <2>4 DEF Tick
    <3>2. q \in PollRec /\ q.pc = poll[id].pc /\ q.waited = poll[id].waited /\ q.ran = poll[id].ran + 1
      BY <2>1, RecFields
    <3> HIDE DEF q
    <3> QED BY <2>2, <2>4, <3>1, <3>2
  <2>5. CASE poll[id].pc \notin {"wait", "run"}
    <3>1. poll'[id] = poll[id]
      BY <1>2, <2>5 DEF Tick
    <3> QED BY <2>1, <2>2, <2>5, <3>1
  <2> QED BY <2>3, <2>4, <2>5
<1> QED BY <1>1, <1>2 DEF Ages

-----------------------------------------------------------------------------
(* The stages of a process.                                                 *)

Early == stage \in {"listen", "open", "record"}

EarlyInv ==
  Early =>
    /\ DOMAIN poll = {} /\ media = None /\ ops = None /\ exit = None /\ ~cut /\ Active = {}
    /\ store = IF stage = "record" THEN "open" ELSE None

ServingInv ==
  /\ stage \in {"serve", "drain"} => exit = None /\ ~cut /\ store \in {"open", "failed"}
  /\ stage \in {"serve", "drain", "join"} /\ store = "open" => ops \in {"run", "end"}
  /\ stage \in {"serve", "drain"} /\ store = "open" => DOMAIN poll = Polled /\ (cfg.media => media # None)
  /\ stage = "join" => store # "closed"

EndInv ==
  /\ store = "closed" => stage \in {"return", "down"} /\ Joined /\ ops = "end"
  /\ exit = "ok" => stage \in {"join", "return", "down"} /\ ~cut /\ Active = {}

\* A step of a goroutine or a request leaves stage, exit, store and configuration.
LEMMA EarlyKept ==
  ASSUME EarlyInv, Next
  PROVE  EarlyInv'
<1>1. CASE \E input \in setup.inputs : Launch(input)
  BY <1>1 DEF Launch, Fresh, Ends, EarlyInv, Early, Active, NoPage
<1>2. CASE Main
  <2>1. CASE Listen
    BY <2>1 DEF Listen, Ends, EarlyInv, Early, Active, pollVars, mediaVars, opsVars, pageVars
  <2>2. CASE OpenStore
    BY <2>2 DEF OpenStore, EarlyInv, Early, Active, pollVars, mediaVars, opsVars, pageVars
  <2>3. CASE StartGoroutines
    BY <2>3 DEF StartGoroutines, EarlyInv, Early
  <2>4. CASE BeginShutdown \/ Drained \/ ShutdownTimesOut \/ CloseStore \/ Exit
    BY <2>4 DEF BeginShutdown, Drained, ShutdownTimesOut, CloseStore, Exit, Returned, EarlyInv, Early
  <2> QED BY <1>2, <2>1, <2>2, <2>3, <2>4 DEF Main
<1>3. CASE StopSignal \/ DiskChanges
  BY <1>3 DEF StopSignal, DiskChanges, EarlyInv, Early, Active, runVars, pollVars, mediaVars, opsVars, pageVars
<1>4. CASE ServeFails \/ Crash
  BY <1>4 DEF ServeFails, Crash, Ends, Returned, EarlyInv, Early
<1>5. CASE Up /\ Tick
  <2>1. DOMAIN poll' = DOMAIN poll
    BY <1>5 DEF Tick
  <2> QED BY <1>5, <2>1 DEF Tick, EarlyInv, Early, Active, runVars, mediaVars, opsVars, pageVars
<1>6. CASE Up /\ Worker
  <2>1. ~Early /\ stage' = stage
    BY <1>6 DEF Worker, MediaInitialize, MediaScan, MediaStops, runVars, EarlyInv, None
  <2> QED BY <2>1 DEF EarlyInv, Early
<1>7. CASE Up /\ Operations
  <2>1. ~Early /\ stage' = stage
    BY <1>7 DEF Operations, ScanDisk, OperationsStops, MaintenanceFails, runVars, EarlyInv, None
  <2> QED BY <2>1 DEF EarlyInv, Early
<1>8. CASE Up /\ \E id \in DOMAIN poll : Collector(id)
  <2>1. ~Early /\ stage' = stage
    BY <1>8 DEF Collector, BeginPoll, GiveUp, CollectorStops, EndPoll, runVars, EarlyInv
  <2> QED BY <2>1 DEF EarlyInv, Early
<1>9. CASE Up /\ \E r \in Request : Viewer(r)
  <2>1. ~Early /\ stage' = stage
    BY <1>9 DEF Viewer, BeginCoverage, ClientLeaves, RecordCoverage, RebuildEnds, runVars, EarlyInv, Early, Active
  <2> QED BY <2>1 DEF EarlyInv, Early
<1> QED BY <1>1, <1>2, <1>3, <1>4, <1>5, <1>6, <1>7, <1>8, <1>9 DEF Next

LEMMA ServingKept ==
  ASSUME EarlyInv, ServingInv, EndInv, Next
  PROVE  ServingInv'
<1>0. ASSUME cfg' = cfg PROVE Polled' = Polled
  BY <1>0 DEF Polled, EnabledOf
<1>1. CASE \E input \in setup.inputs : Launch(input)
  BY <1>1 DEF Launch, Fresh, ServingInv
<1>2. CASE Main
  <2>1. CASE Listen \/ Exit
    BY <2>1 DEF Listen, Exit, Ends, ServingInv
  <2>2. CASE OpenStore
    BY <2>2 DEF OpenStore, EarlyInv, Early, ServingInv, pageVars
  <2>3. CASE StartGoroutines
    <3>1. /\ stage' = "serve" /\ exit' = None /\ ~cut' /\ store' = "open" /\ ops' = "run"
          /\ cfg' = cfg /\ DOMAIN poll' = Polled /\ (cfg.media => media' # None)
      BY <2>3 DEF StartGoroutines, EarlyInv, Early, pageVars, None
    <3> QED BY <1>0, <3>1 DEF ServingInv
  <2>4. CASE BeginShutdown
    BY <1>0, <2>4 DEF BeginShutdown, ServingInv, pollVars, mediaVars, opsVars, pageVars
  <2>5. CASE Drained \/ ShutdownTimesOut
    BY <2>5 DEF Drained, ShutdownTimesOut, Returned, ServingInv, opsVars
  <2>6. CASE CloseStore
    BY <2>6 DEF CloseStore, ServingInv
  <2> QED BY <1>2, <2>1, <2>2, <2>3, <2>4, <2>5, <2>6 DEF Main
<1>3. CASE StopSignal \/ DiskChanges
  BY <1>0, <1>3 DEF StopSignal, DiskChanges, ServingInv, runVars, pollVars, mediaVars, opsVars, pageVars
<1>4. CASE ServeFails \/ Crash
  BY <1>4 DEF ServeFails, Crash, Ends, Returned, ServingInv, opsVars
<1>5. CASE Up /\ Tick
  <2>1. DOMAIN poll' = DOMAIN poll
    BY <1>5 DEF Tick
  <2> QED BY <1>0, <1>5, <2>1 DEF Tick, ServingInv, runVars, mediaVars, opsVars, pageVars
<1>6. CASE Up /\ Worker
  <2>1. media' # None /\ UNCHANGED <<runVars, pollVars, opsVars, pageVars>>
    BY <1>6 DEF Worker, MediaInitialize, MediaScan, MediaStops, None
  <2> QED BY <1>0, <2>1 DEF ServingInv, runVars, pollVars, opsVars, pageVars
<1>7. CASE Up /\ Operations
  <2>1. ops' \in {"run", "end"} /\ UNCHANGED <<runVars, pollVars, mediaVars, pageVars>>
    BY <1>7 DEF Operations, ScanDisk, OperationsStops, MaintenanceFails, opsVars
  <2> QED BY <1>0, <2>1 DEF ServingInv, runVars, pollVars, mediaVars, pageVars
<1>8. CASE Up /\ \E id \in DOMAIN poll : Collector(id)
  <2>1. UNCHANGED <<runVars, mediaVars, opsVars, pageVars>>
    BY <1>8 DEF Collector, BeginPoll, GiveUp, CollectorStops, EndPoll
  <2>2. PICK id \in DOMAIN poll : Collector(id)
    BY <1>8
  <2>4. DOMAIN poll' = DOMAIN poll
    <3>1. CASE \E code \in setup.outcomes : EndPoll(id, code)
      BY <3>1 DEF EndPoll, ReleaseSlot
    <3>2. CASE BeginPoll(id)
      BY <3>2 DEF BeginPoll
    <3>3. CASE GiveUp(id) \/ CollectorStops(id)
      BY <3>3 DEF GiveUp, CollectorStops
    <3> QED BY <2>2, <3>1, <3>2, <3>3 DEF Collector
  <2> QED BY <1>0, <2>1, <2>4 DEF ServingInv, runVars, mediaVars, opsVars, pageVars
<1>9. CASE Up /\ \E r \in Request : Viewer(r)
  <2>1. UNCHANGED <<runVars, cut, pollVars, mediaVars, opsVars>>
    BY <1>9 DEF Viewer, BeginCoverage, ClientLeaves, RecordCoverage, RebuildEnds
  <2> QED BY <1>0, <2>1 DEF ServingInv, runVars, pollVars, mediaVars, opsVars
<1> QED BY <1>1, <1>2, <1>3, <1>4, <1>5, <1>6, <1>7, <1>8, <1>9 DEF Next

LEMMA EndKept ==
  ASSUME PollTypes, EarlyInv, ServingInv, EndInv, Next
  PROVE  EndInv'
<1>1. CASE \E input \in setup.inputs : Launch(input)
  BY <1>1 DEF Launch, Fresh, EndInv, None
<1>2. CASE Main
  <2>1. CASE Listen
    BY <2>1 DEF Listen, Ends, EndInv, EarlyInv, Early, None
  <2>2. CASE OpenStore
    BY <2>2 DEF OpenStore, EarlyInv, Early, EndInv, None
  <2>3. CASE StartGoroutines
    BY <2>3 DEF StartGoroutines, EarlyInv, Early, EndInv, None
  <2>4. CASE BeginShutdown
    BY <2>4 DEF BeginShutdown, ServingInv, EndInv, None
  <2>5. CASE Drained
    BY <2>5 DEF Drained, Returned, ServingInv, EndInv, Active, pageVars
  <2>6. CASE ShutdownTimesOut
    BY <2>6 DEF ShutdownTimesOut, Returned, ShutdownCode, ServingInv, EndInv
  <2>7. CASE CloseStore
    <3>1. UNCHANGED <<exit, pollVars, mediaVars, opsVars, pageVars>> /\ stage = "join" /\ stage' = "return" /\ Joined
      BY <2>7 DEF CloseStore
    <3>2. store' = "closed" => ops = "end"
      BY <2>7, <3>1 DEF CloseStore, ServingInv, Joined, None
    <3>3. Joined' /\ Active' = Active
      BY <3>1 DEF Joined, Active, pollVars, mediaVars, opsVars, pageVars
    <3> QED BY <3>1, <3>2, <3>3 DEF EndInv, opsVars, pageVars
  <2>8. CASE Exit
    <3>1. UNCHANGED <<exit, store, pollVars, mediaVars, opsVars, pageVars>> /\ stage = "return" /\ stage' = "down"
      BY <2>8 DEF Exit
    <3>2. (Joined' <=> Joined) /\ Active' = Active
      BY <3>1 DEF Joined, Active, pollVars, mediaVars, opsVars, pageVars
    <3> QED BY <3>1, <3>2 DEF EndInv, opsVars, pageVars
  <2> QED BY <1>2, <2>1, <2>2, <2>3, <2>4, <2>5, <2>6, <2>7, <2>8 DEF Main
<1>3. CASE StopSignal \/ DiskChanges
  <2>1. UNCHANGED <<stage, exit, store, pollVars, mediaVars, opsVars, pageVars>>
    BY <1>3 DEF StopSignal, DiskChanges, runVars
  <2>2. (Joined' <=> Joined) /\ Active' = Active
    BY <2>1 DEF Joined, Active, pollVars, mediaVars, opsVars, pageVars
  <2> QED BY <2>1, <2>2 DEF EndInv, opsVars, pageVars
<1>4. CASE ServeFails \/ Crash
  BY <1>4 DEF ServeFails, Crash, Ends, Fresh, Returned, EndInv, ServingInv, None
<1>5. CASE Up /\ Tick
  <2>1. UNCHANGED <<stage, exit, store, mediaVars, opsVars, pageVars>> /\ Ages
    BY <1>5, TickAges DEF Tick, runVars
  <2>2. (Joined' <=> Joined) /\ Active' = Active
    BY <2>1 DEF Joined, Active, Ages, mediaVars, opsVars, pageVars
  <2> QED BY <2>1, <2>2 DEF EndInv, opsVars, pageVars
<1>6. CASE Up /\ Worker
  <2>1. store # "closed" /\ UNCHANGED <<stage, exit, store, pageVars>>
    BY <1>6 DEF Worker, MediaInitialize, MediaScan, MediaStops, runVars, EndInv, Joined, None
  <2>2. Active' = Active
    BY <2>1 DEF Active, pageVars
  <2> QED BY <2>1, <2>2 DEF EndInv, pageVars
<1>7. CASE Up /\ Operations
  <2>1. store # "closed" /\ UNCHANGED <<stage, exit, store, pageVars>>
    BY <1>7 DEF Operations, ScanDisk, OperationsStops, MaintenanceFails, runVars, EndInv
  <2>2. Active' = Active
    BY <2>1 DEF Active, pageVars
  <2> QED BY <2>1, <2>2 DEF EndInv, pageVars
<1>8. CASE Up /\ \E id \in DOMAIN poll : Collector(id)
  <2>1. store # "closed" /\ UNCHANGED <<stage, exit, store, pageVars>>
    BY <1>8 DEF Collector, BeginPoll, GiveUp, CollectorStops, EndPoll, runVars, EndInv, Joined
  <2>2. Active' = Active
    BY <2>1 DEF Active, pageVars
  <2> QED BY <2>1, <2>2 DEF EndInv, pageVars
<1>9. CASE Up /\ \E r \in Request : Viewer(r)
  <2>1. UNCHANGED <<stage, exit, store, cut, pollVars, mediaVars, opsVars>>
    BY <1>9 DEF Viewer, BeginCoverage, ClientLeaves, RecordCoverage, RebuildEnds, runVars
  <2>2. exit # "ok"
    BY <1>9 DEF Viewer, BeginCoverage, ClientLeaves, RecordCoverage, RebuildEnds, EndInv, Active
  <2>3. Joined' <=> Joined
    BY <2>1 DEF Joined, pollVars, mediaVars, opsVars
  <2> QED BY <2>1, <2>2, <2>3 DEF EndInv, opsVars
<1> QED BY <1>1, <1>2, <1>3, <1>4, <1>5, <1>6, <1>7, <1>8, <1>9 DEF Next

LEMMA QueueKept ==
  ASSUME CfgInv, EarlyInv, PollTypes, QueueInv, Next
  PROVE  PollTypes' /\ QueueInv'
<1>1. CASE (DOMAIN poll' = {} /\ queue' = <<>>)
  BY <1>1 DEF PollTypes, QueueInv
<1>2. CASE UNCHANGED <<poll, queue>>
  BY <1>2 DEF PollTypes, QueueInv
<1>3. CASE StartGoroutines
  <2>1. queue' = <<>>
    <3>1. queue' = queue /\ DOMAIN poll = {}
      BY <1>3 DEF StartGoroutines, EarlyInv, Early
    <3> QED BY <3>1 DEF QueueInv, PollTypes
  <2>2. DOMAIN poll' = Polled /\ \A id \in Polled : poll'[id] = Idle
    BY <1>3 DEF StartGoroutines
  <2>3. Polled \subseteq STRING
    <3>1. GoodConfig(cfg)
      BY <1>3 DEF StartGoroutines, CfgInv
    <3>2. \A n \in DOMAIN cfg.collectors : cfg.collectors[n].id \in STRING
      BY <3>1, CollectorFacts
    <3> QED BY <3>2 DEF Polled, EnabledOf
  <2>4. Idle \in PollRec /\ Idle.pc # "wait"
    BY DEF Idle, PollRec
  <2>5. PollTypes'
    <3>1. \A id \in DOMAIN poll' : id \in STRING /\ poll'[id] \in PollRec
      BY <2>2, <2>3, <2>4, Zenon
    <3>2. queue' \in Seq(STRING)
      BY <2>1
    <3> QED BY <3>1, <3>2 DEF PollTypes
  <2>6. 1 .. Len(queue') = {}
    BY <2>1
  <2> QED BY <2>2, <2>4, <2>5, <2>6 DEF QueueInv
<1>4. CASE Ages
  BY <1>4 DEF Ages, PollTypes, QueueInv
<1>5. ASSUME NEW id \in DOMAIN poll, PollEffect(id)
      PROVE  PollTypes' /\ QueueInv'
  <2>0. id \in STRING /\ Idle \in PollRec /\ Idle.pc = "idle" /\ queue \in Seq(STRING) /\ Len(queue) \in Nat
    BY <1>5 DEF PollTypes, Idle, PollRec
  <2>1. CASE Begins(id) \/ Leaves(id) \/ Frees(id)
    <3>1. /\ DOMAIN poll' = DOMAIN poll /\ queue' = queue
          /\ \A x \in DOMAIN poll : poll'[x] \in PollRec /\ (poll'[x].pc = "wait" <=> poll[x].pc = "wait")
      BY <2>0, <2>1 DEF Begins, Leaves, Frees, Moves, Keeps, PollTypes
    <3> QED BY <3>1 DEF PollTypes, QueueInv
  <2>2. CASE Queues(id)
    <3>1. /\ DOMAIN poll' = DOMAIN poll /\ queue' = Append(queue, id) /\ poll[id].pc = "idle"
          /\ poll'[id].pc = "wait" /\ poll'[id] \in PollRec
          /\ \A x \in DOMAIN poll \ {id} : poll'[x] = poll[x]
      BY <2>2 DEF Queues, Moves, Keeps
    <3>2. /\ queue' \in Seq(STRING) /\ Len(queue') = Len(queue) + 1 /\ queue'[Len(queue) + 1] = id
          /\ \A n \in 1 .. Len(queue) : queue'[n] = queue[n]
      BY <2>0, <3>1, Appended
    <3>3. \A n \in 1 .. Len(queue) : queue[n] # id
      BY <3>1 DEF QueueInv
    <3>4. PollTypes'
      BY <3>1, <3>2 DEF PollTypes
    <3>5. \A n \in 1 .. Len(queue') : queue'[n] \in DOMAIN poll' /\ poll'[queue'[n]].pc = "wait"
      BY <2>0, <3>1, <3>2, <3>3 DEF QueueInv
    <3>6. \A m, n \in 1 .. Len(queue') : queue'[m] = queue'[n] => m = n
      BY <2>0, <3>2, <3>3 DEF QueueInv
    <3>7. \A x \in DOMAIN poll' : poll'[x].pc = "wait" => \E n \in 1 .. Len(queue') : queue'[n] = x
      BY <2>0, <3>1, <3>2 DEF QueueInv
    <3> QED BY <3>4, <3>5, <3>6, <3>7 DEF QueueInv
  <2>3. CASE Passes(id)
    <3> DEFINE h == queue[1]
    <3>1. /\ DOMAIN poll' = DOMAIN poll /\ queue' = Tail(queue) /\ poll[id].pc = "run" /\ poll'[id] = Idle
          /\ h \in DOMAIN poll /\ poll'[h].pc = "run" /\ poll'[h] \in PollRec /\ queue # <<>>
          /\ \A x \in DOMAIN poll \ {id, h} : poll'[x] = poll[x]
      BY <2>3 DEF Passes
    <3>2. /\ queue' \in Seq(STRING) /\ Len(queue') = Len(queue) - 1 /\ Len(queue) >= 1
          /\ \A n \in 1 .. Len(queue) - 1 : queue'[n] = queue[n + 1]
      BY <2>0, <3>1, Tailed
    <3>3. \A n \in 1 .. Len(queue) : queue[n] # id /\ (n # 1 => queue[n] # h)
      BY <3>1, <3>2 DEF QueueInv
    <3> HIDE DEF h
    <3>4. PollTypes'
      BY <2>0, <3>1, <3>2 DEF PollTypes
    <3>5. \A n \in 1 .. Len(queue') : queue'[n] \in DOMAIN poll' /\ poll'[queue'[n]].pc = "wait"
      <4> SUFFICES ASSUME NEW n \in 1 .. Len(queue')
                   PROVE  queue'[n] \in DOMAIN poll' /\ poll'[queue'[n]].pc = "wait"
        OBVIOUS
      <4>1. n + 1 \in 1 .. Len(queue) /\ n + 1 # 1 /\ queue'[n] = queue[n + 1]
        BY <2>0, <3>2
      <4> QED BY <3>1, <3>3, <4>1 DEF QueueInv
    <3>6. \A m, n \in 1 .. Len(queue') : queue'[m] = queue'[n] => m = n
      BY <2>0, <3>2 DEF QueueInv
    <3>7. ASSUME NEW x \in DOMAIN poll', poll'[x].pc = "wait"
          PROVE  \E n \in 1 .. Len(queue') : queue'[n] = x
      <4>1. x # id /\ x # h /\ poll[x].pc = "wait" /\ x \in DOMAIN poll
        BY <2>0, <3>1, <3>7
      <4>2. PICK n \in 1 .. Len(queue) : queue[n] = x
        BY <4>1 DEF QueueInv
      <4>3. n # 1
        BY <4>1, <4>2 DEF h
      <4>4. n - 1 \in 1 .. Len(queue') /\ queue'[n - 1] = x
        BY <2>0, <3>2, <4>2, <4>3
      <4> QED BY <4>4
    <3> QED BY <3>4, <3>5, <3>6, <3>7 DEF QueueInv
  <2>4. CASE GivesUp(id)
    <3>1. PICK i \in 1 .. Len(queue) : queue[i] = id /\ queue' = RemoveAt(queue, i)
      BY <2>4 DEF GivesUp
    <3>2. /\ queue' \in Seq(STRING) /\ Len(queue') = Len(queue) - 1
          /\ \A n \in 1 .. Len(queue) - 1 : queue'[n] = IF n < i THEN queue[n] ELSE queue[n + 1]
      BY <2>0, <3>1, Removed
    <3>3. /\ DOMAIN poll' = DOMAIN poll /\ poll'[id] = Idle
          /\ \A x \in DOMAIN poll \ {id} : poll'[x] = poll[x]
      BY <2>4 DEF GivesUp, Keeps
    <3>4. PollTypes'
      BY <2>0, <3>2, <3>3 DEF PollTypes
    <3>5. \A n \in 1 .. Len(queue) : n # i => queue[n] # id
      BY <3>1 DEF QueueInv
    <3>6. ASSUME NEW n \in 1 .. Len(queue')
          PROVE  \E m \in 1 .. Len(queue) : m # i /\ queue'[n] = queue[m] /\ m = IF n < i THEN n ELSE n + 1
      <4>1. CASE n < i
        BY <2>0, <3>1, <3>2, <3>6, <4>1
      <4>2. CASE ~(n < i)
        <5>1. n + 1 \in 1 .. Len(queue) /\ n + 1 # i /\ n \in 1 .. Len(queue) - 1
          BY <2>0, <3>1, <3>2, <3>6, <4>2
        <5> QED BY <3>2, <4>2, <5>1
      <4> QED BY <4>1, <4>2
    <3>7. \A n \in 1 .. Len(queue') : queue'[n] \in DOMAIN poll' /\ poll'[queue'[n]].pc = "wait"
      BY <3>3, <3>5, <3>6 DEF QueueInv
    <3>8. ASSUME NEW m \in 1 .. Len(queue'), NEW n \in 1 .. Len(queue'), queue'[m] = queue'[n]
          PROVE  m = n
      <4>1. PICK a \in 1 .. Len(queue) : queue'[m] = queue[a] /\ a = IF m < i THEN m ELSE m + 1
        BY <3>6, <3>8
      <4>2. PICK b \in 1 .. Len(queue) : queue'[n] = queue[b] /\ b = IF n < i THEN n ELSE n + 1
        BY <3>6, <3>8
      <4>3. a = b
        BY <3>8, <4>1, <4>2 DEF QueueInv
      <4> QED BY <2>0, <3>1, <3>2, <3>8, <4>1, <4>2, <4>3
    <3>9. ASSUME NEW x \in DOMAIN poll', poll'[x].pc = "wait"
          PROVE  \E n \in 1 .. Len(queue') : queue'[n] = x
      <4>1. x # id /\ poll[x].pc = "wait" /\ x \in DOMAIN poll
        BY <2>0, <3>3, <3>9
      <4>2. PICK m \in 1 .. Len(queue) : queue[m] = x
        BY <4>1 DEF QueueInv
      <4>3. m # i
        BY <3>1, <4>1, <4>2
      <4>4. CASE m < i
        <5>1. m \in 1 .. Len(queue') /\ queue'[m] = x
          BY <2>0, <3>1, <3>2, <4>2, <4>4
        <5> QED BY <5>1
      <4>5. CASE m > i
        <5>1. m - 1 \in 1 .. Len(queue') /\ queue'[m - 1] = x
          BY <2>0, <3>1, <3>2, <4>2, <4>5
        <5> QED BY <5>1
      <4> QED BY <4>3, <4>4, <4>5
    <3> QED BY <3>4, <3>7, <3>8, <3>9 DEF QueueInv
  <2> QED BY <1>2, <1>5, <2>1, <2>2, <2>3, <2>4 DEF PollEffect
<1>6. CASE \E input \in setup.inputs : Launch(input)
  BY <1>1, <1>6 DEF Launch, Fresh
<1>7. CASE Crash
  BY <1>1, <1>7 DEF Crash, Fresh
<1>8. CASE UNCHANGED <<cfg, pollVars>>
  BY <1>2, <1>8 DEF pollVars
<1> QED BY <1>3, <1>4, <1>5, <1>6, <1>7, <1>8, PollForms, PollEffects, TickAges DEF PollStep

-----------------------------------------------------------------------------
(* The end of a process, and its contract.                                  *)

RunInv == CfgInv /\ EarlyInv /\ ServingInv /\ EndInv /\ PollTypes /\ QueueInv

LEMMA RunInit ==
  ASSUME Init
  PROVE  RunInv
<1>1. DOMAIN poll = {} /\ 1 .. Len(queue) = {} /\ queue \in Seq(STRING)
  BY DEF Init
<1>2. PollTypes /\ QueueInv
  BY <1>1 DEF PollTypes, QueueInv
<1>3. CfgInv /\ EarlyInv /\ ServingInv /\ EndInv
  BY <1>1 DEF Init, CfgInv, EarlyInv, Early, ServingInv, EndInv, None
<1> QED BY <1>2, <1>3 DEF RunInv

LEMMA RunStep ==
  ASSUME RunInv, [Next]_vars
  PROVE  RunInv'
<1>1. CASE UNCHANGED vars
  <2>1. UNCHANGED <<setup, cfg, stage, exit, store, poll, queue, media, ops, page, cut>>
    BY <1>1 DEF vars, runVars, pollVars, mediaVars, opsVars, pageVars
  <2>2. CfgInv'
    BY <1>1, ConfigKept DEF RunInv
  <2>3. (EarlyInv /\ EndInv)'
    BY <2>1 DEF RunInv, EarlyInv, Early, EndInv, Joined, Active
  <2>4. ServingInv'
    BY <2>1 DEF RunInv, ServingInv, Polled, EnabledOf
  <2>5. (PollTypes /\ QueueInv)'
    BY <2>1 DEF RunInv, PollTypes, QueueInv
  <2> QED BY <2>2, <2>3, <2>4, <2>5 DEF RunInv
<1>2. CASE Next
  BY <1>2, ConfigKept, EarlyKept, ServingKept, EndKept, QueueKept DEF RunInv
<1> QED BY <1>1, <1>2

LEMMA RunAlways == Spec => []RunInv
<1> QED BY RunInit, RunStep, PTL DEF Spec

\* Run waits for its goroutines before it closes the database, and only a shutdown in
\* which every request was answered ends with success, for any number of collectors
\* and requests and every order of their steps: EndsClean of server.go and main.go.
THEOREM DatabaseClosedLast == Spec => []EndsClean
<1>1. RunInv => EndsClean
  <2> SUFFICES ASSUME RunInv PROVE EndsClean
    OBVIOUS
  <2>1. ASSUME store = "closed"
        PROVE  Running = {} /\ queue = <<>> /\ ops = "end" /\ media # "run"
    <3>1. Joined /\ ops = "end"
      BY <2>1 DEF RunInv, EndInv
    <3>2. Running = {} /\ media # "run"
      BY <3>1 DEF Joined, Running, None
    <3>3. queue \in Seq(STRING) /\ 1 .. Len(queue) = {}
      BY <3>1 DEF Joined, RunInv, QueueInv, PollTypes
    <3>4. queue = <<>>
      <4>1. Len(queue) \in Nat /\ ~(1 \in 1 .. Len(queue))
        BY <3>3
      <4>2. Len(queue) = 0
        BY <4>1
      <4> QED BY <3>3, <4>2
    <3> QED BY <3>1, <3>2, <3>4
  <2> QED BY <2>1 DEF EndsClean, RunInv, EndInv
<1> QED BY <1>1, RunAlways, PTL

\* Of a validated configuration, every collector that polls is found under its id,
\* and its deadline lies within the promise.
LEMMA OfflineFacts ==
  ASSUME NEW c, GoodConfig(c), NEW n \in EnabledOf(c, "activitywatch")
  PROVE  LET m == CHOOSE k \in DOMAIN c.collectors : c.collectors[k].id = c.collectors[n].id
         IN  c.collectors[m].offline \in Nat /\ c.collectors[m].offline >= 1
             /\ c.collectors[m].offline <= ActivityWatchSla
<1>1. n \in DOMAIN c.collectors /\ c.collectors[n].enabled /\ c.collectors[n].kind = "activitywatch"
  BY DEF EnabledOf
<1>2. CollectorsValid(c)
  BY DEF GoodConfig, Validate
<1>3. PICK m : m = (CHOOSE k \in DOMAIN c.collectors : c.collectors[k].id = c.collectors[n].id)
  OBVIOUS
<1>4. m = n
  BY <1>1, <1>2, <1>3 DEF CollectorsValid
<1>5. ActivityWatchValid(c, c.collectors[n])
  BY <1>1, <1>2 DEF CollectorsValid, CollectorValid
<1> QED BY <1>1, <1>3, <1>4, <1>5, CollectorFacts DEF ActivityWatchValid

LEMMA Deadlines ==
  ASSUME GoodConfig(cfg), NEW id \in Polled
  PROVE  Offline(id) \in Nat /\ Offline(id) >= 1 /\ Offline(id) <= ActivityWatchSla
<1>1. PICK n \in EnabledOf(cfg, "activitywatch") : id = cfg.collectors[n].id
  BY DEF Polled
<1> QED BY <1>1, OfflineFacts DEF Offline

\* No mixture of file and environment, however large, starts a process outside its
\* contract: ContractKept of config.go's Load and Validate and server.go's start.
THEOREM ContractHolds == Spec => []ContractKept
<1>1. RunInv => ContractKept
  <2> SUFFICES ASSUME RunInv, stage \in {"serve", "drain"}
               PROVE  ContractKept
    BY DEF ContractKept
  <2>1. GoodConfig(cfg) /\ Validate(cfg)
    BY DEF RunInv, CfgInv, GoodConfig
  <2>2. ASSUME cfg.mode = "minimum"
        PROVE  /\ ~DashboardIsEnabled(cfg) /\ EnabledOf(cfg, "generic_json") = {}
               /\ store = "open" => media # None /\ DOMAIN poll # {}
    <3>1. cfg.media /\ EnabledOf(cfg, "activitywatch") # {} /\ EnabledOf(cfg, "generic_json") = {}
      BY <2>1, <2>2 DEF Validate, MinimumValid
    <3>2. Polled # {}
      BY <3>1 DEF Polled
    <3> QED BY <2>2, <3>1, <3>2 DEF DashboardIsEnabled, RunInv, ServingInv
  <2>3. /\ cfg.retention => cfg.fullBackup
        /\ ~PathsOverlap(cfg.inbox, MediaStorage(cfg))
        /\ cfg.address # "loopback" => cfg.allowOpen
    BY <2>1 DEF Validate
  <2>4. ASSUME NEW id \in DOMAIN poll PROVE Offline(id) <= ActivityWatchSla
    <3>1. id \in Polled
      BY <2>4 DEF RunInv, CfgInv
    <3> QED BY <2>1, <3>1, Deadlines
  <2> QED BY <2>2, <2>3, <2>4 DEF ContractKept
<1> QED BY <1>1, RunAlways, PTL

-----------------------------------------------------------------------------
(* Deadlines.                                                               *)

\* The least of some numbers, which CHOOSE picks.
LEMMA LeastNumber ==
  ASSUME NEW S, S \subseteq Nat, S # {}
  PROVE  LET m == CHOOSE i \in S : \A j \in S : i <= j IN m \in S /\ \A j \in S : m <= j
<1>1. PICK x \in S : \A y \in S : ~(<<y, x>> \in OpToRel(<, Nat))
  BY NatLessThanWellFounded, WFMin
<1>2. \A y \in S : ~(y < x)
  BY <1>1 DEF OpToRel
<1>3. \A y \in S : x <= y
  BY <1>2
<1> QED BY <1>3

\* Two waves of executions fit before a deadline that was divided by two.
LEMMA Halves ==
  ASSUME NEW m \in Nat, NEW w \in {1, 2}
  PROVE  m \div w \in Nat /\ m \div w <= m /\ (w = 2 => (m \div w) + (m \div w) <= m)
  OBVIOUS

\* At most four collectors poll.
LEMMA FewPolls ==
  ASSUME GoodConfig(cfg)
  PROVE  IsFiniteSet(Polled) /\ Cardinality(Polled) \in Nat /\ Cardinality(Polled) <= 4
<1> DEFINE E == EnabledOf(cfg, "activitywatch")
           f == [n \in E |-> cfg.collectors[n].id]
<1>1. IsFiniteSet(E)
  <2>1. E \subseteq 1 .. Len(cfg.collectors) /\ Len(cfg.collectors) \in Nat
    BY CollectorFacts DEF EnabledOf
  <2> HIDE DEF E
  <2>2. IsFiniteSet(1 .. Len(cfg.collectors)) /\ E \in SUBSET (1 .. Len(cfg.collectors))
    BY <2>1, FS_Interval
  <2> QED BY <2>2, FS_Subset
<1>2. Cardinality(E) <= 4
  BY DEF GoodConfig, Validate, CollectorsValid
<1>3. f \in Surjection(E, Polled)
  <2>1. Polled = {f[n] : n \in E}
    BY DEF Polled
  <2> HIDE DEF E
  <2> QED BY <2>1 DEF Surjection
<1> HIDE DEF E, f
<1>4. IsFiniteSet(Polled) /\ Cardinality(Polled) <= Cardinality(E)
  BY <1>1, <1>3, FS_Surjection
<1>5. Cardinality(E) \in Nat /\ Cardinality(Polled) \in Nat
  BY <1>1, <1>4, FS_CardinalityType
<1> QED BY <1>2, <1>4, <1>5

LEMMA Budgets ==
  ASSUME GoodConfig(cfg), Polled # {}
  PROVE  /\ ExecutionLimit \in Nat
         /\ \A id \in Polled : ExecutionLimit <= Offline(id)
         /\ Cardinality(Polled) >= 3 =>
              \A id \in Polled : ExecutionLimit + ExecutionLimit <= Offline(id)
<1>1. MinOffline \in Nat /\ \A id \in Polled : MinOffline <= Offline(id)
  <2> DEFINE S == {Offline(id) : id \in Polled}
  <2>1. S \subseteq Nat /\ S # {}
    BY Deadlines
  <2>2. MinOffline = CHOOSE i \in S : \A j \in S : i <= j
    <3>1. \A i \in S : (\A j \in S : i <= j) <=> (\A id \in Polled : i <= Offline(id))
      OBVIOUS
    <3> QED BY <3>1, Zenon DEF MinOffline
  <2> HIDE DEF S
  <2>3. MinOffline \in S /\ \A j \in S : MinOffline <= j
    BY <2>1, <2>2, LeastNumber
  <2> QED BY <2>1, <2>3 DEF S
<1>2. Waves \in {1, 2} /\ (Cardinality(Polled) >= 3 => Waves = 2)
  <2>1. Cardinality(Polled) \in {1, 2, 3, 4}
    <3>1. Cardinality(Polled) # 0
      BY FewPolls, FS_EmptySet
    <3> QED BY <3>1, FewPolls
  <2>2. Waves = (Cardinality(Polled) + 2 - 1) \div 2
    BY DEF Waves, Slots
  <2> QED BY <2>1, <2>2
<1>3. /\ ExecutionLimit \in Nat /\ ExecutionLimit <= MinOffline
      /\ Waves = 2 => ExecutionLimit + ExecutionLimit <= MinOffline
  BY <1>1, <1>2, Halves DEF ExecutionLimit
<1>4. ASSUME NEW id \in Polled
      PROVE  /\ ExecutionLimit <= Offline(id)
             /\ Waves = 2 => ExecutionLimit + ExecutionLimit <= Offline(id)
  <2>1. Offline(id) \in Nat /\ MinOffline <= Offline(id)
    BY <1>1, <1>4, Deadlines
  <2> QED BY <1>1, <1>3, <2>1
<1> QED BY <1>2, <1>3, <1>4

\* A poll without a slot has not run, one with a slot is within its budget, and
\* when it got the slot its whole budget lay before its deadline.
TimeInv ==
  \A id \in DOMAIN poll :
    /\ poll[id].pc \in {"idle", "end"} => poll[id].waited = 0 /\ poll[id].ran = 0
    /\ poll[id].pc = "wait" => poll[id].ran = 0
    /\ poll[id].pc = "run" => poll[id].ran <= ExecutionLimit /\ poll[id].waited + ExecutionLimit <= Offline(id)

\* Polls wait only while both slots are taken, two at most.  The first has waited no
\* longer than one of the running polls has run, the second no longer than both.
SlotInv ==
  /\ Cardinality(Running) <= 2
  /\ Len(queue) >= 1 => Cardinality(Running) = 2
  /\ Len(queue) <= 2
  /\ Len(queue) >= 1 => \E a \in Running : poll[queue[1]].waited <= poll[a].ran
  /\ Len(queue) = 2 => \A a \in Running : poll[queue[2]].waited <= poll[a].ran

LEMMA PollNumbers ==
  ASSUME NEW p \in PollRec
  PROVE  p.waited \in Nat /\ p.ran \in Nat /\ p.pc \in {"idle", "wait", "run", "end"}
  BY DEF PollRec

\* Sets of polls, counted.
LEMMA OneMore ==
  ASSUME NEW D, IsFiniteSet(D), NEW R \in SUBSET D, Cardinality(R) = 2, NEW a \in D \ R
  PROVE  Cardinality(D) >= 3
<1>1. IsFiniteSet(R) /\ IsFiniteSet(R \cup {a}) /\ Cardinality(R \cup {a}) = 3
  BY FS_Subset, FS_AddElement
<1>2. R \cup {a} \in SUBSET D
  OBVIOUS
<1>3. Cardinality(R \cup {a}) <= Cardinality(D) /\ Cardinality(D) \in Nat
  BY <1>2, FS_Subset, FS_CardinalityType
<1> QED BY <1>1, <1>3

LEMMA ThreeMore ==
  ASSUME NEW D, IsFiniteSet(D), NEW R \in SUBSET D, Cardinality(R) = 2,
         NEW a \in D \ R, NEW b \in D \ R, NEW c \in D \ R, a # b, a # c, b # c
  PROVE  Cardinality(D) >= 5
<1> DEFINE A == R \cup {a}
           B == A \cup {b}
           C == B \cup {c}
<1>1. IsFiniteSet(R)
  BY FS_Subset
<1>2. IsFiniteSet(A) /\ Cardinality(A) = 3
  BY <1>1, FS_AddElement
<1>3. b \notin A /\ c \notin B /\ C \in SUBSET D
  OBVIOUS
<1> HIDE DEF A
<1>4. IsFiniteSet(B) /\ Cardinality(B) = 4
  BY <1>2, <1>3, FS_AddElement
<1> HIDE DEF B
<1>5. IsFiniteSet(C) /\ Cardinality(C) = 5
  BY <1>3, <1>4, FS_AddElement
<1> HIDE DEF C
<1>6. Cardinality(C) <= Cardinality(D) /\ Cardinality(D) \in Nat
  BY <1>3, FS_Subset, FS_CardinalityType
<1> QED BY <1>5, <1>6

\* One of two comes out, and perhaps another one comes in.
LEMMA Swapped ==
  ASSUME NEW R, IsFiniteSet(R), NEW a \in R
  PROVE  /\ Cardinality(R) \in Nat /\ Cardinality(R \ {a}) = Cardinality(R) - 1
         /\ \A h : h \notin R => Cardinality((R \ {a}) \cup {h}) = Cardinality(R)
         /\ Cardinality(R) = 2 => \E b \in R : b # a
<1>1. IsFiniteSet(R \ {a}) /\ Cardinality(R \ {a}) = Cardinality(R) - 1 /\ Cardinality(R) \in Nat
  BY FS_RemoveElement, FS_CardinalityType
<1>2. ASSUME NEW h, h \notin R
      PROVE  Cardinality((R \ {a}) \cup {h}) = Cardinality(R)
  <2> DEFINE T == R \ {a}
  <2>1. IsFiniteSet(T) /\ h \notin T /\ Cardinality(T) + 1 = Cardinality(R)
    BY <1>1, <1>2
  <2> HIDE DEF T
  <2>2. Cardinality(T \cup {h}) = Cardinality(R)
    BY <2>1, FS_AddElement
  <2> QED BY <2>2 DEF T
<1>3. ASSUME Cardinality(R) = 2 PROVE \E b \in R : b # a
  <2>1. Cardinality(R \ {a}) # 0
    BY <1>1, <1>3
  <2>2. R \ {a} # {}
    BY <2>1, FS_EmptySet
  <2> QED BY <2>2
<1> QED BY <1>1, <1>2, <1>3

LEMMA RunningFinite ==
  ASSUME RunInv
  PROVE  /\ IsFiniteSet(DOMAIN poll) /\ Cardinality(DOMAIN poll) \in Nat /\ Cardinality(DOMAIN poll) <= 4
         /\ Running \in SUBSET DOMAIN poll /\ IsFiniteSet(Running) /\ Cardinality(Running) \in Nat
<1>1. IsFiniteSet(DOMAIN poll) /\ Cardinality(DOMAIN poll) \in Nat /\ Cardinality(DOMAIN poll) <= 4
  <2>1. CASE DOMAIN poll = {}
    BY <2>1, FS_EmptySet
  <2>2. CASE DOMAIN poll # {}
    BY <2>2, FewPolls DEF RunInv, CfgInv
  <2> QED BY <2>1, <2>2
<1>2. Running \in SUBSET DOMAIN poll
  BY DEF Running
<1> QED BY <1>1, <1>2, FS_Subset, FS_CardinalityType

\* Whoever waits has the time that is left after one execution of another poll.
LEMMA Crowd ==
  ASSUME RunInv, SlotInv, TimeInv, NEW n \in 1 .. Len(queue)
  PROVE  LET w == poll[queue[n]].waited IN
         /\ w \in Nat /\ ExecutionLimit \in Nat /\ Offline(queue[n]) \in Nat
         /\ w + ExecutionLimit <= Offline(queue[n]) /\ w < Offline(queue[n])
<1> DEFINE q == queue[n]
<1>1. Len(queue) \in Nat /\ n \in Nat /\ n >= 1 /\ n <= Len(queue)
  BY DEF RunInv, PollTypes
<1>2. q \in DOMAIN poll /\ poll[q].pc = "wait" /\ poll[q] \in PollRec
  BY DEF RunInv, QueueInv, PollTypes
<1>3. GoodConfig(cfg) /\ DOMAIN poll = Polled
  BY <1>2 DEF RunInv, CfgInv
<1>4. q \in DOMAIN poll \ Running
  BY <1>2 DEF Running
<1> HIDE DEF q
<1>5. Cardinality(Running) = 2 /\ Cardinality(Polled) >= 3
  BY <1>1, <1>3, <1>4, OneMore, RunningFinite DEF SlotInv
<1>6. /\ ExecutionLimit \in Nat /\ ExecutionLimit + ExecutionLimit <= Offline(q)
      /\ Offline(q) \in Nat /\ Offline(q) >= 1
  BY <1>2, <1>3, <1>5, Budgets, Deadlines
<1>7. \E a \in Running : poll[q].waited <= poll[a].ran
  <2>1. CASE n = 1
    BY <1>1, <2>1 DEF SlotInv, q
  <2>2. CASE n = 2
    <3>0. Len(queue) <= 2
      BY DEF SlotInv
    <3>1. Len(queue) = 2
      <4>1. 2 <= Len(queue) /\ Len(queue) \in Nat
        BY <1>1, <2>2
      <4>2. ASSUME NEW l \in Nat, 2 <= l, l <= 2 PROVE l = 2
        BY <4>2
      <4> QED BY <3>0, <4>1, <4>2
    <3>2. Running # {}
      BY <1>5, FS_EmptySet
    <3> QED BY <2>2, <3>1, <3>2 DEF SlotInv, q
  <2> QED BY <1>1, <2>1, <2>2 DEF SlotInv
<1>8. PICK a \in Running : poll[q].waited <= poll[a].ran
  BY <1>7
<1>9. poll[a].ran <= ExecutionLimit /\ poll[a].ran \in Nat /\ poll[q].waited \in Nat
  BY <1>2, PollNumbers DEF Running, TimeInv, RunInv, PollTypes
<1>10. poll[q].waited <= ExecutionLimit
  BY <1>6, <1>8, <1>9
<1> QED BY <1>6, <1>9, <1>10 DEF q

LEMMA SameLimits ==
  ASSUME cfg' = cfg
  PROVE  ExecutionLimit' = ExecutionLimit /\ \A id : Offline(id)' = Offline(id)
  BY DEF ExecutionLimit, MinOffline, Waves, Polled, EnabledOf, Offline

LEMMA TimeKept ==
  ASSUME RunInv, TimeInv, SlotInv, cfg' = cfg, NEW id \in DOMAIN poll, PollEffect(id)
  PROVE  TimeInv'
<1>1. ExecutionLimit' = ExecutionLimit /\ \A x : Offline(x)' = Offline(x)
  BY SameLimits
<1>2. GoodConfig(cfg) /\ DOMAIN poll = Polled
  BY DEF RunInv, CfgInv
<1>3. ExecutionLimit \in Nat /\ \A x \in DOMAIN poll : ExecutionLimit <= Offline(x) /\ Offline(x) \in Nat
  BY <1>2, Budgets, Deadlines
<1>4. Idle.pc = "idle" /\ Idle.waited = 0 /\ Idle.ran = 0
  BY DEF Idle
<1>5. \A x \in DOMAIN poll : poll[x].waited \in Nat /\ poll[x].ran \in Nat
  BY PollNumbers DEF RunInv, PollTypes
<1>6. ASSUME NEW x \in DOMAIN poll', poll'[x] = poll[x], x \in DOMAIN poll
      PROVE  /\ poll'[x].pc \in {"idle", "end"} => poll'[x].waited = 0 /\ poll'[x].ran = 0
             /\ poll'[x].pc = "wait" => poll'[x].ran = 0
             /\ poll'[x].pc = "run" =>
                  poll'[x].ran <= ExecutionLimit' /\ poll'[x].waited + ExecutionLimit' <= Offline(x)'
  BY <1>1, <1>6 DEF TimeInv
<1>7. CASE Begins(id) \/ Queues(id) \/ Leaves(id)
  <2>1. Keeps(id) /\ poll[id].pc = "idle" /\ poll'[id].pc \in {"run", "wait", "end"}
        /\ poll'[id].waited = poll[id].waited /\ poll'[id].ran = poll[id].ran
    BY <1>7 DEF Begins, Queues, Leaves, Moves
  <2>2. poll'[id].waited = 0 /\ poll'[id].ran = 0
    BY <2>1 DEF TimeInv
  <2>3. poll'[id].ran <= ExecutionLimit' /\ poll'[id].waited + ExecutionLimit' <= Offline(id)'
    BY <1>1, <1>3, <2>2
  <2> QED BY <1>6, <2>1, <2>2, <2>3 DEF TimeInv, Keeps
<1>8. CASE Frees(id) \/ GivesUp(id)
  <2>1. Keeps(id) /\ poll'[id] = Idle
    BY <1>8 DEF Frees, GivesUp
  <2> QED BY <1>4, <1>6, <2>1 DEF TimeInv, Keeps
<1>9. CASE Passes(id)
  <2>0. PICK h : h = queue[1]
    OBVIOUS
  <2>1. /\ DOMAIN poll' = DOMAIN poll /\ poll'[id] = Idle /\ queue # <<>>
        /\ h \in DOMAIN poll /\ poll[h].pc = "wait" /\ poll'[h].pc = "run"
        /\ poll'[h].waited = poll[h].waited /\ poll'[h].ran = poll[h].ran
        /\ \A x \in DOMAIN poll \ {id, h} : poll'[x] = poll[x]
    BY <1>9, <2>0 DEF Passes
  <2>2. 1 \in 1 .. Len(queue)
    BY <2>1, Tailed DEF RunInv, PollTypes
  <2>3. poll[h].waited + ExecutionLimit <= Offline(h)
    BY <2>0, <2>2, Crowd
  <2>4. poll[h].ran = 0
    BY <2>1 DEF TimeInv
  <2>5. poll'[h].ran <= ExecutionLimit' /\ poll'[h].waited + ExecutionLimit' <= Offline(h)'
    BY <1>1, <1>3, <2>1, <2>3, <2>4
  <2> QED BY <1>4, <1>6, <2>1, <2>5 DEF TimeInv
<1>10. CASE UNCHANGED <<poll, queue>>
  BY <1>6, <1>10 DEF TimeInv
<1> QED BY <1>7, <1>8, <1>9, <1>10 DEF PollEffect

LEMMA SlotsKept ==
  ASSUME RunInv, TimeInv, SlotInv, NEW id \in DOMAIN poll, PollEffect(id)
  PROVE  SlotInv'
<1>0. /\ queue \in Seq(STRING) /\ Len(queue) \in Nat /\ id \in STRING /\ Len(queue) <= 2
      /\ \A x \in DOMAIN poll : poll[x].waited \in Nat /\ poll[x].ran \in Nat
      /\ Idle.pc = "idle"
  BY PollNumbers DEF RunInv, PollTypes, SlotInv, Idle
<1>9. Len(queue) \in {0, 1, 2}
  <2>1. ASSUME NEW l \in Nat, l <= 2 PROVE l \in {0, 1, 2}
    BY <2>1
  <2> QED BY <1>0, <2>1
<1>1. /\ IsFiniteSet(Running) /\ Cardinality(Running) \in Nat /\ Running \in SUBSET DOMAIN poll
      /\ Cardinality(Running) <= 2
  BY RunningFinite DEF SlotInv
<1>2. \A x \in Running : poll[x].pc = "run" /\ x \in DOMAIN poll
  BY DEF Running
<1>3. CASE Begins(id)
  <2>1. /\ Keeps(id) /\ poll[id].pc = "idle" /\ poll'[id].pc = "run" /\ queue' = queue
        /\ Cardinality(Running) < 2
    BY <1>3 DEF Begins, Moves, Slots
  <2>2. Running' = Running \cup {id} /\ id \notin Running
    BY <2>1 DEF Running, Keeps
  <2>3. Cardinality(Running') <= 2
    <3>1. Cardinality(Running \cup {id}) = Cardinality(Running) + 1
      BY <1>1, <2>2, FS_AddElement
    <3> QED BY <1>1, <2>1, <2>2, <3>1
  <2>4. Len(queue) = 0
    BY <1>0, <1>1, <2>1 DEF SlotInv
  <2> QED BY <2>1, <2>3, <2>4 DEF SlotInv
<1>4. CASE Queues(id)
  <2>1. /\ Keeps(id) /\ poll[id].pc = "idle" /\ poll'[id].pc = "wait" /\ poll'[id].waited = poll[id].waited
        /\ queue' = Append(queue, id) /\ ~(Cardinality(Running) < 2)
    BY <1>4 DEF Queues, Moves, Slots
  <2>2. Running' = Running /\ id \notin Running /\ poll[id].waited = 0
    BY <2>1 DEF Running, Keeps, TimeInv
  <2>3. Cardinality(Running) = 2
    BY <1>1, <2>1
  <2>4. \A n \in 1 .. Len(queue) : queue[n] # id /\ queue[n] \in DOMAIN poll \ Running
    BY <2>1 DEF RunInv, QueueInv, Running
  <2>5. Len(queue) # 2
    <3> SUFFICES ASSUME Len(queue) = 2 PROVE FALSE
      OBVIOUS
    <3>1. queue[1] # queue[2] /\ queue[1] # id /\ queue[2] # id
      BY <2>4 DEF RunInv, QueueInv
    <3>2. queue[1] \in DOMAIN poll \ Running /\ queue[2] \in DOMAIN poll \ Running /\ id \in DOMAIN poll \ Running
      BY <2>2, <2>4
    <3>3. Cardinality(DOMAIN poll) >= 5
      BY <1>1, <2>3, <3>1, <3>2, RunningFinite, ThreeMore
    <3> QED BY <3>3, RunningFinite
  <2>6. /\ Len(queue') = Len(queue) + 1 /\ queue'[Len(queue) + 1] = id
        /\ \A n \in 1 .. Len(queue) : queue'[n] = queue[n]
    BY <1>0, <2>1, Appended
  <2>7. \A a \in Running : poll'[a] = poll[a]
    BY <1>2, <2>1, <2>2 DEF Keeps
  <2>8. \A a \in Running : poll'[id].waited <= poll'[a].ran
    BY <1>0, <1>2, <2>1, <2>2, <2>7
  <2>9. PICK b : b \in Running
    BY <2>3, FS_EmptySet
  <2>10. CASE Len(queue) = 0
    <3>1. Len(queue') = 1 /\ queue'[1] = id
      BY <2>6, <2>10
    <3> QED BY <2>2, <2>3, <2>8, <2>9, <3>1 DEF SlotInv
  <2>11. CASE Len(queue) = 1
    <3>1. Len(queue') = 2 /\ queue'[2] = id /\ queue'[1] = queue[1] /\ queue[1] # id /\ queue[1] \in DOMAIN poll
      BY <2>4, <2>6, <2>11
    <3>2. poll'[queue'[1]] = poll[queue[1]]
      BY <2>1, <3>1 DEF Keeps
    <3>3. PICK a \in Running : poll[queue[1]].waited <= poll[a].ran
      BY <2>11 DEF SlotInv
    <3>4. poll'[queue'[1]].waited <= poll'[a].ran
      BY <2>7, <3>2, <3>3
    <3> QED BY <2>2, <2>3, <2>8, <3>1, <3>3, <3>4 DEF SlotInv
  <2> QED BY <1>9, <2>5, <2>10, <2>11
<1>5. CASE Leaves(id) \/ UNCHANGED <<poll, queue>>
  <2>1. DOMAIN poll' = DOMAIN poll /\ queue' = queue
        /\ \A x \in DOMAIN poll : poll[x].pc \in {"run", "wait"} => poll'[x] = poll[x]
    BY <1>5 DEF Leaves, Moves, Keeps
  <2>2. \A x \in DOMAIN poll : poll'[x].pc = "run" => poll[x].pc = "run"
    BY <1>5 DEF Leaves, Moves, Keeps
  <2>3. Running' = Running
    BY <2>1, <2>2 DEF Running
  <2>4. \A n \in 1 .. Len(queue) : poll'[queue[n]] = poll[queue[n]]
    BY <2>1 DEF RunInv, QueueInv
  <2>5. \A a \in Running : poll'[a] = poll[a]
    BY <1>2, <2>1
  <2>6. Len(queue) >= 1 => \E a \in Running : poll'[queue[1]].waited <= poll'[a].ran
    BY <1>0, <2>4, <2>5 DEF SlotInv
  <2>7. Len(queue) = 2 => \A a \in Running : poll'[queue[2]].waited <= poll'[a].ran
    BY <1>0, <2>4, <2>5 DEF SlotInv
  <2> QED BY <2>1, <2>3, <2>6, <2>7 DEF SlotInv
<1>6. CASE Frees(id)
  <2>1. Keeps(id) /\ poll[id].pc = "run" /\ poll'[id] = Idle /\ queue = <<>> /\ queue' = queue
    BY <1>6 DEF Frees
  <2>2. Running' = Running \ {id} /\ id \in Running
    BY <1>0, <2>1 DEF Running, Keeps
  <2>3. Cardinality(Running') <= 2
    BY <1>1, <2>2, Swapped
  <2>4. Len(queue') = 0
    BY <2>1
  <2> QED BY <2>3, <2>4 DEF SlotInv
<1>7. CASE Passes(id)
  <2> DEFINE h == queue[1]
  <2>1. /\ DOMAIN poll' = DOMAIN poll /\ poll'[id] = Idle /\ queue # <<>> /\ poll[id].pc = "run"
        /\ h \in DOMAIN poll /\ poll[h].pc = "wait" /\ poll'[h].pc = "run" /\ queue' = Tail(queue)
        /\ \A x \in DOMAIN poll \ {id, h} : poll'[x] = poll[x]
    BY <1>7 DEF Passes
  <2>2. /\ Len(queue) >= 1 /\ Len(queue') = Len(queue) - 1
        /\ \A n \in 1 .. Len(queue) - 1 : queue'[n] = queue[n + 1]
    BY <1>0, <2>1, Tailed
  <2>3. Running' = (Running \ {id}) \cup {h} /\ id \in Running /\ h \notin Running
    BY <1>0, <2>1 DEF Running
  <2>4. Cardinality(Running) = 2
    BY <2>2 DEF SlotInv
  <2>5. Cardinality(Running') = 2
    BY <1>1, <2>3, <2>4, Swapped
  <2>6. CASE Len(queue) = 1
    BY <2>2, <2>5, <2>6 DEF SlotInv
  <2>7. CASE Len(queue) = 2
    <3>1. PICK b \in Running : b # id
      BY <1>1, <2>3, <2>4, Swapped
    <3>2. Len(queue') = 1 /\ queue'[1] = queue[2]
      BY <2>2, <2>7
    <3>3. poll[queue[2]].waited <= poll[b].ran
      BY <2>7 DEF SlotInv
    <3>4. queue[2] # h /\ queue[2] # id /\ queue[2] \in DOMAIN poll
      BY <2>1, <2>7 DEF RunInv, QueueInv
    <3> HIDE DEF h
    <3>5. poll'[queue[2]] = poll[queue[2]] /\ poll'[b] = poll[b] /\ b \in Running'
      BY <1>2, <2>1, <2>3, <3>1, <3>4
    <3> QED BY <2>5, <3>2, <3>3, <3>5 DEF SlotInv
  <2> QED BY <1>9, <2>2, <2>6, <2>7
<1>8. CASE GivesUp(id)
  <2>1. Keeps(id) /\ poll[id].pc = "wait" /\ poll'[id] = Idle
    BY <1>8 DEF GivesUp
  <2>2. PICK i \in 1 .. Len(queue) : queue[i] = id /\ queue' = RemoveAt(queue, i)
    BY <1>8 DEF GivesUp
  <2>3. /\ Len(queue') = Len(queue) - 1 /\ Len(queue) >= 1
        /\ \A n \in 1 .. Len(queue) - 1 : queue'[n] = IF n < i THEN queue[n] ELSE queue[n + 1]
    <3>1. Len(queue) >= 1
      BY <1>9, <2>2
    <3>2. /\ Len(queue') = Len(queue) - 1
          /\ \A n \in 1 .. Len(queue) - 1 : queue'[n] = IF n < i THEN queue[n] ELSE queue[n + 1]
      BY <1>0, <2>2, Removed
    <3> QED BY <3>1, <3>2
  <2>4. Running' = Running /\ \A a \in Running : poll'[a] = poll[a]
    BY <1>0, <2>1 DEF Running, Keeps
  <2>5. Cardinality(Running) = 2
    BY <2>3 DEF SlotInv
  <2>6. CASE Len(queue) = 1
    BY <2>3, <2>4, <2>5, <2>6 DEF SlotInv
  <2>7. CASE Len(queue) = 2
    <3>1. Len(queue') = 1 /\ 1 \in 1 .. Len(queue) - 1
      BY <2>3, <2>7
    <3>2. PICK m \in 1 .. Len(queue) : m # i /\ queue'[1] = queue[m]
      <4>1. CASE 1 < i
        BY <2>2, <2>3, <2>7, <3>1, <4>1
      <4>2. CASE ~(1 < i)
        <5>1. i = 1 /\ queue'[1] = queue[2]
          BY <2>2, <2>3, <2>7, <3>1, <4>2
        <5> QED BY <2>7, <5>1
      <4> QED BY <4>1, <4>2
    <3>3. queue[m] # id /\ queue[m] \in DOMAIN poll
      BY <2>2, <3>2 DEF RunInv, QueueInv
    <3>4. poll'[queue'[1]] = poll[queue[m]]
      BY <2>1, <3>2, <3>3 DEF Keeps
    <3>5. \E a \in Running : poll[queue[m]].waited <= poll[a].ran
      <4>1. CASE m = 1
        BY <2>7, <4>1 DEF SlotInv
      <4>2. CASE m = 2
        <5>1. Running # {}
          BY <2>5, FS_EmptySet
        <5> QED BY <2>7, <4>2, <5>1 DEF SlotInv
      <4> QED BY <2>7, <4>1, <4>2
    <3> QED BY <2>4, <2>5, <3>1, <3>4, <3>5 DEF SlotInv
  <2> QED BY <1>9, <2>3, <2>6, <2>7
<1> QED BY <1>3, <1>4, <1>5, <1>6, <1>7, <1>8 DEF PollEffect

\* While time passes, those who wait and those who run grow older together.
LEMMA AgesKept ==
  ASSUME RunInv, TimeInv, SlotInv, cfg' = cfg, Ages
  PROVE  TimeInv' /\ SlotInv'
<1>1. ExecutionLimit' = ExecutionLimit /\ \A x : Offline(x)' = Offline(x)
  BY SameLimits
<1>2. ASSUME NEW x \in DOMAIN poll
      PROVE  /\ poll[x].waited \in Nat /\ poll[x].ran \in Nat /\ ExecutionLimit \in Nat
             /\ poll'[x].pc = poll[x].pc
             /\ poll[x].pc = "run" =>
                  poll'[x].ran = poll[x].ran + 1 /\ poll'[x].waited = poll[x].waited /\ poll[x].ran < ExecutionLimit
             /\ poll[x].pc = "wait" => poll'[x].waited = poll[x].waited + 1 /\ poll'[x].ran = poll[x].ran
             /\ poll[x].pc \notin {"run", "wait"} => poll'[x].waited = poll[x].waited /\ poll'[x].ran = poll[x].ran
  <2>1. poll[x].waited \in Nat /\ poll[x].ran \in Nat
    BY <1>2, PollNumbers DEF RunInv, PollTypes
  <2>2. ExecutionLimit \in Nat
    BY <1>2, Budgets DEF RunInv, CfgInv
  <2>3. ~OutOfTime(x)
    BY <1>2 DEF Ages
  <2>4. poll[x].pc = "run" => poll[x].ran < ExecutionLimit
    BY <2>1, <2>2, <2>3 DEF OutOfTime
  <2> QED BY <1>2, <2>1, <2>2, <2>4 DEF Ages
<1>3. TimeInv'
  <2> SUFFICES ASSUME NEW x \in DOMAIN poll'
               PROVE  /\ poll'[x].pc \in {"idle", "end"} => poll'[x].waited = 0 /\ poll'[x].ran = 0
                      /\ poll'[x].pc = "wait" => poll'[x].ran = 0
                      /\ poll'[x].pc = "run" =>
                           poll'[x].ran <= ExecutionLimit' /\ poll'[x].waited + ExecutionLimit' <= Offline(x)'
    BY DEF TimeInv
  <2>1. x \in DOMAIN poll
    BY DEF Ages
  <2>2. CASE poll[x].pc = "run"
    <3>1. poll[x].ran + 1 <= ExecutionLimit
      BY <1>2, <2>1, <2>2
    <3> QED BY <1>1, <1>2, <2>1, <2>2, <3>1 DEF TimeInv
  <2>3. CASE poll[x].pc # "run"
    BY <1>2, <2>1, <2>3 DEF TimeInv
  <2> QED BY <2>2, <2>3
<1>4. DOMAIN poll' = DOMAIN poll /\ queue' = queue
  BY DEF Ages
<1>5. Running' = Running /\ \A a \in Running : a \in DOMAIN poll /\ poll[a].pc = "run"
  BY <1>2, <1>4 DEF Running
<1>6. ASSUME NEW n \in 1 .. Len(queue), NEW a \in Running, poll[queue[n]].waited <= poll[a].ran
      PROVE  poll'[queue[n]].waited <= poll'[a].ran
  <2>1. queue[n] \in DOMAIN poll /\ poll[queue[n]].pc = "wait"
    BY <1>6 DEF RunInv, QueueInv
  <2>2. ASSUME NEW i \in Nat, NEW j \in Nat, i <= j PROVE i + 1 <= j + 1
    BY <2>2
  <2> QED BY <1>2, <1>5, <1>6, <2>1, <2>2
<1>7. Len(queue) \in Nat
  BY DEF RunInv, PollTypes
<1>8. Len(queue) >= 1 => \E a \in Running : poll'[queue[1]].waited <= poll'[a].ran
  BY <1>6, <1>7 DEF SlotInv
<1>9. Len(queue) = 2 => \A a \in Running : poll'[queue[2]].waited <= poll'[a].ran
  BY <1>6, <1>7 DEF SlotInv
<1>10. SlotInv'
  BY <1>4, <1>5, <1>8, <1>9 DEF SlotInv
<1> QED BY <1>3, <1>10

LEMMA NoPolls ==
  ASSUME DOMAIN poll = {}, queue = <<>>
  PROVE  TimeInv /\ SlotInv
<1>1. Running = {} /\ Len(queue) = 0
  BY DEF Running
<1>2. Cardinality(Running) = 0
  BY <1>1, FS_EmptySet
<1> QED BY <1>1, <1>2 DEF TimeInv, SlotInv

LEMMA DeadlineStep ==
  ASSUME RunInv, TimeInv, SlotInv, [Next]_vars
  PROVE  TimeInv' /\ SlotInv'
<1>1. CASE UNCHANGED <<cfg, pollVars>>
  <2>1. ExecutionLimit' = ExecutionLimit /\ \A x : Offline(x)' = Offline(x)
    BY <1>1, SameLimits
  <2> QED BY <1>1, <2>1 DEF TimeInv, SlotInv, Running, pollVars
<1>2. ASSUME DOMAIN poll' = {}, queue' = <<>> PROVE TimeInv' /\ SlotInv'
  <2>1. Running' = {} /\ Len(queue') = 0
    BY <1>2 DEF Running
  <2>2. Cardinality(Running') = 0
    BY <2>1, FS_EmptySet
  <2> QED BY <1>2, <2>1, <2>2 DEF TimeInv, SlotInv
<1>3. CASE Crash \/ \E input \in setup.inputs : Launch(input)
  BY <1>2, <1>3 DEF Crash, Launch, Fresh
<1>4. CASE StartGoroutines
  <2>1. queue' = queue /\ DOMAIN poll = {}
    BY <1>4 DEF StartGoroutines, RunInv, EarlyInv, Early
  <2>2. Len(queue') = 0
    <3>1. Len(queue) \in Nat /\ ~(1 \in 1 .. Len(queue))
      BY <2>1 DEF RunInv, QueueInv, PollTypes
    <3> QED BY <2>1, <3>1
  <2>3. \A id \in DOMAIN poll' : poll'[id] = Idle
    BY <1>4 DEF StartGoroutines
  <2>4. Idle.pc = "idle" /\ Idle.waited = 0 /\ Idle.ran = 0
    BY DEF Idle
  <2>5. Running' = {}
    BY <2>3, <2>4 DEF Running
  <2>6. Cardinality(Running') = 0
    BY <2>5, FS_EmptySet
  <2>7. TimeInv'
    BY <2>3, <2>4 DEF TimeInv
  <2> QED BY <2>2, <2>6, <2>7 DEF SlotInv
<1>5. CASE Up /\ Tick
  BY <1>5, TickAges, AgesKept DEF Tick, runVars, RunInv
<1>6. ASSUME NEW id \in DOMAIN poll,
             BeginPoll(id) \/ GiveUp(id) \/ CollectorStops(id) \/ \E code : EndPoll(id, code)
      PROVE  TimeInv' /\ SlotInv'
  <2>1. cfg' = cfg
    BY <1>6 DEF BeginPoll, GiveUp, CollectorStops, EndPoll, runVars
  <2>2. PollEffect(id)
    BY <1>6, PollEffects DEF RunInv
  <2> QED BY <2>1, <2>2, TimeKept, SlotsKept
<1>7. CASE UNCHANGED vars
  BY <1>1, <1>7 DEF vars, runVars
<1> QED BY <1>1, <1>3, <1>4, <1>5, <1>6, <1>7, PollForms DEF PollStep

\* The two slots give every attempt its turn in time: with offline_after divided by
\* the number of waves (collectors.Manager), no attempt waits until its deadline and
\* a started one has its whole execution budget before it, for all collectors a
\* validated configuration can have and all times their polls take.
THEOREM PollsMeetDeadlines == Spec => []PollsInTime
<1>1. Init => TimeInv /\ SlotInv
  BY NoPolls DEF Init
<1>2. RunInv /\ TimeInv /\ SlotInv => PollsInTime
  <2> SUFFICES ASSUME RunInv, TimeInv, SlotInv PROVE PollsInTime
    OBVIOUS
  <2>1. Cardinality(Running) <= Slots
    BY DEF SlotInv, Slots
  <2>2. ASSUME NEW id \in DOMAIN poll, poll[id].pc = "wait" PROVE poll[id].waited < Offline(id)
    <3>1. PICK n \in 1 .. Len(queue) : queue[n] = id
      BY <2>2 DEF RunInv, QueueInv
    <3> QED BY <3>1, Crowd
  <2>3. ASSUME NEW id \in DOMAIN poll, poll[id].pc = "run"
        PROVE  poll[id].waited + ExecutionLimit <= Offline(id)
    BY <2>3 DEF TimeInv
  <2> QED BY <2>1, <2>2, <2>3 DEF PollsInTime
<1> QED BY <1>1, <1>2, RunAlways, DeadlineStep, PTL DEF Spec

-----------------------------------------------------------------------------
(* Rows of the operations tables.                                           *)

At(k) == IF k \in DOMAIN ledger THEN ledger[k] ELSE NoRow
SameAt(k) == At(k)' = At(k) /\ (k \in lost' <=> k \in lost)

ModeKey == <<"fault", "runtime_mode">>

\* An append changes the rows it is given, unless it loses them, and no others.
LEMMA RowEffect ==
  ASSUME NEW rows, NEW live, AppendRows(rows, live), NEW k, k # ModeKey
  PROVE  /\ k \notin DOMAIN rows => SameAt(k)
         /\ k \in DOMAIN rows /\ k \notin lost' => At(k)' = rows[k]
<1>1. PICK drop \in Dropped(rows, live) :
        /\ lost' = (lost \ DOMAIN rows) \cup drop
        /\ ledger' = Kept(rows, live, drop) ++ ledger
  BY DEF AppendRows
<1>2. drop \subseteq DOMAIN rows
  BY <1>1 DEF Dropped
<1> DEFINE kept == Kept(rows, live, drop)
<1>3. (k \in DOMAIN kept <=> k \in DOMAIN rows \ drop) /\ (k \in DOMAIN kept => kept[k] = rows[k])
  <2> DEFINE rest == [x \in DOMAIN rows \ drop |-> rows[x]]
             mode == OneRow("fault", "runtime_mode", "active", ModeFailed)
  <2>1. DOMAIN rest = DOMAIN rows \ drop /\ (k \in DOMAIN rest => rest[k] = rows[k])
    OBVIOUS
  <2>2. k \notin DOMAIN mode
    BY DEF OneRow, ModeKey
  <2> HIDE DEF rest, mode
  <2>3. kept = rest \/ kept = rest ++ mode
    BY DEF Kept, rest, mode
  <2> HIDE DEF kept
  <2> QED BY <2>1, <2>2, <2>3 DEF ++
<1> HIDE DEF kept
<1>4. ledger' = kept ++ ledger
  BY <1>1 DEF kept
<1>5. k \in DOMAIN ledger' <=> k \in DOMAIN kept \/ k \in DOMAIN ledger
  BY <1>4 DEF ++
<1>6. k \in DOMAIN ledger' => ledger'[k] = IF k \in DOMAIN kept THEN kept[k] ELSE ledger[k]
  BY <1>4 DEF ++
<1> QED BY <1>1, <1>2, <1>3, <1>5, <1>6 DEF SameAt, At

LEMMA OneRowFacts ==
  ASSUME NEW t, NEW s, NEW x, NEW c
  PROVE  /\ DOMAIN OneRow(t, s, x, c) = {<<t, s>>}
         /\ OneRow(t, s, x, c)[<<t, s>>] = Row(x, c)
         /\ Row(x, c).status = x /\ Row(x, c).code = c /\ Row(x, c).mine = TRUE
         /\ "mine" \in DOMAIN Row(x, c)
  BY DEF OneRow, Row

\* Every row says whose it is.
RowsOf(rows) == \A k \in DOMAIN rows : "mine" \in DOMAIN rows[k]

LEMMA RowsJoin ==
  ASSUME NEW f, NEW g, RowsOf(f), RowsOf(g)
  PROVE  RowsOf(f ++ g)
  BY DEF RowsOf, ++

LEMMA RowsOne ==
  ASSUME NEW t, NEW s, NEW x, NEW c
  PROVE  RowsOf(OneRow(t, s, x, c)) /\ RowsOf(<<>>)
<1>1. RowsOf(OneRow(t, s, x, c))
  <2>1. DOMAIN OneRow(t, s, x, c) = {<<t, s>>} /\ "mine" \in DOMAIN OneRow(t, s, x, c)[<<t, s>>]
    BY DEF OneRow, Row
  <2> QED BY <2>1 DEF RowsOf
<1>2. RowsOf(<<>>)
  BY DEF RowsOf
<1> QED BY <1>1, <1>2

LEMMA RowsAppended ==
  ASSUME NEW rows, NEW live, AppendRows(rows, live), RowsOf(rows), RowsOf(ledger)
  PROVE  RowsOf(ledger')
<1>1. PICK drop \in Dropped(rows, live) : ledger' = Kept(rows, live, drop) ++ ledger
  BY DEF AppendRows
<1>2. RowsOf(Kept(rows, live, drop))
  <2> DEFINE rest == [x \in DOMAIN rows \ drop |-> rows[x]]
             mode == OneRow("fault", "runtime_mode", "active", ModeFailed)
  <2>1. RowsOf(rest)
    BY DEF RowsOf
  <2>2. RowsOf(mode)
    BY RowsOne
  <2> HIDE DEF rest, mode
  <2>3. Kept(rows, live, drop) = rest \/ Kept(rows, live, drop) = rest ++ mode
    BY DEF Kept, rest, mode
  <2> QED BY <2>1, <2>2, <2>3, RowsJoin
<1>3. PICK kept : kept = Kept(rows, live, drop)
  OBVIOUS
<1>4. PICK old : old = ledger
  OBVIOUS
<1>5. RowsOf(kept ++ old)
  BY <1>2, <1>3, <1>4, RowsJoin
<1> QED BY <1>1, <1>3, <1>4, <1>5

LEMMA RowsWritten ==
  /\ RowsOf(DiskRows) /\ RowsOf(StartRows)
  /\ \A t, s, prev, code : RowsOf(StatusRows(t, s, prev, code))
  /\ \A code : RowsOf(MediaRows(code))
  /\ \A row : RowsOf(CoverageRows(row))
<1>1. RowsOf(DiskRows)
  BY RowsOne DEF DiskRows
<1>2. RowsOf(ModeRows)
  BY RowsOne DEF ModeRows
<1>3. ASSUME NEW t, NEW s, NEW prev, NEW code PROVE RowsOf(StatusRows(t, s, prev, code))
  BY RowsOne DEF StatusRows
<1>4. ASSUME NEW code PROVE RowsOf(MediaRows(code))
  BY RowsOne, RowsJoin DEF MediaRows
<1>5. ASSUME NEW row PROVE RowsOf(CoverageRows(row))
  BY RowsOne, RowsJoin DEF CoverageRows
<1>6. RowsOf(StartRows)
  <2> DEFINE M == [k \in {<<"module", m>> : m \in DOMAIN StartStates} |-> Row(StartStates[k[2]], "")]
             C == [k \in {<<"collector", cfg.collectors[n].id>> : n \in DOMAIN cfg.collectors} |->
                     Row(IF \E n \in DOMAIN cfg.collectors :
                              cfg.collectors[n].id = k[2] /\ cfg.collectors[n].enabled
                         THEN "healthy" ELSE "disabled", "")]
             T == DiskRows ++ ModeRows
  <2>1. RowsOf(M)
    BY OneRowFacts DEF RowsOf
  <2>2. RowsOf(C)
    BY OneRowFacts DEF RowsOf
  <2>3. RowsOf(T)
    BY <1>1, <1>2, RowsJoin
  <2>4. StartRows = (M ++ C) ++ T
    BY DEF StartRows
  <2> HIDE DEF M, C, T
  <2>5. RowsOf(M ++ C)
    BY <2>1, <2>2, RowsJoin
  <2> QED BY <2>3, <2>4, <2>5, RowsJoin
<1> QED BY <1>1, <1>3, <1>4, <1>5, <1>6

\* The appends of a step.
Appends ==
  \E rows, live : AppendRows(rows, live) /\ RowsOf(rows)

\* Every step is an append, a failure of maintenance, the start or end of a process,
\* or leaves the tables alone.
LEMMA TableForms ==
  ASSUME Next
  PROVE  \/ Appends
         \/ \E source : ledger' = OneRow("fault", source, "active", Maintenance) ++ ledger
         \/ Fresh
         \/ UNCHANGED tables
<1>1. CASE \E input \in setup.inputs : Launch(input)
  BY <1>1 DEF Launch
<1>2. CASE Main
  <2>1. CASE StartGoroutines
    BY <2>1, RowsWritten DEF StartGoroutines, Appends
  <2>2. CASE Listen \/ OpenStore
    BY <2>2 DEF Listen, OpenStore
  <2>3. CASE BeginShutdown \/ Drained \/ ShutdownTimesOut \/ CloseStore \/ Exit
    BY <2>3 DEF BeginShutdown, Drained, ShutdownTimesOut, CloseStore, Exit
  <2> QED BY <1>2, <2>1, <2>2, <2>3 DEF Main
<1>3. CASE StopSignal \/ ServeFails \/ DiskChanges \/ Crash
  BY <1>3 DEF StopSignal, ServeFails, DiskChanges, Crash
<1>4. CASE Up /\ Tick
  BY <1>4 DEF Tick
<1>5. CASE Up /\ Worker
  BY <1>5, RowsWritten DEF Worker, MediaInitialize, MediaScan, MediaStops, Appends
<1>6. CASE Up /\ Operations
  BY <1>6, RowsWritten DEF Operations, ScanDisk, OperationsStops, MaintenanceFails, Appends
<1>7. CASE Up /\ \E id \in DOMAIN poll : Collector(id)
  <2>1. PICK id \in DOMAIN poll : Collector(id)
    BY <1>7
  <2>2. ASSUME NEW code, RecordPollStatus(id, code) PROVE Appends
    BY <2>2, RowsWritten DEF RecordPollStatus, Appends
  <2>3. CASE BeginPoll(id)
    BY <2>2, <2>3 DEF BeginPoll, tables
  <2>4. CASE GiveUp(id)
    BY <2>2, <2>4 DEF GiveUp, tables
  <2>5. CASE CollectorStops(id)
    BY <2>5 DEF CollectorStops
  <2>6. CASE \E code \in setup.outcomes : EndPoll(id, code)
    BY <2>2, <2>6 DEF EndPoll
  <2> QED BY <2>1, <2>3, <2>4, <2>5, <2>6 DEF Collector
<1>8. CASE Up /\ \E r \in Request : Viewer(r)
  <2>1. PICK r \in Request : Viewer(r)
    BY <1>8
  <2>2. CASE RecordCoverage(r)
    BY <2>2, RowsWritten DEF RecordCoverage, Appends
  <2>3. CASE BeginCoverage(r) \/ ClientLeaves(r) \/ \E ok \in BOOLEAN : RebuildEnds(r, ok)
    BY <2>3 DEF BeginCoverage, ClientLeaves, RebuildEnds
  <2> QED BY <2>1, <2>2, <2>3 DEF Viewer
<1> QED BY <1>1, <1>2, <1>3, <1>4, <1>5, <1>6, <1>7, <1>8 DEF Next

LEMMA RowsKept ==
  ASSUME RowsOf(ledger), Next
  PROVE  RowsOf(ledger')
<1>1. CASE Appends
  BY <1>1, RowsAppended DEF Appends
<1>2. CASE \E source : ledger' = OneRow("fault", source, "active", Maintenance) ++ ledger
  <2>1. PICK source : ledger' = OneRow("fault", source, "active", Maintenance) ++ ledger
    BY <1>2
  <2>2. PICK row, old : row = OneRow("fault", source, "active", Maintenance) /\ old = ledger
    OBVIOUS
  <2>3. RowsOf(row ++ old)
    BY <2>2, RowsOne, RowsJoin
  <2> QED BY <2>1, <2>2, <2>3
<1>3. CASE Fresh
  BY <1>3 DEF Fresh, RowsOf
<1>4. CASE UNCHANGED tables
  BY <1>4 DEF tables
<1> QED BY <1>1, <1>2, <1>3, <1>4, TableForms

\* A process that has not begun to serve has written nothing.
PristineInv ==
  Early =>
    /\ reported = "normal" /\ mediaStatus = Unseen /\ degraded = FALSE /\ lost = {}
    /\ \A k \in DOMAIN ledger : ledger[k].mine = FALSE

LEMMA PristineKept ==
  ASSUME EarlyInv, RowsOf(ledger), PristineInv, Next
  PROVE  PristineInv'
<1>1. CASE \E input \in setup.inputs : Launch(input)
  <2>1. Fresh
    BY <1>1 DEF Launch
  <2>2. \A k \in DOMAIN ledger' : ledger'[k].mine = FALSE
    BY <2>1 DEF Fresh, RowsOf
  <2> QED BY <2>1, <2>2 DEF Fresh, PristineInv
<1>2. CASE Listen \/ OpenStore
  BY <1>2 DEF Listen, OpenStore, PristineInv, Early, mediaVars, opsVars, pageVars, tables
<1>3. CASE StartGoroutines \/ BeginShutdown \/ Drained \/ ShutdownTimesOut \/ CloseStore \/ Exit \/ ServeFails \/ Crash
  BY <1>3 DEF StartGoroutines, BeginShutdown, Drained, ShutdownTimesOut, CloseStore, Exit, ServeFails, Crash,
    Returned, Ends, PristineInv, Early
<1>4. CASE StopSignal \/ DiskChanges
  BY <1>4 DEF StopSignal, DiskChanges, PristineInv, Early, runVars, mediaVars, opsVars, pageVars, tables
<1>5. CASE Up /\ Tick
  BY <1>5 DEF Tick, PristineInv, Early, runVars, mediaVars, opsVars, pageVars, tables
<1>6. CASE Up /\ (Worker \/ Operations \/ (\E id \in DOMAIN poll : Collector(id)) \/ \E r \in Request : Viewer(r))
  <2>1. CASE Worker
    BY <2>1 DEF Worker, MediaInitialize, MediaScan, MediaStops, runVars, EarlyInv, Early, PristineInv, None
  <2>2. CASE Operations
    BY <2>2 DEF Operations, ScanDisk, OperationsStops, MaintenanceFails, runVars, EarlyInv, Early, PristineInv, None
  <2>3. CASE \E id \in DOMAIN poll : Collector(id)
    BY <2>3 DEF Collector, BeginPoll, GiveUp, CollectorStops, EndPoll, runVars, EarlyInv, Early, PristineInv
  <2>4. CASE \E r \in Request : Viewer(r)
    BY <2>4 DEF Viewer, BeginCoverage, ClientLeaves, RecordCoverage, RebuildEnds, runVars, EarlyInv, Early, PristineInv,
      Active
  <2> QED BY <1>6, <2>1, <2>2, <2>3, <2>4
<1> QED BY <1>1, <1>2, <1>3, <1>4, <1>5, <1>6 DEF Next, Main

-----------------------------------------------------------------------------
(* Requests of the coverage page.                                           *)

PageRec == [pc : {"idle", "rebuild", "tell"}, gone : BOOLEAN, row : {"none", "recovered", "degraded"}]

\* One request is behind the gate, and what it has to tell is the flag as it is.
PageInv ==
  /\ page \in [Request -> PageRec] /\ degraded \in BOOLEAN
  /\ \A r \in Request : page[r].pc # "idle" => gate = r
  /\ \A r \in Request : page[r].pc = "tell" => page[r].row = IF degraded THEN "degraded" ELSE "recovered"

LEMMA PageFields ==
  ASSUME NEW p \in PageRec
  PROVE  /\ LET q == [p EXCEPT !.pc = "rebuild"] IN q \in PageRec /\ q.pc = "rebuild"
         /\ LET q == [p EXCEPT !.gone = TRUE] IN q \in PageRec /\ q.pc = p.pc /\ q.row = p.row
         /\ NoPage \in PageRec /\ NoPage.pc = "idle"
  BY DEF PageRec, NoPage, None

\* A request that is alone behind the gate may change its page and the flag.
LEMMA PageChange ==
  ASSUME PageInv, NEW r \in Request, NEW p \in PageRec,
         page' = [page EXCEPT ![r] = p], degraded' \in BOOLEAN,
         \A x \in Request \ {r} : page[x].pc = "idle",
         p.pc # "idle" => gate' = r,
         p.pc = "tell" => p.row = IF degraded' THEN "degraded" ELSE "recovered"
  PROVE  PageInv'
<1>1. page' \in [Request -> PageRec]
  BY DEF PageInv
<1>2. page'[r] = p /\ \A x \in Request \ {r} : page'[x] = page[x]
  BY DEF PageInv
<1> QED BY <1>1, <1>2 DEF PageInv

LEMMA Alone ==
  ASSUME PageInv, NEW r \in Request, page[r].pc # "idle" \/ gate = None
  PROVE  \A x \in Request \ {r} : page[x].pc = "idle"
  BY ServiceAssumption DEF PageInv

LEMMA PageKept ==
  ASSUME PageInv, [Next]_vars
  PROVE  PageInv'
<1>1. CASE UNCHANGED <<page, gate, degraded>>
  BY <1>1 DEF PageInv
<1>2. CASE Fresh
  BY <1>2, PageFields DEF Fresh, PageInv, PageRec, NoPage, None
<1>3. CASE \E input \in setup.inputs : Launch(input)
  BY <1>2, <1>3 DEF Launch
<1>4. CASE Main
  <2>1. CASE ShutdownTimesOut
    <3>1. /\ page' = [r \in Request |-> IF r \in Active THEN [page[r] EXCEPT !.gone = TRUE] ELSE page[r]]
          /\ UNCHANGED <<gate, degraded>>
      BY <2>1 DEF ShutdownTimesOut
    <3>2. ASSUME NEW r \in Request
          PROVE  page'[r] \in PageRec /\ page'[r].pc = page[r].pc /\ page'[r].row = page[r].row
      <4> DEFINE q == [page[r] EXCEPT !.gone = TRUE]
      <4>1. q \in PageRec /\ q.pc = page[r].pc /\ q.row = page[r].row
        BY <3>2, PageFields DEF PageInv
      <4>2. page'[r] = q \/ page'[r] = page[r]
        BY <3>1, <3>2
      <4> HIDE DEF q
      <4> QED BY <3>2, <4>1, <4>2 DEF PageInv
    <3>3. page' \in [Request -> PageRec]
      <4>1. page' = [r \in Request |-> page'[r]]
        BY <3>1
      <4> QED BY <3>2, <4>1
    <3> QED BY <3>1, <3>2, <3>3 DEF PageInv
  <2>2. CASE Listen \/ OpenStore \/ StartGoroutines \/ BeginShutdown \/ Drained \/ CloseStore \/ Exit
    BY <1>1, <2>2 DEF Listen, OpenStore, StartGoroutines, BeginShutdown, Drained, CloseStore, Exit, pageVars
  <2> QED BY <1>4, <2>1, <2>2 DEF Main
<1>5. CASE StopSignal \/ ServeFails \/ DiskChanges \/ Crash
  BY <1>1, <1>2, <1>5 DEF StopSignal, ServeFails, DiskChanges, Crash, pageVars
<1>6. CASE Up /\ (Tick \/ Worker \/ Operations)
  BY <1>1, <1>6 DEF Tick, Worker, Operations, MediaInitialize, MediaScan, MediaStops, ScanDisk, OperationsStops,
    MaintenanceFails, pageVars
<1>7. CASE Up /\ \E id \in DOMAIN poll : Collector(id)
  BY <1>1, <1>7 DEF Collector, BeginPoll, GiveUp, CollectorStops, EndPoll, pageVars
<1>8. CASE Up /\ \E r \in Request : Viewer(r)
  <2>1. PICK r \in Request : Viewer(r)
    BY <1>8
  <2>2. page[r] \in PageRec
    BY DEF PageInv
  <2>3. CASE BeginCoverage(r)
    <3>1. PICK p : p = [page[r] EXCEPT !.pc = "rebuild"]
      OBVIOUS
    <3>2. p \in PageRec /\ p.pc = "rebuild"
      BY <2>2, <3>1, PageFields
    <3>3. page' = [page EXCEPT ![r] = p] /\ gate' = r /\ degraded' = degraded /\ gate = None
      BY <2>3, <3>1 DEF BeginCoverage
    <3> QED BY <3>2, <3>3, Alone, PageChange DEF PageInv
  <2>4. CASE ClientLeaves(r)
    <3>1. PICK p : p = [page[r] EXCEPT !.gone = TRUE]
      OBVIOUS
    <3>2. p \in PageRec /\ p.pc = page[r].pc /\ p.row = page[r].row
      BY <2>2, <3>1, PageFields
    <3>3. /\ page' = [page EXCEPT ![r] = p] /\ gate' = gate /\ degraded' = degraded /\ page[r].pc # "idle"
      BY <2>4, <3>1 DEF ClientLeaves
    <3> QED BY <3>2, <3>3, Alone, PageChange DEF PageInv
  <2>5. CASE RecordCoverage(r)
    <3>1. page' = [page EXCEPT ![r] = NoPage] /\ degraded' = degraded /\ page[r].pc # "idle"
      BY <2>5 DEF RecordCoverage
    <3> QED BY <2>2, <3>1, Alone, PageChange, PageFields DEF PageInv
  <2>6. CASE \E ok \in BOOLEAN : RebuildEnds(r, ok)
    <3>1. PICK ok \in BOOLEAN : RebuildEnds(r, ok)
      BY <2>6
    <3>2. PICK row \in {"recovered", "degraded"} : row = IF ok THEN "recovered" ELSE "degraded"
      OBVIOUS
    <3>3. page[r].pc # "idle" /\ degraded' = ~ok /\ AfterSwap(r, degraded = ok, row)
      BY <3>1, <3>2 DEF RebuildEnds
    <3>4. CASE degraded = ok
      <4>1. PICK p : p = [page[r] EXCEPT !.pc = "tell", !.row = row]
        OBVIOUS
      <4>2. p \in PageRec /\ p.pc = "tell" /\ p.row = row
        BY <2>2, <4>1 DEF PageRec
      <4>3. page' = [page EXCEPT ![r] = p] /\ gate' = gate
        BY <3>3, <3>4, <4>1 DEF AfterSwap
      <4>4. gate = r
        BY <3>3 DEF PageInv
      <4> QED BY <3>2, <3>3, <4>2, <4>3, <4>4, Alone, PageChange
    <3>5. CASE degraded # ok
      <4>1. page' = [page EXCEPT ![r] = NoPage]
        BY <3>3, <3>5 DEF AfterSwap
      <4> QED BY <2>2, <3>3, <4>1, Alone, PageChange, PageFields
    <3> QED BY <3>4, <3>5
  <2> QED BY <2>1, <2>3, <2>4, <2>5, <2>6 DEF Viewer
<1>9. CASE UNCHANGED vars
  BY <1>1, <1>9 DEF vars, pageVars
<1> QED BY <1>3, <1>4, <1>5, <1>6, <1>7, <1>8, <1>9 DEF Next

-----------------------------------------------------------------------------
(* What the tables tell.                                                    *)

StorageKey  == <<"fault", "storage">>
MediaKey    == <<"fault", "media_ingest">>
CoverKey    == <<"fault", "coverage">>
PollKey(id) == <<"activitywatch", id>>
DashMod     == <<"module", "dashboard">>
MediaMod    == <<"module", "media_ingest">>
CoverMod    == <<"module", "coverage">>
RuntimeKey  == <<"mode", "runtime">>

Fixed == {StorageKey, MediaKey, CoverKey, DashMod, MediaMod, CoverMod, RuntimeKey}

LEMMA KeysApart ==
  /\ \A k \in Fixed : k # ModeKey /\ \A id : PollKey(id) # k
  /\ \A id : PollKey(id) # ModeKey /\ \A x : PollKey(id) = PollKey(x) => id = x
  /\ StorageKey \notin {MediaKey, CoverKey, DashMod, MediaMod, CoverMod, RuntimeKey}
  /\ MediaKey \notin {CoverKey, DashMod, MediaMod, CoverMod, RuntimeKey}
  /\ CoverKey \notin {DashMod, MediaMod, CoverMod, RuntimeKey}
  /\ DashMod \notin {MediaMod, CoverMod, RuntimeKey}
  /\ MediaMod \notin {CoverMod, RuntimeKey} /\ CoverMod # RuntimeKey
  BY DEF Fixed, StorageKey, MediaKey, CoverKey, PollKey, DashMod, MediaMod, CoverMod, RuntimeKey, ModeKey

Tells(row, bad) ==
  IF bad THEN row.mine /\ row.status \in {"degraded", "active"}
  ELSE row.mine => row.status = "recovered" \/ row.code = Maintenance

\* The row of a source, unless it was lost.
Told(key, bad)     == key \notin lost => Tells(At(key), bad)
CodeTold(key, code) == key \notin lost /\ code # "" => At(key).code = code
StateTold(key, state) == key \notin lost => At(key).status = state

TellStorage == Told(StorageKey, reported # "normal")

TellPoll(id) ==
  /\ status[id].code # "" => status[id].state = "unavailable"
  /\ Told(PollKey(id), status[id].code # "") /\ CodeTold(PollKey(id), status[id].code)

TellPolls == DOMAIN status = DOMAIN poll /\ \A id \in DOMAIN status : TellPoll(id)

MediaState ==
  CASE media = None -> "disabled"
    [] media \in {"run", "end"} -> "healthy"
    [] OTHER -> "unavailable"

TellMedia ==
  /\ mediaStatus.code # "" => mediaStatus.state = "unavailable"
  /\ media = "init" => mediaStatus.code = ""
  /\ Told(MediaKey, mediaStatus.code # "") /\ StateTold(MediaMod, MediaState)

CoverageState == IF degraded THEN "degraded" ELSE "healthy"

TellCoverage == ~Telling => Told(CoverKey, degraded) /\ StateTold(CoverMod, CoverageState)

TellStart == StateTold(DashMod, DashboardState) /\ StateTold(RuntimeKey, cfg.mode)

TellAll == TellStorage /\ TellPolls /\ TellMedia /\ TellCoverage /\ TellStart

\* While a process serves, its tables tell what it saw last.
TellInv == stage = "serve" /\ store = "open" => TellAll

LEMMA NoRows == DOMAIN <<>> = {}
  OBVIOUS

\* A row of this process tells of a fault when it is degraded or active, of none
\* when it says recovered or speaks of maintenance.
LEMMA RowTells ==
  ASSUME NEW row, row.mine = TRUE, NEW bad \in BOOLEAN
  PROVE  /\ bad /\ row.status \in {"degraded", "active"} => Tells(row, bad)
         /\ ~bad /\ (row.status = "recovered" \/ row.code = Maintenance) => Tells(row, bad)
  BY Zenon DEF Tells

\* The rows of a status: none, or one that states it.
StatusRow(rows, key, code) ==
  /\ DOMAIN rows = {key} /\ Tells(rows[key], code # "")
  /\ code # "" => rows[key].code = code

LEMMA OneTold ==
  ASSUME NEW t, NEW s, NEW x, NEW c, (x = "degraded" /\ c # "") \/ (x = "recovered" /\ c = "")
  PROVE  StatusRow(OneRow(t, s, x, c), <<t, s>>, c)
<1>1. PICK key, row, rows : key = <<t, s>> /\ row = Row(x, c) /\ rows = OneRow(t, s, x, c)
  OBVIOUS
<1>2. DOMAIN rows = {key} /\ rows[key] = row
  <2>1. DOMAIN OneRow(t, s, x, c) = {<<t, s>>} /\ OneRow(t, s, x, c)[<<t, s>>] = Row(x, c)
    BY Zenon DEF OneRow
  <2> QED BY <1>1, <2>1, Zenon
<1>3. row.status = x /\ row.code = c /\ row.mine = TRUE
  BY <1>1, OneRowFacts
<1>4. Tells(row, c # "")
  BY <1>3, RowTells
<1> QED BY <1>1, <1>2, <1>3, <1>4 DEF StatusRow

\* There is no row when the outcome is the last one.
LEMMA StatusTold ==
  ASSUME NEW t, NEW s, NEW prev, NEW code, prev.code # "" => prev.state = "unavailable"
  PROVE  \/ StatusRows(t, s, prev, code) = <<>> /\ prev.code = code
         \/ StatusRow(StatusRows(t, s, prev, code), <<t, s>>, code)
<1>1. \/ code # "" /\ StatusRows(t, s, prev, code) = OneRow(t, s, "degraded", code)
      \/ code = "" /\ StatusRows(t, s, prev, code) = OneRow(t, s, "recovered", code)
      \/ prev.code = code /\ StatusRows(t, s, prev, code) = <<>>
  BY Zenon DEF StatusRows
<1>2. code # "" => StatusRow(OneRow(t, s, "degraded", code), <<t, s>>, code)
  BY OneTold
<1>3. code = "" => StatusRow(OneRow(t, s, "recovered", code), <<t, s>>, code)
  BY OneTold
<1> QED BY <1>1, <1>2, <1>3, Zenon

LEMMA ToldKept ==
  ASSUME NEW key, SameAt(key), NEW x
  PROVE  /\ Told(key, x) => Told(key, x)'
         /\ CodeTold(key, x) => CodeTold(key, x)'
         /\ StateTold(key, x) => StateTold(key, x)'
  BY Zenon DEF Told, CodeTold, StateTold, SameAt

LEMMA ToldAppended ==
  ASSUME NEW key, NEW rows, NEW live, NEW code, key # ModeKey, AppendRows(rows, live),
         StatusRow(rows, key, code)
  PROVE  Told(key, code # "")' /\ CodeTold(key, code)'
<1>1. key \in DOMAIN rows
  BY DEF StatusRow
<1>2. key \notin lost' => At(key)' = rows[key]
  BY <1>1, RowEffect
<1> QED BY <1>2, Zenon DEF Told, CodeTold, StatusRow

LEMMA StateAppended ==
  ASSUME NEW key, NEW rows, NEW live, NEW state, key # ModeKey, AppendRows(rows, live),
         key \in DOMAIN rows, rows[key].status = state
  PROVE  StateTold(key, state)'
<1>1. key \notin lost' => At(key)' = rows[key]
  BY RowEffect
<1> QED BY <1>1, Zenon DEF StateTold

\* An append of a status, and what it does to other rows.
LEMMA StatusAppended ==
  ASSUME NEW t, NEW s, NEW prev, NEW code, NEW live, <<t, s>> # ModeKey,
         prev.code # "" => prev.state = "unavailable",
         Told(<<t, s>>, prev.code # ""),
         AppendRows(StatusRows(t, s, prev, code), live)
  PROVE  /\ Told(<<t, s>>, code # "")'
         /\ CodeTold(<<t, s>>, prev.code) => CodeTold(<<t, s>>, code)'
         /\ \A k : k # ModeKey /\ k # <<t, s>> => SameAt(k)
<1>1. PICK rows, key : rows = StatusRows(t, s, prev, code) /\ key = <<t, s>>
  OBVIOUS
<1>2. (rows = <<>> /\ prev.code = code) \/ StatusRow(rows, key, code)
  BY <1>1, StatusTold, Zenon
<1>3. DOMAIN rows \subseteq {key}
  BY <1>2, NoRows, Zenon DEF StatusRow
<1>4. AppendRows(rows, live)
  BY <1>1, Zenon
<1>5. \A k : k # ModeKey /\ k # key => SameAt(k)
  BY <1>3, <1>4, RowEffect
<1>6. CASE StatusRow(rows, key, code)
  BY <1>1, <1>4, <1>5, <1>6, ToldAppended, Zenon
<1>7. CASE rows = <<>> /\ prev.code = code
  <2>1. SameAt(key)
    BY <1>1, <1>4, <1>7, NoRows, RowEffect, Zenon
  <2> QED BY <1>1, <1>5, <1>7, <2>1, ToldKept, Zenon
<1> QED BY <1>2, <1>6, <1>7

\* The conjuncts of TellInv that a step does not disturb.
LEMMA StorageSame ==
  ASSUME TellStorage, UNCHANGED reported, SameAt(StorageKey)
  PROVE  TellStorage'
  BY Zenon DEF TellStorage, Told, SameAt

LEMMA PollSame ==
  ASSUME NEW id, TellPoll(id), status'[id] = status[id], SameAt(PollKey(id))
  PROVE  TellPoll(id)'
  BY Zenon DEF TellPoll, Told, CodeTold, SameAt

LEMMA PollsSame ==
  ASSUME TellPolls, UNCHANGED status, DOMAIN poll' = DOMAIN poll, \A id : SameAt(PollKey(id))
  PROVE  TellPolls'
<1>1. ASSUME NEW id \in DOMAIN status PROVE TellPoll(id)'
  BY <1>1, PollSame, Zenon DEF TellPolls
<1> QED BY <1>1, Zenon DEF TellPolls

LEMMA MediaSame ==
  ASSUME TellMedia, UNCHANGED mediaStatus, MediaState' = MediaState, media' = "init" => media = "init",
         SameAt(MediaKey), SameAt(MediaMod)
  PROVE  TellMedia'
  BY Zenon DEF TellMedia, Told, StateTold, SameAt

LEMMA CoverageSame ==
  ASSUME TellCoverage, Telling => Telling', UNCHANGED degraded, SameAt(CoverKey), SameAt(CoverMod)
  PROVE  TellCoverage'
  BY Zenon DEF TellCoverage, CoverageState, Told, StateTold, SameAt

LEMMA StartSame ==
  ASSUME TellStart, UNCHANGED <<cfg, setup>>, SameAt(DashMod), SameAt(RuntimeKey)
  PROVE  TellStart'
<1>1. DashboardState' = DashboardState /\ cfg'.mode = cfg.mode
  BY DEF DashboardState
<1> QED BY <1>1, Zenon DEF TellStart, StateTold, SameAt

\* The rows of every source but one stay.
OtherRows(key) == \A k : k # ModeKey /\ k # key => SameAt(k)

LEMMA ServingBefore ==
  ASSUME RunInv, Next, stage' = "serve", store' = "open"
  PROVE  StartGoroutines \/ (stage = "serve" /\ store = "open" /\ UNCHANGED <<cfg, setup>>)
<1>1. CASE \E input \in setup.inputs : Launch(input)
  BY <1>1 DEF Launch
<1>2. CASE Main
  BY <1>2 DEF Main, Listen, OpenStore, BeginShutdown, Drained, ShutdownTimesOut, CloseStore, Exit, Returned, Ends
<1>3. CASE StopSignal \/ ServeFails \/ DiskChanges \/ Crash
  BY <1>3 DEF StopSignal, ServeFails, DiskChanges, Crash, Returned, Ends, runVars, Next
<1>4. CASE Up /\ (Tick \/ Worker \/ Operations)
  BY <1>4 DEF Tick, Worker, Operations, MediaInitialize, MediaScan, MediaStops, ScanDisk, OperationsStops,
    MaintenanceFails, runVars, Next
<1>5. CASE Up /\ \E id \in DOMAIN poll : Collector(id)
  BY <1>5 DEF Collector, BeginPoll, GiveUp, CollectorStops, EndPoll, runVars, Next
<1>6. CASE Up /\ \E r \in Request : Viewer(r)
  BY <1>6 DEF Viewer, BeginCoverage, ClientLeaves, RecordCoverage, RebuildEnds, runVars, Next
<1> QED BY <1>1, <1>2, <1>3, <1>4, <1>5, <1>6 DEF Next

\* A step that writes no row.
LEMMA QuietTells ==
  ASSUME TellAll, UNCHANGED <<cfg, setup, tables, status, degraded, mediaStatus, reported>>,
         DOMAIN poll' = DOMAIN poll, Telling => Telling',
         MediaState' = MediaState, media' = "init" => media = "init"
  PROVE  TellAll'
<1>1. \A k : SameAt(k)
  BY DEF tables, SameAt, At
<1> QED BY <1>1, StorageSame, PollsSame, MediaSame, CoverageSame, StartSame DEF TellAll

LEMMA ScanTells ==
  ASSUME TellAll, UNCHANGED setup, ScanDisk
  PROVE  TellAll'
<1>1. PICK rows, live : rows = DiskRows /\ AppendRows(rows, live) /\ reported' = DiskLevel
  BY DEF ScanDisk
<1>2. \/ rows = <<>> /\ reported = DiskLevel
      \/ rows = OneRow("fault", "storage", DiskStatus, level)
  BY <1>1 DEF DiskRows
<1>3. DOMAIN rows \subseteq {StorageKey}
  BY <1>2, NoRows DEF OneRow, StorageKey
<1>4. OtherRows(StorageKey)
  BY <1>1, <1>3, RowEffect DEF OtherRows
<1>5. TellStorage'
  <2>1. CASE rows = <<>> /\ reported = DiskLevel
    <3>1. SameAt(StorageKey)
      BY <1>1, <2>1, NoRows, RowEffect, KeysApart DEF Fixed
    <3> QED BY <1>1, <2>1, <3>1, StorageSame DEF TellAll
  <2>2. CASE rows = OneRow("fault", "storage", DiskStatus, level)
    <3>1. PICK row : row = Row(DiskStatus, level)
      OBVIOUS
    <3>2. StorageKey \in DOMAIN rows /\ rows[StorageKey] = row
      BY <2>2, <3>1 DEF OneRow, StorageKey
    <3>3. row.mine = TRUE /\ row.status = DiskStatus
      BY <3>1, OneRowFacts
    <3>4. Tells(row, reported' # "normal")
      <4>1. IF reported' = "normal" THEN DiskStatus = "recovered" ELSE DiskStatus \in {"degraded", "active"}
        BY <1>1 DEF DiskStatus
      <4> QED BY <3>3, <4>1, RowTells
    <3>5. StorageKey \notin lost' => At(StorageKey)' = row
      BY <1>1, <3>2, RowEffect, KeysApart DEF Fixed
    <3> QED BY <3>4, <3>5, Zenon DEF TellStorage, Told
  <2> QED BY <1>2, <2>1, <2>2
<1>6. SameAt(MediaKey) /\ SameAt(MediaMod) /\ SameAt(CoverKey) /\ SameAt(CoverMod) /\ SameAt(DashMod)
        /\ SameAt(RuntimeKey) /\ \A id : SameAt(PollKey(id))
  BY <1>4, KeysApart DEF OtherRows, Fixed
<1>7. UNCHANGED <<cfg, setup, poll, status, degraded, mediaStatus, media, page>>
  BY DEF ScanDisk, runVars, pollVars, mediaVars, pageVars
<1> QED BY <1>5, <1>6, <1>7, PollsSame, MediaSame, CoverageSame, StartSame DEF TellAll, MediaState, Telling

LEMMA MaintenanceTells ==
  ASSUME TellAll, UNCHANGED setup, NEW source \in {"storage", "media_ingest", "retention"},
         MaintenanceFails(source)
  PROVE  TellAll'
<1>1. PICK key, row, rows : key = <<"fault", source>> /\ row = Row("active", Maintenance)
                            /\ rows = OneRow("fault", source, "active", Maintenance)
  OBVIOUS
<1>2. ledger' = rows ++ ledger /\ lost' = lost
  BY <1>1 DEF MaintenanceFails
<1>3. DOMAIN rows = {key} /\ rows[key] = row
  BY <1>1 DEF OneRow
<1>4. row.mine = TRUE /\ row.status = "active" /\ row.code = Maintenance
  BY <1>1 DEF Row
<1>5. At(key)' = row /\ \A k : k # key => SameAt(k)
  BY <1>2, <1>3 DEF ++, At, SameAt
<1>6. UNCHANGED <<cfg, setup, poll, status, degraded, mediaStatus, media, page, reported>>
  BY DEF MaintenanceFails, runVars, pollVars, mediaVars, pageVars, opsVars
<1>7. \A bad \in BOOLEAN : Tells(row, bad)
  BY <1>4, RowTells
<1>8. key \notin {CoverKey, MediaMod, CoverMod, DashMod, RuntimeKey} /\ \A id : key # PollKey(id)
  BY <1>1 DEF CoverKey, MediaMod, CoverMod, DashMod, RuntimeKey, PollKey
<1>9. TellPolls' /\ TellStart'
  BY <1>5, <1>6, <1>8, PollsSame, StartSame DEF TellAll
<1>10. TellStorage'
  <2>1. CASE key = StorageKey
    <3>1. Tells(row, reported' # "normal")
      BY <1>7
    <3> QED BY <1>5, <2>1, <3>1, Zenon DEF TellStorage, Told
  <2>2. CASE key # StorageKey
    BY <1>5, <1>6, <2>2, StorageSame DEF TellAll
  <2> QED BY <2>1, <2>2
<1>11. TellMedia'
  <2>1. CASE key = MediaKey
    <3>1. Tells(row, mediaStatus'.code # "")
      BY <1>7
    <3>2. Told(MediaKey, mediaStatus.code # "")'
      BY <1>5, <2>1, <3>1, Zenon DEF Told
    <3>3. StateTold(MediaMod, MediaState)'
      BY <1>5, <1>6, <1>8, Zenon DEF TellAll, TellMedia, StateTold, SameAt, MediaState
    <3> QED BY <1>6, <3>2, <3>3, Zenon DEF TellAll, TellMedia
  <2>2. CASE key # MediaKey
    BY <1>5, <1>6, <1>8, <2>2, MediaSame DEF TellAll, MediaState
  <2> QED BY <2>1, <2>2
<1>12. TellCoverage'
  BY <1>5, <1>6, <1>8, CoverageSame DEF TellAll, Telling
<1> QED BY <1>9, <1>10, <1>11, <1>12 DEF TellAll

LEMMA SeenFacts ==
  ASSUME NEW code
  PROVE  Seen(code).code = code /\ (code # "" => Seen(code).state = "unavailable")
  BY DEF Seen

LEMMA RecordTells ==
  ASSUME TellAll, NEW id \in DOMAIN status, NEW code, RecordPollStatus(id, code), DOMAIN poll' = DOMAIN poll,
         UNCHANGED <<cfg, setup, degraded, mediaStatus, media, page, reported>>
  PROVE  TellAll'
<1>1. PICK prev, key, live, rec : prev = status[id] /\ key = PollKey(id) /\ live = ~cancelled /\ rec = Seen(code)
  OBVIOUS
<1>2. AppendRows(StatusRows("activitywatch", id, prev, code), live) /\ status' = [status EXCEPT ![id] = rec]
  BY <1>1 DEF RecordPollStatus
<1>3. /\ prev.code # "" => prev.state = "unavailable"
      /\ Told(key, prev.code # "") /\ CodeTold(key, prev.code)
  <2>1. TellPoll(id)
    BY DEF TellAll, TellPolls
  <2> QED BY <1>1, <2>1, Zenon DEF TellPoll
<1>4. key = <<"activitywatch", id>> /\ key # ModeKey
  BY <1>1, KeysApart DEF PollKey
<1>5. Told(key, code # "")' /\ CodeTold(key, code)' /\ OtherRows(key)
  BY <1>2, <1>3, <1>4, StatusAppended, Zenon DEF OtherRows
<1>6. rec.code = code /\ (code # "" => rec.state = "unavailable")
  BY <1>1, SeenFacts
<1>7. /\ DOMAIN status' = DOMAIN status /\ status'[id] = rec
      /\ \A x \in DOMAIN status \ {id} : status'[x] = status[x]
  BY <1>2
<1>8. TellPoll(id)'
  BY <1>1, <1>5, <1>6, <1>7, Zenon DEF TellPoll, Told, CodeTold
<1>9. ASSUME NEW x \in DOMAIN status \ {id} PROVE TellPoll(x)'
  <2>1. SameAt(PollKey(x))
    BY <1>1, <1>5, <1>9, KeysApart DEF OtherRows
  <2> QED BY <1>7, <1>9, <2>1, PollSame DEF TellAll, TellPolls
<1>10. TellPolls'
  BY <1>7, <1>8, <1>9, Zenon DEF TellPolls, TellAll
<1>11. \A k \in Fixed : SameAt(k)
  BY <1>1, <1>5, KeysApart DEF OtherRows
<1> QED BY <1>10, <1>11, StorageSame, MediaSame, CoverageSame, StartSame DEF TellAll, MediaState, Telling, Fixed

LEMMA CollectorTells ==
  ASSUME TellAll, PollTypes, UNCHANGED setup, NEW id \in DOMAIN poll, Collector(id)
  PROVE  TellAll'
<1>1. id \in DOMAIN status
  BY DEF TellAll, TellPolls
<1>2. UNCHANGED <<cfg, setup, degraded, mediaStatus, media, page, reported>>
  BY DEF Collector, BeginPoll, GiveUp, CollectorStops, EndPoll, runVars, mediaVars, opsVars, pageVars
<1>3. DOMAIN poll' = DOMAIN poll
  BY DEF Collector, BeginPoll, GiveUp, CollectorStops, EndPoll, ReleaseSlot
<1>4. ASSUME NEW code, RecordPollStatus(id, code) PROVE TellAll'
  BY <1>1, <1>2, <1>3, <1>4, RecordTells
<1>5. ASSUME UNCHANGED <<status, tables>> PROVE TellAll'
  BY <1>2, <1>3, <1>5, QuietTells DEF MediaState, Telling
<1>6. (\E code : RecordPollStatus(id, code)) \/ UNCHANGED <<status, tables>>
  BY DEF Collector, BeginPoll, GiveUp, CollectorStops, EndPoll
<1> QED BY <1>4, <1>5, <1>6

LEMMA MediaInitTells ==
  ASSUME TellAll, UNCHANGED setup, NEW code \in {"", "PROBE_MISSING"}, MediaInitialize(code)
  PROVE  TellAll'
<1>1. PICK rows, live, rec : rows = MediaRows(code) /\ AppendRows(rows, live) /\ rec = Seen(code)
                             /\ mediaStatus' = rec
  BY DEF MediaInitialize
<1>2. rec.code = code /\ (code # "" => rec.state = "unavailable")
  BY <1>1, SeenFacts
<1>3. PICK state : state = IF code = "" THEN "healthy" ELSE "unavailable"
  OBVIOUS
<1>4. PICK mod, fault : /\ mod = OneRow("module", "media_ingest", state, code)
                        /\ fault = OneRow("fault", "media_ingest", "degraded", code)
  OBVIOUS
<1>5. rows = IF code = "" THEN mod ELSE mod ++ fault
  BY <1>1, <1>3, <1>4 DEF MediaRows
<1>6. DOMAIN mod = {MediaMod} /\ mod[MediaMod].status = state
  BY <1>4 DEF OneRow, Row, MediaMod
<1>7. DOMAIN fault = {MediaKey} /\ fault[MediaKey] = Row("degraded", code)
  BY <1>4 DEF OneRow, MediaKey
<1>8. /\ DOMAIN rows = IF code = "" THEN {MediaMod} ELSE {MediaMod, MediaKey}
      /\ rows[MediaMod].status = state
      /\ code # "" => rows[MediaKey] = Row("degraded", code)
  <2>1. CASE code = ""
    BY <1>5, <1>6, <2>1
  <2>2. CASE code # ""
    <3>1. rows = mod ++ fault
      BY <1>5, <2>2
    <3>2. MediaMod # MediaKey
      BY DEF MediaMod, MediaKey
    <3>3. DOMAIN rows = {MediaMod, MediaKey} /\ rows[MediaMod] = mod[MediaMod] /\ rows[MediaKey] = fault[MediaKey]
      BY <1>6, <1>7, <3>1, <3>2 DEF ++
    <3> QED BY <1>6, <1>7, <2>2, <3>3
  <2> QED BY <2>1, <2>2
<1>9. StateTold(MediaMod, state)'
  BY <1>1, <1>8, StateAppended, KeysApart DEF Fixed
<1>10. state = MediaState'
  BY <1>3 DEF MediaInitialize, MediaState, None
<1>11. Told(MediaKey, code # "")'
  <2>1. CASE code = ""
    <3>1. SameAt(MediaKey)
      BY <1>1, <1>8, <2>1, RowEffect, KeysApart DEF Fixed
    <3>2. Told(MediaKey, mediaStatus.code # "") /\ mediaStatus.code = ""
      BY DEF TellAll, TellMedia, MediaInitialize
    <3> QED BY <2>1, <3>1, <3>2, Zenon DEF Told, SameAt
  <2>2. CASE code # ""
    <3>1. PICK row : row = Row("degraded", code)
      OBVIOUS
    <3>2. row.mine = TRUE /\ row.status = "degraded"
      BY <3>1 DEF Row
    <3>3. Tells(row, code # "")
      BY <2>2, <3>2, RowTells
    <3>4. MediaKey \notin lost' => At(MediaKey)' = row
      BY <1>1, <1>8, <2>2, <3>1, RowEffect, KeysApart DEF Fixed
    <3> QED BY <3>3, <3>4, Zenon DEF Told
  <2> QED BY <2>1, <2>2
<1>12. media' # "init"
  BY DEF MediaInitialize
<1>13. TellMedia'
  BY <1>1, <1>2, <1>9, <1>10, <1>11, <1>12, Zenon DEF TellMedia, Told, StateTold
<1>14. \A k : k # ModeKey /\ k # MediaMod /\ k # MediaKey => SameAt(k)
  BY <1>1, <1>8, RowEffect
<1>15. SameAt(StorageKey) /\ SameAt(CoverKey) /\ SameAt(CoverMod) /\ SameAt(DashMod) /\ SameAt(RuntimeKey)
       /\ \A id : SameAt(PollKey(id))
  BY <1>14, KeysApart DEF Fixed
<1>16. UNCHANGED <<cfg, setup, poll, status, degraded, page, reported>>
  BY DEF MediaInitialize, runVars, pollVars, pageVars, opsVars
<1> QED BY <1>13, <1>15, <1>16, StorageSame, PollsSame, CoverageSame, StartSame DEF TellAll, Telling

LEMMA MediaScanTells ==
  ASSUME TellAll, UNCHANGED setup, NEW code, MediaScan(code)
  PROVE  TellAll'
<1>1. PICK prev, rec, live : prev = mediaStatus /\ rec = Seen(code) /\ live = TRUE
  OBVIOUS
<1>2. AppendRows(StatusRows("fault", "media_ingest", prev, code), live) /\ mediaStatus' = rec /\ media = "run"
  BY <1>1 DEF MediaScan
<1>3. (prev.code # "" => prev.state = "unavailable") /\ Told(MediaKey, prev.code # "")
  BY <1>1, Zenon DEF TellAll, TellMedia
<1>4. MediaKey = <<"fault", "media_ingest">> /\ MediaKey # ModeKey
  BY KeysApart DEF MediaKey, Fixed
<1>5. Told(MediaKey, code # "")' /\ OtherRows(MediaKey)
  BY <1>2, <1>3, <1>4, StatusAppended, Zenon DEF OtherRows
<1>6. rec.code = code /\ (code # "" => rec.state = "unavailable")
  BY <1>1, SeenFacts
<1>7. SameAt(StorageKey) /\ SameAt(MediaMod) /\ SameAt(CoverKey) /\ SameAt(CoverMod) /\ SameAt(DashMod)
      /\ SameAt(RuntimeKey) /\ \A id : SameAt(PollKey(id))
  BY <1>5, KeysApart DEF OtherRows, Fixed
<1>8. UNCHANGED <<cfg, setup, poll, status, degraded, media, page, reported>>
  BY DEF MediaScan, runVars, pollVars, pageVars, opsVars
<1>9. TellMedia'
  <2>1. MediaState' = MediaState /\ media' # "init"
    BY <1>2, <1>8 DEF MediaState
  <2> QED BY <1>2, <1>5, <1>6, <1>7, <2>1, Zenon DEF TellAll, TellMedia, Told, StateTold, SameAt
<1> QED BY <1>7, <1>8, <1>9, StorageSame, PollsSame, CoverageSame, StartSame DEF TellAll, Telling

LEMMA WorkerTells ==
  ASSUME TellAll, UNCHANGED setup, Worker
  PROVE  TellAll'
<1>1. CASE MediaStops
  <2>1. UNCHANGED <<cfg, setup, tables, poll, status, degraded, page, mediaStatus, reported>>
    BY <1>1 DEF MediaStops, runVars, pollVars, opsVars, pageVars
  <2>2. MediaState' = MediaState /\ media' # "init"
    BY <1>1 DEF MediaStops, MediaState, None
  <2> QED BY <2>1, <2>2, QuietTells DEF Telling
<1> QED BY <1>1, MediaInitTells, MediaScanTells DEF Worker

\* What a request writes is what the flag says.
LEMMA CoverageTells ==
  ASSUME TellAll, PageInv, UNCHANGED setup, NEW r \in Request, RecordCoverage(r)
  PROVE  TellAll'
<1>1. PICK rows, live, row : row = page[r].row /\ rows = CoverageRows(row) /\ AppendRows(rows, live)
  BY DEF RecordCoverage
<1>2. row = IF degraded THEN "degraded" ELSE "recovered"
  BY <1>1 DEF RecordCoverage, PageInv
<1>3. UNCHANGED <<cfg, setup, poll, status, degraded, mediaStatus, media, reported>>
  BY DEF RecordCoverage, runVars, pollVars, mediaVars, opsVars
<1>4. PICK fault, mod : /\ fault = OneRow("fault", "coverage", row, "")
                        /\ mod = OneRow("module", "coverage", CoverageState, "")
  OBVIOUS
<1>5. rows = fault ++ mod
  <2>1. CoverageState = IF row = "recovered" THEN "healthy" ELSE "degraded"
    BY <1>2 DEF CoverageState
  <2> QED BY <1>1, <1>4, <2>1 DEF CoverageRows
<1>6. DOMAIN fault = {CoverKey} /\ fault[CoverKey] = Row(row, "")
  BY <1>4 DEF OneRow, CoverKey
<1>7. DOMAIN mod = {CoverMod} /\ mod[CoverMod].status = CoverageState
  BY <1>4 DEF OneRow, Row, CoverMod
<1>8. CoverKey # CoverMod /\ CoverKey # ModeKey /\ CoverMod # ModeKey
  BY DEF CoverKey, CoverMod, ModeKey
<1>9. /\ DOMAIN rows = {CoverKey, CoverMod}
      /\ rows[CoverKey] = Row(row, "") /\ rows[CoverMod].status = CoverageState
  BY <1>5, <1>6, <1>7, <1>8 DEF ++
<1>10. Told(CoverKey, degraded)'
  <2>1. PICK x : x = Row(row, "")
    OBVIOUS
  <2>2. x.mine = TRUE /\ x.status = row
    BY <2>1 DEF Row
  <2>3. degraded \in BOOLEAN
    BY DEF PageInv
  <2>4. Tells(x, degraded)
    BY <1>2, <2>2, <2>3, RowTells
  <2>5. CoverKey \notin lost' => At(CoverKey)' = x
    BY <1>1, <1>8, <1>9, <2>1, RowEffect
  <2> QED BY <1>3, <2>4, <2>5, Zenon DEF Told
<1>11. StateTold(CoverMod, CoverageState)'
  <2>1. PICK state : state = CoverageState
    OBVIOUS
  <2>2. StateTold(CoverMod, state)'
    BY <1>1, <1>8, <1>9, <2>1, StateAppended
  <2>3. CoverageState' = state
    BY <1>3, <2>1 DEF CoverageState
  <2> QED BY <2>2, <2>3, Zenon DEF StateTold
<1>12. TellCoverage'
  BY <1>10, <1>11, Zenon DEF TellCoverage
<1>13. \A k : k # ModeKey /\ k # CoverKey /\ k # CoverMod => SameAt(k)
  BY <1>1, <1>9, RowEffect
<1>14. SameAt(StorageKey) /\ SameAt(MediaKey) /\ SameAt(MediaMod) /\ SameAt(DashMod) /\ SameAt(RuntimeKey)
       /\ \A id : SameAt(PollKey(id))
  BY <1>13, KeysApart DEF Fixed
<1> QED BY <1>3, <1>12, <1>14, StorageSame, PollsSame, MediaSame, StartSame DEF TellAll, MediaState

LEMMA ViewerTells ==
  ASSUME TellAll, PageInv, UNCHANGED setup, NEW r \in Request, Viewer(r)
  PROVE  TellAll'
<1>1. page \in [Request -> PageRec] /\ page[r] \in PageRec
  BY DEF PageInv
<1>2. ASSUME NEW p \in PageRec, page' = [page EXCEPT ![r] = p], page[r].pc = "tell" => p.pc = "tell"
      PROVE  Telling => Telling'
  <2>1. SUFFICES ASSUME NEW x \in Request, page[x].pc = "tell" PROVE page'[x].pc = "tell"
    BY DEF Telling
  <2> QED BY <1>1, <1>2, <2>1
<1>3. CASE BeginCoverage(r)
  <2>1. PICK p : p = [page[r] EXCEPT !.pc = "rebuild"]
    OBVIOUS
  <2>2. p \in PageRec /\ page' = [page EXCEPT ![r] = p] /\ page[r].pc = "idle"
    BY <1>1, <1>3, <2>1, PageFields DEF BeginCoverage
  <2>3. UNCHANGED <<cfg, setup, tables, poll, status, degraded, media, mediaStatus, reported>>
    BY <1>3 DEF BeginCoverage, runVars, pollVars, mediaVars, opsVars
  <2> QED BY <1>2, <2>2, <2>3, QuietTells DEF MediaState
<1>4. CASE ClientLeaves(r)
  <2>1. PICK p : p = [page[r] EXCEPT !.gone = TRUE]
    OBVIOUS
  <2>2. p \in PageRec /\ page' = [page EXCEPT ![r] = p] /\ p.pc = page[r].pc
    BY <1>1, <1>4, <2>1, PageFields DEF ClientLeaves
  <2>3. UNCHANGED <<cfg, setup, tables, poll, status, degraded, media, mediaStatus, reported>>
    BY <1>4 DEF ClientLeaves, runVars, pollVars, mediaVars, opsVars
  <2> QED BY <1>2, <2>2, <2>3, QuietTells DEF MediaState
<1>5. CASE RecordCoverage(r)
  BY <1>5, CoverageTells
<1>6. CASE \E ok \in BOOLEAN : RebuildEnds(r, ok)
  <2>1. PICK ok \in BOOLEAN : RebuildEnds(r, ok)
    BY <1>6
  <2>2. PICK row : row = IF ok THEN "recovered" ELSE "degraded"
    OBVIOUS
  <2>3. /\ page[r].pc = "rebuild" /\ degraded' = ~ok /\ AfterSwap(r, degraded = ok, row)
        /\ UNCHANGED <<cfg, setup, tables, poll, status, media, mediaStatus, reported>>
    BY <2>1, <2>2 DEF RebuildEnds, runVars, pollVars, mediaVars, opsVars
  <2>4. CASE degraded = ok
    <3>1. PICK p : p = [page[r] EXCEPT !.pc = "tell", !.row = row]
      OBVIOUS
    <3>2. p.pc = "tell" /\ page' = [page EXCEPT ![r] = p]
      BY <1>1, <2>3, <2>4, <3>1 DEF AfterSwap, PageRec
    <3>3. Telling'
      BY <1>1, <3>2 DEF Telling
    <3>4. TellCoverage'
      BY <3>3, Zenon DEF TellCoverage
    <3>5. \A k : SameAt(k)
      BY <2>3 DEF tables, SameAt, At
    <3> QED BY <2>3, <3>4, <3>5, StorageSame, PollsSame, MediaSame, StartSame DEF TellAll, MediaState
  <2>5. CASE degraded # ok
    <3>1. page' = [page EXCEPT ![r] = NoPage] /\ degraded' = degraded
      BY <2>3, <2>5 DEF AfterSwap, PageInv
    <3>2. NoPage \in PageRec
      BY <1>1, PageFields
    <3> QED BY <1>2, <2>3, <3>1, <3>2, QuietTells DEF MediaState
  <2> QED BY <2>4, <2>5
<1> QED BY <1>3, <1>4, <1>5, <1>6 DEF Viewer

\* The rows of a start, by source.
LEMMA StartRowFacts ==
  ASSUME NEW rows, rows = StartRows
  PROVE  /\ DashMod \in DOMAIN rows /\ rows[DashMod].status = DashboardState
         /\ CoverMod \in DOMAIN rows /\ rows[CoverMod].status = "healthy"
         /\ MediaMod \in DOMAIN rows /\ rows[MediaMod].status = IF cfg.media THEN "unavailable" ELSE "disabled"
         /\ StorageKey \in DOMAIN rows <=> StorageKey \in DOMAIN DiskRows
         /\ StorageKey \in DOMAIN rows => rows[StorageKey] = DiskRows[StorageKey]
         /\ RuntimeKey \in DOMAIN rows <=> RuntimeKey \in DOMAIN ModeRows
         /\ RuntimeKey \in DOMAIN rows => rows[RuntimeKey] = ModeRows[RuntimeKey]
         /\ MediaKey \notin DOMAIN rows /\ CoverKey \notin DOMAIN rows /\ \A id : PollKey(id) \notin DOMAIN rows
<1>1. PICK M, C, D, T :
        /\ M = [k \in {<<"module", m>> : m \in DOMAIN StartStates} |-> Row(StartStates[k[2]], "")]
        /\ C = [k \in {<<"collector", cfg.collectors[n].id>> : n \in DOMAIN cfg.collectors} |->
                  Row(IF \E n \in DOMAIN cfg.collectors :
                           cfg.collectors[n].id = k[2] /\ cfg.collectors[n].enabled
                      THEN "healthy" ELSE "disabled", "")]
        /\ D = DiskRows /\ T = ModeRows
  OBVIOUS
<1>2. rows = (M ++ C) ++ (D ++ T)
  BY <1>1 DEF StartRows
<1>3. /\ DOMAIN StartStates = {"retention", "dashboard", "coverage", "generic_json", "media_ingest"}
      /\ StartStates["dashboard"] = DashboardState /\ StartStates["coverage"] = "healthy"
      /\ StartStates["media_ingest"] = IF cfg.media THEN "unavailable" ELSE "disabled"
  BY DEF StartStates
<1>4. /\ DOMAIN M = {<<"module", m>> : m \in DOMAIN StartStates}
      /\ \A m \in DOMAIN StartStates : M[<<"module", m>>].status = StartStates[m]
  BY <1>1 DEF Row
<1>5. /\ DashMod \in DOMAIN M /\ M[DashMod].status = DashboardState
      /\ CoverMod \in DOMAIN M /\ M[CoverMod].status = "healthy"
      /\ MediaMod \in DOMAIN M /\ M[MediaMod].status = IF cfg.media THEN "unavailable" ELSE "disabled"
  BY <1>3, <1>4 DEF DashMod, CoverMod, MediaMod
<1>6. \A k \in DOMAIN M \cup DOMAIN C : k[1] \in {"module", "collector"}
  <2>1. DOMAIN C = {<<"collector", cfg.collectors[n].id>> : n \in DOMAIN cfg.collectors}
    BY <1>1
  <2> QED BY <1>4, <2>1
<1>7. DOMAIN D \subseteq {StorageKey}
  BY <1>1, NoRows DEF DiskRows, OneRow, StorageKey
<1>8. DOMAIN T \subseteq {RuntimeKey}
  BY <1>1, NoRows DEF ModeRows, OneRow, RuntimeKey
<1>9. StorageKey \notin DOMAIN M \cup DOMAIN C /\ RuntimeKey \notin DOMAIN M \cup DOMAIN C
      /\ MediaKey \notin DOMAIN M \cup DOMAIN C /\ CoverKey \notin DOMAIN M \cup DOMAIN C
      /\ \A id : PollKey(id) \notin DOMAIN M \cup DOMAIN C
  BY <1>6 DEF StorageKey, RuntimeKey, MediaKey, CoverKey, PollKey
<1>10. DOMAIN rows = DOMAIN M \cup DOMAIN C \cup DOMAIN D \cup DOMAIN T
  BY <1>2, Zenon DEF ++
<1>11. \A k \in DOMAIN M : rows[k] = M[k]
  BY <1>2, Zenon DEF ++
<1>12. StorageKey # RuntimeKey /\ \A k \in DOMAIN D \ (DOMAIN M \cup DOMAIN C) : rows[k] = D[k]
  BY <1>2, KeysApart DEF ++
<1>13. RuntimeKey \notin DOMAIN D /\ \A k \in DOMAIN T \ (DOMAIN M \cup DOMAIN C \cup DOMAIN D) : rows[k] = T[k]
  BY <1>2, <1>7, <1>12 DEF ++
<1>14. MediaKey \notin DOMAIN D \cup DOMAIN T /\ CoverKey \notin DOMAIN D \cup DOMAIN T
       /\ \A id : PollKey(id) \notin DOMAIN D \cup DOMAIN T
  BY <1>7, <1>8, KeysApart DEF Fixed
<1>15. /\ StorageKey \in DOMAIN rows <=> StorageKey \in DOMAIN D
       /\ StorageKey \in DOMAIN rows => rows[StorageKey] = D[StorageKey]
  BY <1>8, <1>9, <1>10, <1>12
<1>16. /\ RuntimeKey \in DOMAIN rows <=> RuntimeKey \in DOMAIN T
       /\ RuntimeKey \in DOMAIN rows => rows[RuntimeKey] = T[RuntimeKey]
  BY <1>9, <1>10, <1>13
<1>17. MediaKey \notin DOMAIN rows /\ CoverKey \notin DOMAIN rows /\ \A id : PollKey(id) \notin DOMAIN rows
  BY <1>9, <1>10, <1>14
<1> QED BY <1>1, <1>5, <1>10, <1>11, <1>15, <1>16, <1>17, Zenon

\* The start of a process over the rows of earlier ones.
LEMMA StartTells ==
  ASSUME RunInv, PristineInv, PageInv, UNCHANGED setup, StartGoroutines
  PROVE  TellAll'
<1>1. PICK rows, live : rows = StartRows /\ AppendRows(rows, live)
  BY DEF StartGoroutines
<1>2. /\ reported = "normal" /\ mediaStatus = Unseen /\ degraded = FALSE /\ lost = {}
      /\ \A k \in DOMAIN ledger : ledger[k].mine = FALSE
  BY DEF StartGoroutines, PristineInv, Early
<1>3. Unseen.code = "" /\ Unseen.state = "unavailable"
  BY DEF Unseen
<1>4. /\ reported' = DiskLevel /\ media' = (IF cfg.media THEN "init" ELSE None)
      /\ poll' = [id \in Polled |-> Idle] /\ status' = [id \in Polled |-> Unseen]
      /\ UNCHANGED <<cfg, mediaStatus, degraded>>
  BY DEF StartGoroutines, pageVars
<1>5. ASSUME NEW k, k # ModeKey, k \notin DOMAIN rows PROVE Tells(At(k)', FALSE) /\ k \notin lost'
  <2>1. SameAt(k)
    BY <1>1, <1>5, RowEffect
  <2>2. At(k).mine = FALSE
    BY <1>2 DEF At, NoRow
  <2>3. Tells(At(k), FALSE)
    BY <2>2, Zenon DEF Tells
  <2> QED BY <1>2, <2>1, <2>3, Zenon DEF SameAt
<1>6. TellStorage'
  <2>1. CASE StorageKey \in DOMAIN DiskRows
    <3>1. PICK row : row = Row(DiskStatus, level)
      OBVIOUS
    <3>2. DiskRows[StorageKey] = row
      <4>1. DiskRows = OneRow("fault", "storage", DiskStatus, level)
        BY <2>1, NoRows DEF DiskRows
      <4> QED BY <3>1, <4>1 DEF OneRow, StorageKey
    <3>3. StorageKey \in DOMAIN rows /\ rows[StorageKey] = row
      BY <1>1, <2>1, <3>2, StartRowFacts
    <3>4. row.mine = TRUE /\ row.status = DiskStatus
      BY <3>1, OneRowFacts
    <3>5. IF reported' = "normal" THEN DiskStatus = "recovered" ELSE DiskStatus \in {"degraded", "active"}
      BY <1>4 DEF DiskStatus
    <3>6. Tells(row, reported' # "normal")
      BY <3>4, <3>5, RowTells
    <3>7. StorageKey \notin lost' => At(StorageKey)' = row
      BY <1>1, <3>3, RowEffect, KeysApart DEF Fixed
    <3> QED BY <3>6, <3>7, Zenon DEF TellStorage, Told
  <2>2. CASE StorageKey \notin DOMAIN DiskRows
    <3>1. reported' = "normal"
      BY <1>2, <1>4, <2>2 DEF DiskRows, OneRow, StorageKey
    <3>2. Tells(At(StorageKey)', FALSE)
      BY <1>1, <1>5, <2>2, StartRowFacts, KeysApart DEF Fixed
    <3> QED BY <3>1, <3>2, Zenon DEF TellStorage, Told
  <2> QED BY <2>1, <2>2
<1>7. TellPolls'
  <2>1. DOMAIN status' = DOMAIN poll'
    BY <1>4
  <2>2. ASSUME NEW id \in DOMAIN status' PROVE TellPoll(id)'
    <3>1. status'[id].code = ""
      BY <1>3, <1>4, <2>2
    <3>2. Tells(At(PollKey(id))', FALSE)
      BY <1>1, <1>5, StartRowFacts, KeysApart
    <3>3. (status'[id].code # "") = FALSE
      BY <3>1
    <3> QED BY <3>1, <3>2, <3>3, Zenon DEF TellPoll, Told, CodeTold
  <2> QED BY <2>1, <2>2, Zenon DEF TellPolls
<1>8. TellMedia'
  <2>1. Tells(At(MediaKey)', FALSE)
    BY <1>1, <1>5, StartRowFacts, KeysApart DEF Fixed
  <2>2. PICK state : state = IF cfg.media THEN "unavailable" ELSE "disabled"
    OBVIOUS
  <2>3. StateTold(MediaMod, state)'
    BY <1>1, <2>2, StartRowFacts, StateAppended, KeysApart DEF Fixed
  <2>4. MediaState' = state
    BY <1>4, <2>2 DEF MediaState, None
  <2>5. mediaStatus'.code = "" /\ (mediaStatus'.code # "") = FALSE
    BY <1>2, <1>3, <1>4
  <2>6. Told(MediaKey, mediaStatus.code # "")'
    BY <2>1, <2>5, Zenon DEF Told
  <2>7. StateTold(MediaMod, MediaState)'
    BY <2>3, <2>4, Zenon DEF StateTold
  <2> QED BY <2>5, <2>6, <2>7, Zenon DEF TellMedia
<1>9. TellCoverage'
  <2>1. Tells(At(CoverKey)', FALSE) /\ degraded' = FALSE
    BY <1>1, <1>2, <1>4, <1>5, StartRowFacts, KeysApart DEF Fixed
  <2>2. PICK state : state = "healthy"
    OBVIOUS
  <2>3. StateTold(CoverMod, state)'
    BY <1>1, <2>2, StartRowFacts, StateAppended, KeysApart DEF Fixed
  <2>4. CoverageState' = state
    BY <2>1, <2>2 DEF CoverageState
  <2>5. StateTold(CoverMod, CoverageState)'
    BY <2>3, <2>4, Zenon DEF StateTold
  <2>6. Told(CoverKey, degraded)'
    BY <2>1, Zenon DEF Told
  <2> QED BY <2>5, <2>6, Zenon DEF TellCoverage
<1>10. StateTold(DashMod, DashboardState)'
  <2>1. PICK state : state = DashboardState
    OBVIOUS
  <2>2. StateTold(DashMod, state)'
    BY <1>1, <2>1, StartRowFacts, StateAppended, KeysApart DEF Fixed
  <2>3. DashboardState' = state
    BY <1>4, <2>1 DEF DashboardState
  <2> QED BY <2>2, <2>3, Zenon DEF StateTold
<1>11. StateTold(RuntimeKey, cfg.mode)'
  <2>1. PICK mode : mode = cfg.mode
    OBVIOUS
  <2>2. At(RuntimeKey) = LastRow("mode", "runtime")
    BY DEF At, LastRow, RuntimeKey
  <2>3. CASE At(RuntimeKey).status = mode
    <3>1. ModeRows = <<>>
      BY <2>1, <2>2, <2>3 DEF ModeRows
    <3>2. RuntimeKey \notin DOMAIN rows
      BY <1>1, <3>1, NoRows, StartRowFacts
    <3>3. SameAt(RuntimeKey)
      BY <1>1, <3>2, RowEffect, KeysApart DEF Fixed
    <3> QED BY <1>4, <2>1, <2>3, <3>3, Zenon DEF StateTold, SameAt
  <2>4. CASE At(RuntimeKey).status # mode
    <3>1. RuntimeKey \in DOMAIN ModeRows /\ ModeRows[RuntimeKey].status = mode
      BY <2>1, <2>2, <2>4 DEF ModeRows, OneRow, Row, RuntimeKey
    <3>2. StateTold(RuntimeKey, mode)'
      BY <1>1, <3>1, StartRowFacts, StateAppended, KeysApart DEF Fixed
    <3> QED BY <1>4, <2>1, <3>2, Zenon DEF StateTold
  <2> QED BY <2>3, <2>4
<1> QED BY <1>6, <1>7, <1>8, <1>9, <1>10, <1>11, Zenon DEF TellAll, TellStart

LEMMA TellKept ==
  ASSUME RunInv, PristineInv, PageInv, TellInv, [Next]_vars
  PROVE  TellInv'
<1>1. SUFFICES ASSUME stage' = "serve", store' = "open" PROVE TellAll'
  BY Zenon DEF TellInv
<1>2. ASSUME TellAll, UNCHANGED <<cfg, setup, tables, poll, status, degraded, page, media, mediaStatus, reported>>
      PROVE  TellAll'
  BY <1>2, QuietTells DEF MediaState, Telling
<1>3. CASE UNCHANGED vars
  BY <1>1, <1>2, <1>3 DEF vars, runVars, pollVars, mediaVars, opsVars, pageVars, tables, TellInv
<1>4. CASE Next /\ StartGoroutines
  BY <1>4, StartTells DEF Next
<1>5. CASE Next /\ ~StartGoroutines
  <2>1. TellAll /\ UNCHANGED setup
    BY <1>1, <1>5, ServingBefore DEF TellInv
  <2>2. CASE \E input \in setup.inputs : Launch(input)
    BY <1>1, <2>2 DEF Launch
  <2>3. CASE Main
    BY <1>1, <1>5, <2>3 DEF Main, Listen, OpenStore, BeginShutdown, Drained, ShutdownTimesOut, CloseStore, Exit,
      Returned, Ends
  <2>4. CASE StopSignal \/ DiskChanges
    BY <1>2, <2>1, <2>4 DEF StopSignal, DiskChanges, runVars, pollVars, mediaVars, opsVars, pageVars
  <2>5. CASE ServeFails \/ Crash
    BY <1>1, <2>5 DEF ServeFails, Crash, Returned, Ends
  <2>6. CASE Up /\ Tick
    <3>1. DOMAIN poll' = DOMAIN poll
      BY <2>6 DEF Tick
    <3>2. UNCHANGED <<cfg, setup, tables, status, degraded, page, media, mediaStatus, reported>>
      BY <2>1, <2>6 DEF Tick, runVars, mediaVars, opsVars, pageVars
    <3> QED BY <2>1, <3>1, <3>2, QuietTells DEF MediaState, Telling
  <2>7. CASE Up /\ Worker
    BY <2>1, <2>7, WorkerTells
  <2>8. CASE Up /\ Operations
    <3>1. CASE OperationsStops
      BY <1>2, <2>1, <3>1 DEF OperationsStops, runVars, pollVars, mediaVars, pageVars
    <3> QED BY <2>1, <2>8, <3>1, ScanTells, MaintenanceTells DEF Operations
  <2>9. CASE Up /\ \E id \in DOMAIN poll : Collector(id)
    BY <2>1, <2>9, CollectorTells DEF RunInv
  <2>10. CASE Up /\ \E r \in Request : Viewer(r)
    BY <2>1, <2>10, ViewerTells
  <2> QED BY <1>5, <2>2, <2>3, <2>4, <2>5, <2>6, <2>7, <2>8, <2>9, <2>10 DEF Next
<1> QED BY <1>3, <1>4, <1>5

LEMMA TellInit ==
  ASSUME Init
  PROVE  RowsOf(ledger) /\ PristineInv /\ PageInv /\ TellInv
<1>1. stage = "down" /\ ledger = <<>> /\ page = [r \in Request |-> NoPage] /\ degraded = FALSE
  BY DEF Init
<1>2. NoPage \in PageRec /\ NoPage.pc = "idle"
  BY DEF NoPage, PageRec, None
<1>3. PageInv
  BY <1>1, <1>2 DEF PageInv
<1>4. RowsOf(ledger)
  BY <1>1, NoRows DEF RowsOf
<1> QED BY <1>1, <1>3, <1>4 DEF PristineInv, TellInv, Early

LEMMA RowsSame ==
  ASSUME EarlyInv, RowsOf(ledger), PristineInv, [Next]_vars
  PROVE  RowsOf(ledger)' /\ PristineInv'
<1>1. CASE Next
  BY <1>1, RowsKept, PristineKept
<1>2. CASE UNCHANGED vars
  BY <1>2 DEF vars, runVars, mediaVars, opsVars, pageVars, tables, PristineInv, Early
<1> QED BY <1>1, <1>2

LEMMA TellsHistory ==
  ASSUME TellInv
  PROVE  HistoryTells
<1>1. SUFFICES ASSUME stage = "serve", store = "open", TellAll PROVE HistoryTells
  BY Zenon DEF TellInv, HistoryTells
<1>2. \A t, s : LastRow(t, s) = At(<<t, s>>)
  BY Zenon DEF LastRow, At
<1>3. ASSUME NEW t, NEW s, NEW bad, Told(<<t, s>>, bad) PROVE FaultTold(t, s, bad)
  BY <1>2, <1>3, Zenon DEF Told, Tells, FaultTold
<1>4. ASSUME NEW m, NEW state, StateTold(<<"module", m>>, state) PROVE ModuleTold(m, state)
  BY <1>2, <1>4, Zenon DEF StateTold, ModuleTold
<1>5. FaultTold("fault", "storage", reported # "normal")
  BY <1>1, <1>3, Zenon DEF TellAll, TellStorage, StorageKey
<1>6. ASSUME NEW id \in DOMAIN status
      PROVE  /\ FaultTold("activitywatch", id, status[id].code # "")
             /\ status[id].code # "" /\ <<"activitywatch", id>> \notin lost =>
                  LastRow("activitywatch", id).code = status[id].code
  <2>1. TellPoll(id)
    BY <1>1, <1>6 DEF TellAll, TellPolls
  <2> QED BY <1>2, <1>3, <2>1, Zenon DEF TellPoll, CodeTold, PollKey
<1>7. FaultTold("fault", "media_ingest", mediaStatus.code # "")
  BY <1>1, <1>3, Zenon DEF TellAll, TellMedia, MediaKey
<1>8. ModuleTold("media_ingest", MediaState)
  BY <1>1, <1>4, Zenon DEF TellAll, TellMedia, MediaMod
<1>9. ~Telling => FaultTold("fault", "coverage", degraded) /\ ModuleTold("coverage", CoverageState)
  BY <1>1, <1>3, <1>4, Zenon DEF TellAll, TellCoverage, CoverKey, CoverMod
<1>10. ModuleTold("dashboard", DashboardState)
  BY <1>1, <1>4, Zenon DEF TellAll, TellStart, DashMod
<1>11. <<"mode", "runtime">> \notin lost => LastRow("mode", "runtime").status = cfg.mode
  BY <1>1, <1>2, Zenon DEF TellAll, TellStart, StateTold, RuntimeKey
<1> QED BY <1>5, <1>6, <1>7, <1>8, <1>9, <1>10, <1>11, Zenon DEF HistoryTells, MediaState, CoverageState

\* The dashboard's history shows the process that runs: while it serves, the last
\* rows of the operations tables (eventstore operations.go) agree with what its disk
\* scan, polls, media worker and coverage requests saw last and with its mode, in
\* every interleaving and after every earlier process, unless an append failed.
THEOREM HistoryIsTrue == Spec => []HistoryTells
<1>1. Init => RowsOf(ledger) /\ PristineInv /\ PageInv /\ TellInv
  BY TellInit
<1>2. RunInv /\ RowsOf(ledger) /\ PristineInv /\ PageInv /\ TellInv /\ [Next]_vars
        => (RowsOf(ledger) /\ PristineInv /\ PageInv /\ TellInv)'
  BY RowsSame, PageKept, TellKept DEF RunInv
<1>3. TellInv => HistoryTells
  BY TellsHistory
<1> QED BY <1>1, <1>2, <1>3, RunAlways, PTL DEF Spec

=============================================================================
