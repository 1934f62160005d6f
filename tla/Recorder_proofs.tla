-------------------------- MODULE Recorder_proofs --------------------------
(***************************************************************************)
(* The composed media path keeps its types, and accepted media is never    *)
(* lost and never mixed up, for any number of sources, bodies, crashes,    *)
(* failed calls and damaged files.                                         *)
(***************************************************************************)
EXTENDS Recorder, SequenceTheorems, WellFoundedInduction, TLAPS

\* A nonempty set of numbers has a least element, so First returns a member.
LEMMA FirstIsLeast ==
  ASSUME NEW S, S \subseteq Nat, S # {}
  PROVE  First(S) \in S /\ \A j \in S : First(S) <= j
<1>1. PICK x \in S : \A y \in S : ~(<<y, x>> \in OpToRel(<, Nat))
  BY NatLessThanWellFounded, WFMin
<1>2. \A y \in S : ~(y < x)
  BY <1>1 DEF OpToRel
<1>3. \A y \in S : x <= y
  BY <1>2
<1> QED BY <1>3 DEF First

\* The scan order has a first element in every nonempty selection.
LEMMA NextCandidateSelected ==
  ASSUME TypeOK, selected # {}
  PROVE  NextCandidate \in selected
<1> DEFINE After == {s \in selected : s > scanCursor}
<1>1. selected \subseteq Nat /\ scanCursor \in Nat
  BY LedgerAssumption DEF TypeOK, WorkerTypeOK
<1>2. CASE After # {}
  <2>1. PICK m \in After : \A j \in After : m <= j
    BY <1>1, <1>2, FirstIsLeast
  <2>2. \A t \in selected \ {m} : Before(m, t)
    BY <1>1, <2>1 DEF Before
  <2> QED BY <2>1, <2>2 DEF NextCandidate
<1>3. CASE After = {}
  <2>1. PICK m \in selected : \A j \in selected : m <= j
    BY <1>1, FirstIsLeast
  <2>2. \A t \in selected \ {m} : Before(m, t)
    BY <1>1, <1>3, <2>1 DEF Before
  <2> QED BY <2>1, <2>2 DEF NextCandidate
<1> QED BY <1>2, <1>3

-----------------------------------------------------------------------------
(* Type correctness.                                                        *)

\* Every binding of an identity names a segment that exists.
LedgerOK ==
  /\ LedgerTypeOK
  /\ \A c \in claims : c.seg \in SegmentId

Processing == Label \ {"down", "off", "idle", "scan"}
Parsed     == Processing \ {"sign", "ready", "sidecar"}

\* What the locals of each goroutine hold at its labels.
WorkerLocalsOK ==
  /\ pc \in Processing => scanCursor \in Source
  /\ pc \in Parsed => sc \in Sidecar
  /\ claim \in SegmentId \cup {0}
  /\ pc = "project" => claim # 0 /\ stateId <= Len(stateEvents[claim])

OpsLocalsOK ==
  /\ opc \in {"remove", "commit"} => victim \in SegmentId
  /\ opc = "unlink" => victim \in Source
  /\ todo \subseteq SegmentId

EnvTypeOK ==
  /\ edits \in Nat /\ outages \in Nat /\ crashes \in Nat
  /\ damaged \subseteq Content

TypeInv ==
  /\ LedgerOK /\ InboxTypeOK /\ StoreTypeOK /\ WorkerTypeOK /\ RetentionTypeOK
  /\ EnvTypeOK /\ WorkerLocalsOK /\ OpsLocalsOK

\* Segments and their state events are only ever added.
LedgerGrows ==
  /\ Len(segments) <= Len(segments')
  /\ \A i \in SegmentId : Len(stateEvents[i]) <= Len(stateEvents'[i])

LEMMA TypeInvInit == Init => TypeInv
<1> SUFFICES ASSUME Init PROVE TypeInv
  OBVIOUS
<1> USE DEF Init
<1>1. LedgerOK
  BY DEF LedgerInit, LedgerOK, LedgerTypeOK, SegmentId, IngestEvent, NoEvent
<1>2. InboxTypeOK
  BY IngestAssumption DEF IngestInit, InboxTypeOK, File
<1>3. StoreTypeOK
  BY DEF IngestInit, StoreTypeOK, Body
<1>4. WorkerTypeOK
  BY DEF IngestInit, WorkerTypeOK, Label, Level
<1>5. RetentionTypeOK /\ EnvTypeOK
  BY DEF RetentionInit, RetentionTypeOK, EnvTypeOK
<1>6. WorkerLocalsOK /\ OpsLocalsOK
  BY DEF LedgerInit, IngestInit, RetentionInit, WorkerLocalsOK, OpsLocalsOK, Processing,
         Parsed, Label
<1> QED BY <1>1, <1>2, <1>3, <1>4, <1>5, <1>6 DEF TypeInv

LEMMA AppendKeepsLedger ==
  ASSUME LedgerOK, NEW s \in Source, NEW ev \in IngestEvent,
         ev.seg # 0 => ev.fp \in Sidecar /\ ev.seg \in SegmentId,
         NEW applied \in BOOLEAN, AppendMediaIngestEvent(s, ev, applied)
  PROVE  LedgerOK' /\ UNCHANGED <<segments, stateEvents>>
BY LedgerAssumption
   DEF LedgerOK, LedgerTypeOK, AppendMediaIngestEvent, InsertMediaIngestEvent, Latest,
       SegmentId, SidecarFields

IngestStatusName ==
  {"discovered", "pending", "failed", "validated", "quarantined", "accepted"}

LEMMA RecordKeepsLedger ==
  ASSUME LedgerOK, faults \in Nat, scanCursor \in Source,
         NEW fp \in Sidecar \cup {NoFile}, NEW status \in IngestStatusName,
         NEW temp \in BOOLEAN, NEW seg \in SegmentId \cup {0},
         seg # 0 => fp \in Sidecar,
         NEW done \in BOOLEAN, Record(fp, status, temp, seg, done)
  PROVE  LedgerOK' /\ UNCHANGED <<segments, stateEvents>> /\ faults' \in Nat
<1> DEFINE ev == [status |-> status, fp |-> fp, temp |-> temp, seg |-> seg]
<1>1. ev \in IngestEvent
  BY DEF IngestEvent, IngestStatusName, SegmentId, LedgerOK, LedgerTypeOK
<1>2. CASE UNCHANGED <<ledgerVars, faults>>
  BY <1>2 DEF ledgerVars, LedgerOK, LedgerTypeOK, SegmentId
<1>3. ASSUME NEW r \in StoreResult, StoreCall(r),
             IF r = "refused" THEN UNCHANGED ledgerVars
             ELSE AppendMediaIngestEvent(Cur, ev, done)
      PROVE  LedgerOK' /\ UNCHANGED <<segments, stateEvents>> /\ faults' \in Nat
  <2>1. faults' \in Nat
    BY <1>3 DEF StoreCall
  <2>2. CASE UNCHANGED ledgerVars
    BY <2>1, <2>2 DEF ledgerVars, LedgerOK, LedgerTypeOK, SegmentId
  <2>3. CASE AppendMediaIngestEvent(Cur, ev, done)
    BY <1>1, <2>1, <2>3, AppendKeepsLedger DEF Cur
  <2> QED BY <1>3, <2>2, <2>3
<1> QED BY <1>2, <1>3 DEF Record

LEMMA SameLedger ==
  ASSUME LedgerOK, UNCHANGED <<segments, stateEvents>>
  PROVE  LedgerGrows /\ (UNCHANGED ledgerVars => LedgerOK')
BY DEF LedgerGrows, LedgerOK, LedgerTypeOK, SegmentId, ledgerVars

LEMMA FinishKeepsLedger ==
  ASSUME LedgerOK, WorkerTypeOK, scanCursor \in Source,
         NEW fp \in Sidecar \cup {NoFile}, NEW status \in IngestStatusName,
         NEW temp \in BOOLEAN, NEW seg \in SegmentId \cup {0},
         seg # 0 => fp \in Sidecar,
         Finish(fp, status, temp, seg), UNCHANGED gateVars
  PROVE  LedgerOK' /\ LedgerGrows /\ WorkerTypeOK' /\ WorkerLocalsOK'
<1>1. PICK done \in BOOLEAN : Record(fp, status, temp, seg, done)
  BY DEF Finish
<1>2. LedgerOK' /\ UNCHANGED <<segments, stateEvents>> /\ faults' \in Nat
  BY <1>1, RecordKeepsLedger DEF WorkerTypeOK
<1>3. WorkerTypeOK' /\ WorkerLocalsOK'
  BY <1>2 DEF Finish, Return, WorkerTypeOK, WorkerLocalsOK, Label, gateVars, Processing, Parsed
<1> QED BY <1>2, <1>3, SameLedger

\* The worker's part of the type invariant after one of its steps.
WorkerGoal ==
  /\ LedgerOK' /\ LedgerGrows /\ WorkerTypeOK' /\ WorkerLocalsOK'

LEMMA ScanKeepsTypes ==
  ASSUME TypeInv, ScanStart \/ ScanNext \/ ScanEnd \/ SignConfirmation
  PROVE  WorkerGoal /\ InboxTypeOK' /\ StoreTypeOK'
<1> USE DEF TypeInv
<1>1. LedgerOK' /\ LedgerGrows /\ SegmentId' = SegmentId
  BY SameLedger DEF ScanStart, ScanNext, ScanEnd, SignConfirmation, ledgerVars, SegmentId
<1>2. InboxTypeOK' /\ StoreTypeOK'
  BY DEF InboxTypeOK, StoreTypeOK, ScanStart, ScanNext, ScanEnd, SignConfirmation,
         inboxVars, storeVars, Cur
<1>3. CASE ScanStart
  BY <1>1, <1>2, <1>3 DEF WorkerGoal, ScanStart, Select, WorkerTypeOK, WorkerLocalsOK, Label, gateVars,
       Processing, Parsed
<1>4. CASE ScanEnd
  BY <1>1, <1>2, <1>4 DEF WorkerGoal, ScanEnd, WorkerTypeOK, WorkerLocalsOK, Label, gateVars,
       Processing, Parsed
<1>5. CASE ScanNext
  <2>1. NextCandidate \in selected
    BY <1>5, NextCandidateSelected DEF TypeOK, ScanNext, LedgerOK, EnvTypeOK
  <2> QED BY <1>1, <1>2, <1>5, <2>1
            DEF WorkerGoal, ScanNext, StoreCall, WorkerTypeOK, WorkerLocalsOK, Label, gateVars,
                Processing, Parsed
<1>6. CASE SignConfirmation
  BY <1>1, <1>2, <1>6 DEF WorkerGoal, SignConfirmation, StoreCall, Return, Goto, WorkerTypeOK,
       WorkerLocalsOK, Label, gateVars, Processing, Parsed
<1> QED BY <1>2, <1>3, <1>4, <1>5, <1>6

\* A claim names an existing segment, or says that nobody has the identity or body.
LEMMA ClaimNamesSegment ==
  ASSUME LedgerOK, NEW id, NEW h, NEW m
  PROVE  LET found == ResolveMediaClaim(id, h, m) IN
           /\ found.status \in {"none", "duplicate", "conflict"}
           /\ found.status # "none" => found.seg \in SegmentId
           /\ found.status = "none" => WithBody(h) = {}
<1>1. ClaimedBy(id) \subseteq SegmentId /\ WithBody(h) \subseteq SegmentId
  BY DEF ClaimedBy, WithBody, LedgerOK
<1>2. SegmentId \subseteq Nat
  BY DEF SegmentId, LedgerOK, LedgerTypeOK
<1>3. ClaimedBy(id) # {} => First(ClaimedBy(id)) \in SegmentId
  BY <1>1, <1>2, FirstIsLeast
<1>4. WithBody(h) # {} => First(WithBody(h)) \in SegmentId
  BY <1>1, <1>2, FirstIsLeast
<1> QED BY <1>3, <1>4 DEF ResolveMediaClaim

LEMMA ReadKeepsTypes ==
  ASSUME TypeInv, Discover \/ ReadSidecar \/ FirstStat \/ SecondStat
  PROVE  WorkerGoal /\ InboxTypeOK' /\ StoreTypeOK'
<1> USE DEF TypeInv
<1>1. InboxTypeOK' /\ StoreTypeOK' /\ UNCHANGED gateVars
  BY DEF InboxTypeOK, StoreTypeOK, Discover, ReadSidecar, FirstStat, SecondStat,
         inboxVars, storeVars
<1>2. scanCursor \in Source
  BY DEF WorkerLocalsOK, Processing, Label, Discover, ReadSidecar, FirstStat, SecondStat
<1>3. ASSUME NEW fp \in Sidecar \cup {NoFile}, NEW status \in IngestStatusName,
             Finish(fp, status, FALSE, 0)
      PROVE  WorkerGoal
  BY <1>1, <1>2, <1>3, FinishKeepsLedger DEF WorkerGoal
<1>4. ASSUME UNCHANGED ledgerVars, faults' \in Nat, Return
      PROVE  WorkerGoal
  BY <1>1, <1>4, SameLedger
     DEF ledgerVars, WorkerGoal, Return, WorkerTypeOK, WorkerLocalsOK, Label, gateVars,
         Processing, Parsed
<1>5. CASE Discover
  <2>1. CASE UNCHANGED <<ledgerVars, faults>> /\ Return
    BY <1>1, <1>4, <2>1 DEF WorkerTypeOK
  <2>2. ASSUME NEW done \in BOOLEAN, Record(NoFile, "discovered", FALSE, 0, done),
               IF done THEN Goto("sidecar") /\ UNCHANGED <<sc, first, claim, stateId>>
               ELSE Return
        PROVE  WorkerGoal
    <3>1. LedgerOK' /\ UNCHANGED <<segments, stateEvents>> /\ faults' \in Nat
      BY <1>2, <2>2, RecordKeepsLedger DEF WorkerTypeOK, IngestStatusName
    <3> QED BY <1>1, <1>2, <1>5, <2>2, <3>1, SameLedger
              DEF WorkerGoal, Discover, Return, Goto, WorkerTypeOK, WorkerLocalsOK, Label,
                  gateVars, Processing, Parsed, SegmentId
  <2> QED BY <1>1, <1>5, <2>1, <2>2 DEF Discover
<1>6. CASE ReadSidecar
  <2> DEFINE x == sidecar[Cur]
  <2>1. x \in Sidecar \cup {NoFile}
    BY <1>2 DEF InboxTypeOK, Cur
  <2>2. CASE \/ Finish(NoFile, "pending", FALSE, 0)
             \/ Finish(NoFile, "failed", FALSE, 0)
             \/ Finish(x, "pending", FALSE, 0)
    BY <1>1, <1>3, <2>1, <2>2 DEF IngestStatusName
  <2>3. CASE Return /\ UNCHANGED ledgerVars /\ faults' \in {faults, faults + 1}
    BY <1>1, <1>4, <2>3 DEF WorkerTypeOK
  <2>4. CASE /\ x # NoFile /\ sc' = x
             /\ Goto(IF x.form = "ok" THEN "stat" ELSE "quarantine")
             /\ UNCHANGED <<ledgerVars, faults, first, claim, stateId>>
    BY <1>1, <1>2, <2>1, <2>4, SameLedger
       DEF WorkerGoal, Goto, WorkerTypeOK, WorkerLocalsOK, Label, gateVars, ledgerVars,
           Processing, Parsed, SegmentId
  <2> QED BY <1>6, <2>2, <2>3, <2>4 DEF ReadSidecar
<1>7. sc \in Sidecar \/ Discover \/ ReadSidecar
  BY DEF WorkerLocalsOK, Parsed, Processing, Label, FirstStat, SecondStat
<1>8. ASSUME NEW l \in {"settle", "copy", "quarantine"}, sc \in Sidecar, Goto(l),
             first' \in File \cup {NoFile},
             UNCHANGED <<ledgerVars, faults, sc, claim, stateId>>
      PROVE  WorkerGoal
  BY <1>1, <1>2, <1>8, SameLedger
     DEF WorkerGoal, Goto, WorkerTypeOK, WorkerLocalsOK, Label, gateVars, ledgerVars,
         Processing, Parsed, SegmentId
<1>9. CASE FirstStat /\ sc \in Sidecar
  <2>1. media[Cur] \in File
    BY <1>2 DEF InboxTypeOK, Cur
  <2> QED BY <1>1, <1>3, <1>8, <1>9, <2>1 DEF FirstStat, IngestStatusName
<1>10. CASE SecondStat /\ sc \in Sidecar
  <2>1. CASE Finish(sc, "pending", FALSE, 0)
    BY <1>1, <1>3, <1>10, <2>1 DEF IngestStatusName
  <2>2. CASE /\ Goto(IF Size[first.body] = sc.size THEN "copy" ELSE "quarantine")
             /\ UNCHANGED <<ledgerVars, faults, sc, first, claim, stateId>>
    BY <1>1, <1>8, <1>10, <2>2 DEF WorkerTypeOK
  <2> QED BY <1>10, <2>1, <2>2 DEF SecondStat
<1> QED BY <1>5, <1>6, <1>7, <1>9, <1>10

-----------------------------------------------------------------------------
(* The ways a step of ProcessReady ends.                                    *)

LEMMA ReturnGoal ==
  ASSUME TypeInv, Return, UNCHANGED gateVars, LedgerOK', LedgerGrows, faults' \in Nat
  PROVE  WorkerGoal
BY DEF TypeInv, WorkerGoal, Return, WorkerTypeOK, WorkerLocalsOK, Label, gateVars,
       Processing, Parsed

LEMMA GotoGoal ==
  ASSUME TypeInv, NEW l \in Parsed \ {"project"}, Goto(l), pc \in Parsed,
         UNCHANGED gateVars, LedgerOK', UNCHANGED <<segments, stateEvents>>,
         faults' \in Nat, UNCHANGED <<sc, stateId>>,
         first' \in File \cup {NoFile}, claim' \in SegmentId \cup {0}
  PROVE  WorkerGoal
BY SameLedger
   DEF TypeInv, WorkerGoal, Goto, WorkerTypeOK, WorkerLocalsOK, Label, gateVars,
       Processing, Parsed, SegmentId

LEMMA FinishGoal ==
  ASSUME TypeInv, pc \in Parsed, UNCHANGED gateVars,
         NEW status \in IngestStatusName, NEW temp \in BOOLEAN,
         NEW seg \in {0, claim}, Finish(sc, status, temp, seg)
  PROVE  WorkerGoal
BY FinishKeepsLedger DEF TypeInv, WorkerGoal, WorkerLocalsOK, Parsed, Processing

\* The inbox and the ledger of a step that only touches files.
LEMMA SameTables ==
  ASSUME TypeInv, UNCHANGED ledgerVars
  PROVE  LedgerOK' /\ LedgerGrows /\ UNCHANGED <<segments, stateEvents>>
BY SameLedger DEF TypeInv, ledgerVars

LEMMA SameInbox ==
  ASSUME TypeInv, UNCHANGED inboxVars
  PROVE  InboxTypeOK'
BY DEF TypeInv, InboxTypeOK, inboxVars

LEMMA StaleKeepsType ==
  ASSUME check \in [Source -> {"none", "confirmed", "quarantined"}], NEW S, NEW kinds
  PROVE  Stale(S, kinds) \in [Source -> {"none", "confirmed", "quarantined"}]
BY DEF Stale

LEMMA CopyKeepsTypes ==
  ASSUME TypeInv, CopyStart \/ CopyEnd
  PROVE  WorkerGoal /\ InboxTypeOK' /\ StoreTypeOK'
<1>1. InboxTypeOK' /\ UNCHANGED gateVars
  BY SameInbox DEF CopyStart, CopyEnd
<1>2. pc \in Parsed /\ Cur \in Source /\ faults \in Nat
  BY DEF TypeInv, WorkerTypeOK, WorkerLocalsOK, CopyStart, CopyEnd, Parsed, Processing, Label, Cur
<1>4. CASE CopyStart
  <2>1. StoreTypeOK'
    BY <1>2, <1>4 DEF TypeInv, StoreTypeOK, CopyStart, Body
  <2>2. CASE Return /\ UNCHANGED <<ledgerVars, faults>>
    BY <1>1, <1>2, <2>1, <2>2, ReturnGoal, SameTables
  <2>3. CASE Finish(sc, "failed", TRUE, 0)
    BY <1>1, <1>2, <2>1, <2>3, FinishGoal DEF IngestStatusName
  <2>4. CASE /\ first' = media[Cur] /\ Goto("copying")
             /\ UNCHANGED <<ledgerVars, faults, sc, claim, stateId>>
    <3>1. first' \in File \cup {NoFile} /\ claim' \in SegmentId \cup {0}
      BY <1>2, <2>4 DEF TypeInv, InboxTypeOK, WorkerLocalsOK
    <3>2. "copying" \in Parsed \ {"project"}
      BY DEF Parsed, Processing, Label
    <3> QED BY <1>1, <1>2, <2>1, <2>4, <3>1, <3>2, GotoGoal, SameTables
  <2> QED BY <1>1, <1>4, <2>1, <2>2, <2>3, <2>4 DEF CopyStart
<1>5. CASE CopyEnd
  <2>1. StoreTypeOK'
    <3>1. media[Cur] \in File
      BY <1>2 DEF TypeInv, InboxTypeOK
    <3>2. (IF media[Cur] = first THEN first.body ELSE Torn) \in Body
      BY <3>1 DEF File, Body
    <3>3. staging' \in [Source -> Body]
      BY <1>2, <1>5, <3>2 DEF TypeInv, StoreTypeOK, CopyEnd
    <3> QED BY <1>5, <3>3 DEF TypeInv, StoreTypeOK, CopyEnd
  <2>2. CASE Return /\ UNCHANGED <<ledgerVars, faults>>
    BY <1>1, <1>2, <2>1, <2>2, ReturnGoal, SameTables
  <2>3. CASE Finish(sc, "failed", TRUE, 0)
    BY <1>1, <1>2, <2>1, <2>3, FinishGoal DEF IngestStatusName
  <2>4. ASSUME NEW l \in {"probe", "quarantineStaged"}, Goto(l), first' = NoFile,
               UNCHANGED <<ledgerVars, faults, sc, claim, stateId>>
        PROVE  WorkerGoal
    <3>1. claim' \in SegmentId \cup {0}
      BY <2>4 DEF TypeInv, WorkerLocalsOK
    <3>2. l \in Parsed \ {"project"}
      BY DEF Parsed, Processing, Label
    <3> QED BY <1>1, <1>2, <2>1, <2>4, <3>1, <3>2, GotoGoal, SameTables
  <2> QED BY <1>1, <1>5, <2>1, <2>2, <2>3, <2>4 DEF CopyEnd
<1> QED BY <1>4, <1>5

LEMMA ProbeKeepsTypes ==
  ASSUME TypeInv, ProbeMedia \/ ResolveClaim
  PROVE  WorkerGoal /\ InboxTypeOK' /\ StoreTypeOK'
<1>1. InboxTypeOK' /\ StoreTypeOK' /\ UNCHANGED gateVars
  BY SameInbox DEF TypeInv, StoreTypeOK, ProbeMedia, ResolveClaim, storeVars
<1>2. pc \in Parsed /\ Cur \in Source /\ faults \in Nat /\ sc \in Sidecar
  BY DEF TypeInv, WorkerTypeOK, WorkerLocalsOK, ProbeMedia, ResolveClaim, Parsed, Processing,
         Label, Cur
<1>3. ASSUME NEW l \in {"quarantineStaged", "claim", "install", "existing"}, Goto(l),
             LedgerOK', UNCHANGED <<segments, stateEvents>>, faults' \in Nat,
             claim' \in SegmentId \cup {0}, UNCHANGED <<sc, first, stateId>>
      PROVE  WorkerGoal
  <2>1. l \in Parsed \ {"project"} /\ first' \in File \cup {NoFile}
    BY <1>3 DEF TypeInv, WorkerTypeOK, Parsed, Processing, Label
  <2> QED BY <1>1, <1>2, <1>3, <2>1, GotoGoal
<1>4. claim \in SegmentId \cup {0}
  BY DEF TypeInv, WorkerLocalsOK
<1>5. ASSUME ProbeMedia PROVE WorkerGoal
  <2>1. CASE Finish(sc, "pending", TRUE, 0)
    BY <1>1, <1>2, <2>1, FinishGoal DEF IngestStatusName
  <2>2. CASE /\ Goto("quarantineStaged")
             /\ UNCHANGED <<ledgerVars, faults, sc, first, claim, stateId>>
    BY <1>2, <1>3, <1>4, <2>2, SameTables
  <2>3. ASSUME NEW done \in BOOLEAN, Record(sc, "validated", TRUE, 0, done),
               IF done THEN Goto("claim") /\ UNCHANGED <<sc, first, claim, stateId>>
               ELSE Return
        PROVE  WorkerGoal
    <3>1. LedgerOK' /\ UNCHANGED <<segments, stateEvents>> /\ faults' \in Nat
      BY <1>2, <2>3, RecordKeepsLedger DEF TypeInv, IngestStatusName, Cur
    <3>2. LedgerGrows
      BY <3>1, SameLedger DEF TypeInv
    <3> QED BY <1>1, <1>3, <1>4, <2>3, <3>1, <3>2, ReturnGoal
  <2> QED BY <1>5, <2>1, <2>2, <2>3 DEF ProbeMedia
<1>6. ASSUME ResolveClaim PROVE WorkerGoal
  <2> DEFINE found == ResolveMediaClaim(sc.ident, sc.sha, sc.meta)
             ev == [status |-> "failed", fp |-> sc, temp |-> TRUE, seg |-> 0]
  <2>1. CASE /\ claim' = IF found.status = "duplicate" THEN found.seg ELSE 0
             /\ Goto(AfterClaim(found.status))
             /\ UNCHANGED <<ledgerVars, faults, sc, first, stateId>>
    <3>1. claim' \in SegmentId \cup {0}
      BY <2>1, ClaimNamesSegment DEF TypeInv
    <3>2. AfterClaim(found.status) \in {"quarantineStaged", "install", "existing"}
      BY DEF AfterClaim
    <3> QED BY <1>2, <1>3, <2>1, <3>1, <3>2, SameTables
  <2>2. CASE /\ faults' = faults + 1 /\ Return
             /\ IF CoreWritesAllowed THEN AppendMediaIngestEvent(Cur, ev, TRUE)
                ELSE UNCHANGED ledgerVars
    <3>1. ev \in IngestEvent /\ ev.seg = 0
      BY <1>2 DEF IngestEvent
    <3>2. LedgerOK' /\ LedgerGrows
      BY <1>2, <2>2, <3>1, AppendKeepsLedger, SameLedger, SameTables DEF TypeInv
    <3> QED BY <1>1, <1>2, <2>2, <3>2, ReturnGoal
  <2> QED BY <1>6, <2>1, <2>2 DEF ResolveClaim
<1> QED BY <1>1, <1>5, <1>6

LEMMA InstallKeepsTypes ==
  ASSUME TypeInv, ReuseAccepted \/ InstallAccepted
  PROVE  WorkerGoal /\ InboxTypeOK' /\ StoreTypeOK'
<1>1. InboxTypeOK' /\ UNCHANGED gateVars
  BY SameInbox DEF ReuseAccepted, InstallAccepted
<1>2. pc \in Parsed /\ Cur \in Source /\ faults \in Nat /\ sc \in Sidecar
  BY DEF TypeInv, WorkerTypeOK, WorkerLocalsOK, ReuseAccepted, InstallAccepted, Parsed,
         Processing, Label, Cur
<1>3. sc.sha \in Content
  BY <1>2, LedgerAssumption DEF SidecarFields
<1>4. StoreTypeOK'
  <2>1. staging' \in [Source -> Body] /\ accepted' \in [Content -> Body]
    <3>1. /\ staging \in [Source -> Body] /\ staging[Cur] \in Body /\ NoFile \in Body
          /\ accepted \in [Content -> Body]
      BY <1>2 DEF TypeInv, StoreTypeOK, Body
    <3>2. CASE ReuseAccepted
      BY <1>2, <3>1, <3>2 DEF ReuseAccepted
    <3>3. CASE InstallAccepted
      <4>1. \/ UNCHANGED <<accepted, staging>>
            \/ /\ staging' = [staging EXCEPT ![Cur] = NoFile]
               /\ accepted' \in {accepted, [accepted EXCEPT ![sc.sha] = staging[Cur]]}
        BY <3>3 DEF InstallAccepted
      <4> QED BY <1>2, <1>3, <3>1, <4>1
    <3> QED BY <3>2, <3>3
  <2>2. check' \in [Source -> {"none", "confirmed", "quarantined"}]
    <3>1. check' \in {check, Stale(Stamping(sc.sha), {"confirmed"})}
      BY DEF ReuseAccepted, InstallAccepted
    <3> QED BY <3>1, StaleKeepsType DEF TypeInv, StoreTypeOK
  <2> QED BY <2>1, <2>2 DEF TypeInv, StoreTypeOK, ReuseAccepted, InstallAccepted
<1>5. CASE Goto("accept") /\ UNCHANGED <<ledgerVars, faults, sc, first, claim, stateId>>
  <2>1. first' \in File \cup {NoFile} /\ claim' \in SegmentId \cup {0}
    BY <1>5 DEF TypeInv, WorkerTypeOK, WorkerLocalsOK
  <2>2. "accept" \in Parsed \ {"project"}
    BY DEF Parsed, Processing, Label
  <2> QED BY <1>1, <1>2, <1>4, <1>5, <2>1, <2>2, GotoGoal, SameTables
<1>6. CASE Finish(sc, "failed", TRUE, claim)
  BY <1>1, <1>2, <1>4, <1>6, FinishGoal DEF IngestStatusName
<1> QED BY <1>5, <1>6 DEF ReuseAccepted, InstallAccepted

LEMMA AcceptKeepsLedger ==
  ASSUME LedgerOK, NEW s \in Source, NEW x \in Sidecar, AcceptMedia(s, x)
  PROVE  /\ LedgerOK' /\ LedgerGrows
         /\ LET found == ResolveMediaClaim(x.ident, x.sha, x.meta)
                id == IF found.status = "none" THEN Len(segments) + 1 ELSE found.seg
            IN  id \in SegmentId' /\ stateEvents'[id] =
                  IF found.status = "none" THEN <<"accepted">> ELSE stateEvents[id]
<1> DEFINE found == ResolveMediaClaim(x.ident, x.sha, x.meta)
           new == found.status = "none"
           id == IF new THEN Len(segments) + 1 ELSE found.seg
           ev == [status |-> "accepted", fp |-> x, temp |-> FALSE, seg |-> id]
<1>1. x.ident \in Ident /\ x.sha \in Content /\ x.meta \in Meta
  BY LedgerAssumption DEF SidecarFields
<1>2. InsertMediaIngestEvent(s, ev) /\ UNCHANGED ingestStatus
  BY DEF AcceptMedia
<1>3. ~new => id \in SegmentId
  BY ClaimNamesSegment
<1>4. id \in Nat \ {0}
  BY <1>3 DEF LedgerOK, LedgerTypeOK, SegmentId
<1>5. lastEvent' \in [Source -> IngestEvent]
  BY <1>2, <1>4 DEF InsertMediaIngestEvent, Latest, LedgerOK, LedgerTypeOK, IngestEvent
<1>6. claims' = claims \cup {[ident |-> x.ident, seg |-> id]}
  BY <1>2, <1>4 DEF InsertMediaIngestEvent
<1> HIDE DEF found, id
<1>7. CASE new
  <2>1. /\ segments' = Append(segments, [ident |-> x.ident, sha |-> x.sha, meta |-> x.meta])
        /\ stateEvents' = Append(stateEvents, <<"accepted">>)
        /\ segStatus' = Append(segStatus, 0)
        /\ retention' = Append(retention, "none")
        /\ id = Len(segments) + 1
    BY <1>7 DEF AcceptMedia, found, id
  <2>2. /\ segments' \in Seq(Segment) /\ Len(segments') = Len(segments) + 1
        /\ stateEvents' \in Seq(Seq(StateName)) /\ Len(stateEvents') = Len(stateEvents) + 1
        /\ segStatus' \in Seq(Nat) /\ Len(segStatus') = Len(segStatus) + 1
        /\ retention' \in Seq({"none", "planned", "failed", "deleted"})
        /\ Len(retention') = Len(retention) + 1
    BY <1>1, <2>1 DEF LedgerOK, LedgerTypeOK, Segment, StateName
  <2>3. SegmentId = 1 .. Len(segments) /\ SegmentId' = 1 .. Len(segments) + 1
    BY <2>2 DEF SegmentId, LedgerOK, LedgerTypeOK
  <2>4. /\ \A i \in SegmentId : stateEvents'[i] = stateEvents[i] /\ segStatus'[i] = segStatus[i]
        /\ stateEvents'[id] = <<"accepted">> /\ segStatus'[id] = 0
    BY <2>1, <2>3 DEF LedgerOK, LedgerTypeOK
  <2>5. \A i \in SegmentId' : segStatus'[i] \in 0 .. Len(stateEvents'[i])
    BY <2>1, <2>3, <2>4 DEF LedgerOK, LedgerTypeOK
  <2>6. LedgerTypeOK'
    BY <1>1, <1>2, <1>4, <1>5, <1>6, <2>2, <2>5 DEF LedgerOK, LedgerTypeOK
  <2>7. \A c \in claims' : c.seg \in SegmentId'
    BY <1>6, <2>1, <2>3, <1>4 DEF LedgerOK
  <2>8. LedgerGrows
    BY <2>2, <2>4 DEF LedgerGrows, LedgerOK, LedgerTypeOK
  <2>9. id \in SegmentId'
    BY <1>4, <2>1, <2>3 DEF LedgerOK, LedgerTypeOK
  <2> QED BY <1>7, <2>4, <2>6, <2>7, <2>8, <2>9 DEF LedgerOK, found, id
<1>8. CASE ~new
  <2>1. UNCHANGED <<segments, stateEvents, segStatus, retention>>
    BY <1>8 DEF AcceptMedia, found
  <2>2. LedgerTypeOK'
    BY <1>1, <1>2, <1>4, <1>5, <1>6, <2>1 DEF LedgerOK, LedgerTypeOK, SegmentId
  <2>3. \A c \in claims' : c.seg \in SegmentId'
    BY <1>3, <1>6, <1>8, <2>1 DEF LedgerOK, SegmentId
  <2> QED BY <1>3, <1>8, <2>1, <2>2, <2>3, SameLedger DEF LedgerOK, SegmentId, found, id
<1> QED BY <1>7, <1>8

LEMMA CommitKeepsTypes ==
  ASSUME TypeInv, CommitAcceptance
  PROVE  WorkerGoal /\ InboxTypeOK' /\ StoreTypeOK'
<1>1. InboxTypeOK' /\ StoreTypeOK' /\ UNCHANGED gateVars
  BY SameInbox DEF TypeInv, StoreTypeOK, CommitAcceptance, storeVars
<1>2. Cur \in Source /\ faults \in Nat /\ sc \in Sidecar /\ first \in File \cup {NoFile}
  BY DEF TypeInv, WorkerTypeOK, WorkerLocalsOK, CommitAcceptance, Parsed, Processing, Label, Cur
<1>3. CASE Return /\ faults' \in {faults, faults + 1} /\ UNCHANGED ledgerVars
  BY <1>1, <1>2, <1>3, ReturnGoal, SameTables
<1>4. CASE /\ AcceptMedia(Cur, sc) /\ Goto("project") /\ UNCHANGED <<faults, sc, first>>
           /\ LET found == ResolveMediaClaim(sc.ident, sc.sha, sc.meta) IN
                /\ claim' = IF found.status = "none" THEN Len(segments) + 1 ELSE found.seg
                /\ stateId' = IF found.status = "none" THEN 1 ELSE Len(stateEvents[found.seg])
  <2> DEFINE found == ResolveMediaClaim(sc.ident, sc.sha, sc.meta)
  <2>1. /\ LedgerOK' /\ LedgerGrows /\ claim' \in SegmentId'
        /\ stateEvents'[claim'] =
             IF found.status = "none" THEN <<"accepted">> ELSE stateEvents[claim']
    BY <1>2, <1>4, AcceptKeepsLedger DEF TypeInv
  <2>2. claim' \in Nat \ {0} /\ stateEvents'[claim'] \in Seq(StateName)
    <3>1. /\ segments' \in Seq(Segment) /\ stateEvents' \in Seq(Seq(StateName))
          /\ Len(stateEvents') = Len(segments')
      BY <2>1 DEF LedgerOK, LedgerTypeOK
    <3>2. claim' \in 1 .. Len(segments')
      BY <2>1, <3>1 DEF SegmentId
    <3> QED BY <3>1, <3>2
  <2>3. stateId' = Len(stateEvents'[claim'])
    BY <1>4, <2>1
  <2>4. stateId' \in Nat
    BY <2>2, <2>3
  <2>5. WorkerTypeOK'
    BY <1>1, <1>2, <1>4, <2>2, <2>4 DEF TypeInv, WorkerTypeOK, Goto, Label, gateVars
  <2>6. WorkerLocalsOK'
    <3>1. stateId' <= Len(stateEvents'[claim'])
      BY <2>3, <2>4
    <3>2. scanCursor' \in Source /\ sc' \in Sidecar
      BY <1>2, <1>4 DEF Goto, Cur
    <3> QED BY <2>1, <2>2, <3>1, <3>2 DEF WorkerLocalsOK
  <2> QED BY <1>1, <2>1, <2>5, <2>6 DEF WorkerGoal
<1> QED BY <1>2, <1>3, <1>4 DEF CommitAcceptance

LEMMA ProjectKeepsTypes ==
  ASSUME TypeInv, ProjectAcceptance
  PROVE  WorkerGoal /\ InboxTypeOK' /\ StoreTypeOK'
<1>1. InboxTypeOK' /\ StoreTypeOK' /\ UNCHANGED gateVars
  BY SameInbox DEF TypeInv, StoreTypeOK, ProjectAcceptance, storeVars
<1>2. /\ Cur \in Source /\ faults \in Nat /\ pc \in Parsed
      /\ claim \in SegmentId /\ stateId \in Nat /\ stateId <= Len(stateEvents[claim])
  BY DEF TypeInv, WorkerTypeOK, WorkerLocalsOK, ProjectAcceptance, Parsed, Processing, Label, Cur
<1>3. PICK r \in StoreResult :
        /\ StoreCall(r)
        /\ ingestStatus' = IF r = "refused" THEN ingestStatus
                           ELSE [ingestStatus EXCEPT ![Cur] = lastEvent[Cur]]
        /\ segStatus' = IF r = "ok" THEN [segStatus EXCEPT ![claim] = Newer(claim, stateId)]
                        ELSE segStatus
        /\ IF r = "ok" THEN Goto("confirm") /\ UNCHANGED <<sc, first, claim, stateId>>
           ELSE Return
  BY DEF ProjectAcceptance
<1>4. UNCHANGED <<segments, stateEvents, claims, lastEvent, retention>> /\ SegmentId' = SegmentId
  BY DEF ProjectAcceptance, SegmentId
<1>5. ingestStatus' \in [Source -> IngestEvent]
  BY <1>2, <1>3 DEF TypeInv, LedgerOK, LedgerTypeOK
<1>6. Newer(claim, stateId) \in 0 .. Len(stateEvents[claim])
  BY <1>2 DEF Newer, TypeInv, LedgerOK, LedgerTypeOK
<1>7. /\ segStatus' \in Seq(Nat) /\ Len(segStatus') = Len(segStatus)
      /\ \A i \in SegmentId : segStatus'[i] \in 0 .. Len(stateEvents[i])
  <2>1. CASE segStatus' = segStatus
    BY <2>1 DEF TypeInv, LedgerOK, LedgerTypeOK
  <2>2. CASE segStatus' = [segStatus EXCEPT ![claim] = Newer(claim, stateId)]
    <3>1. Newer(claim, stateId) \in Nat /\ segStatus \in Seq(Nat)
          /\ claim \in 1 .. Len(segStatus) /\ SegmentId = 1 .. Len(segStatus)
      BY <1>2, <1>6 DEF TypeInv, LedgerOK, LedgerTypeOK, SegmentId
    <3>2. segStatus' \in Seq(Nat) /\ Len(segStatus') = Len(segStatus)
      BY <2>2, <3>1, ExceptSeq
    <3>3. \A i \in SegmentId :
            segStatus'[i] = IF i = claim THEN Newer(claim, stateId) ELSE segStatus[i]
      BY <2>2, <3>1
    <3> QED BY <1>6, <3>2, <3>3 DEF TypeInv, LedgerOK, LedgerTypeOK
  <2> QED BY <1>3, <2>1, <2>2
<1>8. LedgerOK' /\ LedgerGrows
  BY <1>4, <1>5, <1>7 DEF TypeInv, LedgerOK, LedgerTypeOK, LedgerGrows
<1>9. faults' \in Nat
  BY <1>2, <1>3 DEF StoreCall
<1>10. CASE Return
  BY <1>1, <1>8, <1>9, <1>10, ReturnGoal
<1>11. CASE Goto("confirm") /\ UNCHANGED <<sc, first, claim, stateId>>
  <2>1. first' \in File \cup {NoFile} /\ claim' \in SegmentId \cup {0}
    BY <1>2, <1>11 DEF TypeInv, WorkerTypeOK
  <2>2. "confirm" \in Parsed \ {"project"}
    BY DEF Parsed, Processing, Label
  <2> QED BY <1>1, <1>2, <1>4, <1>8, <1>9, <1>11, <2>1, <2>2, GotoGoal
<1> QED BY <1>3, <1>10, <1>11

LEMMA ConfirmKeepsTypes ==
  ASSUME TypeInv, ClearConfirmation \/ WriteConfirmation
  PROVE  WorkerGoal /\ InboxTypeOK' /\ StoreTypeOK'
<1>1. UNCHANGED <<ledgerVars, faults, gateVars>>
  BY DEF ClearConfirmation, WriteConfirmation
<1>2. /\ Cur \in Source /\ faults \in Nat /\ sc \in Sidecar /\ pc \in Parsed
      /\ claim \in SegmentId \cup {0} /\ claim \in Nat
  BY DEF TypeInv, WorkerTypeOK, WorkerLocalsOK, ClearConfirmation, WriteConfirmation, Parsed,
         Processing, Label, Cur
<1>3. InboxTypeOK'
  <2>1. conf' \in [Source -> [fp : Sidecar, seg : Nat] \cup {NoFile}]
    BY <1>2 DEF TypeInv, InboxTypeOK, ClearConfirmation, WriteConfirmation
  <2> QED BY <2>1 DEF TypeInv, InboxTypeOK, ClearConfirmation, WriteConfirmation
<1>4. StoreTypeOK'
  <2>1. check' \in {check, Stale({Cur}, {"confirmed"})}
    BY DEF ClearConfirmation, WriteConfirmation
  <2>2. check' \in [Source -> {"none", "confirmed", "quarantined"}]
    BY <2>1, StaleKeepsType DEF TypeInv, StoreTypeOK
  <2> QED BY <2>2 DEF TypeInv, StoreTypeOK, ClearConfirmation, WriteConfirmation, storeVars
<1>5. CASE Return
  BY <1>1, <1>2, <1>3, <1>4, <1>5, ReturnGoal, SameTables
<1>6. CASE Goto("rename") /\ UNCHANGED <<sc, first, claim, stateId>>
  <2>1. first' \in File \cup {NoFile} /\ claim' \in SegmentId \cup {0}
    BY <1>2, <1>6 DEF TypeInv, WorkerTypeOK
  <2>2. "rename" \in Parsed \ {"project"}
    BY DEF Parsed, Processing, Label
  <2> QED BY <1>1, <1>2, <1>3, <1>4, <1>6, <2>1, <2>2, GotoGoal, SameTables
<1> QED BY <1>5, <1>6 DEF ClearConfirmation, WriteConfirmation

LEMMA QuarantineKeepsTypes ==
  ASSUME TypeInv, Quarantine \/ NoteReason \/ RememberTerminal
  PROVE  WorkerGoal /\ InboxTypeOK' /\ StoreTypeOK'
<1>1. InboxTypeOK' /\ UNCHANGED gateVars
  BY SameInbox DEF Quarantine, NoteReason, RememberTerminal
<1>2. /\ Cur \in Source /\ faults \in Nat /\ sc \in Sidecar /\ pc \in Parsed
      /\ claim \in SegmentId \cup {0} /\ first \in File \cup {NoFile}
  BY DEF TypeInv, WorkerTypeOK, WorkerLocalsOK, Quarantine, NoteReason, RememberTerminal,
         Parsed, Processing, Label, Cur
<1>3. <<Cur, sc>> \in Source \X Sidecar
  BY <1>2
<1>4. ASSUME NEW l \in {"note", "remember"}, Goto(l), LedgerOK', faults' \in Nat,
             UNCHANGED <<segments, stateEvents, sc, first, claim, stateId>>
      PROVE  WorkerGoal
  <2>1. l \in Parsed \ {"project"} /\ claim' \in SegmentId \cup {0}
        /\ first' \in File \cup {NoFile}
    BY <1>2, <1>4 DEF Parsed, Processing, Label
  <2> QED BY <1>1, <1>2, <1>4, <2>1, GotoGoal
<1>5. CASE Quarantine
  <2>1. staging' \in [Source -> Body]
    BY <1>2, <1>5 DEF TypeInv, StoreTypeOK, Quarantine, Body
  <2>2. quar' \in [Source \X Sidecar -> [body : Body, noted : BOOLEAN]]
    <3>1. staging[Cur] \in Body /\ media[Cur].body \in Body
      BY <1>2 DEF TypeInv, StoreTypeOK, InboxTypeOK, Body, File
    <3>2. \/ UNCHANGED quar
          \/ quar' = [quar EXCEPT ![<<Cur, sc>>].body = staging[Cur]]
          \/ quar' = [quar EXCEPT ![<<Cur, sc>>].body = media[Cur].body]
      BY <1>5 DEF Quarantine
    <3>3. ASSUME NEW b \in Body
          PROVE  [quar EXCEPT ![<<Cur, sc>>].body = b]
                   \in [Source \X Sidecar -> [body : Body, noted : BOOLEAN]]
      BY <1>3 DEF TypeInv, StoreTypeOK
    <3>4. quar \in [Source \X Sidecar -> [body : Body, noted : BOOLEAN]]
      BY DEF TypeInv, StoreTypeOK
    <3> QED BY <3>1, <3>2, <3>3, <3>4
  <2>3. check' \in [Source -> {"none", "confirmed", "quarantined"}]
    <3>1. check' \in {check, Stale({Cur}, {"quarantined"})}
      BY <1>5 DEF Quarantine
    <3> QED BY <3>1, StaleKeepsType DEF TypeInv, StoreTypeOK
  <2>4. StoreTypeOK'
    BY <1>5, <2>1, <2>2, <2>3 DEF TypeInv, StoreTypeOK, Quarantine
  <2>5. CASE Return /\ UNCHANGED <<ledgerVars, faults>>
    BY <1>1, <1>2, <2>4, <2>5, ReturnGoal, SameTables
  <2>6. CASE \E status \in {"failed", "pending"}, temp \in BOOLEAN : Finish(sc, status, temp, 0)
    BY <1>1, <1>2, <2>4, <2>6, FinishGoal DEF IngestStatusName
  <2>7. CASE Goto("note") /\ UNCHANGED <<ledgerVars, faults, sc, first, claim, stateId>>
    BY <1>1, <1>2, <1>4, <2>4, <2>7, SameTables
  <2> QED BY <1>5, <2>5, <2>6, <2>7 DEF Quarantine
<1>6. CASE NoteReason
  <2>1. check' \in [Source -> {"none", "confirmed", "quarantined"}]
    BY <1>6, StaleKeepsType DEF TypeInv, StoreTypeOK, NoteReason
  <2>2. quar' \in [Source \X Sidecar -> [body : Body, noted : BOOLEAN]]
    BY <1>3, <1>6 DEF TypeInv, StoreTypeOK, NoteReason
  <2>3. StoreTypeOK'
    BY <1>6, <2>1, <2>2 DEF TypeInv, StoreTypeOK, NoteReason
  <2>4. PICK done \in BOOLEAN :
          /\ Record(sc, "quarantined", FALSE, 0, done)
          /\ IF done THEN Goto("remember") /\ UNCHANGED <<sc, first, claim, stateId>>
             ELSE Return
    BY <1>6 DEF NoteReason
  <2>5. LedgerOK' /\ UNCHANGED <<segments, stateEvents>> /\ faults' \in Nat
    BY <1>2, <2>4, RecordKeepsLedger DEF TypeInv, IngestStatusName, Cur
  <2>6. LedgerGrows
    BY <2>5, SameLedger DEF TypeInv
  <2> QED BY <1>1, <1>4, <2>3, <2>4, <2>5, <2>6, ReturnGoal
<1>7. CASE RememberTerminal
  <2>1. check' \in [Source -> {"none", "confirmed", "quarantined"}] /\ faults' \in Nat
    BY <1>2, <1>7 DEF TypeInv, StoreTypeOK, RememberTerminal, StoreCall
  <2>2. StoreTypeOK'
    BY <1>7, <2>1 DEF TypeInv, StoreTypeOK, RememberTerminal, storeVars
  <2>3. Return /\ UNCHANGED ledgerVars
    BY <1>7 DEF RememberTerminal
  <2> QED BY <1>1, <2>1, <2>2, <2>3, ReturnGoal, SameTables
<1> QED BY <1>5, <1>6, <1>7

\* Every step of the worker.
LEMMA IngestKeepsTypes ==
  ASSUME TypeInv, Ingest
  PROVE  WorkerGoal /\ InboxTypeOK' /\ StoreTypeOK'
BY ScanKeepsTypes, ReadKeepsTypes, CopyKeepsTypes, ProbeKeepsTypes, InstallKeepsTypes,
   CommitKeepsTypes, ProjectKeepsTypes, ConfirmKeepsTypes, QuarantineKeepsTypes
   DEF Ingest

-----------------------------------------------------------------------------
(* Maintenance, the process and the world.                                  *)

LEMMA RetentionEventKeepsLedger ==
  ASSUME LedgerOK, NEW i \in SegmentId, NEW status \in {"planned", "failed"},
         AppendRetentionEvent(i, status)
  PROVE  LedgerOK' /\ LedgerGrows /\ UNCHANGED <<segments, stateEvents>>
<1>1. i \in 1 .. Len(retention)
  BY DEF LedgerOK, LedgerTypeOK, SegmentId
<1>2. /\ retention' \in Seq({"none", "planned", "failed", "deleted"})
      /\ Len(retention') = Len(retention)
  BY <1>1, ExceptSeq DEF LedgerOK, LedgerTypeOK, AppendRetentionEvent
<1>3. UNCHANGED <<segments, stateEvents, segStatus, claims, lastEvent, ingestStatus>>
  BY DEF AppendRetentionEvent
<1>4. LedgerOK'
  BY <1>2, <1>3 DEF LedgerOK, LedgerTypeOK, SegmentId
<1> QED BY <1>3, <1>4, SameLedger

LEMMA DeletionKeepsLedger ==
  ASSUME LedgerOK, NEW i \in SegmentId, CommitRetentionDeletion(i)
  PROVE  LedgerOK' /\ LedgerGrows /\ UNCHANGED segments
<1> DEFINE known == \E n \in DOMAIN stateEvents[i] : stateEvents[i][n] = "retention_deleted"
           log == IF known THEN stateEvents[i] ELSE Append(stateEvents[i], "retention_deleted")
           at == CHOOSE n \in DOMAIN log : log[n] = "retention_deleted"
<1>1. /\ i \in 1 .. Len(stateEvents) /\ i \in 1 .. Len(segStatus) /\ i \in 1 .. Len(retention)
      /\ SegmentId = 1 .. Len(segments) /\ stateEvents[i] \in Seq(StateName)
      /\ Len(stateEvents) = Len(segments) /\ Len(segStatus) = Len(segments)
      /\ segStatus[i] \in 0 .. Len(stateEvents[i])
  BY DEF LedgerOK, LedgerTypeOK, SegmentId
<1>2. log \in Seq(StateName) /\ Len(log) >= Len(stateEvents[i])
      /\ \E n \in DOMAIN log : log[n] = "retention_deleted"
  <2>1. CASE known
    BY <1>1, <2>1
  <2>2. CASE ~known
    <3>1. /\ Append(stateEvents[i], "retention_deleted") \in Seq(StateName)
          /\ Len(Append(stateEvents[i], "retention_deleted")) = Len(stateEvents[i]) + 1
          /\ Append(stateEvents[i], "retention_deleted")[Len(stateEvents[i]) + 1]
               = "retention_deleted"
      BY <1>1 DEF StateName
    <3>2. Len(stateEvents[i]) \in Nat
      BY <1>1
    <3>3. log = Append(stateEvents[i], "retention_deleted")
      BY <2>2
    <3>4. Len(stateEvents[i]) + 1 \in DOMAIN log
      BY <3>1, <3>2, <3>3
    <3> HIDE DEF log
    <3> QED BY <3>1, <3>2, <3>3, <3>4
  <2> QED BY <2>1, <2>2
<1> HIDE DEF log
<1>3. at \in 1 .. Len(log)
  BY <1>2
<1> HIDE DEF at
<1>4. Newer(i, at) \in 0 .. Len(log)
  BY <1>1, <1>2, <1>3 DEF Newer
<1>5. /\ stateEvents' = [stateEvents EXCEPT ![i] = log]
      /\ segStatus' = [segStatus EXCEPT ![i] = Newer(i, at)]
      /\ retention' \in {retention, [retention EXCEPT ![i] = "deleted"]}
      /\ UNCHANGED <<segments, claims, lastEvent, ingestStatus>>
  BY DEF CommitRetentionDeletion, log, at
<1>6. /\ stateEvents' \in Seq(Seq(StateName)) /\ Len(stateEvents') = Len(stateEvents)
      /\ \A j \in SegmentId : stateEvents'[j] = IF j = i THEN log ELSE stateEvents[j]
  BY <1>1, <1>2, <1>5, ExceptSeq DEF LedgerOK, LedgerTypeOK
<1>7. /\ segStatus' \in Seq(Nat) /\ Len(segStatus') = Len(segStatus)
      /\ \A j \in SegmentId : segStatus'[j] = IF j = i THEN Newer(i, at) ELSE segStatus[j]
  <2>1. Newer(i, at) \in Nat
    BY <1>2, <1>4
  <2> QED BY <1>1, <1>5, <2>1, ExceptSeq DEF LedgerOK, LedgerTypeOK
<1>8. /\ retention' \in Seq({"none", "planned", "failed", "deleted"})
      /\ Len(retention') = Len(retention)
  <2>1. CASE retention' = retention
    BY <2>1 DEF LedgerOK, LedgerTypeOK
  <2>2. CASE retention' = [retention EXCEPT ![i] = "deleted"]
    BY <1>1, <2>2, ExceptSeq DEF LedgerOK, LedgerTypeOK
  <2> QED BY <1>5, <2>1, <2>2
<1>9. \A j \in SegmentId : segStatus'[j] \in 0 .. Len(stateEvents'[j])
  BY <1>4, <1>6, <1>7 DEF LedgerOK, LedgerTypeOK
<1>10. LedgerOK'
  BY <1>5, <1>6, <1>7, <1>8, <1>9 DEF LedgerOK, LedgerTypeOK, SegmentId
<1>11. LedgerGrows
  <2>1. \A j \in SegmentId : Len(stateEvents[j]) \in Nat
    BY <1>1 DEF LedgerOK, LedgerTypeOK
  <2>2. \A j \in SegmentId : Len(stateEvents[j]) <= Len(stateEvents'[j])
    BY <1>2, <1>6, <2>1
  <2> QED BY <1>1, <1>5, <2>2 DEF LedgerGrows, LedgerOK, LedgerTypeOK
<1> QED BY <1>5, <1>10, <1>11

LEMMA RebuildKeepsLedger ==
  ASSUME LedgerOK, RebuildMediaProjections
  PROVE  LedgerOK' /\ LedgerGrows /\ UNCHANGED <<segments, stateEvents>>
<1>1. UNCHANGED <<segments, stateEvents, claims, lastEvent, retention>> /\ ingestStatus' = lastEvent
  BY DEF RebuildMediaProjections
<1>2. SegmentId = 1 .. Len(segments) /\ Len(segments) \in Nat
  BY DEF LedgerOK, LedgerTypeOK, SegmentId
<1>3. \A i \in SegmentId : Len(stateEvents[i]) \in Nat
  BY <1>2 DEF LedgerOK, LedgerTypeOK
<1>4. segStatus' \in [1 .. Len(segments) -> Nat]
  BY <1>2, <1>3 DEF RebuildMediaProjections
<1>5. segStatus' \in Seq(Nat) /\ Len(segStatus') = Len(segments)
  BY <1>2, <1>4, SeqDef
<1>6. \A i \in SegmentId : segStatus'[i] \in 0 .. Len(stateEvents[i])
  BY <1>3 DEF RebuildMediaProjections
<1>7. LedgerOK'
  BY <1>1, <1>5, <1>6 DEF LedgerOK, LedgerTypeOK, SegmentId
<1> QED BY <1>1, <1>7, SameLedger

\* The worker's locals survive steps of others, because the ledger only grows.
LEMMA LocalsSurvive ==
  ASSUME TypeInv, LedgerOK', LedgerGrows, UNCHANGED workerVars
  PROVE  WorkerLocalsOK'
<1>1. SegmentId = 1 .. Len(segments) /\ SegmentId' = 1 .. Len(segments')
  BY DEF TypeInv, LedgerOK, LedgerTypeOK, SegmentId
<1>2. Len(segments) \in Nat /\ Len(segments') \in Nat
  BY DEF TypeInv, LedgerOK, LedgerTypeOK
<1>3. SegmentId \subseteq SegmentId'
  BY <1>1, <1>2 DEF LedgerGrows
<1>4. \A i \in SegmentId : /\ Len(stateEvents[i]) <= Len(stateEvents'[i])
                           /\ Len(stateEvents[i]) \in Nat /\ Len(stateEvents'[i]) \in Nat
  <2>1. /\ stateEvents \in Seq(Seq(StateName)) /\ Len(stateEvents) = Len(segments)
        /\ stateEvents' \in Seq(Seq(StateName)) /\ Len(stateEvents') = Len(segments')
    BY DEF TypeInv, LedgerOK, LedgerTypeOK
  <2>2. \A i \in SegmentId : stateEvents[i] \in Seq(StateName) /\ stateEvents'[i] \in Seq(StateName)
    <3> SUFFICES ASSUME NEW i \in SegmentId
                 PROVE  stateEvents[i] \in Seq(StateName) /\ stateEvents'[i] \in Seq(StateName)
      OBVIOUS
    <3>1. i \in 1 .. Len(stateEvents) /\ i \in 1 .. Len(stateEvents')
      BY <1>1, <1>3, <2>1
    <3> QED BY <2>1, <3>1, ElementOfSeq
  <2> QED BY <2>2 DEF LedgerGrows
<1>5. claim \in SegmentId \cup {0} /\ stateId \in Nat
  BY DEF TypeInv, WorkerLocalsOK, WorkerTypeOK
<1>6. pc = "project" => claim # 0 /\ stateId <= Len(stateEvents'[claim])
  BY <1>4, <1>5 DEF TypeInv, WorkerLocalsOK
<1> QED BY <1>3, <1>5, <1>6 DEF TypeInv, WorkerLocalsOK, workerVars

LEMMA OpsSurvive ==
  ASSUME TypeInv, LedgerOK', LedgerGrows, UNCHANGED opsVars
  PROVE  OpsLocalsOK'
<1>1. SegmentId = 1 .. Len(segments) /\ SegmentId' = 1 .. Len(segments')
  BY DEF TypeInv, LedgerOK, LedgerTypeOK, SegmentId
<1>2. Len(segments) \in Nat /\ Len(segments') \in Nat
  BY DEF TypeInv, LedgerOK, LedgerTypeOK
<1>3. SegmentId \subseteq SegmentId'
  BY <1>1, <1>2 DEF LedgerGrows
<1> QED BY <1>3 DEF TypeInv, OpsLocalsOK, opsVars

LEMMA MaintenanceKeepsTypes ==
  ASSUME TypeInv, Maintenance
  PROVE  /\ LedgerOK' /\ LedgerGrows /\ UNCHANGED segments
         /\ InboxTypeOK' /\ StoreTypeOK' /\ WorkerTypeOK' /\ RetentionTypeOK'
         /\ OpsLocalsOK' /\ UNCHANGED workerVars
<1> USE DEF TypeInv
<1>1. InboxTypeOK' /\ UNCHANGED <<workerVars, gateVars, aged, backupVars>>
  BY SameInbox DEF Maintenance, RetentionStart, RetentionPlan, RetentionRemove, RetentionCommit,
                   RetentionEnd, CleanupStat, CleanupRemove
<1>2. SegmentId \subseteq Nat
  BY DEF LedgerOK, LedgerTypeOK, SegmentId
<1>3. ASSUME faults' \in Nat PROVE WorkerTypeOK'
  BY <1>1, <1>3 DEF WorkerTypeOK, workerVars, gateVars
<1>4. faults \in Nat
  BY DEF WorkerTypeOK
<1>5. ASSUME UNCHANGED segments, opc' \in {"idle", "pass", "remove", "commit", "unlink"},
             opc' \in {"remove", "commit"} => victim' \in SegmentId,
             opc' = "unlink" => victim' \in Source,
             victim' \in Nat, todo' \subseteq SegmentId, coverage' \subseteq Content
      PROVE  RetentionTypeOK' /\ OpsLocalsOK'
  BY <1>1, <1>2, <1>5 DEF RetentionTypeOK, OpsLocalsOK, backupVars, SegmentId
<1>6. coverage \subseteq Content /\ todo \subseteq SegmentId /\ victim \in Nat
  BY DEF RetentionTypeOK, OpsLocalsOK
<1>12. ASSUME NEW i, Skip(i), UNCHANGED segments
       PROVE  RetentionTypeOK' /\ OpsLocalsOK'
  <2>1. opc' = "pass" /\ victim' = 0 /\ todo' \subseteq todo /\ coverage' = coverage
    BY <1>12 DEF Skip
  <2> QED BY <1>5, <1>6, <1>12, <2>1
<1>7. CASE RetentionStart \/ RetentionEnd
  <2>1. LedgerOK' /\ LedgerGrows /\ UNCHANGED segments
    BY <1>7, SameTables DEF RetentionStart, RetentionEnd
  <2>2. StoreTypeOK' /\ faults' = faults
    BY <1>7 DEF RetentionStart, RetentionEnd, StoreTypeOK, storeVars
  <2>3. RetentionCandidates \subseteq SegmentId
    BY DEF RetentionCandidates, Listed
  <2>4. RetentionTypeOK' /\ OpsLocalsOK'
    <3>1. CASE RetentionStart
      <4>1. coverage' \subseteq Content
        BY <3>1 DEF RetentionStart, RetentionTypeOK
      <4>2. opc' = "pass" /\ victim' = 0 /\ todo' = RetentionCandidates
        BY <3>1 DEF RetentionStart
      <4> QED BY <1>5, <2>1, <2>3, <4>1, <4>2
    <3>2. CASE RetentionEnd
      <4>1. opc' = "idle" /\ coverage' = {} /\ UNCHANGED <<todo, victim>>
        BY <3>2 DEF RetentionEnd
      <4> QED BY <1>5, <1>6, <2>1, <4>1
    <3> QED BY <1>7, <3>1, <3>2
  <2> QED BY <1>1, <1>3, <1>4, <2>1, <2>2, <2>4
<1>8. CASE RetentionPlan
  <2> DEFINE i == First(todo)
  <2>1. i \in SegmentId /\ i \in Nat
    BY <1>2, <1>6, <1>8, FirstIsLeast DEF RetentionPlan
  <2>2. StoreTypeOK'
    BY <1>8 DEF RetentionPlan, StoreTypeOK, storeVars
  <2> HIDE DEF i
  <2>3. LedgerOK' /\ LedgerGrows /\ UNCHANGED <<segments, stateEvents>>
    <3>1. UNCHANGED ledgerVars \/ AppendRetentionEvent(i, "planned")
      BY <1>8 DEF RetentionPlan, i
    <3> QED BY <2>1, <3>1, SameTables, RetentionEventKeepsLedger
  <2>4. faults' \in Nat
    BY <1>4, <1>8 DEF RetentionPlan
  <2>5. \/ /\ opc' \in {"commit", "remove"} /\ victim' = i /\ UNCHANGED <<todo, coverage>>
        \/ Skip(i)
    BY <1>8 DEF RetentionPlan, i
  <2>6. RetentionTypeOK' /\ OpsLocalsOK'
    <3>1. CASE opc' \in {"commit", "remove"} /\ victim' = i /\ UNCHANGED <<todo, coverage>>
      BY <1>5, <1>6, <2>1, <2>3, <3>1
    <3> QED BY <1>12, <2>3, <2>5, <3>1
  <2> QED BY <1>1, <1>3, <2>2, <2>3, <2>4, <2>6
<1>9. CASE RetentionRemove
  <2>1. victim \in SegmentId
    BY <1>9 DEF OpsLocalsOK, RetentionRemove
  <2>2. segments[victim].sha \in Content
    <3>1. segments \in Seq(Segment) /\ victim \in 1 .. Len(segments)
      BY <2>1 DEF LedgerOK, LedgerTypeOK, SegmentId
    <3>2. segments[victim] \in Segment
      BY <3>1
    <3> QED BY <3>2 DEF Segment
  <2>3. accepted' \in [Content -> Body]
    BY <1>9, <2>2 DEF RetentionRemove, StoreTypeOK, Body
  <2>4. check' \in [Source -> {"none", "confirmed", "quarantined"}]
    <3>1. check' \in {check, Stale(Stamping(segments[victim].sha), {"confirmed"})}
      BY <1>9 DEF RetentionRemove
    <3> QED BY <3>1, StaleKeepsType DEF StoreTypeOK
  <2>5. StoreTypeOK'
    BY <1>9, <2>3, <2>4 DEF RetentionRemove, StoreTypeOK
  <2>6. LedgerOK' /\ LedgerGrows /\ UNCHANGED <<segments, stateEvents>>
    <3>1. UNCHANGED ledgerVars \/ AppendRetentionEvent(victim, "failed")
      BY <1>9 DEF RetentionRemove
    <3> QED BY <2>1, <3>1, SameTables, RetentionEventKeepsLedger
  <2>7. faults' \in Nat
    BY <1>4, <1>9 DEF RetentionRemove
  <2>8. \/ opc' = "commit" /\ UNCHANGED <<todo, victim, coverage>>
        \/ Skip(victim)
    BY <1>9 DEF RetentionRemove
  <2>9. RetentionTypeOK' /\ OpsLocalsOK'
    <3>1. CASE opc' = "commit" /\ UNCHANGED <<todo, victim, coverage>>
      BY <1>5, <1>6, <2>1, <2>6, <3>1
    <3> QED BY <1>12, <2>6, <2>8, <3>1
  <2> QED BY <1>1, <1>3, <2>5, <2>6, <2>7, <2>9
<1>10. CASE RetentionCommit
  <2>1. victim \in SegmentId
    BY <1>10 DEF OpsLocalsOK, RetentionCommit
  <2>2. LedgerOK' /\ LedgerGrows /\ UNCHANGED segments
    <3>1. UNCHANGED ledgerVars \/ CommitRetentionDeletion(victim)
      BY <1>10 DEF RetentionCommit
    <3> QED BY <2>1, <3>1, SameTables, DeletionKeepsLedger
  <2>3. StoreTypeOK' /\ faults' \in Nat /\ Skip(victim)
    BY <1>4, <1>10 DEF RetentionCommit, StoreTypeOK, storeVars, StoreCall
  <2>4. RetentionTypeOK' /\ OpsLocalsOK'
    BY <1>12, <2>2, <2>3
  <2> QED BY <1>1, <1>3, <2>2, <2>3, <2>4
<1>11. CASE (\E s \in Source : CleanupStat(s)) \/ CleanupRemove
  <2>1. LedgerOK' /\ LedgerGrows /\ UNCHANGED segments
    BY <1>11, SameTables DEF CleanupStat, CleanupRemove
  <2>2. StoreTypeOK' /\ faults' = faults
    BY <1>11 DEF CleanupStat, CleanupRemove, StoreTypeOK, storeVars, Body
  <2>3. RetentionTypeOK' /\ OpsLocalsOK'
    BY <1>5, <1>6, <1>11, <2>1, LedgerAssumption DEF CleanupStat, CleanupRemove
  <2> QED BY <1>1, <1>3, <1>4, <2>1, <2>2, <2>3
<1> QED BY <1>7, <1>8, <1>9, <1>10, <1>11 DEF Maintenance

LEMMA ProcessKeepsTypes ==
  ASSUME TypeInv, Restart \/ Crash
  PROVE  TypeInv'
<1> USE DEF TypeInv
<1>1. InboxTypeOK' /\ StoreTypeOK'
  BY SameInbox DEF Restart, Crash, StoreTypeOK, storeVars
<1>2. CASE Restart
  <2>1. LedgerOK' /\ LedgerGrows /\ UNCHANGED <<segments, stateEvents>>
    <3>1. UNCHANGED ledgerVars \/ RebuildMediaProjections
      BY <1>2 DEF Restart
    <3> QED BY <3>1, SameTables, RebuildKeepsLedger
  <2>2. /\ pc' \in {"idle", "off"} /\ faults' \in Nat
        /\ UNCHANGED <<opsVars, aged, backupVars, envVars, gateVars>>
        /\ UNCHANGED <<scanCursor, selected, sc, first, claim, stateId>>
    BY <1>2 DEF Restart, StoreCall, WorkerTypeOK
  <2>3. WorkerTypeOK'
    BY <2>2 DEF WorkerTypeOK, Label, gateVars
  <2>4. WorkerLocalsOK'
    BY <2>1, <2>2 DEF WorkerLocalsOK, Processing, Parsed, SegmentId
  <2>5. RetentionTypeOK' /\ EnvTypeOK'
    BY <2>2 DEF RetentionTypeOK, EnvTypeOK, opsVars, backupVars, envVars
  <2> QED BY <1>1, <2>1, <2>2, <2>3, <2>4, <2>5, OpsSurvive
<1>3. CASE Crash
  <2>1. LedgerOK' /\ LedgerGrows
    BY <1>3, SameTables DEF Crash
  <2>2. WorkerTypeOK' /\ WorkerLocalsOK'
    BY <1>3 DEF Crash, WorkerTypeOK, WorkerLocalsOK, Label, Processing, Parsed, gateVars
  <2>3. RetentionTypeOK' /\ OpsLocalsOK' /\ EnvTypeOK'
    BY <1>3 DEF Crash, RetentionTypeOK, OpsLocalsOK, EnvTypeOK, backupVars
  <2> QED BY <1>1, <2>1, <2>2, <2>3
<1> QED BY <1>2, <1>3

LEMMA WorldKeepsTypes ==
  ASSUME TypeInv, World
  PROVE  TypeInv'
<1> USE DEF TypeInv
<1>1. UNCHANGED <<ledgerVars, workerVars, opsVars, faults>>
  BY DEF World, Sources, WriteMedia, WriteSidecar, Retire, Publish, Degrade, Recover, AgeSegment,
         AgeStaging, TakeBackup, LoseBackup, Damage, coreVars
<1>2. LedgerOK' /\ LedgerGrows /\ WorkerLocalsOK' /\ OpsLocalsOK'
  BY <1>1, SameTables, LocalsSurvive, OpsSurvive
<1>3. CASE Sources
  <2>1. UNCHANGED <<gateVars, storeVars, aged, backupVars, outages, crashes, damaged>>
    BY <1>3 DEF Sources, WriteMedia, WriteSidecar, Retire, Publish, coreVars, envVars
  <2>2. PICK s \in Source : \/ \E c \in Content : WriteMedia(s, c)
                            \/ \E x \in Sidecar : WriteSidecar(s, x)
                            \/ Retire(s) \/ Publish(s)
    BY <1>3 DEF Sources
  <2>3. edits \in Nat /\ edits' \in Nat
    BY <2>2 DEF EnvTypeOK, WriteMedia, WriteSidecar, Retire, Publish, envVars
  <2>4. check' \in [Source -> {"none", "confirmed", "quarantined"}]
    <3>1. check' \in {check, Stale({s}, {"confirmed", "quarantined"})}
      BY <2>2 DEF WriteMedia, WriteSidecar, Retire, Publish
    <3> QED BY <3>1, StaleKeepsType DEF StoreTypeOK
  <2>5. media' \in [Source -> File]
    <3>1. \A c \in Content \cup {NoFile}, n \in Nat : [body |-> c, at |-> n] \in File
      BY DEF File
    <3>2. media' = media \/ \E f \in File : media' = [media EXCEPT ![s] = f]
      BY <2>2, <2>3, <3>1 DEF WriteMedia, WriteSidecar, Retire, Publish
    <3> QED BY <3>2 DEF InboxTypeOK
  <2>6. /\ sidecar' \in [Source -> Sidecar \cup {NoFile}]
        /\ ready' \in [Source -> BOOLEAN]
        /\ conf' \in [Source -> [fp : Sidecar, seg : Nat] \cup {NoFile}]
    BY <2>2 DEF InboxTypeOK, WriteMedia, WriteSidecar, Retire, Publish
  <2>7. InboxTypeOK' /\ StoreTypeOK'
    BY <2>1, <2>4, <2>5, <2>6 DEF InboxTypeOK, StoreTypeOK, storeVars
  <2>8. WorkerTypeOK' /\ RetentionTypeOK' /\ EnvTypeOK'
    BY <1>1, <2>1, <2>3 DEF WorkerTypeOK, RetentionTypeOK, EnvTypeOK, workerVars, gateVars,
                            opsVars, backupVars
  <2> QED BY <1>2, <2>7, <2>8
<1>4. CASE Degrade \/ Recover
  <2>1. UNCHANGED <<inboxVars, storeVars, check, aged, backupVars, edits, crashes, damaged>>
        /\ outages' \in Nat
    BY <1>4 DEF Degrade, Recover, envVars, EnvTypeOK
  <2>2. disk' \in Level /\ prober' \in {"up", "down"}
    BY <1>4, RecorderAssumption DEF Degrade, Recover, WorkerTypeOK, Level
  <2>3. InboxTypeOK' /\ StoreTypeOK'
    BY <2>1 DEF InboxTypeOK, StoreTypeOK, inboxVars, storeVars
  <2>4. WorkerTypeOK' /\ RetentionTypeOK' /\ EnvTypeOK'
    BY <1>1, <2>1, <2>2 DEF WorkerTypeOK, RetentionTypeOK, EnvTypeOK, workerVars, opsVars, backupVars
  <2> QED BY <1>2, <2>3, <2>4
<1>5. CASE AgeSegment \/ AgeStaging \/ TakeBackup \/ LoseBackup \/ Damage
  <2>1. UNCHANGED <<inboxVars, gateVars, quar, staging, edits, outages, crashes>>
    BY <1>5 DEF AgeSegment, AgeStaging, TakeBackup, LoseBackup, Damage, envVars, storeVars
  <2>2. InboxTypeOK' /\ WorkerTypeOK'
    BY <1>1, <2>1, SameInbox DEF WorkerTypeOK, workerVars, gateVars
  <2>3. stagingOld' \subseteq Source /\ accepted' \in [Content -> Body]
    BY <1>5 DEF AgeSegment, AgeStaging, TakeBackup, LoseBackup, Damage, StoreTypeOK, storeVars, Body
  <2>4. check' \in [Source -> {"none", "confirmed", "quarantined"}]
    <3>1. check' = check \/ \E h \in Content : check' = Stale(Stamping(h), {"confirmed"})
      BY <1>5 DEF AgeSegment, AgeStaging, TakeBackup, LoseBackup, Damage
    <3> QED BY <3>1, StaleKeepsType DEF StoreTypeOK
  <2>5. aged' \subseteq Nat /\ damaged' \subseteq Content
    BY <1>5 DEF AgeSegment, AgeStaging, TakeBackup, LoseBackup, Damage, envVars, RetentionTypeOK,
                EnvTypeOK, SegmentId, LedgerOK, LedgerTypeOK
  <2>6. (marker' = NoFile \/ marker' \subseteq Content) /\ backups' \subseteq Content
    <3>1. \A i \in SegmentId : segments[i].sha \in Content
      <4>1. segments \in Seq(Segment) /\ SegmentId = 1 .. Len(segments)
        BY DEF LedgerOK, LedgerTypeOK, SegmentId
      <4>2. \A i \in SegmentId : segments[i] \in Segment
        BY <4>1, ElementOfSeq
      <4> QED BY <4>2 DEF Segment
    <3>2. CASE TakeBackup
      BY <3>1, <3>2 DEF TakeBackup, Listed, RetentionTypeOK
    <3>3. CASE ~TakeBackup
      BY <1>5, <3>3 DEF AgeSegment, AgeStaging, LoseBackup, Damage, backupVars, RetentionTypeOK
    <3> QED BY <3>2, <3>3
  <2>7. StoreTypeOK' /\ RetentionTypeOK' /\ EnvTypeOK'
    BY <1>1, <2>1, <2>3, <2>4, <2>5, <2>6 DEF StoreTypeOK, RetentionTypeOK, EnvTypeOK, opsVars
  <2> QED BY <1>2, <2>2, <2>7
<1> QED BY <1>3, <1>4, <1>5 DEF World

LEMMA TypeInvStep == TypeInv /\ [Next]_vars => TypeInv'
<1> SUFFICES ASSUME TypeInv, [Next]_vars PROVE TypeInv'
  OBVIOUS
<1>1. CASE Ingest /\ UNCHANGED <<opsVars, aged, backupVars, envVars>>
  <2>1. WorkerGoal /\ InboxTypeOK' /\ StoreTypeOK'
    BY <1>1, IngestKeepsTypes
  <2>2. RetentionTypeOK' /\ EnvTypeOK'
    BY <1>1 DEF TypeInv, RetentionTypeOK, EnvTypeOK, opsVars, backupVars, envVars
  <2>3. OpsLocalsOK'
    BY <1>1, <2>1, OpsSurvive DEF WorkerGoal
  <2> QED BY <2>1, <2>2, <2>3 DEF TypeInv, WorkerGoal
<1>2. CASE Maintenance /\ UNCHANGED envVars
  <2>1. EnvTypeOK'
    BY <1>2 DEF TypeInv, EnvTypeOK, envVars
  <2> QED BY <1>2, <2>1, MaintenanceKeepsTypes, LocalsSurvive DEF TypeInv
<1>3. CASE Restart \/ Crash
  BY <1>3, ProcessKeepsTypes
<1>4. CASE World
  BY <1>4, WorldKeepsTypes
<1>5. CASE UNCHANGED vars
  BY <1>5 DEF vars, TypeInv, LedgerOK, LedgerTypeOK, InboxTypeOK, StoreTypeOK, WorkerTypeOK,
              RetentionTypeOK, EnvTypeOK, WorkerLocalsOK, OpsLocalsOK, SegmentId, ledgerVars,
              inboxVars, storeVars, gateVars, workerVars, opsVars, backupVars, envVars
<1> QED BY <1>1, <1>2, <1>3, <1>4, <1>5 DEF Next

LEMMA TypeInvariant == Spec => []TypeInv
BY TypeInvInit, TypeInvStep, PTL DEF Spec

\* Every table, file and local of the media path keeps its type, for any number
\* of sources, bodies, crashes and failures; in particular no label is reached
\* with a local it needs unset and no row refers to a segment that is not there.
THEOREM TypeCorrect == Spec => []TypeOK
<1>1. TypeInv => TypeOK
  BY DEF TypeInv, TypeOK, LedgerOK, EnvTypeOK
<1> QED BY <1>1, TypeInvariant, PTL

-----------------------------------------------------------------------------
(* Accepted media is never lost and never mixed up.                        *)

\* The body h is accounted for: managed, backed up, or hit from outside.
Covered(h) == h \in damaged \/ accepted[h] = h \/ h \in backups

\* A verified staging copy stays what the sidecar says, or is cleaned away.
StagedCopyVerified ==
  pc \in {"probe", "claim", "install", "existing"} => staging[Cur] \in {sc.sha, NoFile}

\* The body is installed before the transaction that makes it a segment.
BodyBeforeSegment ==
  pc = "accept" /\ RequireFullBackup => Covered(sc.sha)

\* What retention is about to remove can be read back from a backup.
BackupBeforeRemove ==
  opc = "remove" /\ RequireFullBackup => segments[victim].sha \in backups

EvidenceInv ==
  /\ ManagedFilesIntact /\ EvidenceSurvives
  /\ StagedCopyVerified /\ BodyBeforeSegment /\ BackupBeforeRemove

LEMMA EvidenceInit == Init => EvidenceInv
BY DEF Init, LedgerInit, IngestInit, RetentionInit, EvidenceInv, ManagedFilesIntact,
       EvidenceSurvives, StagedCopyVerified, BodyBeforeSegment, BackupBeforeRemove, SegmentId

-----------------------------------------------------------------------------
(* What the worker's steps do to the files, the segments and its label.     *)

Verified == {"probe", "claim", "install", "existing"}

\* Only three steps lead to a label where the staging copy counts as verified.
LEMMA ReachVerified ==
  ASSUME Ingest, pc' \in Verified
  PROVE  CopyEnd \/ ProbeMedia \/ ResolveClaim
<1>1. ~(ScanStart \/ ScanNext \/ ScanEnd \/ SignConfirmation)
  BY DEF ScanStart, ScanNext, ScanEnd, SignConfirmation, Verified, Return, Goto
<1>2. ~(Discover \/ ReadSidecar \/ FirstStat \/ SecondStat \/ CopyStart)
  BY DEF Discover, ReadSidecar, FirstStat, SecondStat, CopyStart, Verified, Return, Goto, Finish
<1>3. ~(ReuseAccepted \/ InstallAccepted \/ CommitAcceptance \/ ProjectAcceptance)
  BY DEF ReuseAccepted, InstallAccepted, CommitAcceptance, ProjectAcceptance, Verified, Return,
         Goto, Finish
<1>4. ~(ClearConfirmation \/ WriteConfirmation \/ Quarantine \/ NoteReason \/ RememberTerminal)
  BY DEF ClearConfirmation, WriteConfirmation, Quarantine, NoteReason, RememberTerminal,
         Verified, Return, Goto, Finish
<1> QED BY <1>1, <1>2, <1>3, <1>4 DEF Ingest

\* Only the two ways to install lead to the acceptance transaction.
LEMMA ReachAccept ==
  ASSUME Ingest, pc' = "accept"
  PROVE  ReuseAccepted \/ InstallAccepted
<1>1. ~(ScanStart \/ ScanNext \/ ScanEnd \/ SignConfirmation)
  BY DEF ScanStart, ScanNext, ScanEnd, SignConfirmation, Return, Goto
<1>2. ~(Discover \/ ReadSidecar \/ FirstStat \/ SecondStat \/ CopyStart \/ CopyEnd)
  BY DEF Discover, ReadSidecar, FirstStat, SecondStat, CopyStart, CopyEnd, Return, Goto, Finish
<1>3. ~(ProbeMedia \/ ResolveClaim \/ CommitAcceptance \/ ProjectAcceptance)
  BY DEF ProbeMedia, ResolveClaim, CommitAcceptance, ProjectAcceptance, Return, Goto, Finish,
         AfterClaim
<1>4. ~(ClearConfirmation \/ WriteConfirmation \/ Quarantine \/ NoteReason \/ RememberTerminal)
  BY DEF ClearConfirmation, WriteConfirmation, Quarantine, NoteReason, RememberTerminal,
         Return, Goto, Finish
<1> QED BY <1>1, <1>2, <1>3, <1>4 DEF Ingest

\* A managed file changes only when a verified copy is renamed to a free name.
LEMMA IngestFiles ==
  ASSUME TypeInv, EvidenceInv, Ingest
  PROVE  \/ UNCHANGED accepted
         \/ /\ sc \in Sidecar /\ accepted[sc.sha] = NoFile
            /\ accepted' = [accepted EXCEPT ![sc.sha] = sc.sha]
<1>1. CASE InstallAccepted
  <2>1. sc \in Sidecar /\ staging[Cur] \in {sc.sha, NoFile}
    BY <1>1 DEF TypeInv, WorkerLocalsOK, Parsed, Processing, Label, InstallAccepted, EvidenceInv,
                StagedCopyVerified
  <2>2. \/ UNCHANGED accepted
        \/ /\ accepted[sc.sha] = NoFile /\ staging[Cur] # NoFile
           /\ accepted' = [accepted EXCEPT ![sc.sha] = staging[Cur]]
    <3>1. accepted[sc.sha] = NoFile => sc.sha # NoFile
      BY <2>1, LedgerAssumption DEF SidecarFields
    <3> QED BY <1>1, <3>1 DEF InstallAccepted
  <2> QED BY <2>1, <2>2
<1>2. CASE ~InstallAccepted
  BY <1>2 DEF Ingest, ScanStart, ScanNext, ScanEnd, SignConfirmation, Discover, ReadSidecar,
     FirstStat, SecondStat, CopyStart, CopyEnd, ProbeMedia, ResolveClaim, ReuseAccepted,
     CommitAcceptance, ProjectAcceptance, ClearConfirmation, WriteConfirmation, Quarantine,
     NoteReason, RememberTerminal, storeVars
<1> QED BY <1>1, <1>2

\* Segments come only from the acceptance transaction, with the sidecar's body.
LEMMA IngestSegments ==
  ASSUME TypeInv, Ingest
  PROVE  \/ UNCHANGED segments
         \/ /\ pc = "accept" /\ UNCHANGED <<accepted, sc>>
            /\ segments' = Append(segments, [ident |-> sc.ident, sha |-> sc.sha, meta |-> sc.meta])
<1>1. CASE CommitAcceptance
  BY <1>1 DEF CommitAcceptance, AcceptMedia, ledgerVars, storeVars
<1>2. ASSUME NEW fp, NEW status, NEW temp, NEW seg, NEW done, Record(fp, status, temp, seg, done)
      PROVE  UNCHANGED segments
  BY <1>2 DEF Record, AppendMediaIngestEvent, ledgerVars
<1>3. ASSUME NEW fp, NEW status, NEW temp, NEW seg, Finish(fp, status, temp, seg)
      PROVE  UNCHANGED segments
  BY <1>2, <1>3 DEF Finish
<1>4. CASE ScanStart \/ ScanNext \/ ScanEnd \/ SignConfirmation
  BY <1>4 DEF ScanStart, ScanNext, ScanEnd, SignConfirmation, ledgerVars
<1>5. CASE Discover \/ ReadSidecar \/ FirstStat \/ SecondStat
  BY <1>2, <1>3, <1>5 DEF Discover, ReadSidecar, FirstStat, SecondStat, ledgerVars
<1>6. CASE CopyStart \/ CopyEnd \/ ProbeMedia
  BY <1>2, <1>3, <1>6 DEF CopyStart, CopyEnd, ProbeMedia, ledgerVars
<1>7. CASE ResolveClaim \/ ReuseAccepted \/ InstallAccepted
  BY <1>3, <1>7 DEF ResolveClaim, ReuseAccepted, InstallAccepted, AppendMediaIngestEvent, ledgerVars
<1>8. CASE ProjectAcceptance \/ ClearConfirmation \/ WriteConfirmation \/ RememberTerminal
  BY <1>8 DEF ProjectAcceptance, ClearConfirmation, WriteConfirmation, RememberTerminal, ledgerVars
<1>9. CASE Quarantine \/ NoteReason
  BY <1>2, <1>3, <1>9 DEF Quarantine, NoteReason, ledgerVars
<1> QED BY <1>1, <1>4, <1>5, <1>6, <1>7, <1>8, <1>9 DEF Ingest

-----------------------------------------------------------------------------
(* Preservation, one part at a time.                                        *)

\* What any step may do to the managed files.
LEMMA FileStep ==
  ASSUME TypeInv, EvidenceInv, [Next]_vars
  PROVE  \/ UNCHANGED <<accepted, damaged>>
         \/ /\ sc \in Sidecar /\ accepted[sc.sha] = NoFile /\ UNCHANGED <<damaged, backups>>
            /\ accepted' = [accepted EXCEPT ![sc.sha] = sc.sha]
         \/ /\ opc = "remove" /\ UNCHANGED <<damaged, backups>>
            /\ accepted' = [accepted EXCEPT ![segments[victim].sha] = NoFile]
         \/ \E h \in Content, b \in {NoFile, Torn} :
              /\ accepted' = [accepted EXCEPT ![h] = b] /\ damaged' = damaged \cup {h}
              /\ UNCHANGED backups
<1>1. CASE Ingest /\ UNCHANGED <<opsVars, aged, backupVars, envVars>>
  BY <1>1, IngestFiles DEF backupVars, envVars
<1>2. CASE Maintenance /\ UNCHANGED envVars
  BY <1>2 DEF Maintenance, RetentionStart, RetentionPlan, RetentionRemove, RetentionCommit,
     RetentionEnd, CleanupStat, CleanupRemove, storeVars, backupVars, envVars
<1>3. CASE Restart \/ Crash
  BY <1>3 DEF Restart, Crash, storeVars, envVars
<1>4. CASE World
  BY <1>4 DEF World, Sources, WriteMedia, WriteSidecar, Retire, Publish, Degrade, Recover,
     AgeSegment, AgeStaging, TakeBackup, LoseBackup, Damage, coreVars, storeVars, envVars,
     backupVars
<1>5. CASE UNCHANGED vars
  BY <1>5 DEF vars, storeVars, envVars
<1> QED BY <1>1, <1>2, <1>3, <1>4, <1>5 DEF Next

\* What any step may do to the backups.
LEMMA BackupStep ==
  ASSUME [Next]_vars
  PROVE  \/ backups \subseteq backups'
         \/ opc # "remove" /\ UNCHANGED <<accepted, opc>>
            /\ \E h \in backups : accepted[h] = h /\ backups' = backups \ {h}
<1>1. CASE Ingest /\ UNCHANGED <<opsVars, aged, backupVars, envVars>>
  BY <1>1 DEF backupVars
<1>2. CASE Maintenance /\ UNCHANGED envVars
  BY <1>2 DEF Maintenance, RetentionStart, RetentionPlan, RetentionRemove, RetentionCommit,
     RetentionEnd, CleanupStat, CleanupRemove, backupVars
<1>3. CASE Restart \/ Crash
  BY <1>3 DEF Restart, Crash, backupVars
<1>4. CASE World
  BY <1>4 DEF World, Sources, WriteMedia, WriteSidecar, Retire, Publish, Degrade, Recover,
     AgeSegment, AgeStaging, TakeBackup, LoseBackup, Damage, coreVars, backupVars, storeVars,
     opsVars
<1>5. CASE UNCHANGED vars
  BY <1>5 DEF vars, backupVars
<1> QED BY <1>1, <1>2, <1>3, <1>4, <1>5 DEF Next

\* Covered in the next state.
CoveredNext(h) == h \in damaged' \/ accepted'[h] = h \/ h \in backups'

LEMMA IntactKept ==
  ASSUME TypeInv, EvidenceInv, [Next]_vars
  PROVE  ManagedFilesIntact'
<1> SUFFICES ASSUME NEW h \in Content
             PROVE  h \in damaged' \/ accepted'[h] \in {h, NoFile}
  BY DEF ManagedFilesIntact
<1>1. h \in damaged \/ accepted[h] \in {h, NoFile}
  BY DEF EvidenceInv, ManagedFilesIntact
<1>2. accepted \in [Content -> Body]
  BY DEF TypeInv, StoreTypeOK
<1> QED BY <1>1, <1>2, FileStep

LEMMA CoveredKept ==
  ASSUME TypeInv, EvidenceInv, [Next]_vars, RequireFullBackup, NEW h \in Content, Covered(h)
  PROVE  CoveredNext(h)
<1>1. accepted \in [Content -> Body] /\ h # NoFile
  BY LedgerAssumption DEF TypeInv, StoreTypeOK
<1>2. opc = "remove" => segments[victim].sha \in backups
  BY DEF EvidenceInv, BackupBeforeRemove
<1>3. CASE backups \subseteq backups'
  BY <1>1, <1>2, <1>3, FileStep DEF Covered, CoveredNext
<1>4. CASE UNCHANGED accepted /\ \E g \in backups : accepted[g] = g /\ backups' = backups \ {g}
  <2>1. damaged \subseteq damaged'
    BY FileStep
  <2> QED BY <1>4, <2>1 DEF Covered, CoveredNext
<1> QED BY <1>3, <1>4, BackupStep

LEMMA SurvivesKept ==
  ASSUME TypeInv, EvidenceInv, [Next]_vars
  PROVE  EvidenceSurvives'
<1> SUFFICES ASSUME RequireFullBackup, NEW i \in SegmentId' PROVE CoveredNext(segments'[i].sha)
  BY DEF EvidenceSurvives, CoveredNext, SegmentId
<1>1. segments \in Seq(Segment) /\ SegmentId = 1 .. Len(segments)
  BY DEF TypeInv, LedgerOK, LedgerTypeOK, SegmentId
<1>2. \A j \in SegmentId : segments[j].sha \in Content /\ Covered(segments[j].sha)
  <2>1. \A j \in SegmentId : segments[j] \in Segment
    BY <1>1, ElementOfSeq
  <2> QED BY <2>1 DEF Segment, EvidenceInv, EvidenceSurvives, Covered
<1>3. CASE UNCHANGED segments
  BY <1>2, <1>3, CoveredKept DEF SegmentId
<1>4. CASE /\ pc = "accept" /\ UNCHANGED <<accepted, sc>>
           /\ segments' = Append(segments, [ident |-> sc.ident, sha |-> sc.sha, meta |-> sc.meta])
  <2>1. sc.sha \in Content /\ Covered(sc.sha)
    BY <1>4, LedgerAssumption DEF TypeInv, WorkerLocalsOK, Parsed, Processing, Label, SidecarFields,
                EvidenceInv, BodyBeforeSegment
  <2>2. segments'[i].sha = sc.sha \/ (i \in SegmentId /\ segments'[i] = segments[i])
    BY <1>1, <1>4 DEF SegmentId
  <2> QED BY <1>2, <2>1, <2>2, CoveredKept
<1>5. UNCHANGED segments \/ Ingest
  BY MaintenanceKeepsTypes DEF Next, Restart, RebuildMediaProjections, Crash, World, Sources,
     WriteMedia, WriteSidecar, Retire, Publish, Degrade, Recover, AgeSegment, AgeStaging,
     TakeBackup, LoseBackup, Damage, coreVars, ledgerVars, vars
<1> QED BY <1>3, <1>4, <1>5, IngestSegments

LEMMA StagedKept ==
  ASSUME TypeInv, EvidenceInv, [Next]_vars
  PROVE  StagedCopyVerified'
<1> SUFFICES ASSUME pc' \in Verified PROVE staging'[Cur'] \in {sc'.sha, NoFile}
  BY DEF StagedCopyVerified, Verified
<1>1. staging \in [Source -> Body]
  BY DEF TypeInv, StoreTypeOK
<1>2. CASE Ingest
  <2>1. CASE CopyEnd
    <3>1. Cur \in Source
      BY <2>1 DEF TypeInv, WorkerLocalsOK, CopyEnd, Processing, Label, Cur
    <3> QED BY <1>1, <2>1, <3>1 DEF CopyEnd, CopyMatches, Goto, Return, Finish, Cur, Verified
  <2>2. CASE ProbeMedia \/ ResolveClaim
    <3>1. staging[Cur] \in {sc.sha, NoFile}
      BY <2>2 DEF ProbeMedia, ResolveClaim, EvidenceInv, StagedCopyVerified
    <3>2. UNCHANGED <<staging, scanCursor, sc>>
      BY <2>2 DEF ProbeMedia, ResolveClaim, Goto, Return, Finish, storeVars, Verified
    <3> QED BY <3>1, <3>2 DEF Cur
  <2> QED BY <1>2, <2>1, <2>2, ReachVerified
<1>3. CASE ~Ingest
  <2>1. UNCHANGED workerVars /\ (UNCHANGED staging \/ CleanupRemove)
    BY <1>3 DEF Next, Maintenance, RetentionStart, RetentionPlan, RetentionRemove, RetentionCommit,
     RetentionEnd, CleanupStat, CleanupRemove, Restart, Crash, World, Sources, WriteMedia,
     WriteSidecar, Retire, Publish, Degrade, Recover, AgeSegment, AgeStaging, TakeBackup,
     LoseBackup, Damage, coreVars, storeVars, vars, workerVars, Verified
  <2>2. staging[Cur] \in {sc.sha, NoFile} /\ Cur \in Source
    BY <2>1 DEF EvidenceInv, StagedCopyVerified, Verified, workerVars, TypeInv, WorkerLocalsOK,
                Processing, Label, Cur
  <2> QED BY <1>1, <2>1, <2>2 DEF CleanupRemove, workerVars, Cur
<1> QED BY <1>2, <1>3

LEMMA BodyKept ==
  ASSUME TypeInv, EvidenceInv, [Next]_vars
  PROVE  BodyBeforeSegment'
<1> SUFFICES ASSUME pc' = "accept", RequireFullBackup PROVE CoveredNext(sc'.sha)
  BY DEF BodyBeforeSegment, Covered, CoveredNext
<1>1. CASE Ingest
  <2>1. ReuseAccepted \/ InstallAccepted
    BY <1>1, ReachAccept
  <2>2. sc \in Sidecar
    BY <2>1 DEF TypeInv, WorkerLocalsOK, Parsed, Processing, Label, ReuseAccepted, InstallAccepted
  <2>3. sc.sha \in Content /\ accepted \in [Content -> Body]
    BY <2>2, LedgerAssumption DEF SidecarFields, TypeInv, StoreTypeOK
  <2>4. UNCHANGED sc
    BY <2>1 DEF ReuseAccepted, InstallAccepted, Finish, Return
  <2>5. accepted'[sc.sha] = sc.sha
    <3>2. UNCHANGED accepted => accepted[sc.sha] = sc.sha
      BY <2>1, <2>3, LedgerAssumption DEF ReuseAccepted, InstallAccepted, Finish, Return
    <3> QED BY <1>1, <2>3, <3>2, IngestFiles
  <2> QED BY <2>4, <2>5 DEF CoveredNext
<1>2. CASE ~Ingest
  <2>1. UNCHANGED workerVars
    BY <1>2 DEF Next, Maintenance, RetentionStart, RetentionPlan, RetentionRemove, RetentionCommit,
     RetentionEnd, CleanupStat, CleanupRemove, Restart, Crash, World, Sources, WriteMedia,
     WriteSidecar, Retire, Publish, Degrade, Recover, AgeSegment, AgeStaging, TakeBackup,
     LoseBackup, Damage, coreVars, vars, workerVars
  <2>2. sc.sha \in Content /\ Covered(sc.sha)
    BY <2>1, LedgerAssumption DEF workerVars, TypeInv, WorkerLocalsOK, Parsed, Processing, Label,
                SidecarFields, EvidenceInv, BodyBeforeSegment
  <2> QED BY <2>1, <2>2, CoveredKept DEF workerVars
<1> QED BY <1>1, <1>2

LEMMA BackupKept ==
  ASSUME TypeInv, EvidenceInv, [Next]_vars
  PROVE  BackupBeforeRemove'
<1> SUFFICES ASSUME opc' = "remove", RequireFullBackup PROVE segments'[victim'].sha \in backups'
  BY DEF BackupBeforeRemove
<1>1. CASE RetentionPlan
  <2>1. UNCHANGED <<segments, backups>> /\ segments[victim'].sha \in backups
    BY <1>1 DEF RetentionPlan, Skip, AppendRetentionEvent, BackedUp, backupVars
  <2> QED BY <2>1
<1>2. CASE ~RetentionPlan
  <2>1. UNCHANGED <<opc, victim>>
    BY <1>2 DEF Next, Maintenance, RetentionStart, RetentionRemove, RetentionCommit,
     RetentionEnd, CleanupStat, CleanupRemove, Restart, Crash, World, Sources, WriteMedia,
     WriteSidecar, Retire, Publish, Degrade, Recover, AgeSegment, AgeStaging, TakeBackup,
     LoseBackup, Damage, coreVars, vars, opsVars, Skip
  <2>2. segments[victim].sha \in backups /\ victim \in SegmentId
    BY <2>1 DEF EvidenceInv, BackupBeforeRemove, TypeInv, OpsLocalsOK
  <2>3. backups \subseteq backups'
    BY <2>1, BackupStep
  <2>4. segments'[victim] = segments[victim]
    <3>1. UNCHANGED segments \/ Ingest
      BY MaintenanceKeepsTypes DEF Next, Restart, RebuildMediaProjections, Crash, World, Sources,
         WriteMedia, WriteSidecar, Retire, Publish, Degrade, Recover, AgeSegment, AgeStaging,
         TakeBackup, LoseBackup, Damage, coreVars, ledgerVars, vars
    <3>2. segments \in Seq(Segment) /\ victim \in 1 .. Len(segments)
      BY <2>2 DEF TypeInv, LedgerOK, LedgerTypeOK, SegmentId
    <3> QED BY <3>1, <3>2, IngestSegments
  <2> QED BY <2>1, <2>2, <2>3, <2>4
<1> QED BY <1>1, <1>2

LEMMA EvidenceStep == TypeInv /\ EvidenceInv /\ [Next]_vars => EvidenceInv'
BY IntactKept, SurvivesKept, StagedKept, BodyKept, BackupKept DEF EvidenceInv

LEMMA EvidenceInvariant == Spec => []EvidenceInv
BY EvidenceInit, EvidenceStep, TypeInvariant, PTL DEF Spec

\* installAccepted never puts anything but the very body under accepted/<sha>,
\* although the staging copy it renames can be unlinked, aged or left over from
\* a crash between the copy and the rename.
THEOREM FilesIntact == Spec => []ManagedFilesIntact
BY EvidenceInvariant, PTL DEF EvidenceInv

\* With retention.require_full_backup no interleaving of ingest, retention,
\* cleanup, backups, crashes and failed calls loses the body of a segment.
THEOREM NoEvidenceLost == Spec => []EvidenceSurvives
BY EvidenceInvariant, PTL DEF EvidenceInv
=============================================================================
