---------------------------- MODULE MediaIngest ----------------------------
(***************************************************************************)
(* The media ingest worker (internal/mediaingest): it scans the inbox,     *)
(* validates each ready source, installs its body under accepted/<sha>,    *)
(* commits it to the ledger and only then writes the confirmation beside   *)
(* the source.  There is one worker (scanMu and one goroutine); a step     *)
(* ends where another actor, a full disk or a crash could tell.            *)
(***************************************************************************)
EXTENDS MediaLedger, FiniteSets

CONSTANTS
  Torn,            \* a body cut off or mixed: the hash of no published body
  Size,            \* byte size of each body
  Playable,        \* bodies ffprobe accepts as video of a legal duration
  MaxSegmentBytes, \* media_ingest.max_segment_bytes
  MaxScanEntries,  \* media_ingest.max_scan_entries
  OldConfirmations, \* confirmations an earlier database left in the inbox
  MaxFaults        \* bound: store calls and removals that fail

ASSUME IngestAssumption ==
  /\ Torn \notin Content \cup {NoFile}
  /\ Size \in [Content -> Nat]
  /\ Playable \subseteq Content
  /\ OldConfirmations \subseteq [fp : Sidecar, seg : Nat]
  /\ MaxSegmentBytes \in Nat /\ MaxScanEntries \in Nat \ {0} /\ MaxFaults \in Nat

VARIABLES
  media, sidecar, ready, conf,  \* inbox files of each source
  staging, stagingOld,          \* staging/<key>.partial; the ones past TempMaxAge
  accepted,                     \* accepted/<sha>.media
  quar,                         \* quarantine/<key>-<fingerprint>.*
  check,                        \* media_file_checks: signature that still matches
  disk, prober,                 \* what the gates and ffprobe would answer now
  faults,                       \* failed calls so far
  pc, scanCursor, selected,     \* the worker: label, current source, rest of the scan
  sc, first, claim, stateId     \* its locals: sidecar, source stat, segment, state event

inboxVars  == <<media, sidecar, ready, conf>>
storeVars  == <<staging, stagingOld, accepted, quar>>
workerVars == <<pc, scanCursor, selected, sc, first, claim, stateId>>
gateVars   == <<disk, prober>>

Body     == Content \cup {NoFile, Torn}
\* A media file: its body and the write that produced it (its modification time).
File     == [body : Content \cup {NoFile}, at : Nat]
Label    == {"down", "off", "idle", "scan", "sign", "ready", "sidecar", "stat", "settle",
             "copy", "copying", "probe", "claim", "install", "existing", "accept",
             "project", "confirm", "rename", "quarantine", "quarantineStaged",
             "note", "remember"}
Level    == {"normal", "warning", "critical", "reserve"}

InboxTypeOK ==
  /\ media \in [Source -> File]
  /\ sidecar \in [Source -> Sidecar \cup {NoFile}]
  /\ ready \in [Source -> BOOLEAN]
  /\ conf \in [Source -> [fp : Sidecar, seg : Nat] \cup {NoFile}]

StoreTypeOK ==
  /\ staging \in [Source -> Body]
  /\ stagingOld \subseteq Source
  /\ accepted \in [Content -> Body]
  /\ quar \in [Source \X Sidecar -> [body : Body, noted : BOOLEAN]]
  /\ check \in [Source -> {"none", "confirmed", "quarantined"}]

WorkerTypeOK ==
  /\ disk \in Level /\ prober \in {"up", "down"}
  /\ faults \in Nat
  /\ pc \in Label
  /\ scanCursor \in Source \cup {0}
  /\ selected \subseteq Source
  /\ sc \in Sidecar \cup {NoFile}
  /\ first \in File \cup {NoFile}
  /\ claim \in Nat /\ stateId \in Nat

\* Nothing managed yet; the inbox holds whatever sources published meanwhile.
IngestInit ==
  /\ media \in [Source -> [body : Content \cup {NoFile}, at : {0}]]
  /\ sidecar \in [Source -> Sidecar \cup {NoFile}]
  /\ ready = [s \in Source |-> TRUE]
  /\ conf \in [Source -> OldConfirmations \cup {NoFile}]
  /\ staging = [s \in Source |-> NoFile]
  /\ stagingOld = {}
  /\ accepted = [c \in Content |-> NoFile]
  /\ quar = [q \in Source \X Sidecar |-> [body |-> NoFile, noted |-> FALSE]]
  /\ check = [s \in Source |-> "none"]
  /\ disk = "normal" /\ prober = "up"
  /\ faults = 0
  /\ pc = "down" /\ scanCursor = 0 /\ selected = {}
  /\ sc = NoFile /\ first = NoFile /\ claim = 0 /\ stateId = 0

-----------------------------------------------------------------------------
(* Gates, store calls and the ends of a step.                               *)

MediaAllowed      == disk = "normal"
CoreWritesAllowed == disk # "reserve"

\* A store call succeeds, fails, or commits and then fails on its projection.
StoreResult == {"ok", "refused", "stale"}
StoreCall(r) ==
  /\ r = "ok" \/ faults < MaxFaults
  /\ faults' = IF r = "ok" THEN faults ELSE faults + 1

Cur == scanCursor

Goto(label) == pc' = label /\ UNCHANGED <<scanCursor, selected>>

\* ProcessReady returns to the loop of ScanOnce.
Return ==
  /\ pc' = "scan"
  /\ sc' = NoFile /\ first' = NoFile /\ claim' = 0 /\ stateId' = 0
  /\ UNCHANGED <<scanCursor, selected>>

\* record(): the core gate, then one ingest event; done is a nil error.
Record(fp, status, temp, seg, done) ==
  \/ /\ ~CoreWritesAllowed
     /\ ~done
     /\ UNCHANGED <<ledgerVars, faults>>
  \/ /\ CoreWritesAllowed
     /\ \E r \in StoreResult :
          /\ StoreCall(r)
          /\ done = (r = "ok")
          /\ IF r = "refused" THEN UNCHANGED ledgerVars
             ELSE AppendMediaIngestEvent(Cur,
                    [status |-> status, fp |-> fp, temp |-> temp, seg |-> seg], done)

\* return false, manager.record(...)
Finish(fp, status, temp, seg) ==
  /\ \E done \in BOOLEAN : Record(fp, status, temp, seg, done)
  /\ Return

\* Files that a saved signature stamps were written: it no longer matches.
Stale(S, kinds) ==
  [s \in Source |-> IF s \in S /\ check[s] \in kinds THEN "none" ELSE check[s]]

\* A signature that covers the inbox files only.
Stamping_InboxOnly(h) == {}

\* Sources whose confirmation signature stamps accepted/<h>.media.
Stamping(h) == {s \in Source : sidecar[s] # NoFile /\ sidecar[s].sha = h}

-----------------------------------------------------------------------------
(* ScanOnce: choose at most MaxScanEntries sources in rotation.             *)

\* Order of a scan that resumes after scanCursor and wraps around.
Before(s, t) ==
  IF s > scanCursor <=> t > scanCursor THEN s < t ELSE s > scanCursor

\* A scan that always starts from the smallest name.
Select_NoCursor(B) ==
  {s \in B : Cardinality({t \in B : t < s}) < MaxScanEntries}

Select(B) == {s \in B : Cardinality({t \in B : Before(t, s)}) < MaxScanEntries}

NextCandidate == CHOOSE s \in selected : \A t \in selected \ {s} : Before(s, t)

ScanStart ==
  /\ pc = "idle"
  /\ MediaAllowed /\ prober = "up"
  /\ selected' = Select({s \in Source : ready[s] /\ check[s] # "confirmed"})
  /\ pc' = "scan"
  /\ UNCHANGED <<ledgerVars, inboxVars, storeVars, check, gateVars, faults,
                 scanCursor, sc, first, claim, stateId>>

ScanEnd ==
  /\ pc = "scan"
  /\ selected = {} \/ ~MediaAllowed
  /\ pc' = "idle" /\ selected' = {}
  /\ UNCHANGED <<ledgerVars, inboxVars, storeVars, check, gateVars, faults,
                 scanCursor, sc, first, claim, stateId>>

\* A confirmation is believed without looking the identity up in the ledger.
ClaimConfirmed_Trusting(x, seg) == TRUE

ClaimConfirmed(x, seg) ==
  LET found == ResolveMediaClaim(x.ident, x.sha, x.meta)
  IN  found.status = "duplicate" /\ found.own /\ found.seg = seg

\* The confirmation describes the sidecar and the size of the source beside it.
Described(s) ==
  /\ conf[s] # NoFile /\ sidecar[s] # NoFile
  /\ sidecar[s].form = "ok" /\ conf[s].fp = sidecar[s]
  /\ media[s].body # NoFile /\ Size[media[s].body] = sidecar[s].size

\* The files a confirmation signature needs, as confirmationFileSignature sees them.
SignatureOk(s) == Described(s) /\ accepted[sidecar[s].sha] # NoFile

ConfirmationValid(s) ==
  /\ SignatureOk(s)
  /\ ClaimConfirmed(sidecar[s], conf[s].seg)
  /\ media[s].body = sidecar[s].sha
  /\ accepted[sidecar[s].sha] = sidecar[s].sha

\* Take the next source; a store failure while checking its confirmation skips it.
ScanNext ==
  /\ pc = "scan" /\ selected # {} /\ MediaAllowed
  /\ scanCursor' = NextCandidate
  /\ selected' = selected \ {NextCandidate}
  /\ \E r \in {"ok", "refused"} :
       /\ StoreCall(r)
       /\ r = "refused" => Described(NextCandidate)
       /\ pc' = IF r = "refused" THEN "scan"
                ELSE IF ConfirmationValid(NextCandidate) THEN "sign" ELSE "ready"
  /\ UNCHANGED <<ledgerVars, inboxVars, storeVars, check, gateVars,
                 sc, first, claim, stateId>>

\* The stamps are read after the bodies were hashed; then the check is saved.
SignConfirmation ==
  /\ pc = "sign"
  /\ \/ /\ SignatureOk(Cur) /\ CoreWritesAllowed
        /\ \E r \in {"ok", "refused"} :
             /\ StoreCall(r)
             /\ check' = IF r = "ok" THEN [check EXCEPT ![Cur] = "confirmed"] ELSE check
        /\ Return
     \/ /\ ~(SignatureOk(Cur) /\ CoreWritesAllowed)
        /\ Goto("ready")
        /\ UNCHANGED <<check, faults, sc, first, claim, stateId>>
  /\ UNCHANGED <<ledgerVars, inboxVars, storeVars, gateVars>>

-----------------------------------------------------------------------------
(* ProcessReady: from the ready marker to a verified staging copy.          *)

Discover ==
  /\ pc = "ready"
  /\ \/ /\ MediaAllowed /\ ready[Cur]
        /\ \E done \in BOOLEAN :
             /\ Record(NoFile, "discovered", FALSE, 0, done)
             /\ IF done THEN Goto("sidecar") /\ UNCHANGED <<sc, first, claim, stateId>>
                ELSE Return
     \/ /\ ~(MediaAllowed /\ ready[Cur])
        /\ Return
        /\ UNCHANGED <<ledgerVars, faults>>
  /\ UNCHANGED <<inboxVars, storeVars, check, gateVars>>

\* sidecarRaw is kept from here on, so what is judged is what was read.
ReadSidecar ==
  /\ pc = "sidecar"
  /\ LET x == sidecar[Cur] IN
       \/ /\ x = NoFile
          /\ Finish(NoFile, "pending", FALSE, 0)
       \/ /\ x # NoFile /\ check[Cur] = "quarantined"   \* terminalUnchanged
          /\ Return
          /\ UNCHANGED <<ledgerVars, faults>>
       \/ /\ x # NoFile /\ x.form # "oversize"
          /\ quar[<<Cur, x>>].noted /\ faults < MaxFaults   \* its query failed
          /\ faults' = faults + 1
          /\ Return
          /\ UNCHANGED ledgerVars
       \/ /\ x # NoFile /\ check[Cur] # "quarantined"
          /\ \/ /\ x.form = "oversize"
                /\ Finish(NoFile, "failed", FALSE, 0)
             \/ /\ x.form = "incomplete"
                /\ Finish(x, "pending", FALSE, 0)
             \/ /\ x.form \in {"ok", "invalid"}
                /\ sc' = x
                /\ Goto(IF x.form = "ok" THEN "stat" ELSE "quarantine")
                /\ UNCHANGED <<ledgerVars, faults, first, claim, stateId>>
  /\ UNCHANGED <<inboxVars, storeVars, check, gateVars>>

FirstStat ==
  /\ pc = "stat"
  /\ LET f == media[Cur]
         tooLarge == sc.size > MaxSegmentBytes \/ Size[f.body] > MaxSegmentBytes
     IN  \/ f.body = NoFile /\ Finish(sc, "pending", FALSE, 0)
         \/ f.body # NoFile /\ tooLarge /\ Finish(sc, "failed", FALSE, 0)
         \/ /\ f.body # NoFile /\ ~tooLarge
            /\ first' = f
            /\ Goto("settle")
            /\ UNCHANGED <<ledgerVars, faults, sc, claim, stateId>>
  /\ UNCHANGED <<inboxVars, storeVars, check, gateVars>>

\* After settle_interval: the source must be there, unchanged, of the declared size.
SecondStat ==
  /\ pc = "settle"
  /\ \/ /\ media[Cur] # first
        /\ Finish(sc, "pending", FALSE, 0)
     \/ /\ media[Cur] = first
        /\ Goto(IF Size[first.body] = sc.size THEN "copy" ELSE "quarantine")
        /\ UNCHANGED <<ledgerVars, faults, sc, first, claim, stateId>>
  /\ UNCHANGED <<inboxVars, storeVars, check, gateVars>>

\* copyToStaging opens the source and truncates the staging file...
CopyStart ==
  /\ pc = "copy"
  /\ \/ /\ ~MediaAllowed
        /\ Return
        /\ UNCHANGED <<ledgerVars, faults, staging, stagingOld>>
     \/ /\ MediaAllowed /\ media[Cur].body = NoFile
        /\ Finish(sc, "failed", TRUE, 0)
        /\ UNCHANGED <<staging, stagingOld>>
     \/ /\ MediaAllowed /\ media[Cur].body # NoFile
        /\ staging' = [staging EXCEPT ![Cur] = Torn]
        /\ stagingOld' = stagingOld \ {Cur}
        /\ first' = media[Cur]
        /\ Goto("copying")
        /\ UNCHANGED <<ledgerVars, faults, sc, claim, stateId>>
  /\ UNCHANGED <<inboxVars, accepted, quar, check, gateVars>>

\* A copy checked by size only.
CopyMatches_SizeOnly(b, x) == b # Torn /\ Size[b] = x.size

CopyMatches(b, x) == b # Torn /\ Size[b] = x.size /\ b = x.sha

\* ...and ends with every chunk written, synced and read back.  A source that was
\* rewritten meanwhile leaves a mixed copy or has outgrown the limit; a cleanup may
\* have unlinked the copy.
CopyEnd ==
  /\ pc = "copying"
  /\ LET b == IF media[Cur] = first THEN first.body ELSE Torn IN
       \/ /\ ~MediaAllowed
          /\ Return
          /\ UNCHANGED <<ledgerVars, faults, staging>>
       \/ /\ MediaAllowed /\ (staging[Cur] = NoFile \/ b = Torn)
          /\ Finish(sc, "failed", TRUE, 0)
          /\ UNCHANGED staging
       \/ /\ MediaAllowed /\ staging[Cur] # NoFile
          /\ staging' = [staging EXCEPT ![Cur] = b]
          /\ first' = NoFile
          /\ Goto(IF CopyMatches(b, sc) THEN "probe" ELSE "quarantineStaged")
          /\ UNCHANGED <<ledgerVars, faults, sc, claim, stateId>>
  /\ UNCHANGED <<inboxVars, stagingOld, accepted, quar, check, gateVars>>

ProbeMedia ==
  /\ pc = "probe"
  /\ \/ /\ prober = "down"
        /\ Finish(sc, "pending", TRUE, 0)
     \/ /\ prober = "up" /\ staging[Cur] \notin Playable
        /\ Goto("quarantineStaged")
        /\ UNCHANGED <<ledgerVars, faults, sc, first, claim, stateId>>
     \/ /\ prober = "up" /\ staging[Cur] \in Playable
        /\ \E done \in BOOLEAN :
             /\ Record(sc, "validated", TRUE, 0, done)
             /\ IF done THEN Goto("claim") /\ UNCHANGED <<sc, first, claim, stateId>>
                ELSE Return
  /\ UNCHANGED <<inboxVars, storeVars, check, gateVars>>

-----------------------------------------------------------------------------
(* ProcessReady: claim, install, commit, confirm.                           *)

\* A conflict that is not told apart from a new claim.
AfterClaim_NoConflict(status) == IF status = "duplicate" THEN "existing" ELSE "install"

AfterClaim(status) ==
  CASE status = "conflict"  -> "quarantineStaged"
    [] status = "duplicate" -> "existing"
    [] OTHER                -> "install"

ResolveClaim ==
  /\ pc = "claim"
  /\ LET found == ResolveMediaClaim(sc.ident, sc.sha, sc.meta) IN
       \/ /\ claim' = IF found.status = "duplicate" THEN found.seg ELSE 0
          /\ Goto(AfterClaim(found.status))
          /\ UNCHANGED <<ledgerVars, faults, sc, first, stateId>>
       \/ /\ faults < MaxFaults   \* the query failed
          /\ faults' = faults + 1
          /\ IF CoreWritesAllowed
             THEN AppendMediaIngestEvent(Cur,
                    [status |-> "failed", fp |-> sc, temp |-> TRUE, seg |-> 0], TRUE)
             ELSE UNCHANGED ledgerVars
          /\ Return
  /\ UNCHANGED <<inboxVars, storeVars, check, gateVars>>

\* A duplicate whose managed file verifies: the staging copy is dropped.
ReuseAccepted ==
  /\ pc = "existing" /\ accepted[sc.sha] = sc.sha
  /\ staging' = [staging EXCEPT ![Cur] = NoFile]
  /\ Goto("accept")
  /\ UNCHANGED <<ledgerVars, inboxVars, stagingOld, accepted, quar, check, gateVars,
                 faults, sc, first, claim, stateId>>

\* installAccepted: verify what is already there, or rename the staging copy.  A file
\* that is then not flushed is found by the next scan as after a crash here.
InstallAccepted ==
  /\ pc = "install" \/ (pc = "existing" /\ accepted[sc.sha] # sc.sha)
  /\ LET there == accepted[sc.sha]
         usable == there = sc.sha \/ (there = NoFile /\ staging[Cur] # NoFile)
     IN  \/ /\ MediaAllowed /\ usable
            /\ accepted' = IF there = NoFile
                           THEN [accepted EXCEPT ![sc.sha] = staging[Cur]] ELSE accepted
            /\ check' = IF there = NoFile
                        THEN Stale(Stamping(sc.sha), {"confirmed"}) ELSE check
            /\ staging' = [staging EXCEPT ![Cur] = NoFile]
            /\ Goto("accept")
            /\ UNCHANGED <<ledgerVars, faults, sc, first, claim, stateId>>
         \/ /\ ~(MediaAllowed /\ usable)
            /\ Finish(sc, "failed", TRUE, claim)
            /\ UNCHANGED <<accepted, check, staging>>
  /\ UNCHANGED <<inboxVars, stagingOld, quar, gateVars>>

\* The acceptance transaction.  Its conflict exit is unreachable, because only
\* this worker adds claims (see AcceptNeverConflicts).
CommitAcceptance ==
  /\ pc = "accept"
  /\ LET found == ResolveMediaClaim(sc.ident, sc.sha, sc.meta) IN
       \/ /\ CoreWritesAllowed
          /\ AcceptMedia(Cur, sc)
          /\ claim' = IF found.status = "none" THEN Len(segments) + 1 ELSE found.seg
          /\ stateId' = IF found.status = "none" THEN 1 ELSE Len(stateEvents[found.seg])
          /\ Goto("project")
          /\ UNCHANGED <<faults, sc, first>>
       \/ /\ ~CoreWritesAllowed \/ faults < MaxFaults
          /\ faults' = IF CoreWritesAllowed THEN faults + 1 ELSE faults
          /\ Return
          /\ UNCHANGED ledgerVars
  /\ UNCHANGED <<inboxVars, storeVars, check, gateVars>>

\* The two projection updates that follow the commit; either may be lost.
ProjectAcceptance ==
  /\ pc = "project"
  /\ \E r \in StoreResult :
       /\ StoreCall(r)
       /\ ingestStatus' = IF r = "refused" THEN ingestStatus
                          ELSE [ingestStatus EXCEPT ![Cur] = lastEvent[Cur]]
       /\ segStatus' = IF r = "ok" THEN [segStatus EXCEPT ![claim] = Newer(claim, stateId)]
                       ELSE segStatus
       /\ IF r = "ok" THEN Goto("confirm") /\ UNCHANGED <<sc, first, claim, stateId>>
          ELSE Return
  /\ UNCHANGED <<segments, stateEvents, claims, lastEvent, retention,
                 inboxVars, storeVars, check, gateVars>>

\* writeAtomicFile removes the old confirmation and then renames the new one.
ClearConfirmation ==
  /\ pc = "confirm"
  /\ \/ /\ ~MediaAllowed
        /\ Return
        /\ UNCHANGED <<conf, check>>
     \/ /\ MediaAllowed
        /\ conf' = [conf EXCEPT ![Cur] = NoFile]
        /\ check' = Stale({Cur}, {"confirmed"})
        /\ Goto("rename")
        /\ UNCHANGED <<sc, first, claim, stateId>>
  /\ UNCHANGED <<ledgerVars, media, sidecar, ready, storeVars, gateVars, faults>>

WriteConfirmation ==
  /\ pc = "rename"
  /\ conf' = [conf EXCEPT ![Cur] = [fp |-> sc, seg |-> claim]]
  /\ check' = Stale({Cur}, {"confirmed"})
  /\ Return
  /\ UNCHANGED <<ledgerVars, media, sidecar, ready, storeVars, gateVars, faults>>

-----------------------------------------------------------------------------
(* quarantine: keep a copy, note the reason, record it, remember the stamps. *)

\* A quarantine that replaces what is already there.
SameEvidence_Replace(target, cand) == TRUE

\* The name is free, or holds the very candidate.
SameEvidence(target, cand) == target \in {NoFile, cand}

Quarantine ==
  /\ pc \in {"quarantine", "quarantineStaged"}
  /\ LET staged == pc = "quarantineStaged"
         cand   == IF staged THEN staging[Cur] ELSE media[Cur].body
         target == quar[<<Cur, sc>>].body
         tooLarge == ~staged /\ cand # NoFile /\ Size[cand] > MaxSegmentBytes
     IN  \/ /\ ~MediaAllowed
            /\ Return
            /\ UNCHANGED <<ledgerVars, faults, staging, quar, check>>
         \/ /\ MediaAllowed /\ cand = NoFile
            /\ Finish(sc, IF staged \/ target # NoFile THEN "failed" ELSE "pending", staged, 0)
            /\ UNCHANGED <<staging, quar, check>>
         \/ /\ MediaAllowed /\ tooLarge
            /\ Finish(sc, "failed", FALSE, 0)
            /\ UNCHANGED <<staging, quar, check>>
         \/ /\ MediaAllowed /\ cand # NoFile /\ ~tooLarge /\ SameEvidence(target, cand)
            /\ quar' = [quar EXCEPT ![<<Cur, sc>>].body = cand]
            /\ staging' = IF staged THEN [staging EXCEPT ![Cur] = NoFile] ELSE staging
            /\ check' = Stale({Cur}, {"quarantined"})
            /\ Goto("note")
            /\ UNCHANGED <<ledgerVars, faults, sc, first, claim, stateId>>
         \/ /\ MediaAllowed /\ cand # NoFile /\ ~tooLarge /\ target # NoFile
            /\ ~SameEvidence(target, cand) \/ cand = Torn   \* two mixed copies may differ
            /\ Finish(sc, "failed", staged, 0)
            /\ UNCHANGED <<staging, quar, check>>
  /\ UNCHANGED <<inboxVars, stagingOld, accepted, gateVars>>

NoteReason ==
  /\ pc = "note"
  /\ quar' = [quar EXCEPT ![<<Cur, sc>>].noted = TRUE]
  /\ check' = Stale({Cur}, {"quarantined"})
  /\ \E done \in BOOLEAN :
       /\ Record(sc, "quarantined", FALSE, 0, done)
       /\ IF done THEN Goto("remember") /\ UNCHANGED <<sc, first, claim, stateId>>
          ELSE Return
  /\ UNCHANGED <<inboxVars, staging, stagingOld, accepted, gateVars>>

\* rememberTerminal stamps the source as it is now.  A sidecar replaced since it
\* was read gives a signature under a fingerprint that is never asked for again.
RememberTerminal ==
  /\ pc = "remember"
  /\ \/ /\ media[Cur].body # NoFile /\ sidecar[Cur] # NoFile /\ CoreWritesAllowed
        /\ \E r \in {"ok", "refused"} :
             /\ StoreCall(r)
             /\ check' = IF r = "ok"
                         THEN [check EXCEPT ![Cur] =
                                 IF sidecar[Cur] = sc THEN "quarantined" ELSE "none"]
                         ELSE check
     \/ /\ media[Cur].body = NoFile \/ sidecar[Cur] = NoFile \/ ~CoreWritesAllowed
        /\ UNCHANGED <<check, faults>>
  /\ Return
  /\ UNCHANGED <<ledgerVars, inboxVars, storeVars, gateVars>>

Ingest ==
  \/ ScanStart \/ ScanNext \/ ScanEnd \/ SignConfirmation
  \/ Discover \/ ReadSidecar \/ FirstStat \/ SecondStat \/ CopyStart \/ CopyEnd
  \/ ProbeMedia \/ ResolveClaim \/ ReuseAccepted \/ InstallAccepted
  \/ CommitAcceptance \/ ProjectAcceptance \/ ClearConfirmation \/ WriteConfirmation
  \/ Quarantine \/ NoteReason \/ RememberTerminal
=============================================================================
