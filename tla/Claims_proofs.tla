---------------------------- MODULE Claims_proofs ----------------------------
(***************************************************************************)
(* Identities, for any number of sources, sidecars, crashes and failed     *)
(* calls: what a claim resolves to never changes, the worker's verdict     *)
(* still holds when it is used, a confirmation tells the truth, and the    *)
(* media path as a whole implements the vault.                             *)
(***************************************************************************)
EXTENDS Recorder_proofs

\* The three outcomes of ResolveMediaClaim that are no conflict: the identity is
\* bound to k, which is the same fact; only the body is known, in k, which is the
\* same fact; neither is known.
Resolved(x, k) ==
  /\ ClaimedBy(x.ident) # {} /\ k = First(ClaimedBy(x.ident))
  /\ SameFact(k, x.sha, x.meta)

ByBody(x, k) ==
  /\ ClaimedBy(x.ident) = {} /\ WithBody(x.sha) # {}
  /\ k = First(WithBody(x.sha)) /\ SameFact(k, x.sha, x.meta)

Unknown(x) == ClaimedBy(x.ident) = {} /\ WithBody(x.sha) = {}

LEMMA ClaimCases ==
  ASSUME NEW x
  PROVE  LET found == ResolveMediaClaim(x.ident, x.sha, x.meta) IN
           /\ found.status = "none" <=> Unknown(x)
           /\ found.status = "duplicate" <=> Resolved(x, found.seg) \/ ByBody(x, found.seg)
           /\ found.status = "duplicate" /\ found.own <=> Resolved(x, found.seg)
           /\ found.status = "conflict" =>
                ~Unknown(x) /\ \A k : ~Resolved(x, k) /\ ~ByBody(x, k)
           /\ found.status \in {"none", "duplicate", "conflict"}
           /\ \A k : Resolved(x, k) \/ ByBody(x, k) =>
                       found.seg = k /\ found.status = "duplicate"
           /\ \A k : Resolved(x, k) => found.own
BY DEF ResolveMediaClaim, Resolved, ByBody, Unknown

LEMMA ConfirmedIsResolved ==
  ASSUME NEW x, NEW k
  PROVE  ClaimConfirmed(x, k) <=> Resolved(x, k)
BY ClaimCases DEF ClaimConfirmed

\* A claim resolves to a segment that is there.
LEMMA ClaimsAreSegments ==
  ASSUME TypeInv
  PROVE  /\ \A id : ClaimedBy(id) \subseteq SegmentId
         /\ \A h : WithBody(h) \subseteq SegmentId
         /\ SegmentId \subseteq Nat /\ SegmentId = 1 .. Len(segments) /\ Len(segments) \in Nat
         /\ \A id : ClaimedBy(id) # {} => First(ClaimedBy(id)) \in ClaimedBy(id)
         /\ \A h : WithBody(h) # {} => First(WithBody(h)) \in WithBody(h)
         /\ \A x, k : Resolved(x, k) \/ ByBody(x, k) => k \in SegmentId
<1>1. \A id : ClaimedBy(id) \subseteq SegmentId
  BY DEF ClaimedBy, TypeInv, LedgerOK
<1>2. \A h : WithBody(h) \subseteq SegmentId
  BY DEF WithBody
<1>3. SegmentId \subseteq Nat /\ SegmentId = 1 .. Len(segments) /\ Len(segments) \in Nat
  BY DEF SegmentId, TypeInv, LedgerOK, LedgerTypeOK
<1>4. \A id : ClaimedBy(id) # {} => First(ClaimedBy(id)) \in ClaimedBy(id)
  BY <1>1, <1>3, FirstIsLeast
<1>5. \A h : WithBody(h) # {} => First(WithBody(h)) \in WithBody(h)
  BY <1>2, <1>3, FirstIsLeast
<1>6. \A x, k : Resolved(x, k) \/ ByBody(x, k) => k \in SegmentId
  BY <1>1, <1>2, <1>4, <1>5 DEF Resolved, ByBody
<1> QED BY <1>1, <1>2, <1>3, <1>4, <1>5, <1>6

-----------------------------------------------------------------------------
(* The invariant.                                                           *)

\* What the worker found out about its sidecar still holds at the labels that
\* rely on it, because no other process adds segments or claims.
WorkerClaim ==
  /\ pc = "install" => Unknown(sc) /\ claim = 0
  /\ pc = "existing" => Resolved(sc, claim) \/ ByBody(sc, claim)
  /\ pc = "accept" => Unknown(sc) \/ \E k : Resolved(sc, k) \/ ByBody(sc, k)
  /\ pc \in {"project", "confirm", "rename"} => Resolved(sc, claim)

\* The confirmation about to be signed, unless it was retired meanwhile.
SignKnown ==
  pc = "sign" /\ conf[Cur] # NoFile => Resolved(conf[Cur].fp, conf[Cur].seg)

\* A confirmation that counts is beside its sidecar and resolves.
CheckKnown ==
  \A s \in Source :
    check[s] = "confirmed" =>
      conf[s] # NoFile /\ conf[s].fp = sidecar[s] /\ Resolved(conf[s].fp, conf[s].seg)

ClaimInv == WorkerClaim /\ SignKnown /\ CheckKnown

LEMMA ClaimInit == Init => ClaimInv
BY DEF Init, IngestInit, ClaimInv, WorkerClaim, SignKnown, CheckKnown

-----------------------------------------------------------------------------
(* What a step does to the segments and the claims.                         *)

\* An event without a segment binds nothing.
LEMMA RecordBindsNothing ==
  ASSUME NEW fp, NEW status, NEW temp, NEW done, Record(fp, status, temp, 0, done)
  PROVE  UNCHANGED <<segments, claims>>
BY DEF Record, AppendMediaIngestEvent, InsertMediaIngestEvent, ledgerVars

LEMMA FinishBindsNothing ==
  ASSUME NEW fp, NEW status, NEW temp, Finish(fp, status, temp, 0)
  PROVE  UNCHANGED <<segments, claims>>
BY RecordBindsNothing DEF Finish

\* A failed installation of a duplicate binds its identity to the segment found.
InstallFailed ==
  /\ pc = "existing" /\ pc' = "scan"
  /\ claims' = claims \cup {[ident |-> sc.ident, seg |-> claim]}
  /\ UNCHANGED <<segments, accepted>>

Committed ==
  /\ pc = "accept" /\ pc' = "project" /\ AcceptMedia(Cur, sc)
  /\ claim' = LET found == ResolveMediaClaim(sc.ident, sc.sha, sc.meta)
              IN  IF found.status = "none" THEN Len(segments) + 1 ELSE found.seg
  /\ UNCHANGED <<sc, accepted>>

LEMMA IngestTables ==
  ASSUME TypeInv, ClaimInv, Ingest
  PROVE  UNCHANGED <<segments, claims>> \/ InstallFailed \/ Committed
<1>1. CASE ScanStart \/ ScanNext \/ ScanEnd \/ SignConfirmation
  BY <1>1 DEF ScanStart, ScanNext, ScanEnd, SignConfirmation, ledgerVars
<1>2. CASE Discover \/ ReadSidecar \/ FirstStat \/ SecondStat
  BY <1>2, RecordBindsNothing, FinishBindsNothing
     DEF Discover, ReadSidecar, FirstStat, SecondStat, ledgerVars
<1>3. CASE CopyStart \/ CopyEnd \/ ProbeMedia
  BY <1>3, RecordBindsNothing, FinishBindsNothing DEF CopyStart, CopyEnd, ProbeMedia, ledgerVars
<1>4. CASE ResolveClaim \/ ReuseAccepted
  BY <1>4 DEF ResolveClaim, ReuseAccepted, AppendMediaIngestEvent, InsertMediaIngestEvent, ledgerVars
<1>5. CASE InstallAccepted
  <2>1. CASE UNCHANGED ledgerVars
    BY <2>1 DEF ledgerVars
  <2>2. CASE Finish(sc, "failed", TRUE, claim) /\ UNCHANGED accepted
    <3>1. CASE claim = 0
      BY <2>2, <3>1, FinishBindsNothing
    <3>2. CASE claim # 0
      <4>1. pc = "existing" /\ pc' = "scan"
        BY <1>5, <2>2, <3>2 DEF InstallAccepted, Finish, Return, ClaimInv, WorkerClaim
      <4>2. PICK done \in BOOLEAN : Record(sc, "failed", TRUE, claim, done)
        BY <2>2 DEF Finish
      <4>3. \/ UNCHANGED <<segments, claims>>
            \/ UNCHANGED segments /\ claims' = claims \cup {[ident |-> sc.ident, seg |-> claim]}
        BY <3>2, <4>2 DEF Record, AppendMediaIngestEvent, InsertMediaIngestEvent, ledgerVars
      <4> QED BY <2>2, <4>1, <4>3 DEF InstallFailed
    <3> QED BY <3>1, <3>2
  <2> QED BY <1>5, <2>1, <2>2 DEF InstallAccepted
<1>6. CASE CommitAcceptance
  BY <1>6 DEF CommitAcceptance, Committed, Goto, ledgerVars, storeVars
<1>7. CASE ProjectAcceptance \/ ClearConfirmation \/ WriteConfirmation \/ RememberTerminal
  BY <1>7 DEF ProjectAcceptance, ClearConfirmation, WriteConfirmation, RememberTerminal, ledgerVars
<1>8. CASE Quarantine \/ NoteReason
  BY <1>8, RecordBindsNothing, FinishBindsNothing DEF Quarantine, NoteReason, ledgerVars
<1> QED BY <1>1, <1>2, <1>3, <1>4, <1>5, <1>6, <1>7, <1>8 DEF Ingest

\* Nobody but the worker adds segments or claims.
LEMMA OthersBindNothing ==
  ASSUME [Next]_vars
  PROVE  \/ UNCHANGED <<segments, claims>>
         \/ Ingest /\ UNCHANGED <<opsVars, aged, backupVars, envVars>>
<1>1. CASE Maintenance
  BY <1>1 DEF Maintenance, RetentionStart, RetentionPlan, RetentionRemove, RetentionCommit,
     RetentionEnd, CleanupStat, CleanupRemove, AppendRetentionEvent, CommitRetentionDeletion,
     ledgerVars
<1>2. CASE Restart \/ Crash
  BY <1>2 DEF Restart, Crash, RebuildMediaProjections, ledgerVars
<1>3. CASE World
  BY <1>3 DEF World, Sources, WriteMedia, WriteSidecar, Retire, Publish, Degrade, Recover,
     AgeSegment, AgeStaging, TakeBackup, LoseBackup, Damage, coreVars, ledgerVars
<1>4. CASE UNCHANGED vars
  BY <1>4 DEF vars, ledgerVars
<1> QED BY <1>1, <1>2, <1>3, <1>4 DEF Next

LEMMA ClaimAdded ==
  ASSUME NEW x, NEW k, UNCHANGED segments, claims' = claims \cup {[ident |-> x, seg |-> k]}, NEW id
  PROVE  ClaimedBy(id)' = IF id = x THEN ClaimedBy(id) \cup {k} ELSE ClaimedBy(id)
<1>1. SegmentId' = SegmentId
  BY DEF SegmentId
<1>2. ASSUME NEW j
      PROVE  (\E c \in claims' : c.ident = id /\ c.seg = j)
               <=> (\E c \in claims : c.ident = id /\ c.seg = j) \/ (id = x /\ j = k)
  <2> DEFINE n == [ident |-> x, seg |-> k]
  <2>1. n.ident = x /\ n.seg = k /\ \A c : c \in claims' <=> c \in claims \/ c = n
    OBVIOUS
  <2> HIDE DEF n
  <2> QED BY <2>1
<1>3. ASSUME NEW j
      PROVE  j \in ClaimedBy(id)' <=> j \in ClaimedBy(id) \/ (id = x /\ j = k)
  BY <1>1, <1>2 DEF ClaimedBy
<1> QED BY <1>3

\* Segments are only added; an identity is bound at most once, to the body and
\* the metadata of the sidecar at hand.
NewlyBound(id) ==
  /\ pc \in {"existing", "accept"} /\ id = sc.ident /\ sc \in Sidecar
  /\ UNCHANGED accepted
  /\ ClaimedBy(id) = {}
  /\ \E k \in DOMAIN segments' :
       /\ ClaimedBy(id)' = {k}
       /\ segments'[k].sha = sc.sha /\ segments'[k].meta = sc.meta

LEMMA BindStep ==
  ASSUME TypeInv, ClaimInv, [Next]_vars
  PROVE  /\ \A i \in SegmentId : i \in DOMAIN segments' /\ segments'[i] = segments[i]
         /\ \A id : ClaimedBy(id)' = ClaimedBy(id) \/ NewlyBound(id)
<1>1. CASE UNCHANGED <<segments, claims>>
  BY <1>1 DEF SegmentId, ClaimedBy
<1>2. CASE InstallFailed
  <2>1. sc \in Sidecar
    BY <1>2 DEF InstallFailed, TypeInv, WorkerLocalsOK, Parsed, Processing, Label
  <2>2. \A id : ClaimedBy(id)' = IF id = sc.ident THEN ClaimedBy(id) \cup {claim} ELSE ClaimedBy(id)
    BY <1>2, ClaimAdded DEF InstallFailed
  <2>3. Resolved(sc, claim) \/ ByBody(sc, claim)
    BY <1>2 DEF InstallFailed, ClaimInv, WorkerClaim
  <2>4. claim \in SegmentId /\ segments[claim].sha = sc.sha /\ segments[claim].meta = sc.meta
    BY <2>3, ClaimsAreSegments DEF Resolved, ByBody, SameFact
  <2>5. Resolved(sc, claim) => claim \in ClaimedBy(sc.ident)
    BY ClaimsAreSegments DEF Resolved
  <2>6. \A id : ClaimedBy(id)' = ClaimedBy(id) \/ NewlyBound(id)
    <3> SUFFICES ASSUME NEW id, id = sc.ident, ~Resolved(sc, claim) PROVE NewlyBound(id)
      BY <2>2, <2>5
    <3>1. ClaimedBy(id) = {} /\ ClaimedBy(id)' = {claim}
      BY <2>2, <2>3 DEF ByBody
    <3>2. claim \in DOMAIN segments' /\ segments'[claim] = segments[claim]
      BY <1>2, <2>4 DEF InstallFailed, SegmentId
    <3> QED BY <1>2, <2>1, <2>4, <3>1, <3>2 DEF NewlyBound, InstallFailed
  <2> QED BY <1>2, <2>6 DEF InstallFailed, SegmentId
<1>3. CASE Committed
  <2> DEFINE found == ResolveMediaClaim(sc.ident, sc.sha, sc.meta)
             k == IF found.status = "none" THEN Len(segments) + 1 ELSE found.seg
             row == [ident |-> sc.ident, sha |-> sc.sha, meta |-> sc.meta]
  <2>1. sc \in Sidecar
    BY <1>3 DEF Committed, TypeInv, WorkerLocalsOK, Parsed, Processing, Label
  <2>2. /\ segments' = IF found.status = "none" THEN Append(segments, row) ELSE segments
        /\ claims' = IF k = 0 THEN claims ELSE claims \cup {[ident |-> sc.ident, seg |-> k]}
        /\ found.status # "conflict"
    BY <1>3 DEF Committed, AcceptMedia, InsertMediaIngestEvent
  <2>3. segments \in Seq(Segment) /\ SegmentId = 1 .. Len(segments) /\ Len(segments) \in Nat
    BY DEF TypeInv, LedgerOK, LedgerTypeOK, SegmentId
  <2>4. /\ found.status = "none" <=> Unknown(sc)
        /\ found.status # "none" => Resolved(sc, k) \/ ByBody(sc, k)
    BY <2>2, ClaimCases
  <2>5. Len(segments) + 1 # 0 /\ (found.status # "none" => k \in SegmentId /\ k # 0)
    BY <2>3, <2>4, ClaimsAreSegments
  <2>6. k # 0 /\ claims' = claims \cup {[ident |-> sc.ident, seg |-> k]}
    BY <2>2, <2>5
  <2> HIDE DEF found, k
  <2>7. \A i \in SegmentId : i \in DOMAIN segments' /\ segments'[i] = segments[i]
    BY <2>2, <2>3 DEF SegmentId
  <2>8. /\ k \in DOMAIN segments' /\ segments'[k].sha = sc.sha /\ segments'[k].meta = sc.meta
        /\ DOMAIN segments' = SegmentId \cup {k}
        /\ found.status = "none" => segments'[k].ident = sc.ident
    <3>1. CASE found.status = "none"
      <4>1. k = Len(segments) + 1 /\ segments' = Append(segments, row)
        BY <2>2, <3>1 DEF k
      <4>2. DOMAIN segments' = 1 .. k /\ segments'[k] = row
        BY <2>3, <4>1
      <4> QED BY <2>3, <4>1, <4>2
    <3>2. CASE found.status # "none"
      <4>1. segments' = segments /\ k \in SegmentId
        BY <2>2, <2>5, <3>2
      <4> QED BY <2>4, <3>2, <4>1 DEF SegmentId, Resolved, ByBody, SameFact
    <3> QED BY <3>1, <3>2
  <2>9. \A id : ClaimedBy(id)' = IF id = sc.ident THEN ClaimedBy(id) \cup {k} ELSE ClaimedBy(id)
    <3>1. CASE found.status = "none"
      BY <2>6, <2>7, <2>8, <3>1 DEF ClaimedBy, SegmentId
    <3>2. CASE found.status # "none"
      BY <2>2, <2>6, <3>2, ClaimAdded
    <3> QED BY <3>1, <3>2
  <2>10. Resolved(sc, k) => k \in ClaimedBy(sc.ident)
    BY ClaimsAreSegments DEF Resolved
  <2>11. \A id : ClaimedBy(id)' = ClaimedBy(id) \/ NewlyBound(id)
    <3> SUFFICES ASSUME NEW id, id = sc.ident, ~Resolved(sc, k) PROVE NewlyBound(id)
      BY <2>9, <2>10
    <3>1. ClaimedBy(id) = {} /\ ClaimedBy(id)' = {k}
      BY <2>4, <2>9 DEF ByBody, Unknown
    <3> QED BY <1>3, <2>1, <2>8, <3>1 DEF NewlyBound, Committed
  <2> QED BY <2>7, <2>11
<1> QED BY <1>1, <1>2, <1>3, IngestTables, OthersBindNothing

\* What an identity resolves to, it resolves to for good.
LEMMA ResolvedStable ==
  ASSUME TypeInv, ClaimInv, [Next]_vars, NEW x, NEW k, Resolved(x, k)
  PROVE  Resolved(x, k)'
<1>1. k \in SegmentId /\ ClaimedBy(x.ident) # {}
  BY ClaimsAreSegments DEF Resolved
<1>2. ClaimedBy(x.ident)' = ClaimedBy(x.ident) /\ segments'[k] = segments[k]
  BY <1>1, BindStep DEF NewlyBound
<1> QED BY <1>2 DEF Resolved, SameFact, First

-----------------------------------------------------------------------------
(* Preservation.                                                            *)

\* Where the labels after the commit, and the signing of a confirmation, come from.
LEMMA ReachConfirm ==
  ASSUME Ingest, pc' \in {"project", "confirm", "rename", "sign"}
  PROVE  CommitAcceptance \/ ProjectAcceptance \/ ClearConfirmation \/ ScanNext
<1>1. ~(ScanStart \/ ScanEnd \/ SignConfirmation)
  BY DEF ScanStart, ScanEnd, SignConfirmation, Return, Goto
<1>2. ~(Discover \/ ReadSidecar \/ FirstStat \/ SecondStat \/ CopyStart \/ CopyEnd)
  BY DEF Discover, ReadSidecar, FirstStat, SecondStat, CopyStart, CopyEnd, Return, Goto, Finish
<1>3. ~(ProbeMedia \/ ResolveClaim \/ ReuseAccepted \/ InstallAccepted)
  BY DEF ProbeMedia, ResolveClaim, ReuseAccepted, InstallAccepted, Return, Goto, Finish, AfterClaim
<1>4. ~(WriteConfirmation \/ Quarantine \/ NoteReason \/ RememberTerminal)
  BY DEF WriteConfirmation, Quarantine, NoteReason, RememberTerminal, Return, Goto, Finish
<1> QED BY <1>1, <1>2, <1>3, <1>4 DEF Ingest

\* The acceptance transaction leaves the identity bound to the segment it returns.
LEMMA CommitResolves ==
  ASSUME TypeInv, ClaimInv, [Next]_vars, Committed
  PROVE  Resolved(sc, claim)'
<1> DEFINE found == ResolveMediaClaim(sc.ident, sc.sha, sc.meta)
<1>1. /\ claim' = IF found.status = "none" THEN Len(segments) + 1 ELSE found.seg
      /\ found.status # "conflict" /\ UNCHANGED sc
      /\ claim' # 0 => [ident |-> sc.ident, seg |-> claim'] \in claims'
  BY DEF Committed, AcceptMedia, InsertMediaIngestEvent
<1>2. found.status # "none" => Resolved(sc, claim') \/ ByBody(sc, claim')
  BY <1>1, ClaimCases
<1>3. claim' # 0
  <2>1. Len(segments) \in Nat /\ (found.status # "none" => claim' \in SegmentId) /\ 0 \notin SegmentId
    BY <1>2, ClaimsAreSegments
  <2> QED BY <1>1, <2>1
<1>4. PICK id, k : id = sc.ident /\ k = claim'
  OBVIOUS
<1>5. k \in ClaimedBy(id)'
  <2>1. PICK c \in claims' : c.ident = id /\ c.seg = k
    BY <1>1, <1>3, <1>4
  <2> QED BY <2>1 DEF ClaimedBy
<1>6. ClaimedBy(id)' # {} /\ k = First(ClaimedBy(id)') /\ SameFact(k, sc.sha, sc.meta)'
  <2>1. CASE NewlyBound(id)
    <3>1. ClaimedBy(id)' = {k} /\ segments'[k].sha = sc.sha /\ segments'[k].meta = sc.meta
          /\ k \in DOMAIN segments'
      BY <1>5, <2>1 DEF NewlyBound
    <3>2. k \in Nat
      BY <3>1, TypeInvStep DEF TypeInv, LedgerOK, LedgerTypeOK
    <3>3. First({k}) = k
      BY <3>2 DEF First
    <3> QED BY <1>1, <3>1, <3>3 DEF SameFact
  <2>2. CASE ClaimedBy(id)' = ClaimedBy(id)
    <3>1. ClaimedBy(id) # {}
      BY <1>5, <2>2
    <3>2. ~Unknown(sc) /\ ~ByBody(sc, claim')
      BY <1>4, <3>1 DEF Unknown, ByBody
    <3>3. Resolved(sc, claim')
      BY <1>2, <3>2, ClaimCases
    <3>4. k = First(ClaimedBy(id)) /\ SameFact(k, sc.sha, sc.meta) /\ k \in SegmentId
      BY <1>4, <3>3, ClaimsAreSegments DEF Resolved
    <3>5. segments'[k] = segments[k]
      BY <3>4, BindStep
    <3> QED BY <1>1, <1>5, <2>2, <3>4, <3>5 DEF SameFact
  <2> QED BY <2>1, <2>2, BindStep
<1> QED BY <1>1, <1>4, <1>6 DEF Resolved, First

LEMMA OthersKeepWorker ==
  ASSUME [Next]_vars, ~Ingest
  PROVE  UNCHANGED workerVars \/ pc' \in {"down", "idle", "off"}
BY DEF Next, Maintenance, RetentionStart, RetentionPlan, RetentionRemove, RetentionCommit,
     RetentionEnd, CleanupStat, CleanupRemove, Restart, Crash, World, Sources, WriteMedia,
     WriteSidecar, Retire, Publish, Degrade, Recover, AgeSegment, AgeStaging, TakeBackup,
     LoseBackup, Damage, coreVars, vars, workerVars

\* Without new segments or claims the verdict on a sidecar stays.
LEMMA SameVerdict ==
  ASSUME UNCHANGED <<segments, claims>>, NEW x, NEW k
  PROVE  /\ Unknown(x)' <=> Unknown(x)
         /\ Resolved(x, k)' <=> Resolved(x, k)
         /\ ByBody(x, k)' <=> ByBody(x, k)
<1>1. ClaimedBy(x.ident)' = ClaimedBy(x.ident) /\ WithBody(x.sha)' = WithBody(x.sha)
  BY DEF ClaimedBy, WithBody, SegmentId
<1> QED BY <1>1 DEF Unknown, Resolved, ByBody, SameFact, First

LEMMA WorkerClaimKept ==
  ASSUME TypeInv, ClaimInv, [Next]_vars
  PROVE  WorkerClaim'
<1>1. ASSUME UNCHANGED <<segments, claims, sc>>
      PROVE  /\ Unknown(sc)' <=> Unknown(sc)
             /\ \A k : (Resolved(sc, k)' <=> Resolved(sc, k)) /\ (ByBody(sc, k)' <=> ByBody(sc, k))
  <2>1. PICK x : x = sc
    OBVIOUS
  <2>2. /\ Unknown(x)' <=> Unknown(x)
        /\ \A k : (Resolved(x, k)' <=> Resolved(x, k)) /\ (ByBody(x, k)' <=> ByBody(x, k))
    BY <1>1, SameVerdict
  <2> QED BY <1>1, <2>1, <2>2 DEF Unknown, Resolved, ByBody, SameFact
<1>2. CASE ~Ingest
  <2>1. CASE pc' \in {"down", "idle", "off"}
    BY <2>1 DEF WorkerClaim
  <2>2. CASE UNCHANGED workerVars
    <3>1. UNCHANGED <<pc, sc, claim, segments, claims>>
      BY <1>2, <2>2, OthersBindNothing DEF workerVars
    <3>2. \A k : (Resolved(sc, k)' <=> Resolved(sc, k)) /\ (ByBody(sc, k)' <=> ByBody(sc, k))
      BY <1>1, <3>1
    <3>3. PICK k : k = claim
      OBVIOUS
    <3>4. Resolved(sc, claim)' <=> Resolved(sc, claim)
      BY <3>1, <3>2, <3>3 DEF Resolved, SameFact
    <3>5. ByBody(sc, claim)' <=> ByBody(sc, claim)
      BY <3>1, <3>2, <3>3 DEF ByBody, SameFact
    <3> QED BY <1>1, <3>1, <3>2, <3>4, <3>5 DEF ClaimInv, WorkerClaim
  <2> QED BY <1>2, <2>1, <2>2, OthersKeepWorker
<1>3. CASE Ingest /\ pc' \in {"install", "existing"}
  <2>1. ResolveClaim
    BY <1>3, ReachVerified DEF Verified, CopyEnd, ProbeMedia, Goto, Return, Finish
  <2> DEFINE found == ResolveMediaClaim(sc.ident, sc.sha, sc.meta)
  <2>2. /\ claim' = IF found.status = "duplicate" THEN found.seg ELSE 0
        /\ pc' = AfterClaim(found.status) /\ UNCHANGED <<segments, claims, sc>>
    BY <1>3, <2>1 DEF ResolveClaim, Goto, Return, ledgerVars
  <2>3. /\ pc' = "install" => found.status = "none"
        /\ pc' = "existing" => found.status = "duplicate"
    BY <2>2, ClaimCases DEF AfterClaim
  <2>4. PICK x, k : x = sc /\ k = claim'
    OBVIOUS
  <2>5. /\ pc' = "install" => Unknown(x)' /\ claim' = 0
        /\ pc' = "existing" => Resolved(x, k)' \/ ByBody(x, k)'
    <3>1. /\ pc' = "install" => Unknown(x) /\ claim' = 0
          /\ pc' = "existing" => Resolved(x, k) \/ ByBody(x, k)
      BY <2>2, <2>3, <2>4, ClaimCases
    <3> QED BY <2>2, <3>1, SameVerdict
  <2> QED BY <1>3, <2>2, <2>4, <2>5 DEF WorkerClaim, Unknown, Resolved, ByBody, SameFact
<1>4. CASE Ingest /\ pc' = "accept"
  <2>1. ReuseAccepted \/ InstallAccepted
    BY <1>4, ReachAccept
  <2>2. UNCHANGED <<segments, claims, sc, claim>> /\ pc \in {"existing", "install"}
    BY <1>4, <2>1 DEF ReuseAccepted, InstallAccepted, Finish, Return, ledgerVars
  <2>3. Unknown(sc) \/ Resolved(sc, claim) \/ ByBody(sc, claim)
    BY <2>2 DEF ClaimInv, WorkerClaim
  <2>4. Unknown(sc)' \/ \E k : Resolved(sc, k)' \/ ByBody(sc, k)'
    BY <1>1, <2>2, <2>3
  <2> QED BY <1>4, <2>4 DEF WorkerClaim
<1>5. CASE Ingest /\ pc' \in {"project", "confirm", "rename"}
  <2>1. CASE CommitAcceptance
    <3>1. Committed
      BY <1>5, <2>1 DEF CommitAcceptance, Committed, Goto, Return, storeVars
    <3> QED BY <1>5, <3>1, CommitResolves DEF WorkerClaim
  <2>2. CASE ProjectAcceptance \/ ClearConfirmation
    <3>1. UNCHANGED <<segments, claims, sc, claim>> /\ pc \in {"project", "confirm"}
      BY <1>5, <2>2 DEF ProjectAcceptance, ClearConfirmation, Goto, Return, ledgerVars
    <3>2. PICK x, k : x = sc /\ k = claim
      OBVIOUS
    <3>3. Resolved(x, k)'
      BY <3>1, <3>2, ResolvedStable DEF ClaimInv, WorkerClaim
    <3> QED BY <1>5, <3>1, <3>2, <3>3 DEF WorkerClaim, Resolved, SameFact
  <2>3. ~ScanNext
    BY <1>5 DEF ScanNext
  <2> QED BY <1>5, <2>1, <2>2, <2>3, ReachConfirm
<1>6. CASE pc' \notin {"install", "existing", "accept", "project", "confirm", "rename"}
  BY <1>6 DEF WorkerClaim
<1> QED BY <1>2, <1>3, <1>4, <1>5, <1>6

LEMMA SignKept ==
  ASSUME TypeInv, ClaimInv, [Next]_vars
  PROVE  SignKnown'
<1> SUFFICES ASSUME pc' = "sign", conf'[Cur'] # NoFile
             PROVE  Resolved(conf[Cur].fp, conf[Cur].seg)'
  BY DEF SignKnown
<1>1. PICK x, k : x = conf'[Cur'].fp /\ k = conf'[Cur'].seg
  OBVIOUS
<1>2. Resolved(x, k)
  <2>1. CASE Ingest
    <3>1. ScanNext
      BY <2>1, ReachConfirm DEF CommitAcceptance, ProjectAcceptance, ClearConfirmation, Goto, Return
    <3>2. ConfirmationValid(NextCandidate) /\ scanCursor' = NextCandidate /\ UNCHANGED conf
      BY <3>1 DEF ScanNext, inboxVars
    <3> QED BY <1>1, <3>2, ConfirmedIsResolved DEF ConfirmationValid, SignatureOk, Described, Cur
  <2>2. CASE ~Ingest
    <3>1. UNCHANGED <<pc, scanCursor>>
      BY <2>2, OthersKeepWorker DEF workerVars
    <3>2. conf \in [Source -> [fp : Sidecar, seg : Nat] \cup {NoFile}] /\ Cur \in Source
      BY <3>1 DEF TypeInv, InboxTypeOK, WorkerLocalsOK, Processing, Label, Cur
    <3>3. conf' = conf \/ \E s \in Source : conf' = [conf EXCEPT ![s] = NoFile]
      BY <2>2 DEF Next, Maintenance, RetentionStart, RetentionPlan, RetentionRemove,
         RetentionCommit, RetentionEnd, CleanupStat, CleanupRemove, Restart, Crash, World, Sources,
         WriteMedia, WriteSidecar, Retire, Publish, Degrade, Recover, AgeSegment, AgeStaging,
         TakeBackup, LoseBackup, Damage, coreVars, vars, inboxVars
    <3>4. conf'[Cur] = conf[Cur]
      BY <3>1, <3>2, <3>3 DEF Cur
    <3> QED BY <1>1, <3>1, <3>4 DEF ClaimInv, SignKnown, Cur
  <2> QED BY <2>1, <2>2
<1>3. Resolved(x, k)'
  BY <1>2, ResolvedStable
<1> QED BY <1>1, <1>3 DEF Resolved, SameFact

\* Only SignConfirmation makes a confirmation count.
LEMMA CheckStep ==
  ASSUME TypeInv, [Next]_vars, NEW s \in Source, check'[s] = "confirmed"
  PROVE  \/ check[s] = "confirmed" /\ conf'[s] = conf[s] /\ sidecar'[s] = sidecar[s]
         \/ /\ pc = "sign" /\ s = Cur /\ SignatureOk(Cur)
            /\ UNCHANGED <<conf, sidecar>>
<1> USE DEF TypeInv, StoreTypeOK, InboxTypeOK
<1>1. CASE Ingest
  <2>1. CASE SignConfirmation \/ RememberTerminal
    BY <2>1 DEF SignConfirmation, RememberTerminal, Return, Goto, inboxVars
  <2>2. CASE ClearConfirmation \/ WriteConfirmation
    BY <2>2 DEF ClearConfirmation, WriteConfirmation, Stale
  <2>3. CASE InstallAccepted \/ Quarantine \/ NoteReason
    <3>1. UNCHANGED inboxVars /\ \E S, kinds : check' \in {check, Stale(S, kinds)}
      BY <2>3 DEF InstallAccepted, Quarantine, NoteReason
    <3> QED BY <3>1 DEF Stale, inboxVars
  <2>4. CASE UNCHANGED <<check, inboxVars>>
    BY <2>4 DEF inboxVars
  <2> QED BY <1>1, <2>1, <2>2, <2>3, <2>4 DEF Ingest, ScanStart, ScanNext, ScanEnd, Discover,
       ReadSidecar, FirstStat, SecondStat, CopyStart, CopyEnd, ProbeMedia, ResolveClaim,
       ReuseAccepted, CommitAcceptance, ProjectAcceptance
<1>2. CASE Maintenance \/ Restart \/ Crash \/ Degrade \/ Recover \/ AgeSegment \/ AgeStaging
             \/ TakeBackup \/ LoseBackup \/ Damage \/ UNCHANGED vars
  <2>1. UNCHANGED inboxVars /\ (UNCHANGED check \/ \E S, kinds : check' = Stale(S, kinds))
    BY <1>2 DEF Maintenance, RetentionStart, RetentionPlan, RetentionRemove, RetentionCommit,
       RetentionEnd, CleanupStat, CleanupRemove, Restart, Crash, Degrade, Recover, AgeSegment,
       AgeStaging, TakeBackup, LoseBackup, Damage, vars
  <2> QED BY <2>1 DEF Stale, inboxVars
<1>3. CASE Sources
  BY <1>3 DEF Sources, WriteMedia, WriteSidecar, Retire, Publish, Stale
<1> QED BY <1>1, <1>2, <1>3 DEF Next, World

LEMMA CheckKept ==
  ASSUME TypeInv, ClaimInv, [Next]_vars
  PROVE  CheckKnown'
<1> SUFFICES ASSUME NEW s \in Source, check'[s] = "confirmed"
             PROVE  /\ conf'[s] # NoFile /\ conf'[s].fp = sidecar'[s]
                    /\ Resolved(conf[s].fp, conf[s].seg)'
  BY DEF CheckKnown
<1>1. conf'[s] = conf[s] /\ sidecar'[s] = sidecar[s]
      /\ conf[s] # NoFile /\ conf[s].fp = sidecar[s] /\ Resolved(conf[s].fp, conf[s].seg)
  BY CheckStep DEF ClaimInv, CheckKnown, SignKnown, SignatureOk, Described
<1>2. PICK x, k : x = conf[s].fp /\ k = conf[s].seg
  OBVIOUS
<1>3. Resolved(x, k)'
  BY <1>1, <1>2, ResolvedStable
<1> QED BY <1>1, <1>2, <1>3 DEF Resolved, SameFact

LEMMA ClaimInvStep == TypeInv /\ ClaimInv /\ [Next]_vars => ClaimInv'
BY WorkerClaimKept, SignKept, CheckKept DEF ClaimInv

LEMMA ClaimInvariant == Spec => []ClaimInv
BY ClaimInit, ClaimInvStep, TypeInvariant, PTL DEF Spec

-----------------------------------------------------------------------------
(* Theorems.                                                                *)

\* The verdict of ResolveClaim is never overtaken: when AcceptMedia resolves the
\* claim again, after the copy was verified, installed and maybe damaged or deleted
\* by others, it meets no conflict.
THEOREM VerdictHolds == Spec => []AcceptNeverConflicts
<1>1. ClaimInv => AcceptNeverConflicts
  BY ClaimCases DEF ClaimInv, WorkerClaim, AcceptNeverConflicts
<1> QED BY <1>1, ClaimInvariant, PTL

\* isConfirmed's cache: however often files were rewritten between the validation of
\* a confirmation and its signature, a source is skipped only while its identity is
\* committed to the very segment the confirmation names.
THEOREM SkippedOnlyConfirmed == Spec => []CachedConfirmationSound
<1>1. TypeInv /\ ClaimInv => CachedConfirmationSound
  BY ClaimsAreSegments DEF ClaimInv, CheckKnown, CachedConfirmationSound, Resolved, SameFact
<1> QED BY <1>1, TypeInvariant, ClaimInvariant, PTL

\* No later publication, retry or failed installation rebinds an identity.
THEOREM ClaimsNeverMove == Spec => ClaimStable
<1>1. ASSUME TypeInv, ClaimInv, [Next]_vars, NEW id \in Ident, ClaimedBy(id) # {}
      PROVE  First(ClaimedBy(id))' = First(ClaimedBy(id))
  <2>1. ClaimedBy(id)' = ClaimedBy(id)
    BY <1>1, BindStep DEF NewlyBound
  <2> QED BY <2>1 DEF First
<1>2. TypeInv /\ ClaimInv /\ [Next]_vars =>
        [\A id \in Ident : ClaimedBy(id) # {} => First(ClaimedBy(id))' = First(ClaimedBy(id))]_vars
  BY <1>1
<1> QED BY <1>2, TypeInvariant, ClaimInvariant, PTL DEF Spec, ClaimStable

\* What writeConfirmation puts beside a source was committed before, as told.
THEOREM ConfirmationsTrue == Spec => ConfirmationTrue
<1> DEFINE Told ==
      \A s \in Source, x \in Sidecar :
        conf'[s] # NoFile /\ conf'[s] # conf[s] /\ conf'[s].fp = x =>
          /\ conf'[s].seg \in DOMAIN segments'
          /\ segments'[conf'[s].seg].sha = x.sha
          /\ segments'[conf'[s].seg].meta = x.meta
          /\ conf'[s].seg = First(ClaimedBy(x.ident))'
<1>1. TypeInv /\ ClaimInv /\ [Next]_vars => Told
  <2> SUFFICES ASSUME TypeInv, ClaimInv, [Next]_vars, NEW s \in Source, NEW x \in Sidecar,
                      conf'[s] # NoFile, conf'[s] # conf[s], conf'[s].fp = x
               PROVE  /\ conf'[s].seg \in DOMAIN segments'
                      /\ segments'[conf'[s].seg].sha = x.sha
                      /\ segments'[conf'[s].seg].meta = x.meta
                      /\ conf'[s].seg = First(ClaimedBy(x.ident))'
    OBVIOUS
  <2>1. WriteConfirmation
    <3>1. conf \in [Source -> [fp : Sidecar, seg : Nat] \cup {NoFile}]
      BY DEF TypeInv, InboxTypeOK
    <3>2. CASE Ingest
      BY <3>1, <3>2 DEF Ingest, ScanStart, ScanNext, ScanEnd, SignConfirmation, Discover,
         ReadSidecar, FirstStat, SecondStat, CopyStart, CopyEnd, ProbeMedia, ResolveClaim,
         ReuseAccepted, InstallAccepted, CommitAcceptance, ProjectAcceptance, ClearConfirmation,
         Quarantine, NoteReason, RememberTerminal, inboxVars
    <3>3. CASE ~Ingest
      BY <3>1, <3>3 DEF Next, Maintenance, RetentionStart, RetentionPlan, RetentionRemove,
         RetentionCommit, RetentionEnd, CleanupStat, CleanupRemove, Restart, Crash, World, Sources,
         WriteMedia, WriteSidecar, Retire, Publish, Degrade, Recover, AgeSegment, AgeStaging,
         TakeBackup, LoseBackup, Damage, coreVars, vars, inboxVars
    <3> QED BY <3>2, <3>3
  <2>2. conf'[s] = [fp |-> sc, seg |-> claim] /\ UNCHANGED <<segments, claims>>
    BY <2>1 DEF WriteConfirmation, TypeInv, InboxTypeOK, ledgerVars
  <2>3. PICK k : k = claim
    OBVIOUS
  <2>4. Resolved(x, k) /\ conf'[s].seg = k
    BY <2>1, <2>2, <2>3 DEF WriteConfirmation, ClaimInv, WorkerClaim
  <2>5. Resolved(x, k)' /\ k \in SegmentId
    BY <2>4, ResolvedStable, ClaimsAreSegments
  <2> QED BY <2>2, <2>4, <2>5 DEF Resolved, SameFact, SegmentId
<1>2. TypeInv /\ ClaimInv /\ [Next]_vars => [Told]_vars
  BY <1>1
<1> QED BY <1>2, TypeInvariant, ClaimInvariant, PTL DEF Spec, ConfirmationTrue

\* A later candidate for the same quarantine name never replaces what is there.
THEOREM QuarantineNeverReplaced == Spec => QuarantineKept
<1> DEFINE Kept == \A q \in Source \X Sidecar : quar[q].body # NoFile => quar'[q].body = quar[q].body
<1>1. TypeInv /\ [Next]_vars => Kept
  <2> SUFFICES ASSUME TypeInv, [Next]_vars, NEW q \in Source \X Sidecar, quar[q].body # NoFile
               PROVE  quar'[q].body = quar[q].body
    OBVIOUS
  <2>1. quar \in [Source \X Sidecar -> [body : Body, noted : BOOLEAN]]
    BY DEF TypeInv, StoreTypeOK
  <2>2. CASE Quarantine
    <3>1. \/ UNCHANGED quar
          \/ \E cand : /\ SameEvidence(quar[<<Cur, sc>>].body, cand)
                       /\ quar' = [quar EXCEPT ![<<Cur, sc>>].body = cand]
      BY <2>2, Zenon DEF Quarantine
    <3>2. CASE \E cand : /\ SameEvidence(quar[<<Cur, sc>>].body, cand)
                         /\ quar' = [quar EXCEPT ![<<Cur, sc>>].body = cand]
      <4>1. PICK cand : /\ SameEvidence(quar[<<Cur, sc>>].body, cand)
                        /\ quar' = [quar EXCEPT ![<<Cur, sc>>].body = cand]
        BY <3>2
      <4>2. CASE q = <<Cur, sc>>
        BY <2>1, <4>1, <4>2 DEF SameEvidence
      <4>3. CASE q # <<Cur, sc>>
        BY <2>1, <4>1, <4>3
      <4> QED BY <4>2, <4>3
    <3> QED BY <3>1, <3>2
  <2>3. CASE NoteReason
    <3>1. quar' = [quar EXCEPT ![<<Cur, sc>>].noted = TRUE]
      BY <2>3 DEF NoteReason
    <3> QED BY <2>1, <3>1
  <2>4. CASE UNCHANGED quar
    BY <2>4
  <2>5. UNCHANGED quar \/ Quarantine \/ NoteReason
    BY DEF Next, Ingest, ScanStart, ScanNext, ScanEnd, SignConfirmation, Discover,
       ReadSidecar, FirstStat, SecondStat, CopyStart, CopyEnd, ProbeMedia, ResolveClaim,
       ReuseAccepted, InstallAccepted, CommitAcceptance, ProjectAcceptance, ClearConfirmation,
       WriteConfirmation, RememberTerminal,
       Maintenance, RetentionStart, RetentionPlan, RetentionRemove, RetentionCommit, RetentionEnd,
       CleanupStat, CleanupRemove, Restart, Crash, World, Sources, WriteMedia, WriteSidecar, Retire,
       Publish, Degrade, Recover, AgeSegment, AgeStaging, TakeBackup, LoseBackup, Damage, coreVars,
       vars, storeVars
  <2> QED BY <2>2, <2>3, <2>4, <2>5
<1>2. TypeInv /\ [Next]_vars => [Kept]_vars
  BY <1>1
<1> QED BY <1>2, TypeInvariant, PTL DEF Spec, QuarantineKept

-----------------------------------------------------------------------------
(* The media path implements the vault.                                     *)

Binding == [id \in Ident |-> BoundTo(id)]
Managed == {h \in Content : accepted[h] = h}

\* A step that binds nothing new leaves the binding alone.
LEMMA BoundToStep ==
  ASSUME TypeInv, ClaimInv, [Next]_vars, NEW id
  PROVE  /\ ~NewlyBound(id) => BoundTo(id)' = BoundTo(id)
         /\ NewlyBound(id) => /\ BoundTo(id) = NoFile
                              /\ BoundTo(id)' = [body |-> sc.sha, meta |-> sc.meta]
<1>1. ASSUME ~NewlyBound(id)
      PROVE  BoundTo(id)' = BoundTo(id)
  <2>1. ClaimedBy(id)' = ClaimedBy(id)
    BY <1>1, BindStep
  <2>2. ClaimedBy(id) # {} => First(ClaimedBy(id)) \in SegmentId
    BY ClaimsAreSegments
  <2>3. ClaimedBy(id) # {} => segments'[First(ClaimedBy(id))] = segments[First(ClaimedBy(id))]
    BY <2>2, BindStep
  <2> QED BY <2>1, <2>3 DEF BoundTo, First
<1>2. ASSUME NewlyBound(id)
      PROVE  BoundTo(id) = NoFile /\ BoundTo(id)' = [body |-> sc.sha, meta |-> sc.meta]
  <2>1. PICK k \in DOMAIN segments' : /\ ClaimedBy(id)' = {k} /\ ClaimedBy(id) = {}
                                      /\ segments'[k].sha = sc.sha /\ segments'[k].meta = sc.meta
    BY <1>2 DEF NewlyBound
  <2>2. k \in Nat
    BY TypeInvStep DEF TypeInv, LedgerOK, LedgerTypeOK
  <2>3. First({k}) = k
    BY <2>2 DEF First
  <2> QED BY <2>1, <2>3 DEF BoundTo, First
<1> QED BY <1>1, <1>2

\* What any step may do to the backups, to the letter.
LEMMA BackupExact ==
  ASSUME [Next]_vars
  PROVE  \/ UNCHANGED backups
         \/ /\ UNCHANGED <<segments, claims, accepted, damaged>>
            /\ \/ /\ Complete(Listed)
                  /\ backups' = backups \cup {segments[i].sha : i \in Listed}
               \/ \E h \in backups : accepted[h] = h /\ backups' = backups \ {h}
<1>1. CASE Ingest /\ UNCHANGED <<opsVars, aged, backupVars, envVars>>
  BY <1>1 DEF backupVars
<1>2. CASE Maintenance \/ Restart \/ Crash \/ UNCHANGED vars
  BY <1>2 DEF Maintenance, RetentionStart, RetentionPlan, RetentionRemove, RetentionCommit,
     RetentionEnd, CleanupStat, CleanupRemove, Restart, Crash, vars, backupVars
<1>3. CASE TakeBackup \/ LoseBackup
  BY <1>3 DEF TakeBackup, LoseBackup, ledgerVars, storeVars, envVars
<1>4. CASE World /\ ~TakeBackup /\ ~LoseBackup
  BY <1>4 DEF World, Sources, WriteMedia, WriteSidecar, Retire, Publish, Degrade, Recover,
     AgeSegment, AgeStaging, Damage, coreVars, backupVars
<1> QED BY <1>1, <1>2, <1>3, <1>4 DEF Next

LEMMA VaultStep ==
  ASSUME RequireFullBackup, TypeInv, EvidenceInv, ClaimInv, [Next]_vars
  PROVE  [Promise!Next]_(Promise!vars)
<1>1. /\ accepted \in [Content -> Body] /\ NoFile \notin Content /\ Torn \notin Content
      /\ \A i \in SegmentId : segments[i].sha \in Content /\ Covered(segments[i].sha)
  <2>1. segments \in Seq(Segment) /\ SegmentId = 1 .. Len(segments)
    BY DEF TypeInv, LedgerOK, LedgerTypeOK, SegmentId
  <2>2. \A i \in SegmentId : segments[i] \in Segment
    BY <2>1, ElementOfSeq
  <2>3. \A i \in SegmentId : segments[i].sha \in Content
    BY <2>2 DEF Segment
  <2> QED BY <2>3, LedgerAssumption, IngestAssumption DEF TypeInv, StoreTypeOK, EvidenceInv,
             EvidenceSurvives, Covered
<1>2. CASE \E id \in Ident : NewlyBound(id)
  <2>1. PICK id \in Ident : NewlyBound(id)
    BY <1>2
  <2>2. /\ sc \in Sidecar /\ id = sc.ident /\ UNCHANGED accepted
        /\ ~UNCHANGED <<segments, claims>>
    BY <2>1 DEF NewlyBound, ClaimedBy, SegmentId
  <2>3. UNCHANGED <<accepted, backups, damaged>>
    BY <2>2, OthersBindNothing DEF backupVars, envVars
  <2>4. sc.sha \in Content /\ sc.meta \in Meta
    BY <2>2, LedgerAssumption DEF SidecarFields
  <2>5. Covered(sc.sha)
    <3>1. CASE pc = "accept"
      BY <3>1 DEF EvidenceInv, BodyBeforeSegment
    <3>2. CASE pc = "existing"
      <4>1. Resolved(sc, claim) \/ ByBody(sc, claim)
        BY <3>2 DEF ClaimInv, WorkerClaim
      <4>2. claim \in SegmentId /\ segments[claim].sha = sc.sha
        BY <4>1, ClaimsAreSegments DEF Resolved, ByBody, SameFact
      <4> QED BY <1>1, <4>2
    <3> QED BY <2>1, <3>1, <3>2 DEF NewlyBound
  <2>6. Binding[id] = NoFile
    BY <2>1, BoundToStep DEF Binding
  <2>7. Binding' = [Binding EXCEPT ![id] = [body |-> sc.sha, meta |-> sc.meta]]
    <3>1. \A j \in Ident : j # id => ~NewlyBound(j)
      BY <2>2 DEF NewlyBound
    <3>2. \A j \in Ident : BoundTo(j)' = IF j = id THEN [body |-> sc.sha, meta |-> sc.meta]
                                         ELSE BoundTo(j)
      BY <2>1, <3>1, BoundToStep
    <3> QED BY <3>2 DEF Binding
  <2>8. Promise!Bind(id, sc.sha, sc.meta)
    BY <2>3, <2>4, <2>5, <2>6, <2>7 DEF Promise!Bind, Binding, Managed, Covered
  <2> QED BY <2>4, <2>8 DEF Promise!Next
<1>3. CASE \A id \in Ident : ~NewlyBound(id)
  <2>1. Binding' = Binding
    BY <1>3, BoundToStep DEF Binding
  <2>2. CASE UNCHANGED <<accepted, damaged>>
    <3>1. Managed' = Managed
      BY <2>2 DEF Managed
    <3>2. CASE UNCHANGED backups
      BY <2>1, <2>2, <3>1, <3>2 DEF Promise!vars, Binding, Managed
    <3>3. CASE Complete(Listed) /\ backups' = backups \cup {segments[i].sha : i \in Listed}
      <4> DEFINE S == {segments[i].sha : i \in Listed}
      <4>1. S \subseteq Managed /\ S \in SUBSET Content
        BY <1>1, <3>3 DEF Complete, Listed, Managed
      <4>2. Promise!Backup(S)
        BY <2>1, <2>2, <3>1, <3>3, <4>1 DEF Promise!Backup, Binding, Managed
      <4> QED BY <4>1, <4>2 DEF Promise!Next
    <3>4. CASE \E h \in backups : accepted[h] = h /\ backups' = backups \ {h}
      <4>1. PICK h \in backups : accepted[h] = h /\ backups' = backups \ {h}
        BY <3>4
      <4>2. h \in Managed /\ h \in Content
        BY <4>1 DEF Managed, TypeInv, RetentionTypeOK
      <4>3. Promise!Fade(h)
        BY <2>1, <2>2, <3>1, <4>1, <4>2 DEF Promise!Fade, Binding, Managed
      <4> QED BY <4>2, <4>3 DEF Promise!Next
    <3> QED BY <3>2, <3>3, <3>4, BackupExact
  <2>3. CASE /\ sc \in Sidecar /\ accepted[sc.sha] = NoFile /\ UNCHANGED <<damaged, backups>>
             /\ accepted' = [accepted EXCEPT ![sc.sha] = sc.sha]
    <3>1. sc.sha \in Content
      BY <2>3, LedgerAssumption DEF SidecarFields
    <3>2. PICK h \in Content : h = sc.sha
      BY <3>1
    <3>3. Managed' = Managed \cup {h}
      BY <1>1, <2>3, <3>2 DEF Managed
    <3>4. Promise!Install(h)
      BY <2>1, <2>3, <3>3 DEF Promise!Install, Binding, Managed
    <3> QED BY <3>4 DEF Promise!Next
  <2>4. CASE /\ opc = "remove" /\ UNCHANGED <<damaged, backups>>
             /\ accepted' = [accepted EXCEPT ![segments[victim].sha] = NoFile]
    <3>1. PICK h \in Content : h = segments[victim].sha /\ h \in backups
      BY <1>1, <2>4 DEF EvidenceInv, BackupBeforeRemove, TypeInv, OpsLocalsOK
    <3>2. Managed' = Managed \ {h}
      BY <1>1, <2>4, <3>1 DEF Managed
    <3>3. CASE h \in Managed
      <4>1. Promise!Drop(h)
        BY <2>1, <2>4, <3>1, <3>2, <3>3 DEF Promise!Drop, Binding, Managed
      <4> QED BY <4>1 DEF Promise!Next
    <3>4. CASE h \notin Managed
      <4>1. Managed' = Managed
        BY <3>2, <3>4
      <4> QED BY <2>1, <2>4, <4>1 DEF Promise!vars, Binding, Managed
    <3> QED BY <3>3, <3>4
  <2>5. CASE \E h \in Content, b \in {NoFile, Torn} :
               /\ accepted' = [accepted EXCEPT ![h] = b] /\ damaged' = damaged \cup {h}
               /\ UNCHANGED backups
    <3>1. PICK h \in Content, b \in {NoFile, Torn} :
               /\ accepted' = [accepted EXCEPT ![h] = b] /\ damaged' = damaged \cup {h}
               /\ UNCHANGED backups
      BY <2>5
    <3>2. Managed' = Managed \ {h}
      BY <1>1, <3>1 DEF Managed
    <3>3. Promise!Harm(h)
      BY <2>1, <3>1, <3>2 DEF Promise!Harm, Binding, Managed
    <3> QED BY <3>3 DEF Promise!Next
  <2> QED BY <2>2, <2>3, <2>4, <2>5, FileStep
<1> QED BY <1>2, <1>3

\* With retention.require_full_backup every behaviour of the worker, maintenance,
\* restarts and the world, which move bindings, files and backups in separate steps,
\* is a behaviour of the vault: identities are bound once, to bodies that are there,
\* and the recorder drops only what a backup has.
THEOREM VaultImplemented ==
  ASSUME RequireFullBackup
  PROVE  Spec => VaultKept
<1>1. Init => Promise!Init
  <2> SUFFICES ASSUME Init PROVE Promise!Init
    OBVIOUS
  <2>1. \A id \in Ident : BoundTo(id) = NoFile
    BY DEF Init, LedgerInit, BoundTo, ClaimedBy, SegmentId
  <2>2. {h \in Content : accepted[h] = h} = {}
    BY LedgerAssumption DEF Init, IngestInit
  <2> QED BY <2>1, <2>2 DEF Promise!Init, Init, RetentionInit
<1>2. TypeInv /\ EvidenceInv /\ ClaimInv /\ [Next]_vars => [Promise!Next]_(Promise!vars)
  BY VaultStep
<1> QED BY <1>1, <1>2, TypeInvariant, EvidenceInvariant, ClaimInvariant, PTL
        DEF Spec, VaultKept, Promise!Spec
=============================================================================
