------------------------------ MODULE Release ------------------------------
(***************************************************************************)
(* The processes of exam-monitor.exe and the schema of the database they   *)
(* share.  A process runs one installed release (app.Run): it listens,     *)
(* opens the store and serves.  Opening the store applies the migrations   *)
(* of four ledgers, one transaction each, so a process can end between two *)
(* of them and another release can go on from there.  A ledger is the      *)
(* sequence of the checksums of the migrations applied.                    *)
(***************************************************************************)
EXTENDS Naturals, Sequences, FiniteSets

CONSTANTS
  Releases,      \* release versions
  NoRelease,     \* an absent pointer file
  Known,         \* Known[r][l]: the checksums of release r's embedded migrations
  Least,         \* Least[r][l]: database_schema minimum of r's release manifest
  MaxProcs       \* bound: processes alive at once

\* The order in which migrate() applies the groups.
Ledgers == <<"core", "media", "m3", "m4">>
LedgerNames == {Ledgers[i] : i \in 1..4}

ASSUME ReleaseAssumption ==
  /\ Releases # {} /\ NoRelease \notin Releases
  /\ Known \in [Releases -> [LedgerNames -> Seq(STRING)]]
  /\ \A r \in Releases, l \in LedgerNames : Known[r][l] # << >>
  /\ Least \in [Releases -> [LedgerNames -> Nat]]
  /\ MaxProcs \in Nat \ {0}

VARIABLES
  db,            \* the four migration ledgers
  procs,         \* the processes
  child          \* the process the supervisor waits for, 0 for none

processVars == <<db, procs, child>>

Procs == 1..MaxProcs
NoProc == [rel |-> NoRelease, at |-> "none", ledger |-> 1, store |-> "closed", code |-> 0]

Alive(p) == procs[p].at \notin {"none", "exited"}
\* The process that holds the listen address.
Listening(p) == procs[p].at \in {"open", "serve"}

ProcessTypeOK ==
  /\ \A l \in LedgerNames : \E r \in Releases : \E n \in 0..Len(Known[r][l]) : db[l] = SubSeq(Known[r][l], 1, n)
  /\ procs \in [Procs -> [rel : Releases \cup {NoRelease},
                          at : {"none", "listen", "open", "serve", "exited"}, ledger : 1..4,
                          store : {"closed", "open", "failed"}, code : {0, 1}]]
  /\ child \in 0..MaxProcs
  /\ \A p \in Procs : procs[p].at = "exited" => p = child

ProcessInit ==
  /\ procs = [p \in Procs |-> NoProc]
  /\ child = 0

----------------------------------------------------------------------------
(* Migrations *)

Prefix(s, t) == Len(s) <= Len(t) /\ s = SubSeq(t, 1, Len(s))

\* What applyMigrationsThrough and applyIndependentMigrations accept: every recorded
\* version is known under the recorded checksum.
Supported(ledger, known) == Prefix(ledger, known)

CanOpen(r) == \A l \in LedgerNames : Supported(db[l], Known[r][l])

\* --schema-info: the highest version of each ledger; only m4 may be missing.
SchemaReadable == \A l \in LedgerNames \ {"m4"} : db[l] # << >>

\* Test-SchemaRange of rollback.ps1; a manifest's maximum is what the release embeds.
InRange(r) == \A l \in LedgerNames : Len(db[l]) \in Least[r][l]..Len(Known[r][l])

----------------------------------------------------------------------------
(* A process *)

Ended_Kept(p, code) == [procs[p] EXCEPT !.at = "exited", !.store = "closed", !.code = code]

\* The exit code is kept for the supervisor that waits for the process.
Ended(p, code) == IF p = child THEN [procs[p] EXCEPT !.at = "exited", !.store = "closed", !.code = code] ELSE NoProc

Exit(p, code) == procs' = [procs EXCEPT ![p] = Ended(p, code)]

Launched(p, r) == [procs EXCEPT ![p] = [NoProc EXCEPT !.rel = r, !.at = "listen"]]

\* net.Listen comes before the store is opened; an address in use ends the process.
Listen(p) ==
  /\ procs[p].at = "listen"
  /\ IF \E q \in Procs : Listening(q)
     THEN Exit(p, 1)
     ELSE procs' = [procs EXCEPT ![p].at = "open"]
  /\ UNCHANGED <<db, child>>

\* A failed open: the server answers without a store until it ends.
OpenFails(p) == procs' = [procs EXCEPT ![p].at = "serve", ![p].store = "failed"]

\* After the last group the store is open.
OpenedLedger(p) ==
  procs' = IF procs[p].ledger < 4 THEN [procs EXCEPT ![p].ledger = @ + 1]
           ELSE [procs EXCEPT ![p].at = "serve", ![p].store = "open"]

\* One group of migrate(): check the ledger, apply what is missing, commit.
Migrate(p) ==
  LET l == Ledgers[procs[p].ledger]
      known == Known[procs[p].rel][l]
  IN /\ procs[p].at = "open"
     /\ IF Supported(db[l], known)
        THEN db' = [db EXCEPT ![l] = known] /\ OpenedLedger(p)
        ELSE OpenFails(p) /\ UNCHANGED db
     /\ UNCHANGED child

\* The failure is only logged and the next group is tried.
MigrationFails_Continues(p) ==
  /\ procs[p].at = "open"
  /\ OpenedLedger(p)
  /\ UNCHANGED <<db, child>>

\* The group's transaction rolls back: busy, read only, no space, cancelled.
MigrationFails(p) ==
  /\ procs[p].at = "open"
  /\ OpenFails(p)
  /\ UNCHANGED <<db, child>>

\* An interrupt: Shutdown drains the requests under way (0) or runs out of time (1).
Shutdown(p) ==
  /\ procs[p].at = "serve"
  /\ \E code \in {0, 1} : Exit(p, code)
  /\ UNCHANGED <<db, child>>

Crash(p) ==
  /\ Alive(p)
  /\ Exit(p, 1)
  /\ UNCHANGED <<db, child>>

\* /health/ready: the failure of the open, or the core version read again.
Writable(p) ==
  /\ procs[p].at = "serve"
  /\ procs[p].store = "open"
  /\ Len(db["core"]) = Len(Known[procs[p].rel]["core"])

=============================================================================
