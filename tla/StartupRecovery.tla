--------------------------- MODULE StartupRecovery ---------------------------
(***************************************************************************)
(* Starting, upgrading and restoring a site (cmd/prods/main.go and         *)
(* recovery_ui.go, internal/recovery/restore.go and migration.go).         *)
(*                                                                         *)
(* A site is a set of roots: the database file, the assets, the secrets,   *)
(* the host configuration.  A start looks at the restore journal, then at  *)
(* the migration journal, then at the database, and goes on with whatever  *)
(* an earlier process left unfinished before it serves.  The process may   *)
(* die between any two renames, commits and journal writes.                *)
(*                                                                         *)
(* The database has a write-ahead log beside it.  A clean close merges the *)
(* log; a process that dies may leave it, and whoever opens the path reads *)
(* the file and the log together.                                          *)
(***************************************************************************)
EXTENDS Integers

CONSTANTS
  Roots,
  Rank,          \* the order in which roots are activated
  Database, Assets, HostConfig,
  Latest,        \* CurrentSchemaVersion
  First,         \* the schema of the site when the new release is installed
  InitBackups,
  Missing,       \* no file
  Damaged,       \* a database that fails its integrity check
  Lagging,       \* a database file without the log that completes it
  NoLog, OwnLog, \* beside the live database: no log, or its own
  ConfigNamed,   \* whether the operator names the configuration file
  LogsSurvive,   \* whether a crash may leave a log
  MaxEdits, MaxCrashes, MaxFaults, MaxRestores

\* What a root holds: a point of the site's history, for the database a schema,
\* and whether sessions were removed after a restore.
Content == [gen: 0..MaxEdits, schema: 0..Latest, restored: BOOLEAN]
Backup == [gen: 0..MaxEdits, schema: 0..Latest, roots: SUBSET Roots]
Kept == {Database, Assets}

ASSUME RecoveryAssumption ==
  /\ Kept \cup {HostConfig} \subseteq Roots /\ Database # Assets
  /\ Rank \in [Roots -> Nat] /\ \A r, s \in Roots : Rank[r] = Rank[s] => r = s
  /\ First \in Nat \ {0} /\ Latest \in Nat /\ First <= Latest
  /\ InitBackups \subseteq Backup /\ \A b \in InitBackups : Kept \subseteq b.roots
  /\ {Missing, Damaged, Lagging, NoLog, OwnLog} \cap Content = {}
  /\ Missing \notin {Damaged, Lagging} /\ NoLog \notin {OwnLog, Damaged} /\ OwnLog # Damaged
  /\ ConfigNamed \in BOOLEAN /\ LogsSurvive \in BOOLEAN
  /\ {MaxEdits, MaxCrashes, MaxFaults, MaxRestores} \subseteq Nat

VARIABLES
  live,      \* the files at the paths the program uses
  log,       \* NoLog, OwnLog, or what a foreign log makes of the database
  backups,   \* the published backups
  restore,   \* the restore journal, its staged and its pre-restore files
  migration, \* the migration journal
  proc,      \* the process: where it is, and on whose behalf
  ended,     \* whether the last process ended with "restore completed"
  spent      \* how much of each bound is used

vars == <<live, log, backups, restore, migration, proc, ended, spent>>

None == [r \in Roots |-> Missing]
NoRestore == [phase |-> "none", want |-> None, done |-> {}, staged |-> None,
              aside |-> None, before |-> None]
NoMigration == [phase |-> "none", from |-> First, gen |-> 0]
Down == [pc |-> "down", by |-> "none"]

RestoreJournal ==
  [phase: {"none", "prepared", "verified"}, done: SUBSET Roots,
   want: [Roots -> Content \cup {Missing}], staged: [Roots -> Content \cup {Missing}],
   aside: [Roots -> Content \cup {Missing, Damaged, Lagging}],
   before: [Roots -> Content \cup {Missing, Damaged}]]

TypeOK ==
  /\ live \in [Roots -> Content \cup {Missing, Damaged}]
  /\ \A r \in Roots \ {Database} : live[r] # Damaged
  /\ log \in Content \cup {NoLog, OwnLog, Damaged}
  /\ backups \subseteq Backup
  /\ restore \in RestoreJournal
  /\ migration \in [phase: {"none", "prepared", "failed", "verified", "superseded"},
                    from: 0..Latest, gen: 0..MaxEdits]
  /\ proc \in [pc: {"down", "preparing", "restoring", "superseding", "ui", "journaling",
                    "upgrading", "serving"},
               by: {"none", "startup", "cli", "ui", "plan", "first", "resume"}]
  /\ ended \in BOOLEAN
  /\ spent \in [edits: 0..MaxEdits, crashes: 0..MaxCrashes, faults: 0..MaxFaults,
                restores: 0..MaxRestores]

-----------------------------------------------------------------------------
(* What a start finds *)

\* What opening the database path yields.
DbRead == IF log \in {NoLog, OwnLog} THEN live[Database] ELSE log

\* Inspect
State ==
  CASE DbRead = Missing -> "fresh"
    [] DbRead = Damaged -> "recovery"
    [] OTHER -> IF DbRead.schema < Latest THEN "upgrade" ELSE "ready"

RestorePending == restore.phase = "prepared"

MigrationPending == migration.phase \in {"prepared", "failed"}

\* The configuration file is read before anything else.
CanStart == proc.pc = "down" /\ (ConfigNamed => live[HostConfig] # Missing)

\* Where a start gets to without a restore to finish.
Clear == CanStart /\ ~RestorePending

Go(pc, by) == proc' = [pc |-> pc, by |-> by] /\ ended' = FALSE
End(restored) == proc' = Down /\ ended' = restored

\* Opening for writing recovers the log, closing merges it into the file.
OpenClose ==
  live' = [live EXCEPT ![Database] = DbRead] /\ log' = NoLog
Untouched == UNCHANGED <<live, log>>

Spend(what) == spent' = [spent EXCEPT ![what] = @ + 1]
MayFault == spent.faults < MaxFaults

-----------------------------------------------------------------------------
(* Backups, as far as a restore depends on them: CreateBackup publishes by a   *)
(* rename what it has copied and verified.                                     *)

Copy == [gen |-> DbRead.gen, schema |-> DbRead.schema,
         roots |-> {r \in Roots : live[r] # Missing}]

\* stageRestoreRoot and applyRestoredDatabasePolicy
FileOf(b, r) ==
  CASE r \notin b.roots -> Missing
    [] r = Database -> [gen |-> b.gen, schema |-> b.schema, restored |-> TRUE]
    [] OTHER -> [gen |-> b.gen, schema |-> 0, restored |-> FALSE]

-----------------------------------------------------------------------------
(* Restoring.  Which backup is restored shows when the journal is written; the   *)
(* operator chose it before.                                                     *)

\* runOfflineRestore: a site that can be backed up is, first; a backup that fails,
\* or a site that cannot be backed up, takes the operator's permission.
BackUpFirst ==
  \/ State = "ready" /\ backups' = backups \cup {Copy} /\ OpenClose
  \/ State = "ready" /\ UNCHANGED backups /\ OpenClose
  \/ State # "ready" /\ UNCHANGED backups /\ Untouched

\* prods --restore-backup
StartRestore ==
  /\ Clear /\ spent.restores < MaxRestores /\ Spend("restores")
  /\ BackUpFirst /\ Go("preparing", "cli")
  /\ UNCHANGED <<restore, migration>>

\* A restore chosen in the recovery UI.
ChooseRestore ==
  /\ proc.pc = "ui" /\ proc.by = "ui"
  /\ BackUpFirst /\ Go("preparing", "ui")
  /\ UNCHANGED <<restore, migration, spent>>

\* A UI that was opened for a prepared restore offers nothing else.
ChoosePrepared ==
  /\ proc.pc = "ui" /\ proc.by = "plan"
  /\ Go("restoring", "plan")
  /\ UNCHANGED <<live, log, backups, restore, migration, spent>>

\* PrepareRestore stages every root of the backup and then writes the journal.
\* Mutant: the journal is written before the assets are staged.
JournalBeforeStages(b) ==
  [phase |-> "prepared", want |-> [r \in Roots |-> FileOf(b, r)], done |-> {},
   staged |-> [r \in Roots |-> IF r = Assets THEN Missing ELSE FileOf(b, r)], aside |-> None,
   before |-> [live EXCEPT ![Database] = DbRead]]

Journal(b) ==
  [phase |-> "prepared", want |-> [r \in Roots |-> FileOf(b, r)], done |-> {},
   staged |-> [r \in Roots |-> FileOf(b, r)], aside |-> None,
   before |-> [live EXCEPT ![Database] = DbRead]]

PrepareRestore ==
  /\ proc.pc = "preparing"
  /\ \E b \in backups : restore' = Journal(b)
  /\ Go("restoring", proc.by)
  /\ UNCHANGED <<live, log, backups, migration, spent>>

PrepareFails ==
  /\ proc.pc = "preparing" /\ MayFault /\ Spend("faults")
  /\ IF proc.by = "ui" THEN Go("ui", "ui") ELSE End(FALSE)
  /\ UNCHANGED <<live, log, backups, restore, migration>>

\* A start finds the journal of a restore that was not finished.
ResumeAtStart ==
  /\ CanStart /\ RestorePending
  /\ Go("restoring", "startup")
  /\ UNCHANGED <<live, log, backups, restore, migration, spent>>

Wanted == {r \in Roots : restore.want[r] # Missing}
Due(r) ==
  /\ r \in Wanted \ restore.done
  /\ \A s \in Wanted \ restore.done : Rank[r] <= Rank[s]

\* activateRestoreRoot, first rename.
\* Mutant: the live root is deleted to make room.
Delete(r) ==
  /\ proc.pc = "restoring" /\ Due(r)
  /\ live[r] \notin {Missing, restore.want[r]} /\ restore.aside[r] = Missing
  /\ live' = [live EXCEPT ![r] = Missing]
  /\ UNCHANGED <<log, backups, restore, migration, proc, ended, spent>>
MoveAside(r) ==
  /\ proc.pc = "restoring" /\ Due(r)
  /\ live[r] \notin {Missing, restore.want[r]} /\ restore.aside[r] = Missing
  /\ live' = [live EXCEPT ![r] = Missing]
  /\ restore' = [restore EXCEPT !.aside[r] =
                   IF r = Database /\ log # NoLog THEN Lagging ELSE live[r]]
  /\ UNCHANGED <<log, backups, migration, proc, ended, spent>>

\* Second rename.  A log left beside the database path now meets another file: it may
\* replay the pages of the old database over the new one.
MoveIn(r) ==
  /\ proc.pc = "restoring" /\ Due(r)
  /\ live[r] = Missing /\ restore.staged[r] # Missing
  /\ live' = [live EXCEPT ![r] = restore.staged[r]]
  /\ restore' = [restore EXCEPT !.staged[r] = Missing]
  /\ log' \in IF r = Database /\ log # NoLog
               THEN {Damaged, restore.before[r], restore.staged[r]} \ {Missing} ELSE {log}
  /\ UNCHANGED <<backups, migration, proc, ended, spent>>

\* The root has the expected hash, now or because an earlier process moved it in.
\* Mutant: only what this process has not had to move counts.
RecordUnmoved(r) ==
  /\ proc.pc = "restoring" /\ Due(r) /\ live[r] = restore.want[r]
  /\ restore.aside[r] = Missing
  /\ restore' = [restore EXCEPT !.done = @ \cup {r}]
  /\ UNCHANGED <<live, log, backups, migration, proc, ended, spent>>
Record(r) ==
  /\ proc.pc = "restoring" /\ Due(r) /\ live[r] = restore.want[r]
  /\ restore' = [restore EXCEPT !.done = @ \cup {r}]
  /\ UNCHANGED <<live, log, backups, migration, proc, ended, spent>>

\* verifyActivatedRestore hashes the files and opens the database.
Intact == \A r \in Wanted : live[r] = restore.want[r]

\* A restore that the start finished ends the process; one that was asked for goes
\* on to the migration journal.
\* Mutant: the start verifies only what it has recorded.
VerifyRecorded ==
  /\ proc.pc = "restoring" /\ \A r \in restore.done : live[r] = restore.want[r]
  /\ restore' = [restore EXCEPT !.phase = "verified"]
  /\ IF proc.by = "startup" THEN End(TRUE) ELSE Go("superseding", proc.by)
  /\ UNCHANGED <<live, log, backups, migration, spent>>
Verify ==
  /\ proc.pc = "restoring" /\ restore.done = Wanted /\ Intact /\ DbRead # Damaged
  /\ restore' = [restore EXCEPT !.phase = "verified"]
  /\ IF proc.by = "startup" THEN End(TRUE) ELSE Go("superseding", proc.by)
  /\ UNCHANGED <<live, log, backups, migration, spent>>

\* ResumeRestore gives up: an I/O error, or evidence that does not match.
NoWay ==
  \/ restore.done = Wanted /\ (~Intact \/ DbRead = Damaged)
  \/ \E r \in Roots : /\ Due(r) /\ live[r] # restore.want[r]
                      /\ IF live[r] = Missing THEN restore.staged[r] = Missing
                         ELSE restore.aside[r] # Missing

\* A start then offers the recovery UI; with a prepared journal there, every other
\* process ends so that the next start finds it.
RestoreFails ==
  /\ proc.pc = "restoring"
  /\ IF NoWay THEN UNCHANGED spent ELSE MayFault /\ Spend("faults")
  /\ IF proc.by = "startup" \/ ~RestorePending THEN Go("ui", "plan") ELSE End(FALSE)
  /\ UNCHANGED <<live, log, backups, restore, migration>>

\* SupersedeMigrationJournals
\* Mutant: a migration journal outlives the restore.
SupersedeNothing ==
  /\ proc.pc = "superseding" /\ End(TRUE)
  /\ UNCHANGED <<live, log, backups, restore, migration, spent>>
Supersede ==
  /\ proc.pc = "superseding" /\ End(TRUE)
  /\ migration' = IF MigrationPending THEN [migration EXCEPT !.phase = "superseded"] ELSE migration
  /\ UNCHANGED <<live, log, backups, restore, spent>>

SupersedeFails ==
  /\ proc.pc = "superseding" /\ MayFault /\ Spend("faults")
  /\ IF proc.by = "cli" THEN End(FALSE) ELSE Go("ui", proc.by)
  /\ UNCHANGED <<live, log, backups, restore, migration>>

-----------------------------------------------------------------------------
(* Upgrading the schema *)

\* The pre-upgrade backup, then the journal that names it, then the migrations.
StartUpgrade ==
  /\ Clear /\ ~MigrationPending /\ State = "upgrade"
  /\ OpenClose /\ backups' = backups \cup {Copy}
  /\ Go("journaling", "first")
  /\ UNCHANGED <<restore, migration, spent>>

PrepareMigration ==
  /\ proc.pc = "journaling"
  /\ migration' = [phase |-> "prepared", from |-> live[Database].schema,
                   gen |-> live[Database].gen]
  /\ Go("upgrading", proc.by)
  /\ UNCHANGED <<live, log, backups, restore, spent>>

\* applyTransactionalMigration: every version is a transaction of its own.
Migrate ==
  /\ proc.pc = "upgrading" /\ live[Database].schema < Latest
  /\ live' = [live EXCEPT ![Database].schema = @ + 1]
  /\ UNCHANGED <<log, backups, restore, migration, proc, ended, spent>>

\* MarkMigrationFailed, also when only the check of the history at the end fails; only
\* a migration that was resumed offers the recovery UI.
MigrationFails ==
  /\ proc.pc = "upgrading" /\ MayFault /\ Spend("faults")
  /\ migration' = [migration EXCEPT !.phase = "failed"]
  /\ IF proc.by = "resume" THEN Go("ui", "ui") ELSE End(FALSE)
  /\ UNCHANGED <<live, log, backups, restore>>

\* CompleteMigrationJournal, by the process that migrated or by the next one.
CompleteMigration ==
  /\ \/ proc.pc = "upgrading" /\ live[Database].schema = Latest
     \/ /\ Clear /\ migration.phase = "prepared" /\ State = "ready"
  /\ migration' = [migration EXCEPT !.phase = "verified"]
  /\ End(FALSE)
  /\ UNCHANGED <<live, log, backups, restore, spent>>

\* resumeMigration starts over only from where the journal says it started.
Resumable == State = "upgrade" /\ DbRead.schema = migration.from

ResumeMigration ==
  /\ Clear /\ migration.phase = "prepared" /\ Resumable
  /\ OpenClose /\ Go("upgrading", "resume")
  /\ UNCHANGED <<backups, restore, migration, spent>>

\* The recovery UI instead of a start: the migration failed, or left the database
\* between two schemas, or the database cannot be read.
OfferRecovery ==
  /\ Clear
  /\ \/ migration.phase = "failed"
     \/ migration.phase = "prepared" /\ State # "ready" /\ ~Resumable
     \/ ~MigrationPending /\ State = "recovery"
  /\ Go("ui", "ui")
  /\ UNCHANGED <<live, log, backups, restore, migration, spent>>

-----------------------------------------------------------------------------
(* Serving, and dying *)

\* Mutant: the journals are looked at after the database.
ServeFirst ==
  /\ CanStart /\ State = "ready"
  /\ OpenClose /\ Go("serving", "none")
  /\ UNCHANGED <<backups, restore, migration, spent>>
Serve ==
  /\ Clear /\ ~MigrationPending /\ State = "ready"
  /\ OpenClose /\ Go("serving", "none")
  /\ UNCHANGED <<backups, restore, migration, spent>>

\* The site moves on: its roots are now at a point of history of their own.
Edit ==
  /\ proc.pc = "serving" /\ spent.edits < MaxEdits /\ Spend("edits")
  /\ live' = [r \in Roots |->
                IF live[r] = Missing THEN Missing
                ELSE [live[r] EXCEPT !.gen = spent.edits + 1, !.restored = FALSE]]
  /\ UNCHANGED <<log, backups, restore, migration, proc, ended>>

BackUp ==
  /\ proc.pc = "serving" /\ backups' = backups \cup {Copy}
  /\ UNCHANGED <<live, log, restore, migration, proc, ended, spent>>

Stop ==
  /\ proc.pc \in {"serving", "ui"} /\ End(FALSE)
  /\ UNCHANGED <<live, log, backups, restore, migration, spent>>

Crash ==
  /\ proc.pc # "down" /\ spent.crashes < MaxCrashes /\ Spend("crashes") /\ End(FALSE)
  /\ log' \in IF LogsSurvive /\ proc.pc \in {"upgrading", "serving"}
              THEN {log, OwnLog} ELSE {log}
  /\ UNCHANGED <<live, backups, restore, migration>>

\* The medium fails, while no restore is under way (then the journal and the source
\* of the restore have to be examined by hand).
Damage ==
  /\ proc.pc = "down" /\ ~RestorePending /\ MayFault /\ Spend("faults")
  /\ live' = [live EXCEPT ![Database] = Damaged] /\ log' = NoLog /\ ended' = FALSE
  /\ UNCHANGED <<backups, restore, migration, proc>>

-----------------------------------------------------------------------------

Init ==
  /\ live = [r \in Roots |-> [gen |-> 0, schema |-> IF r = Database THEN First ELSE 0,
                              restored |-> FALSE]]
  /\ log = NoLog /\ backups = InitBackups
  /\ restore = NoRestore /\ migration = NoMigration
  /\ proc = Down /\ ended = FALSE
  /\ spent = [edits |-> 0, crashes |-> 0, faults |-> 0, restores |-> 0]

Activate == \E r \in Roots : MoveAside(r) \/ MoveIn(r) \/ Record(r)
Work ==
  \/ PrepareRestore \/ Activate \/ Verify \/ RestoreFails \/ Supersede
  \/ PrepareMigration \/ Migrate \/ CompleteMigration
Start == ResumeAtStart \/ StartUpgrade \/ ResumeMigration \/ OfferRecovery \/ Serve
Choose == ChooseRestore \/ ChoosePrepared

Next ==
  \/ Work \/ Start \/ Choose
  \/ StartRestore \/ PrepareFails \/ SupersedeFails \/ MigrationFails
  \/ Edit \/ BackUp \/ Stop \/ Crash \/ Damage

Spec == Init /\ [][Next]_vars

\* What was begun goes on, the service manager starts the program again, and an
\* operator who is offered a restore chooses one sooner or later.
Fairness == WF_vars(Work) /\ WF_vars(Start) /\ SF_vars(Choose)
FairSpec == Spec /\ Fairness

-----------------------------------------------------------------------------
(* Properties *)

\* A site that is served is one site: no restore and no migration is unfinished, the
\* schema is this release's, and database and assets are from one point of history
\* (run looks at both journals before it opens the database).
ServesWhole ==
  proc.pc = "serving" =>
    /\ ~RestorePending /\ ~MigrationPending
    /\ {live[Database], live[Assets]} \subseteq Content
    /\ live[Database].schema = Latest /\ live[Database].gen = live[Assets].gen

\* From a prepared journal on, every root of the backup is in place or staged beside
\* its place: wherever the process dies, the restore can be carried to its end
\* (PrepareRestore stages before it writes the journal, activation only renames).
CanRollForward ==
  RestorePending => \A r \in Wanted : restore.want[r] \in {live[r], restore.staged[r]}

\* And what the restore replaces is still there, in its place or beside it.
OldKept ==
  RestorePending => \A r \in Wanted : restore.before[r] \in {live[r], restore.aside[r]}

\* No start takes a site whose database is out of its place for a new installation
\* (Inspect says "fresh" when there is no file).
NeverReinstalled == ~(Clear /\ ~MigrationPending /\ State = "fresh")

\* A migration that was recorded as failed is not tried again: its journal ends with
\* an explicit restore only, and until then no step migrates the database
\* (resumeMigration refuses a journal in phase failed).
FailedStaysFailed ==
  [][migration.phase = "failed" =>
       /\ migration'.phase \in {"failed", "superseded"}
       /\ {live[Database], live'[Database]} \subseteq Content
            => live'[Database].schema = live[Database].schema]_vars

\* A prepared restore is completed and verified, through any number of crashes.
RestoreSettles == RestorePending ~> restore.phase = "verified"

\* Whatever failed, the site is served again and again.
SiteReturns == []<>(proc.pc = "serving")

\* While a journal is prepared only the restore runs; the program that is in the
\* middle of an upgrade has its journal; the one that serves has none.
OneAtATime ==
  /\ RestorePending => proc.pc \in {"down", "restoring"} \/ proc = [pc |-> "ui", by |-> "plan"]
  /\ proc.pc = "upgrading" => migration.phase = "prepared"
  /\ proc.pc \in {"journaling", "serving"} => ~MigrationPending
  /\ proc.pc \in {"journaling", "upgrading", "serving"} => live[Database] \in Content /\ log = NoLog
  /\ proc.pc = "serving" => live[Database].schema = Latest

\* Backups, and the restores made from them, have a database and assets of one time.
WholeBackups ==
  /\ \A b \in backups : Kept \subseteq b.roots
  /\ RestorePending =>
       /\ Kept \subseteq Wanted
       /\ restore.want[Database].gen = restore.want[Assets].gen

\* Without a restore under way the live roots are of one time; with one, each is
\* still to be moved aside, or has been.
LiveRoots ==
  /\ log = NoLog
  /\ RestorePending =>
       \A r \in Wanted : \/ live[r] = restore.before[r] /\ restore.aside[r] = Missing
                         \/ live[r] \in {Missing, restore.want[r]} /\ restore.aside[r] = restore.before[r]
  /\ ~RestorePending =>
       /\ restore.done = Wanted
       /\ live[Assets] \in Content /\ live[Database] # Missing
       /\ live[Database] \in Content => live[Database].gen = live[Assets].gen

\* The inductive invariant.
RecoveryInv ==
  /\ TypeOK /\ OneAtATime /\ CanRollForward
  /\ ~LogsSurvive => LiveRoots /\ WholeBackups

\* When the program has said "restore completed", the database reads as the backup
\* that was restored (verifyActivatedRestore, docs/en/operations.md:62).
RestoredIsBackup == ended => DbRead = restore.want[Database]

\* When the program has said "restore completed and verified", recovery is over: no
\* migration journal sends the next start back to it.
RestoreEndsRecovery == ended => ~MigrationPending
=============================================================================
