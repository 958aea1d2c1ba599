------------------------ MODULE StartupRecoveryProofs ------------------------
(* Proofs about StartupRecovery. *)
EXTENDS StartupRecovery, TLAPS


\* Reading the database gives what a database can be.
LEMMA DbReadType ==
  ASSUME TypeOK PROVE DbRead \in Content \cup {Missing, Damaged}
  BY RecoveryAssumption DEF TypeOK, DbRead, Kept

\* A database in state "ready" or "upgrade" can be read.
LEMMA StateRead ==
  ASSUME TypeOK
  PROVE  /\ State \in {"ready", "upgrade"} => DbRead \in Content
         /\ State = "ready" => DbRead.schema = Latest
         /\ State = "fresh" <=> DbRead = Missing
<1>1. DbRead \in Content \cup {Missing, Damaged}
  BY DbReadType
<1>2. DbRead \in Content => DbRead.schema \in 0..Latest
  BY DEF Content
<1>3. Missing # Damaged /\ Latest \in Nat
  BY RecoveryAssumption
<1> QED BY <1>1, <1>2, <1>3 DEF State

\* Opening and closing the database leaves what it read.
LEMMA OpenCloseType ==
  ASSUME TypeOK, OpenClose
  PROVE  /\ live' \in [Roots -> Content \cup {Missing, Damaged}]
         /\ live'[Database] = DbRead
         /\ \A r \in Roots \ {Database} : live'[r] = live[r]
         /\ log' = NoLog
<1>1. DbRead \in Content \cup {Missing, Damaged}
  BY DbReadType
<1>2. live \in [Roots -> Content \cup {Missing, Damaged}] /\ Database \in Roots
  BY RecoveryAssumption DEF TypeOK, Kept
<1> QED BY <1>1, <1>2 DEF OpenClose

\* A copy of a site that can be read is a backup.
LEMMA CopyType ==
  ASSUME TypeOK, DbRead \in Content
  PROVE  Copy \in Backup
  BY DEF Copy, Backup, Content

\* What a restore puts in place comes from the backup.
LEMMA FileType ==
  ASSUME NEW b \in Backup, NEW r \in Roots
  PROVE  FileOf(b, r) \in Content \cup {Missing}
<1>1. /\ b.gen \in 0..MaxEdits /\ b.schema \in 0..Latest /\ 0 \in 0..Latest
  BY RecoveryAssumption DEF Backup
<1> QED BY <1>1 DEF FileOf, Content

\* Counting within the bounds.
LEMMA SpendType ==
  ASSUME TypeOK
  PROVE  /\ spent.edits < MaxEdits /\ Spend("edits") =>
              spent' \in [edits: 0..MaxEdits, crashes: 0..MaxCrashes, faults: 0..MaxFaults,
                          restores: 0..MaxRestores]
         /\ spent.crashes < MaxCrashes /\ Spend("crashes") =>
              spent' \in [edits: 0..MaxEdits, crashes: 0..MaxCrashes, faults: 0..MaxFaults,
                          restores: 0..MaxRestores]
         /\ spent.faults < MaxFaults /\ Spend("faults") =>
              spent' \in [edits: 0..MaxEdits, crashes: 0..MaxCrashes, faults: 0..MaxFaults,
                          restores: 0..MaxRestores]
         /\ spent.restores < MaxRestores /\ Spend("restores") =>
              spent' \in [edits: 0..MaxEdits, crashes: 0..MaxCrashes, faults: 0..MaxFaults,
                          restores: 0..MaxRestores]
  BY RecoveryAssumption DEF TypeOK, Spend

-----------------------------------------------------------------------------
(* Types *)

\* The journal that PrepareRestore writes.
LEMMA JournalType ==
  ASSUME TypeOK, NEW b \in Backup
  PROVE  /\ Journal(b) \in RestoreJournal
         /\ Journal(b).phase = "prepared" /\ Journal(b).done = {}
         /\ Journal(b).want \in [Roots -> Content \cup {Missing}]
         /\ Journal(b).staged = Journal(b).want
         /\ Journal(b).aside = None
         /\ Journal(b).before \in [Roots -> Content \cup {Missing, Damaged}]
         /\ \A r \in Roots : Journal(b).want[r] = FileOf(b, r)
         /\ \A r \in Roots \ {Database} : Journal(b).before[r] = live[r]
         /\ Journal(b).before[Database] = DbRead
<1>1. \A r \in Roots : FileOf(b, r) \in Content \cup {Missing}
  BY FileType
<1>2. DbRead \in Content \cup {Missing, Damaged} /\ Database \in Roots
  BY DbReadType, RecoveryAssumption DEF Kept
<1>3. live \in [Roots -> Content \cup {Missing, Damaged}]
  BY DEF TypeOK
<1>4. None \in [Roots -> Content \cup {Missing, Damaged, Lagging}]
  BY DEF None
<1>5. [r \in Roots |-> FileOf(b, r)] \in [Roots -> Content \cup {Missing}]
  BY <1>1
<1>6. [live EXCEPT ![Database] = DbRead] \in [Roots -> Content \cup {Missing, Damaged}]
  BY <1>2, <1>3
<1>7. Journal(b) \in RestoreJournal
  BY <1>4, <1>5, <1>6 DEF Journal, RestoreJournal
<1> QED BY <1>1, <1>2, <1>3, <1>7 DEF Journal

\* None says nothing of any root.
LEMMA NoneType == None \in [Roots -> {Missing}]
  BY DEF None

LEMMA InitType == Init => TypeOK
<1> SUFFICES ASSUME Init PROVE TypeOK
  OBVIOUS
<1>1. /\ live \in [Roots -> Content \cup {Missing, Damaged}]
      /\ \A r \in Roots \ {Database} : live[r] # Damaged
  <2> DEFINE c(r) == [gen |-> 0, schema |-> IF r = Database THEN First ELSE 0, restored |-> FALSE]
  <2>0. 0 \in 0..MaxEdits /\ 0 \in 0..Latest /\ First \in 0..Latest
    BY RecoveryAssumption
  <2>1. \A r \in Roots : c(r) \in Content
    BY <2>0 DEF Content
  <2>2. Damaged \notin Content
    BY RecoveryAssumption
  <2>3. live = [r \in Roots |-> c(r)]
    BY DEF Init
  <2> HIDE DEF c
  <2> QED BY <2>1, <2>2, <2>3
<1>2. log \in Content \cup {NoLog, OwnLog, Damaged} /\ backups \subseteq Backup
  BY RecoveryAssumption DEF Init
<1>3. restore \in RestoreJournal
  BY NoneType DEF Init, NoRestore, RestoreJournal
<1>4. migration \in [phase: {"none", "prepared", "failed", "verified", "superseded"},
                     from: 0..Latest, gen: 0..MaxEdits]
  BY RecoveryAssumption DEF Init, NoMigration
<1>5. ended \in BOOLEAN
      /\ proc \in [pc: {"down", "preparing", "restoring", "superseding", "ui", "journaling",
                        "upgrading", "serving"},
                   by: {"none", "startup", "cli", "ui", "plan", "first", "resume"}]
  BY DEF Init, Down
<1>6. spent \in [edits: 0..MaxEdits, crashes: 0..MaxCrashes, faults: 0..MaxFaults,
                 restores: 0..MaxRestores]
  BY RecoveryAssumption DEF Init
<1> QED BY <1>1, <1>2, <1>3, <1>4, <1>5, <1>6 DEF TypeOK

PCs == {"down", "preparing", "restoring", "superseding", "ui", "journaling", "upgrading", "serving"}
Bys == {"none", "startup", "cli", "ui", "plan", "first", "resume"}

LEMMA GoType ==
  ASSUME NEW pc \in PCs, NEW by \in Bys, Go(pc, by)
  PROVE  ended' \in BOOLEAN /\ proc' \in [pc: PCs, by: Bys] /\ proc'.pc = pc /\ proc'.by = by
  BY DEF Go

LEMMA EndType ==
  ASSUME NEW r \in BOOLEAN, End(r)
  PROVE  ended' \in BOOLEAN /\ proc' \in [pc: PCs, by: Bys] /\ proc'.pc = "down"
  BY DEF End, Down, PCs, Bys

\* Where the process goes next.
LEMMA ProcType ==
  ASSUME TypeOK, [Next]_vars
  PROVE  ended' \in BOOLEAN /\ proc' \in [pc: PCs, by: Bys]
<1>1. /\ PCs = PCs \cup {"down", "preparing", "restoring", "superseding", "ui", "journaling",
                        "upgrading", "serving"}
      /\ proc.by \in Bys /\ {"none", "startup", "cli", "ui", "plan", "first", "resume"} \subseteq Bys
  BY DEF PCs, Bys, TypeOK
<1>2. CASE UNCHANGED <<proc, ended>>
  BY <1>2 DEF TypeOK, PCs, Bys
<1>3. CASE End(TRUE) \/ End(FALSE)
  BY <1>3, EndType
<1>4. CASE \/ Go("restoring", proc.by) \/ Go("restoring", "plan") \/ Go("restoring", "startup")
           \/ Go("ui", "ui") \/ Go("ui", "plan") \/ Go("ui", proc.by)
           \/ Go("preparing", "ui") \/ Go("preparing", "cli") \/ Go("superseding", proc.by)
           \/ Go("journaling", "first") \/ Go("upgrading", proc.by) \/ Go("upgrading", "resume")
           \/ Go("serving", "none")
  BY <1>1, <1>4, GoType
<1>5. CASE Work
  <2>1. CASE PrepareRestore \/ Activate \/ PrepareMigration \/ Migrate \/ CompleteMigration
    BY <2>1, <1>2, <1>3, <1>4 DEF PrepareRestore, Activate, MoveAside, MoveIn, Record,
      PrepareMigration, Migrate, CompleteMigration
  <2>2. CASE Verify \/ Supersede
    BY <2>2, <1>3, <1>4 DEF Verify, Supersede
  <2>3. CASE RestoreFails
    BY <2>3, <1>3, <1>4 DEF RestoreFails
  <2> QED BY <1>5, <2>1, <2>2, <2>3 DEF Work
<1>6. CASE Start
  BY <1>6, <1>4 DEF Start, ResumeAtStart, StartUpgrade, ResumeMigration, OfferRecovery, Serve
<1>7. CASE Choose \/ StartRestore
  BY <1>7, <1>4 DEF Choose, ChooseRestore, ChoosePrepared, StartRestore
<1>8. CASE PrepareFails \/ SupersedeFails \/ MigrationFails
  BY <1>8, <1>3, <1>4 DEF PrepareFails, SupersedeFails, MigrationFails
<1>9. CASE Edit \/ BackUp \/ UNCHANGED vars
  BY <1>9, <1>2 DEF Edit, BackUp, vars
<1>10. CASE Stop \/ Crash
  BY <1>10, <1>3 DEF Stop, Crash
<1>11. CASE Damage
  BY <1>11 DEF Damage, TypeOK, PCs, Bys
<1> QED
  BY <1>5, <1>6, <1>7, <1>8, <1>9, <1>10, <1>11 DEF Next

\* The bounds are kept.
LEMMA SpentType ==
  ASSUME TypeOK, [Next]_vars
  PROVE  spent' \in [edits: 0..MaxEdits, crashes: 0..MaxCrashes, faults: 0..MaxFaults,
                     restores: 0..MaxRestores]
<1>1. CASE UNCHANGED spent
  BY <1>1 DEF TypeOK
<1>2. CASE \/ spent.edits < MaxEdits /\ Spend("edits")
           \/ spent.crashes < MaxCrashes /\ Spend("crashes")
           \/ MayFault /\ Spend("faults")
           \/ spent.restores < MaxRestores /\ Spend("restores")
  BY <1>1, <1>2, SpendType DEF MayFault
<1> QED
  BY <1>1, <1>2 DEF Next, vars, Work, Start, Choose, Activate, PrepareRestore, Verify, RestoreFails,
    Supersede, MoveAside, MoveIn, Record, PrepareMigration, Migrate, CompleteMigration,
    ResumeAtStart, StartUpgrade, ResumeMigration, OfferRecovery, Serve, ChooseRestore,
    ChoosePrepared, StartRestore, PrepareFails, SupersedeFails, MigrationFails, Edit, BackUp,
    Stop, Crash, Damage

\* What a step does to the files: nothing, or one of these.
LEMMA LiveStep ==
  ASSUME [Next]_vars
  PROVE  \/ UNCHANGED live
         \/ OpenClose /\ UNCHANGED restore
         \/ \E r \in Roots : MoveAside(r) \/ MoveIn(r)
         \/ Migrate \/ Edit \/ Damage
  BY DEF Next, vars, Work, Start, Choose, Activate, PrepareRestore, Verify,
    RestoreFails, Supersede, MoveAside, MoveIn, Record, PrepareMigration, Migrate,
    CompleteMigration, ResumeAtStart, StartUpgrade, ResumeMigration, OfferRecovery, Serve,
    ChooseRestore, ChoosePrepared, StartRestore, BackUpFirst, PrepareFails, SupersedeFails,
    MigrationFails, Edit, BackUp, Stop, Crash, Damage, Untouched

\* And to the restore journal.
LEMMA RestoreStep ==
  ASSUME [Next]_vars
  PROVE  \/ UNCHANGED restore
         \/ PrepareRestore \/ Verify
         \/ \E r \in Roots : MoveAside(r) \/ MoveIn(r) \/ Record(r)
  BY DEF Next, vars, Work, Start, Choose, Activate, PrepareRestore, Verify,
    RestoreFails, Supersede, MoveAside, MoveIn, Record, PrepareMigration, Migrate,
    CompleteMigration, ResumeAtStart, StartUpgrade, ResumeMigration, OfferRecovery, Serve,
    ChooseRestore, ChoosePrepared, StartRestore, BackUpFirst, PrepareFails, SupersedeFails,
    MigrationFails, Edit, BackUp, Stop, Crash, Damage, Untouched

\* And to the migration journal.
LEMMA MigrationStep ==
  ASSUME [Next]_vars
  PROVE  \/ UNCHANGED migration
         \/ PrepareMigration \/ MigrationFails \/ CompleteMigration \/ Supersede
  BY DEF Next, vars, Work, Start, Choose, Activate, PrepareRestore, Verify,
    RestoreFails, Supersede, MoveAside, MoveIn, Record, PrepareMigration, Migrate,
    CompleteMigration, ResumeAtStart, StartUpgrade, ResumeMigration, OfferRecovery, Serve,
    ChooseRestore, ChoosePrepared, StartRestore, BackUpFirst, PrepareFails, SupersedeFails,
    MigrationFails, Edit, BackUp, Stop, Crash, Damage, Untouched

\* And to the backups.
LEMMA BackupsStep ==
  ASSUME [Next]_vars
  PROVE  \/ UNCHANGED backups
         \/ BackUp \/ StartUpgrade
         \/ BackUpFirst /\ State = "ready"
  BY DEF Next, vars, Work, Start, Choose, Activate, PrepareRestore, Verify,
    RestoreFails, Supersede, MoveAside, MoveIn, Record, PrepareMigration, Migrate,
    CompleteMigration, ResumeAtStart, StartUpgrade, ResumeMigration, OfferRecovery, Serve,
    ChooseRestore, ChoosePrepared, StartRestore, BackUpFirst, PrepareFails, SupersedeFails,
    MigrationFails, Edit, BackUp, Stop, Crash, Damage, Untouched

\* One migration: the database is at the next schema.
LEMMA MigrateEffect ==
  ASSUME TypeOK, OneAtATime, Migrate
  PROVE  /\ live' \in [Roots -> Content \cup {Missing, Damaged}]
         /\ \A r \in Roots \ {Database} : live'[r] = live[r]
         /\ {live[Database], live'[Database]} \subseteq Content
         /\ live'[Database].gen = live[Database].gen
<1>1. live \in [Roots -> Content \cup {Missing, Damaged}] /\ Database \in Roots
  BY RecoveryAssumption DEF TypeOK, Kept
<1>2. live[Database] \in Content /\ live[Database].schema < Latest
  BY DEF Migrate, OneAtATime
<1>3. live[Database].schema + 1 \in 0..Latest
  BY <1>2, RecoveryAssumption DEF Content
<1> DEFINE d == [live[Database] EXCEPT !.schema = @ + 1]
<1>4. d \in Content /\ d.gen = live[Database].gen
  BY <1>2, <1>3 DEF Content
<1>5. live' = [live EXCEPT ![Database] = d]
  BY DEF Migrate
<1> HIDE DEF d
<1> QED BY <1>1, <1>2, <1>4, <1>5

\* An edit takes every root that is there to a new point of history.
LEMMA EditEffect ==
  ASSUME TypeOK, OneAtATime, Edit
  PROVE  /\ live' \in [Roots -> Content \cup {Missing}]
         /\ \A r \in Roots : \/ live[r] = Missing /\ live'[r] = Missing
                             \/ /\ live[r] \in Content /\ live'[r] \in Content
                                /\ live'[r].gen = spent.edits + 1
                                /\ live'[r].schema = live[r].schema
<1> DEFINE e(r) == [live[r] EXCEPT !.gen = spent.edits + 1, !.restored = FALSE]
<1>1. /\ live \in [Roots -> Content \cup {Missing, Damaged}]
      /\ \A r \in Roots \ {Database} : live[r] # Damaged
      /\ spent.edits \in 0..MaxEdits /\ MaxEdits \in Nat
  BY RecoveryAssumption DEF TypeOK
<1>2. spent.edits < MaxEdits
  BY DEF Edit
<1>3. spent.edits + 1 \in 0..MaxEdits
  BY <1>1, <1>2
<1>4. \A r \in Roots : live[r] = Missing \/ live[r] \in Content
  BY <1>1 DEF Edit, OneAtATime
<1>5. \A r \in Roots : live[r] \in Content =>
        e(r) \in Content /\ e(r).gen = spent.edits + 1 /\ e(r).schema = live[r].schema
  BY <1>3 DEF Content
<1>6. live' = [r \in Roots |-> IF live[r] = Missing THEN Missing ELSE e(r)]
  BY DEF Edit
<1>7. Missing \notin Content
  BY RecoveryAssumption
<1> HIDE DEF e
<1> QED BY <1>4, <1>5, <1>6, <1>7

LEMMA LiveType ==
  ASSUME TypeOK, OneAtATime, [Next]_vars
  PROVE  /\ live' \in [Roots -> Content \cup {Missing, Damaged}]
         /\ \A r \in Roots \ {Database} : live'[r] # Damaged
<1>1. /\ live \in [Roots -> Content \cup {Missing, Damaged}]
      /\ \A r \in Roots \ {Database} : live[r] # Damaged
      /\ restore.staged \in [Roots -> Content \cup {Missing}]
  BY DEF TypeOK, RestoreJournal
<1>2. Missing # Damaged /\ Damaged \notin Content /\ Missing \notin Content
  BY RecoveryAssumption
<1>3. Database \in Roots
  BY RecoveryAssumption DEF Kept
<1>4. CASE UNCHANGED live
  BY <1>1, <1>4
<1>5. CASE OpenClose
  BY <1>1, <1>5, OpenCloseType
<1>6. ASSUME NEW r \in Roots, MoveAside(r) \/ MoveIn(r)
      PROVE  live' = [live EXCEPT ![r] = Missing] \/ live' = [live EXCEPT ![r] = restore.staged[r]]
  BY <1>6 DEF MoveAside, MoveIn
<1>7. CASE Migrate
  BY <1>1, <1>7, MigrateEffect
<1>8. CASE Edit
  BY <1>2, <1>8, EditEffect
<1>9. CASE Damage
  BY <1>1, <1>3, <1>9 DEF Damage
<1> QED
  BY <1>1, <1>2, <1>4, <1>5, <1>6, <1>7, <1>8, <1>9, LiveStep

LEMMA LogType ==
  ASSUME TypeOK, [Next]_vars
  PROVE  log' \in Content \cup {NoLog, OwnLog, Damaged}
<1>1. log \in Content \cup {NoLog, OwnLog, Damaged}
  BY DEF TypeOK
<1>2. \/ log' \in {log, NoLog, OwnLog}
      \/ \E r \in Roots : MoveIn(r)
  BY DEF Next, vars, Work, Start, Choose, Activate, PrepareRestore, Verify,
    RestoreFails, Supersede, MoveAside, MoveIn, Record, PrepareMigration, Migrate,
    CompleteMigration, ResumeAtStart, StartUpgrade, ResumeMigration, OfferRecovery, Serve,
    ChooseRestore, ChoosePrepared, StartRestore, BackUpFirst, PrepareFails, SupersedeFails,
    MigrationFails, Edit, BackUp, Stop, Crash, Damage, Untouched, OpenClose
<1>3. ASSUME NEW r \in Roots, MoveIn(r)
      PROVE  log' \in Content \cup {NoLog, OwnLog, Damaged}
  <2>1. log' = log \/ log' \in {Damaged, restore.before[r], restore.staged[r]} \ {Missing}
    BY <1>3 DEF MoveIn
  <2>2. restore.before[r] \in Content \cup {Missing, Damaged}
        /\ restore.staged[r] \in Content \cup {Missing}
    BY DEF TypeOK, RestoreJournal
  <2> QED BY <1>1, <2>1, <2>2
<1> QED BY <1>1, <1>2, <1>3

\* Every backup is a copy of a database that could be read.
LEMMA BackupsGrow ==
  ASSUME TypeOK, OneAtATime, [Next]_vars
  PROVE  /\ backups' \subseteq Backup
         /\ backups' = backups \/ backups' = backups \cup {Copy}
         /\ backups' # backups => DbRead \in Content
<1>1. backups \subseteq Backup
  BY DEF TypeOK
<1>2. State \in {"ready", "upgrade"} => DbRead \in Content
  BY StateRead
<1>3. CASE UNCHANGED backups
  BY <1>1, <1>3
<1>4. CASE BackUp
  <2>1. DbRead \in Content
    BY <1>4 DEF BackUp, OneAtATime, DbRead
  <2> QED BY <1>1, <1>4, <2>1, CopyType DEF BackUp
<1>5. CASE StartUpgrade
  <2>1. DbRead \in Content
    BY <1>2, <1>5 DEF StartUpgrade
  <2> QED BY <1>1, <1>5, <2>1, CopyType DEF StartUpgrade
<1>6. CASE BackUpFirst /\ State = "ready"
  BY <1>1, <1>2, <1>6, CopyType DEF BackUpFirst
<1> QED BY <1>3, <1>4, <1>5, <1>6, BackupsStep

LEMMA RestoreType ==
  ASSUME TypeOK, [Next]_vars
  PROVE  restore' \in RestoreJournal
<1>1. /\ restore \in RestoreJournal
      /\ live \in [Roots -> Content \cup {Missing, Damaged}]
      /\ backups \subseteq Backup
  BY DEF TypeOK
<1>2. CASE UNCHANGED restore
  BY <1>1, <1>2
<1>3. CASE PrepareRestore
  <2>1. PICK b \in backups : restore' = Journal(b)
    BY <1>3 DEF PrepareRestore
  <2>2. b \in Backup
    BY <1>1
  <2> QED BY <2>1, <2>2, JournalType
<1>4. CASE Verify
  BY <1>1, <1>4 DEF Verify, RestoreJournal
<1>5. ASSUME NEW r \in Roots, MoveAside(r)
      PROVE  restore' \in RestoreJournal
  <2>1. [restore.aside EXCEPT ![r] = IF r = Database /\ log # NoLog THEN Lagging ELSE live[r]]
          \in [Roots -> Content \cup {Missing, Damaged, Lagging}]
    BY <1>1 DEF RestoreJournal
  <2> QED BY <1>1, <1>5, <2>1 DEF MoveAside, RestoreJournal
<1>6. ASSUME NEW r \in Roots, MoveIn(r)
      PROVE  restore' \in RestoreJournal
  <2>1. [restore.staged EXCEPT ![r] = Missing] \in [Roots -> Content \cup {Missing}]
    BY <1>1 DEF RestoreJournal
  <2> QED BY <1>1, <1>6, <2>1 DEF MoveIn, RestoreJournal
<1>7. ASSUME NEW r \in Roots, Record(r)
      PROVE  restore' \in RestoreJournal
  BY <1>1, <1>7 DEF Record, RestoreJournal
<1> QED
  BY <1>2, <1>3, <1>4, <1>5, <1>6, <1>7, RestoreStep

LEMMA MigrationType ==
  ASSUME TypeOK, OneAtATime, [Next]_vars
  PROVE  migration' \in [phase: {"none", "prepared", "failed", "verified", "superseded"},
                         from: 0..Latest, gen: 0..MaxEdits]
<1>1. migration \in [phase: {"none", "prepared", "failed", "verified", "superseded"},
                     from: 0..Latest, gen: 0..MaxEdits]
  BY DEF TypeOK
<1>2. CASE UNCHANGED migration
  BY <1>1, <1>2
<1>3. CASE PrepareMigration
  <2>1. live[Database] \in Content
    BY <1>3 DEF PrepareMigration, OneAtATime
  <2>2. live[Database].schema \in 0..Latest /\ live[Database].gen \in 0..MaxEdits
    BY <2>1 DEF Content
  <2> QED BY <1>3, <2>2 DEF PrepareMigration
<1>4. CASE MigrationFails \/ CompleteMigration \/ Supersede
  BY <1>1, <1>4 DEF MigrationFails, CompleteMigration, Supersede
<1> QED BY <1>2, <1>3, <1>4, MigrationStep

\* Every step keeps the types.
LEMMA TypeStep ==
  ASSUME TypeOK, OneAtATime, [Next]_vars
  PROVE  TypeOK'
<1>1. /\ live' \in [Roots -> Content \cup {Missing, Damaged}]
      /\ \A r \in Roots \ {Database} : live'[r] # Damaged
  BY LiveType
<1>2. log' \in Content \cup {NoLog, OwnLog, Damaged}
  BY LogType
<1>3. backups' \subseteq Backup
  BY BackupsGrow
<1>4. restore' \in RestoreJournal
  BY RestoreType
<1>5. migration' \in [phase: {"none", "prepared", "failed", "verified", "superseded"},
                      from: 0..Latest, gen: 0..MaxEdits]
  BY MigrationType
<1>6. ended' \in BOOLEAN /\ proc' \in [pc: PCs, by: Bys]
  BY ProcType
<1>7. spent' \in [edits: 0..MaxEdits, crashes: 0..MaxCrashes, faults: 0..MaxFaults,
                  restores: 0..MaxRestores]
  BY SpentType
<1> QED BY <1>1, <1>2, <1>3, <1>4, <1>5, <1>6, <1>7 DEF TypeOK, PCs, Bys

-----------------------------------------------------------------------------
(* One thing at a time *)

\* What a step says about the two journals and the process, one action at a time.
LEMMA OneStep ==
  ASSUME TypeOK, TypeOK', OneAtATime, [Next]_vars
  PROVE  OneAtATime'
<1> USE DEF RestorePending, MigrationPending
<1>0. /\ restore \in RestoreJournal /\ Database \in Roots
      /\ proc \in [pc: PCs, by: Bys]
      /\ migration \in [phase: {"none", "prepared", "failed", "verified", "superseded"},
                        from: 0..Latest, gen: 0..MaxEdits]
      /\ live \in [Roots -> Content \cup {Missing, Damaged}]
  BY RecoveryAssumption DEF TypeOK, Kept, PCs, Bys
<1>1. CASE PrepareRestore
  BY <1>1, GoType, <1>0 DEF OneAtATime, PrepareRestore, PCs, Go
<1>2. ASSUME NEW r \in Roots, MoveAside(r) \/ MoveIn(r) \/ Record(r)
      PROVE  OneAtATime'
  BY <1>0, <1>2 DEF OneAtATime, MoveAside, MoveIn, Record, RestoreJournal
<1>3. CASE Verify
  BY <1>0, <1>3 DEF OneAtATime, Verify, Go, End, Down, RestoreJournal
<1>4. CASE RestoreFails
  BY <1>0, <1>4 DEF OneAtATime, RestoreFails, Go, End, Down
<1>5. CASE Supersede
  BY <1>0, <1>5 DEF OneAtATime, Supersede, End, Down
<1>6. CASE SupersedeFails
  BY <1>0, <1>6 DEF OneAtATime, SupersedeFails, End, Down, Go
<1>7. CASE PrepareMigration
  BY <1>0, <1>7 DEF OneAtATime, PrepareMigration, Go
<1>8. CASE Migrate
  BY <1>0, <1>8, MigrateEffect DEF OneAtATime, Migrate
<1>9. CASE MigrationFails
  BY <1>0, <1>9 DEF OneAtATime, MigrationFails, Go, End, Down
<1>10. CASE CompleteMigration
  BY <1>0, <1>10 DEF OneAtATime, CompleteMigration, End, Down
<1>11. CASE ResumeAtStart
  BY <1>0, <1>11 DEF OneAtATime, ResumeAtStart, Go
<1>12. CASE StartUpgrade \/ ResumeMigration \/ Serve
  <2>1. live'[Database] \in Content /\ log' = NoLog /\ UNCHANGED <<restore, migration>>
    BY <1>12, StateRead, OpenCloseType DEF StartUpgrade, ResumeMigration, Serve, Resumable
  <2>2. ~RestorePending
    BY <1>12 DEF StartUpgrade, ResumeMigration, Serve, Clear
  <2>3. CASE StartUpgrade
    BY <2>1, <2>2, <2>3 DEF OneAtATime, StartUpgrade, Go
  <2>4. CASE ResumeMigration
    BY <2>1, <2>2, <2>4 DEF OneAtATime, ResumeMigration, Go
  <2>5. CASE Serve
    <3>1. live'[Database].schema = Latest
      BY <2>5, StateRead, OpenCloseType DEF Serve
    <3> QED BY <2>1, <2>2, <2>5, <3>1 DEF OneAtATime, Serve, Go
  <2> QED BY <1>12, <2>3, <2>4, <2>5
<1>13. CASE OfferRecovery
  BY <1>0, <1>13 DEF OneAtATime, OfferRecovery, Go, Clear
<1>14. CASE ChooseRestore
  BY <1>0, <1>14 DEF OneAtATime, ChooseRestore, Go
<1>15. CASE ChoosePrepared
  BY <1>0, <1>15 DEF OneAtATime, ChoosePrepared, Go
<1>16. CASE StartRestore
  BY <1>0, <1>16 DEF OneAtATime, StartRestore, Clear, Go
<1>17. CASE PrepareFails
  BY <1>0, <1>17 DEF OneAtATime, PrepareFails, Go, End, Down
<1>18. CASE Edit
  <2>1. proc.pc = "serving" /\ UNCHANGED <<proc, log, restore, migration>>
    BY <1>18 DEF Edit
  <2>2. live[Database] \in Content /\ Missing \notin Content
    BY <2>1, RecoveryAssumption DEF OneAtATime
  <2>3. live'[Database] \in Content /\ live'[Database].schema = live[Database].schema
    BY <1>0, <1>18, <2>2, EditEffect
  <2> QED BY <2>1, <2>3 DEF OneAtATime
<1>19. CASE BackUp \/ UNCHANGED vars
  BY <1>0, <1>19 DEF OneAtATime, BackUp, vars
<1>20. CASE Stop \/ Crash \/ Damage
  BY <1>0, <1>20 DEF OneAtATime, Stop, Crash, Damage, End, Down
<1> QED
  BY <1>1, <1>2, <1>3, <1>4, <1>5, <1>6, <1>7, <1>8, <1>9, <1>10, <1>11, <1>12, <1>13, <1>14,
    <1>15, <1>16, <1>17, <1>18, <1>19, <1>20 DEF Next, Work, Start, Choose, Activate

-----------------------------------------------------------------------------
(* Rolling forward *)

\* With a prepared journal only the restore touches the files.
LEMMA PendingStep ==
  ASSUME TypeOK, OneAtATime, RestorePending, [Next]_vars
  PROVE  \/ UNCHANGED <<live, log, restore, backups>>
         \/ Verify
         \/ \E r \in Roots : MoveAside(r) \/ MoveIn(r) \/ Record(r)
<1>1. /\ proc.pc \in {"down", "restoring", "ui"}
      /\ proc.pc = "ui" => proc.by = "plan"
  BY DEF OneAtATime
<1>2. ~Clear
  BY DEF Clear
<1>3. CASE Work
  BY <1>1, <1>2, <1>3 DEF Work, Activate, PrepareRestore, RestoreFails, Supersede,
    PrepareMigration, Migrate, CompleteMigration
<1>4. CASE Start
  BY <1>2, <1>4 DEF Start, ResumeAtStart, StartUpgrade, ResumeMigration, OfferRecovery, Serve
<1>5. CASE Choose \/ StartRestore
  BY <1>1, <1>2, <1>5 DEF Choose, ChooseRestore, ChoosePrepared, StartRestore
<1>6. CASE PrepareFails \/ SupersedeFails \/ MigrationFails
  BY <1>1, <1>6 DEF PrepareFails, SupersedeFails, MigrationFails
<1>7. CASE Edit \/ BackUp \/ Stop \/ UNCHANGED vars
  BY <1>1, <1>7 DEF Edit, BackUp, Stop, vars
<1>8. CASE Crash \/ Damage
  BY <1>1, <1>8 DEF Crash, Damage
<1> QED
  BY <1>3, <1>4, <1>5, <1>6, <1>7, <1>8 DEF Next

\* And without one, only PrepareRestore makes one.
LEMMA PrepareStep ==
  ASSUME TypeOK, ~RestorePending, RestorePending', [Next]_vars
  PROVE  PrepareRestore
<1>1. ASSUME NEW r \in Roots, MoveAside(r) \/ MoveIn(r) \/ Record(r)
      PROVE  restore'.phase = restore.phase
  BY <1>1 DEF MoveAside, MoveIn, Record, TypeOK, RestoreJournal
<1>2. CASE Verify
  BY <1>2 DEF Verify, TypeOK, RestoreJournal, RestorePending
<1>3. CASE UNCHANGED restore
  BY <1>3 DEF RestorePending
<1> QED
  BY <1>1, <1>2, <1>3, RestoreStep DEF RestorePending

\* A first rename: the root is aside, and nothing else changes.
LEMMA AsideEffect ==
  ASSUME TypeOK, NEW r \in Roots, MoveAside(r)
  PROVE  /\ r \in Wanted /\ live[r] \notin {Missing, restore.want[r]} /\ restore.aside[r] = Missing
         /\ live'[r] = Missing /\ \A s \in Roots \ {r} : live'[s] = live[s]
         /\ restore'.aside[r] = IF r = Database /\ log # NoLog THEN Lagging ELSE live[r]
         /\ \A s \in Roots \ {r} : restore'.aside[s] = restore.aside[s]
         /\ restore'.want = restore.want /\ restore'.staged = restore.staged
         /\ restore'.before = restore.before /\ restore'.phase = restore.phase
         /\ log' = log /\ backups' = backups
  BY DEF MoveAside, Due, TypeOK, RestoreJournal

\* A second rename: the staged root is in place.
LEMMA InEffect ==
  ASSUME TypeOK, NEW r \in Roots, MoveIn(r)
  PROVE  /\ r \in Wanted /\ live[r] = Missing /\ restore.staged[r] # Missing
         /\ live'[r] = restore.staged[r] /\ \A s \in Roots \ {r} : live'[s] = live[s]
         /\ \A s \in Roots \ {r} : restore'.staged[s] = restore.staged[s]
         /\ restore'.want = restore.want /\ restore'.aside = restore.aside
         /\ restore'.before = restore.before /\ restore'.phase = restore.phase
         /\ log = NoLog => log' = NoLog
         /\ backups' = backups
  BY DEF MoveIn, Due, TypeOK, RestoreJournal

\* Recording that a root is in place.
LEMMA RecordEffect ==
  ASSUME TypeOK, NEW r \in Roots, Record(r)
  PROVE  /\ UNCHANGED <<live, log, backups>>
         /\ restore'.want = restore.want /\ restore'.aside = restore.aside
         /\ restore'.staged = restore.staged
         /\ restore'.before = restore.before /\ restore'.phase = restore.phase
  BY DEF Record, TypeOK, RestoreJournal

LEMMA RollForwardStep ==
  ASSUME TypeOK, OneAtATime, CanRollForward, [Next]_vars
  PROVE  CanRollForward'
<1> SUFFICES ASSUME RestorePending', NEW r \in Roots, r \in Wanted'
             PROVE  restore'.want[r] \in {live'[r], restore'.staged[r]}
  BY DEF CanRollForward, Wanted
<1>0. restore'.want[r] # Missing
  BY DEF Wanted
<1>1. CASE ~RestorePending
  <2>1. PICK b \in backups : restore' = Journal(b)
    BY <1>1, PrepareStep DEF PrepareRestore
  <2>2. restore'.staged = restore'.want
    BY <2>1 DEF Journal
  <2> QED BY <2>2
<1>2. CASE RestorePending
  <2>1. r \in Wanted => restore.want[r] \in {live[r], restore.staged[r]}
    BY <1>2 DEF CanRollForward
  <2>2. CASE UNCHANGED <<live, restore>>
    BY <2>1, <2>2 DEF Wanted
  <2>3. CASE Verify
    BY <2>3 DEF Verify, TypeOK, RestoreJournal, RestorePending
  <2>4. ASSUME NEW s \in Roots, MoveAside(s)
        PROVE  restore'.want[r] \in {live'[r], restore'.staged[r]}
    BY <1>0, <2>1, <2>4, AsideEffect DEF Wanted
  <2>5. ASSUME NEW s \in Roots, MoveIn(s)
        PROVE  restore'.want[r] \in {live'[r], restore'.staged[r]}
    BY <1>0, <2>1, <2>5, InEffect DEF Wanted
  <2>6. ASSUME NEW s \in Roots, Record(s)
        PROVE  restore'.want[r] \in {live'[r], restore'.staged[r]}
    BY <1>0, <2>1, <2>6, RecordEffect DEF Wanted
  <2> QED BY <1>2, <2>2, <2>3, <2>4, <2>5, <2>6, PendingStep
<1> QED BY <1>1, <1>2

-----------------------------------------------------------------------------
(* One point of history *)

\* A root that is in a backup is restored to the time of the backup.
LEMMA FileOfRoot ==
  ASSUME NEW b \in Backup, NEW r \in b.roots
  PROVE  FileOf(b, r) \in Content /\ FileOf(b, r).gen = b.gen
<1>1. /\ b.gen \in 0..MaxEdits /\ b.schema \in 0..Latest /\ 0 \in 0..Latest
  BY RecoveryAssumption DEF Backup
<1> DEFINE d == [gen |-> b.gen, schema |-> b.schema, restored |-> TRUE]
           o == [gen |-> b.gen, schema |-> 0, restored |-> FALSE]
<1>2. {d, o} \subseteq Content /\ d.gen = b.gen /\ o.gen = b.gen
  BY <1>1 DEF Content
<1>3. FileOf(b, r) = d \/ FileOf(b, r) = o
  BY DEF FileOf
<1> HIDE DEF d, o
<1> QED BY <1>2, <1>3

\* No step makes a log unless logs survive.
LEMMA LogStep ==
  ASSUME TypeOK, ~LogsSurvive, log = NoLog, [Next]_vars
  PROVE  log' = NoLog
<1>1. \/ log' = log \/ OpenClose \/ Crash \/ Damage
      \/ \E r \in Roots : MoveIn(r)
  BY DEF Next, vars, Work, Start, Choose, Activate, PrepareRestore, Verify,
    RestoreFails, Supersede, MoveAside, MoveIn, Record, PrepareMigration, Migrate,
    CompleteMigration, ResumeAtStart, StartUpgrade, ResumeMigration, OfferRecovery, Serve,
    ChooseRestore, ChoosePrepared, StartRestore, BackUpFirst, PrepareFails, SupersedeFails,
    MigrationFails, Edit, BackUp, Stop, Untouched
<1>2. CASE Crash
  BY <1>2 DEF Crash
<1> QED BY <1>1, <1>2, InEffect DEF OpenClose, Damage

\* Backups have both roots, and so has a restore that is made from one.
LEMMA BackupsWhole ==
  ASSUME TypeOK, OneAtATime, LiveRoots, WholeBackups, [Next]_vars
  PROVE  WholeBackups'
<1>0. Kept \subseteq Roots /\ Kept = {Database, Assets} /\ Missing \notin Content
  BY RecoveryAssumption DEF Kept
<1>1. \A b \in backups' : Kept \subseteq b.roots
  <2>1. CASE backups' = backups
    BY <2>1 DEF WholeBackups
  <2>2. CASE backups' # backups
    <3>1. backups' = backups \cup {Copy} /\ DbRead \in Content
      BY <2>2, BackupsGrow
    <3>2. ~RestorePending
      BY <2>2, PendingStep, AsideEffect, InEffect, RecordEffect DEF Verify
    <3>3. live[Assets] # Missing /\ live[Database] # Missing
      BY <1>0, <3>2 DEF LiveRoots
    <3>4. Kept \subseteq Copy.roots
      BY <1>0, <3>3 DEF Copy
    <3> QED BY <3>1, <3>4 DEF WholeBackups
  <2> QED BY <2>1, <2>2
<1>2. ASSUME RestorePending'
      PROVE  Kept \subseteq Wanted' /\ restore'.want[Database].gen = restore'.want[Assets].gen
  <2>1. CASE ~RestorePending
    <3>1. PICK b \in backups : restore' = Journal(b)
      BY <1>2, <2>1, PrepareStep DEF PrepareRestore
    <3>2. b \in Backup /\ Database \in b.roots /\ Assets \in b.roots
      BY <1>0 DEF WholeBackups, TypeOK
    <3>3. restore'.want[Database] = FileOf(b, Database) /\ restore'.want[Assets] = FileOf(b, Assets)
      BY <1>0, <3>1, <3>2, JournalType
    <3>4. /\ FileOf(b, Database) \in Content /\ FileOf(b, Database).gen = b.gen
          /\ FileOf(b, Assets) \in Content /\ FileOf(b, Assets).gen = b.gen
      BY <3>2, FileOfRoot
    <3> QED BY <1>0, <3>3, <3>4 DEF Wanted
  <2>2. CASE RestorePending
    <3>1. restore'.want = restore.want
      <4>1. CASE Verify
        BY <4>1 DEF Verify, TypeOK, RestoreJournal
      <4> QED BY <2>2, <4>1, PendingStep, AsideEffect, InEffect, RecordEffect
    <3> QED BY <2>2, <3>1 DEF WholeBackups, Wanted
  <2> QED BY <2>1, <2>2
<1> QED BY <1>1, <1>2 DEF WholeBackups

\* The files of a restore are where the journal expects them.
LEMMA PlacesStep ==
  ASSUME TypeOK, OneAtATime, CanRollForward, LiveRoots, [Next]_vars, RestorePending',
         NEW r \in Roots, r \in Wanted'
  PROVE  \/ live'[r] = restore'.before[r] /\ restore'.aside[r] = Missing
         \/ live'[r] \in {Missing, restore'.want[r]} /\ restore'.aside[r] = restore'.before[r]
<1>0. log = NoLog /\ restore'.want[r] # Missing
  BY DEF LiveRoots, Wanted
<1>1. CASE ~RestorePending
  <2>1. PrepareRestore
    BY <1>1, PrepareStep
  <2>2. PICK b \in backups : restore' = Journal(b)
    BY <2>1 DEF PrepareRestore
  <2>3. live' = live /\ b \in Backup /\ DbRead = live[Database]
    BY <1>0, <2>1 DEF PrepareRestore, TypeOK, DbRead
  <2>4. restore'.before[r] = live[r] /\ restore'.aside[r] = Missing
    BY <2>2, <2>3, JournalType DEF None
  <2> QED BY <2>3, <2>4
<1>2. CASE RestorePending
  <2>1. r \in Wanted =>
          \/ live[r] = restore.before[r] /\ restore.aside[r] = Missing
          \/ live[r] \in {Missing, restore.want[r]} /\ restore.aside[r] = restore.before[r]
    BY <1>2 DEF LiveRoots
  <2>2. r \in Wanted => restore.want[r] \in {live[r], restore.staged[r]}
    BY <1>2 DEF CanRollForward
  <2>3. CASE UNCHANGED <<live, restore>>
    BY <2>1, <2>3 DEF Wanted
  <2>4. ~Verify
    BY DEF Verify, TypeOK, RestoreJournal, RestorePending
  <2>5. ASSUME NEW s \in Roots, MoveAside(s)
        PROVE  \/ live'[r] = restore'.before[r] /\ restore'.aside[r] = Missing
               \/ live'[r] \in {Missing, restore'.want[r]} /\ restore'.aside[r] = restore'.before[r]
    BY <1>0, <2>1, <2>5, AsideEffect DEF Wanted
  <2>6. ASSUME NEW s \in Roots, MoveIn(s)
        PROVE  \/ live'[r] = restore'.before[r] /\ restore'.aside[r] = Missing
               \/ live'[r] \in {Missing, restore'.want[r]} /\ restore'.aside[r] = restore'.before[r]
    BY <1>0, <2>1, <2>2, <2>6, InEffect DEF Wanted
  <2>7. ASSUME NEW s \in Roots, Record(s)
        PROVE  \/ live'[r] = restore'.before[r] /\ restore'.aside[r] = Missing
               \/ live'[r] \in {Missing, restore'.want[r]} /\ restore'.aside[r] = restore'.before[r]
    BY <2>1, <2>7, RecordEffect DEF Wanted
  <2> QED BY <1>2, <2>3, <2>4, <2>5, <2>6, <2>7, PendingStep
<1> QED BY <1>1, <1>2

\* A verified restore has left the roots of one backup.
LEMMA VerifiedStep ==
  ASSUME TypeOK, WholeBackups, RestorePending, Verify
  PROVE  /\ restore'.done = Wanted'
         /\ live'[Assets] \in Content /\ live'[Database] # Missing
         /\ live'[Database].gen = live'[Assets].gen
<1>1. /\ Database \in Wanted /\ Assets \in Wanted
      /\ restore.want[Database].gen = restore.want[Assets].gen
  BY DEF WholeBackups, Kept
<1>2. /\ restore.want[Assets] \in Content
      /\ restore.want[Database] # Missing
  BY <1>1 DEF Wanted, TypeOK, RestoreJournal
<1>3. live' = live /\ live[Database] = restore.want[Database] /\ live[Assets] = restore.want[Assets]
  BY <1>1 DEF Verify, Intact
<1>4. restore'.done = Wanted'
  BY DEF Verify, TypeOK, RestoreJournal, Wanted
<1> QED BY <1>1, <1>2, <1>3, <1>4

LEMMA RootsStep ==
  ASSUME TypeOK, OneAtATime, CanRollForward, ~LogsSurvive, LiveRoots, WholeBackups, [Next]_vars
  PROVE  LiveRoots'
<1>1. log' = NoLog
  BY LogStep DEF LiveRoots
<1>2. ASSUME RestorePending', NEW r \in Roots, r \in Wanted'
      PROVE  \/ live'[r] = restore'.before[r] /\ restore'.aside[r] = Missing
             \/ live'[r] \in {Missing, restore'.want[r]} /\ restore'.aside[r] = restore'.before[r]
  BY <1>2, PlacesStep
<1>3. ASSUME ~RestorePending'
      PROVE  /\ restore'.done = Wanted'
             /\ live'[Assets] \in Content /\ live'[Database] # Missing
             /\ live'[Database] \in Content => live'[Database].gen = live'[Assets].gen
  <2>1. CASE RestorePending
    <3>1. Verify
      BY <1>3, <2>1, PendingStep, AsideEffect, InEffect, RecordEffect DEF RestorePending
    <3> QED BY <2>1, <3>1, VerifiedStep
  <2>2. CASE ~RestorePending
    <3>0. /\ restore.done = Wanted /\ live[Assets] \in Content /\ live[Database] # Missing
          /\ live[Database] \in Content => live[Database].gen = live[Assets].gen
          /\ log = NoLog /\ DbRead = live[Database]
      BY <2>2 DEF LiveRoots, DbRead
    <3>1. ASSUME NEW r \in Roots PROVE ~MoveAside(r) /\ ~MoveIn(r) /\ ~Record(r)
      BY <3>0 DEF MoveAside, MoveIn, Record, Due
    <3>2. ~PrepareRestore
      BY <1>3 DEF PrepareRestore, Journal, RestorePending
    <3>3. restore'.done = Wanted'
      <4>1. CASE UNCHANGED restore
        BY <3>0, <4>1 DEF Wanted
      <4>2. CASE Verify
        BY <4>2 DEF Verify, TypeOK, RestoreJournal, Wanted
      <4> QED BY <3>1, <3>2, <4>1, <4>2, RestoreStep
    <3>4. Database \in Roots /\ Assets \in Roots \ {Database}
          /\ Missing \notin Content /\ Damaged \notin Content /\ Missing # Damaged
      BY RecoveryAssumption DEF Kept
    <3>5. CASE UNCHANGED live
      BY <3>0, <3>3, <3>5
    <3>6. CASE OpenClose
      BY <3>0, <3>3, <3>4, <3>6, OpenCloseType
    <3>7. CASE Migrate
      BY <3>0, <3>3, <3>4, <3>7, MigrateEffect
    <3>8. CASE Edit
      BY <3>0, <3>3, <3>4, <3>8, EditEffect
    <3>9. CASE Damage
      BY <3>0, <3>3, <3>4, <3>9 DEF Damage, TypeOK
    <3> QED BY <3>1, <3>5, <3>6, <3>7, <3>8, <3>9, LiveStep
  <2> QED BY <2>1, <2>2
<1> QED BY <1>1, <1>2, <1>3 DEF LiveRoots, Wanted

-----------------------------------------------------------------------------
(* Theorems *)

LEMMA InitInv == Init => RecoveryInv
<1> SUFFICES ASSUME Init PROVE RecoveryInv
  OBVIOUS
<1>1. TypeOK
  BY InitType
<1>2. ~RestorePending /\ ~MigrationPending /\ proc.pc = "down"
  BY DEF Init, NoRestore, NoMigration, RestorePending, MigrationPending, Down
<1>3. OneAtATime /\ CanRollForward
  BY <1>2 DEF OneAtATime, CanRollForward
<1>4. LiveRoots
  <2>1. restore.done = Wanted
    BY DEF Init, NoRestore, Wanted, None
  <2>2. Database \in Roots /\ Assets \in Roots /\ Database # Assets
    BY RecoveryAssumption DEF Kept
  <2>3. 0 \in 0..MaxEdits /\ 0 \in 0..Latest /\ First \in 0..Latest
    BY RecoveryAssumption
  <2>4. /\ live[Assets] = [gen |-> 0, schema |-> 0, restored |-> FALSE]
        /\ live[Database] = [gen |-> 0, schema |-> First, restored |-> FALSE]
    BY <2>2 DEF Init
  <2>5. live[Assets] \in Content /\ live[Database] \in Content
        /\ live[Assets].gen = live[Database].gen
    BY <2>3, <2>4 DEF Content
  <2>6. log = NoLog /\ Missing \notin Content
    BY RecoveryAssumption DEF Init
  <2> QED BY <1>2, <2>1, <2>5, <2>6 DEF LiveRoots
<1>5. WholeBackups
  BY <1>2, RecoveryAssumption DEF WholeBackups, Init
<1> QED BY <1>1, <1>3, <1>4, <1>5 DEF RecoveryInv

LEMMA StepInv == RecoveryInv /\ [Next]_vars => RecoveryInv'
<1> SUFFICES ASSUME RecoveryInv, [Next]_vars PROVE RecoveryInv'
  OBVIOUS
<1>1. TypeOK /\ OneAtATime /\ CanRollForward
  BY DEF RecoveryInv
<1>2. TypeOK'
  BY <1>1, TypeStep
<1>3. OneAtATime'
  BY <1>1, <1>2, OneStep
<1>4. CanRollForward'
  BY <1>1, RollForwardStep
<1>5. ASSUME ~LogsSurvive PROVE LiveRoots' /\ WholeBackups'
  <2>1. LiveRoots /\ WholeBackups
    BY <1>5 DEF RecoveryInv
  <2>2. LiveRoots'
    BY <1>1, <1>5, <2>1, RootsStep
  <2> QED BY <1>1, <2>1, <2>2, BackupsWhole
<1> QED BY <1>2, <1>3, <1>4, <1>5 DEF RecoveryInv

\* The inductive invariant: with a prepared journal only the restore runs, the roots
\* of an unfinished restore are where the journal expects them, and those of a
\* finished one are of one time (run and ResumeRestore).
THEOREM RecoveryInvariant == Spec => []RecoveryInv
  BY InitInv, StepInv, PTL DEF Spec

\* Wherever the process dies, a prepared restore can be carried to its end, also when
\* a log survives (PrepareRestore, activateRestoreRoot).
THEOREM RollForward == Spec => []CanRollForward
<1>1. RecoveryInv => CanRollForward
  BY DEF RecoveryInv
<1> QED BY <1>1, RecoveryInvariant, PTL

\* If no log survives, a site that is served is one site (run).
THEOREM OneSite == ASSUME ~LogsSurvive PROVE Spec => []ServesWhole
<1>1. RecoveryInv => ServesWhole
  <2> SUFFICES ASSUME RecoveryInv, proc.pc = "serving" PROVE ServesWhole
    BY DEF ServesWhole
  <2>1. OneAtATime /\ LiveRoots
    BY DEF RecoveryInv
  <2>2. ~RestorePending /\ ~MigrationPending
    BY <2>1 DEF OneAtATime
  <2> QED BY <2>1, <2>2 DEF ServesWhole, OneAtATime, LiveRoots
<1> QED BY <1>1, RecoveryInvariant, PTL

\* If no log survives, what a restore replaces is kept (activateRestoreRoot).
THEOREM NothingIsLost == ASSUME ~LogsSurvive PROVE Spec => []OldKept
<1>1. RecoveryInv => OldKept
  BY DEF RecoveryInv, LiveRoots, OldKept
<1> QED BY <1>1, RecoveryInvariant, PTL

\* If no log survives, no start takes an installed site for a new one (Inspect).
THEOREM StaysInstalled == ASSUME ~LogsSurvive PROVE Spec => []NeverReinstalled
<1>1. RecoveryInv => NeverReinstalled
  <2> SUFFICES ASSUME RecoveryInv, Clear PROVE State # "fresh"
    BY DEF NeverReinstalled
  <2>1. TypeOK /\ LiveRoots /\ ~RestorePending
    BY DEF RecoveryInv, Clear
  <2>2. DbRead # Missing
    BY <2>1 DEF LiveRoots, DbRead
  <2> QED BY <2>1, <2>2, StateRead
<1> QED BY <1>1, RecoveryInvariant, PTL

\* If no log survives, a failed migration is not tried again (resumeMigration).
THEOREM NoRetry == ASSUME ~LogsSurvive PROVE Spec => FailedStaysFailed
<1> DEFINE Stays == migration.phase = "failed" =>
       /\ migration'.phase \in {"failed", "superseded"}
       /\ {live[Database], live'[Database]} \subseteq Content
            => live'[Database].schema = live[Database].schema
<1>1. RecoveryInv /\ [Next]_vars => Stays
  <2> SUFFICES ASSUME RecoveryInv, [Next]_vars, migration.phase = "failed"
               PROVE  Stays
    OBVIOUS
  <2>1. TypeOK /\ OneAtATime /\ LiveRoots
    BY DEF RecoveryInv
  <2>2. MigrationPending /\ proc.pc \notin {"journaling", "upgrading", "serving"}
    BY <2>1 DEF OneAtATime, MigrationPending
  <2>3. migration'.phase \in {"failed", "superseded"}
    BY <2>1, <2>2, MigrationStep DEF PrepareMigration, MigrationFails, CompleteMigration, Supersede,
      TypeOK
  <2>4. ASSUME {live[Database], live'[Database]} \subseteq Content
        PROVE  live'[Database].schema = live[Database].schema
    <3>1. DbRead = live[Database] /\ Database \in Roots /\ Missing \notin Content
          /\ Damaged \notin Content
      BY <2>1, RecoveryAssumption DEF LiveRoots, DbRead, Kept
    <3>2. ASSUME NEW r \in Roots, MoveAside(r) \/ MoveIn(r)
          PROVE  live'[Database].schema = live[Database].schema
      BY <2>1, <2>4, <3>1, <3>2, AsideEffect, InEffect
    <3>3. ~Migrate /\ ~Edit
      BY <2>2 DEF Migrate, Edit
    <3>4. CASE Damage
      BY <2>1, <2>4, <3>1, <3>4 DEF Damage, TypeOK
    <3>5. CASE OpenClose
      BY <2>1, <3>1, <3>5, OpenCloseType
    <3> QED BY <3>2, <3>3, <3>4, <3>5, LiveStep
  <2> QED BY <2>3, <2>4
<1>2. RecoveryInv /\ [Next]_vars => [Stays]_vars
  BY <1>1
<1> QED BY <1>2, RecoveryInvariant, PTL DEF Spec, FailedStaysFailed
=============================================================================
