--------------------------- MODULE AssetLifecycle ---------------------------
(***************************************************************************)
(* Asset files, from their upload to their deletion                        *)
(* (internal/recovery/asset_gc.go, scheduler.go and backup.go,             *)
(* internal/storage/sqlite/asset_gc_store.go, asset_store.go,              *)
(* image_store.go, website_store.go and backup_store.go, and the assets of *)
(* the public index in internal/publishing).                               *)
(*                                                                         *)
(* An asset is a file in the asset directory and a row.  Products and      *)
(* website configurations refer to rows; publication copies references     *)
(* into the public state, and the engine serves files of the assets its    *)
(* index holds.  A collector marks rows nothing refers to, deletes those   *)
(* marked long enough ago, and then their files.  Backups take a snapshot  *)
(* of the database first and copy the files of its rows afterwards.        *)
(***************************************************************************)
EXTENDS Integers, FiniteSets, SequencesExt

CONSTANTS
  Assets,
  WebsiteAssets, \* those uploaded for the website; products may use them too
  Products,
  Backups,       \* backup runs
  Grace,         \* ticks a row stays marked before it is deleted
  Batch,         \* deletions a cycle plans, and files it deletes, at most
  None

ASSUME AssetAssumption ==
  /\ IsFiniteSet(Assets) /\ IsFiniteSet(Products)
  /\ WebsiteAssets \subseteq Assets
  /\ Grace \in Nat \ {0} /\ Batch \in Nat \ {0}
  /\ None \notin Backups
  /\ \A n \in 0..Grace : None # n
  /\ \A S \in SUBSET Assets : None # S

VARIABLES
  file,      \* the asset directory
  row,       \* assets: the rows there are
  images,    \* product_images and product_documents
  published, \* products whose status is published
  unit,      \* per product, what the publication worker has staged
  active,    \* public_activations: the assets of each view
  working,   \* website_working
  versions,  \* website_versions
  site,      \* the version that is active
  switch,    \* the candidate of a route switch
  index,     \* the public index
  orphan,    \* asset_gc_orphans: ticks since the mark
  queue,     \* asset_gc_deletions still to be done, in planned order
  gc,        \* the collector
  pins,      \* asset_backup_pins of each run
  backup,    \* the backup under way
  ledger,    \* backup_runs
  kept,      \* runs whose backup directory stands
  root,      \* whether the asset directory can be reached
  up,        \* whether the process runs
  unseen     \* history variable: ticks since a cycle last found the asset
             \* in use, or since its row was created

catalogVars == <<images, published, unit, active>>
siteVars == <<working, versions, site, switch>>
gcVars == <<orphan, queue, gc>>
backupVars == <<pins, backup, ledger, kept>>
vars == <<file, row, catalogVars, siteVars, index, gcVars, backupVars, root, up, unseen>>

NoUnit == [assets |-> None, what |-> "none"]
NoSwitch == [site |-> None, units |-> [p \in Products |-> None], what |-> "none"]
Down == [up |-> FALSE, assets |-> [p \in Products |-> None],
         refs |-> [a \in Assets |-> 0], served |-> {}]
Idle == [step |-> "idle", todo |-> <<>>, ok |-> FALSE]
NoBackup == [run |-> None, step |-> "idle", todo |-> {}]

Assigned(f) == UNION {f[p] : p \in {q \in Products : f[q] # None}}

Init ==
  /\ file = [a \in Assets |-> "unused"] /\ row = {}
  /\ images = [p \in Products |-> {}] /\ published = {}
  /\ unit = [p \in Products |-> NoUnit] /\ active = [p \in Products |-> None]
  /\ working = {} /\ versions = {{}} /\ site = {} /\ switch = NoSwitch
  /\ index = [Down EXCEPT !.up = TRUE]
  /\ orphan = [a \in Assets |-> None] /\ queue = <<>> /\ gc = Idle
  /\ pins = [b \in Backups |-> {}] /\ backup = NoBackup
  /\ ledger = [b \in Backups |-> "none"] /\ kept = {}
  /\ root = TRUE /\ up = TRUE
  /\ unseen = [a \in Assets |-> 0]

(***************************************************************************)
(* Uploads.  The file gets its name before the row is inserted; when the   *)
(* insertion fails, or never comes, the file stays behind.                 *)
(***************************************************************************)
StoreFile(a) ==
  /\ up /\ root /\ file[a] = "unused"
  /\ file' = [file EXCEPT ![a] = "uploading"]
  /\ UNCHANGED <<row, catalogVars, siteVars, index, gcVars, backupVars, root, up, unseen>>

CreateAsset(a) ==
  /\ up /\ file[a] = "uploading"
  /\ \/ /\ file' = [file EXCEPT ![a] = "stored"]
        /\ row' = row \cup {a}
        /\ unseen' = [unseen EXCEPT ![a] = 0]
     \/ /\ file' = [file EXCEPT ![a] = "stray"]
        /\ UNCHANGED <<row, unseen>>
  /\ UNCHANGED <<catalogVars, siteVars, index, gcVars, backupVars, root, up>>

(***************************************************************************)
(* The public index: the assets of the website and of each listed product, *)
(* how often each is referred to, and those that are served.               *)
(***************************************************************************)
\* validateAsset of every asset: it has a row, and its file is there.
Valid(S) ==
  (S # {}) => /\ root
              /\ \A a \in S : a \in row /\ file[a] = "stored"

One(a, S) == IF a \in S THEN 1 ELSE 0

\* installLocked, once the rows say `act` and `conf`.
FullIndex(act, conf) ==
  LET listed == {p \in Products : act[p] # None /\ Valid(act[p])}
  IN  IF ~Valid(conf) THEN Down
      ELSE [up |-> TRUE,
            assets |-> [p \in Products |-> IF p \in listed THEN act[p] ELSE None],
            refs |-> [a \in Assets |->
                        Cardinality({p \in listed : a \in act[p]}) + One(a, conf)],
            served |-> conf \cup UNION {act[p] : p \in listed}]

\* Mutant: an asset is withdrawn with the first view that had it.
ServedByAll(old, left) == index.served \ old

\* What is still served when a view with the assets old goes.
StillServed(old, left) == {a \in index.served : a \notin old \/ left[a] # 0}

\* InstallProductVisibility: only the entries of p change.
ProductIndex(p, act) ==
  LET old == IF index.assets[p] = None THEN {} ELSE index.assets[p]
      new == IF act[p] = None THEN {} ELSE act[p]
      left == [a \in Assets |-> index.refs[a] - One(a, old)]
  IN  IF ~index.up THEN FullIndex(act, site)
      ELSE IF ~Valid(new) THEN Down
      ELSE [up |-> TRUE,
            assets |-> [index.assets EXCEPT ![p] = act[p]],
            refs |-> [a \in Assets |-> left[a] + One(a, new)],
            served |-> StillServed(old, left) \cup new]

(***************************************************************************)
(* Products.  Every change gives the product a new revision, and what was  *)
(* staged from an older one will not be activated.                         *)
(***************************************************************************)
\* Mutant: an edit leaves the staged unit as it is.
StagedUnitStays(u) == u
OutdatedUnit(u) == IF u = NoUnit THEN u ELSE [NoUnit EXCEPT !.what = "outdated"]
OutdatedSwitch == IF switch = NoSwitch THEN switch ELSE [NoSwitch EXCEPT !.what = "outdated"]

Revise(p) ==
  /\ unit' = [unit EXCEPT ![p] = OutdatedUnit(@)]
  /\ switch' = OutdatedSwitch

AddProductImage(p, a) ==
  /\ up /\ a \in row \ images[p]
  /\ images' = [images EXCEPT ![p] = @ \cup {a}]
  /\ Revise(p)
  /\ UNCHANGED <<file, row, published, active, working, versions, site, index,
                 gcVars, backupVars, root, up, unseen>>

DeleteProductImage(p, a) ==
  /\ up /\ a \in images[p]
  /\ images' = [images EXCEPT ![p] = @ \ {a}]
  /\ Revise(p)
  /\ UNCHANGED <<file, row, published, active, working, versions, site, index,
                 gcVars, backupVars, root, up, unseen>>

Publish(p) ==
  /\ up /\ p \notin published
  /\ published' = published \cup {p}
  /\ Revise(p)
  /\ UNCHANGED <<file, row, images, active, working, versions, site, index,
                 gcVars, backupVars, root, up, unseen>>

\* Hiding a product removes what is public of it in the same transaction.
Revoke(p) ==
  /\ up /\ p \in published
  /\ published' = published \ {p}
  /\ active' = [active EXCEPT ![p] = None]
  /\ index' = ProductIndex(p, active')
  /\ Revise(p)
  /\ UNCHANGED <<file, row, images, working, versions, site,
                 gcVars, backupVars, root, up, unseen>>

\* processOne up to the staged unit: the source is read, and its files checked.
Stage(p) ==
  /\ up /\ p \in published /\ Valid(images[p])
  /\ \A q \in Products : unit[q] = NoUnit          \* one worker
  /\ unit' = [unit EXCEPT ![p] = [assets |-> images[p], what |-> "staged"]]
  /\ UNCHANGED <<file, row, images, published, active, siteVars, index,
                 gcVars, backupVars, root, up, unseen>>

\* Only a unit of the current revision of a published product is activated.
ActivatePublication(p) ==
  /\ up /\ unit[p] # NoUnit
  /\ unit' = [unit EXCEPT ![p] = NoUnit]
  /\ \/ /\ unit[p].what = "staged" /\ p \in published
        /\ active' = [active EXCEPT ![p] = unit[p].assets]
        /\ index' = ProductIndex(p, active')
     \/ /\ unit[p].what = "outdated" \/ p \notin published
        /\ UNCHANGED <<active, index>>
  /\ UNCHANGED <<file, row, images, published, siteVars, gcVars, backupVars, root, up, unseen>>

(***************************************************************************)
(* The website.  A working configuration is published together with the    *)
(* routes of all products; versions stay for good and can be restored.  A  *)
(* configuration is seen here as the assets it names.                      *)
(***************************************************************************)
SetWorking(S) ==
  /\ up /\ S \subseteq row \cap WebsiteAssets      \* requireWebsiteAssets
  /\ working' = S
  /\ switch' = OutdatedSwitch
  /\ UNCHANGED <<file, row, catalogVars, versions, site, index,
                 gcVars, backupVars, root, up, unseen>>

SaveWebsiteWorking == \E S \in SUBSET WebsiteAssets : SetWorking(S)
RestoreWebsiteVersion == \E S \in versions : SetWorking(S)

\* PublishSiteRoutes up to its transaction.
BeginSwitch ==
  /\ up /\ switch = NoSwitch
  /\ \A S \in {working} \cup {images[p] : p \in published} : Valid(S)
  /\ switch' = [site |-> working, what |-> "staged",
                units |-> [p \in Products |-> IF p \in published THEN images[p] ELSE None]]
  /\ UNCHANGED <<file, row, catalogVars, working, versions, site, index,
                 gcVars, backupVars, root, up, unseen>>

\* ActivateSiteRoutes: nothing the candidate was made from may have changed.
\* Work of the publication worker on the same revisions is superseded.
ActivateSiteRoutes ==
  /\ up /\ switch # NoSwitch
  /\ switch' = NoSwitch
  /\ \/ /\ switch.what = "staged"
        /\ versions' = versions \cup {switch.site}
        /\ site' = switch.site
        /\ active' = switch.units
        /\ index' = FullIndex(switch.units, switch.site)
        /\ unit' = [p \in Products |-> OutdatedUnit(unit[p])]
     \/ /\ switch.what = "outdated"
        /\ UNCHANGED <<versions, site, active, index, unit>>
  /\ UNCHANGED <<file, row, images, published, working, gcVars, backupVars, root, up, unseen>>

(***************************************************************************)
(* The collector.                                                          *)
(***************************************************************************)
\* Mutant: what a backup has pinned is not protected.
InUse ==
  {a \in Assets : \/ a \in working
                  \/ \E p \in Products : a \in images[p] \/ (active[p] # None /\ a \in active[p])
                  \/ \E S \in versions : a \in S}

\* loadProtectedAssetIDs
Protected ==
  {a \in Assets : \/ a \in working
                  \/ \E p \in Products : a \in images[p] \/ (active[p] # None /\ a \in active[p])
                  \/ \E b \in Backups : a \in pins[b]
                  \/ \E S \in versions : a \in S}

\* PlanAssetGarbageCollection: one transaction, under the lock a backup holds
\* from its snapshot to its pins.
Expired == {a \in row \ Protected : orphan[a] # None /\ orphan[a] >= Grace}

\* Mutant: a mark is for good.
MarksKept(R) == [a \in Assets |-> IF a \notin R THEN None
                                  ELSE IF a \notin Protected /\ orphan[a] = None THEN 0
                                  ELSE orphan[a]]

\* The marks of the rows R that stay: found in use, a row loses its mark.
Marks(R) == [a \in Assets |-> IF a \notin R \ Protected THEN None
                              ELSE IF orphan[a] = None THEN 0 ELSE orphan[a]]

Plan ==
  /\ up /\ gc.step = "idle" /\ backup.step # "pin"
  /\ \E T \in SUBSET Expired :
       /\ Cardinality(T) = IF Cardinality(Expired) < Batch THEN Cardinality(Expired) ELSE Batch
       /\ \E s \in [1..Cardinality(T) -> T] :
            /\ \A a \in T : \E i \in DOMAIN s : s[i] = a
            /\ queue' = queue \o s
       /\ row' = row \ T
       /\ orphan' = Marks(row \ T)
  /\ unseen' = [a \in Assets |-> IF a \in Protected THEN 0 ELSE unseen[a]]
  /\ gc' = [gc EXCEPT !.step = "list"]
  /\ UNCHANGED <<file, catalogVars, siteVars, index, backupVars, root, up>>

\* PendingAssetFileDeletions: the first of what this and earlier cycles planned.
ListPending ==
  /\ up /\ gc.step = "list"
  /\ gc' = IF queue = <<>> THEN Idle
           ELSE [step |-> "remove", ok |-> FALSE,
                 todo |-> SubSeq(queue, 1, IF Len(queue) < Batch THEN Len(queue) ELSE Batch)]
  /\ UNCHANGED <<file, row, catalogVars, siteVars, index, orphan, queue, backupVars,
                 root, up, unseen>>

\* removeManagedAssetFile; a file that is not there counts as removed.
RemoveFile ==
  /\ up /\ gc.step = "remove"
  /\ file' = IF root THEN [file EXCEPT ![Head(gc.todo)] = "deleted"] ELSE file
  /\ gc' = [gc EXCEPT !.step = "record", !.ok = root]
  /\ UNCHANGED <<row, catalogVars, siteVars, index, orphan, queue, backupVars, root, up, unseen>>

\* Mutant: what failed is forgotten.
FinishedAnyway == TRUE
Finished == gc.ok

\* RecordAssetFileDeletion; what failed keeps its place.
RecordDeletion ==
  /\ up /\ gc.step = "record"
  /\ \/ ~Finished /\ queue' = queue
     \/ /\ Finished
        /\ \E i \in DOMAIN queue : queue[i] = Head(gc.todo) /\ queue' = RemoveAt(queue, i)
  /\ gc' = IF Len(gc.todo) = 1 THEN Idle
           ELSE [step |-> "remove", ok |-> FALSE, todo |-> Tail(gc.todo)]
  /\ UNCHANGED <<file, row, catalogVars, siteVars, index, orphan, backupVars, root, up, unseen>>

(***************************************************************************)
(* Backups, one at a time (execute in scheduler.go, CreateBackup).         *)
(***************************************************************************)
ClaimBackupRun(b) ==
  /\ up /\ backup = NoBackup /\ ledger[b] = "none"
  /\ ledger' = [ledger EXCEPT ![b] = "running"]
  /\ backup' = [run |-> b, step |-> "snapshot", todo |-> {}]
  /\ UNCHANGED <<file, row, catalogVars, siteVars, index, gcVars, pins, kept, root, up, unseen>>

\* SnapshotWithAssetPins copies the database, and pins the rows of the copy in
\* a second transaction.
Snapshot ==
  /\ up /\ backup.step = "snapshot"
  /\ backup' = [backup EXCEPT !.step = "pin", !.todo = row]
  /\ UNCHANGED <<file, row, catalogVars, siteVars, index, gcVars, pins, ledger, kept,
                 root, up, unseen>>

PinAssets ==
  /\ up /\ backup.step = "pin"
  /\ backup.todo \subseteq row
  /\ pins' = [pins EXCEPT ![backup.run] = backup.todo]
  /\ backup' = [backup EXCEPT !.step = "copy"]
  /\ UNCHANGED <<file, row, catalogVars, siteVars, index, gcVars, ledger, kept, root, up, unseen>>

\* copySnapshotAssets, one file after the other.
CopyAsset(a) ==
  /\ up /\ backup.step = "copy" /\ a \in backup.todo
  /\ root /\ file[a] = "stored"
  /\ backup' = [backup EXCEPT !.todo = @ \ {a}]
  /\ UNCHANGED <<file, row, catalogVars, siteVars, index, gcVars, pins, ledger, kept,
                 root, up, unseen>>

\* The pins are released when CreateBackup returns; the error of that is dropped.
ReleasePins ==
  pins' \in {pins, [pins EXCEPT ![backup.run] = {}]}

\* The directory gets its name; the synchronisation after it may still fail.
PublishBackup ==
  /\ up /\ backup.step = "copy" /\ backup.todo = {}
  /\ kept' = kept \cup {backup.run}
  /\ ReleasePins
  /\ \E s \in {"complete", "fail"} : backup' = [backup EXCEPT !.step = s]
  /\ UNCHANGED <<file, row, catalogVars, siteVars, index, gcVars, ledger, root, up, unseen>>

BackupFails ==
  /\ up /\ backup.step \in {"snapshot", "pin", "copy"}
  /\ ReleasePins
  /\ backup' = [backup EXCEPT !.step = "fail", !.todo = {}]
  /\ UNCHANGED <<file, row, catalogVars, siteVars, index, gcVars, ledger, kept, root, up, unseen>>

\* CompleteBackupRun and FailBackupRun; either may fail, and the run then stays
\* as it is until it is reconciled.
FinishBackupRun ==
  /\ up /\ backup.step \in {"complete", "fail"}
  /\ \/ ledger' = [ledger EXCEPT ![backup.run] =
                     IF backup.step = "complete" THEN "succeeded" ELSE "failed"]
     \/ ledger' = ledger
  /\ backup' = NoBackup
  /\ UNCHANGED <<file, row, catalogVars, siteVars, index, gcVars, pins, kept, root, up, unseen>>

\* Mutant: a run without a backup is left open.
OutcomesOfKept(S) ==
  [b \in Backups |-> IF ledger[b] = "running" /\ b \in S THEN "succeeded" ELSE ledger[b]]

\* What becomes of the open runs when the backups of S can be completed.
Outcomes(S) ==
  [b \in Backups |-> IF ledger[b] # "running" THEN ledger[b]
                     ELSE IF b \in S THEN "succeeded" ELSE "failed"]

\* Reconcile in scheduler.go, at each poll, under the lock of a backup.  When
\* a backup that stands cannot be completed its run fails like the others.
ReconcileRuns ==
  /\ up /\ backup = NoBackup
  /\ \E b \in Backups : ledger[b] = "running"
  /\ \E S \in SUBSET kept : ledger' = Outcomes(S)
  /\ UNCHANGED <<file, row, catalogVars, siteVars, index, gcVars, pins, backup, kept,
                 root, up, unseen>>

(***************************************************************************)
(* The process, the asset directory, time.                                 *)
(***************************************************************************)
Crash ==
  /\ up /\ up' = FALSE
  /\ file' = [a \in Assets |-> IF file[a] = "uploading" THEN "stray" ELSE file[a]]
  /\ unit' = [p \in Products |-> NoUnit] /\ switch' = NoSwitch
  /\ index' = Down /\ gc' = Idle /\ backup' = NoBackup
  /\ UNCHANGED <<row, images, published, active, working, versions, site, orphan, queue,
                 pins, ledger, kept, root, unseen>>

\* NewEngine needs the asset directory and a whole index; NewAssetGCManager
\* clears the pins before the collector and the backups start.
Restart ==
  /\ ~up /\ root /\ Valid(site) /\ up' = TRUE
  /\ index' = FullIndex(active, site)
  /\ pins' = [b \in Backups |-> {}]
  /\ UNCHANGED <<file, row, catalogVars, siteVars, gcVars, backup, ledger, kept, root, unseen>>

ToggleRoot ==
  /\ root' = ~root
  /\ UNCHANGED <<file, row, catalogVars, siteVars, index, gcVars, backupVars, up, unseen>>

Later(n) == IF n = None THEN None ELSE IF n < Grace THEN n + 1 ELSE n

Tick ==
  /\ orphan' = [a \in Assets |-> Later(orphan[a])]
  /\ unseen' = [a \in Assets |-> IF a \in row THEN Later(unseen[a]) ELSE unseen[a]]
  /\ UNCHANGED <<file, row, catalogVars, siteVars, index, queue, gc, backupVars, root, up>>

Collect == Plan \/ ListPending \/ RemoveFile \/ RecordDeletion
Backing == \/ Snapshot \/ PinAssets \/ PublishBackup \/ BackupFails \/ FinishBackupRun
           \/ \E a \in Assets : CopyAsset(a)

Next ==
  \/ \E a \in Assets : StoreFile(a) \/ CreateAsset(a)
  \/ \E p \in Products, a \in Assets : AddProductImage(p, a) \/ DeleteProductImage(p, a)
  \/ \E p \in Products : Publish(p) \/ Revoke(p) \/ Stage(p) \/ ActivatePublication(p)
  \/ SaveWebsiteWorking \/ RestoreWebsiteVersion
  \/ BeginSwitch \/ ActivateSiteRoutes
  \/ Collect
  \/ \E b \in Backups : ClaimBackupRun(b)
  \/ Backing \/ ReconcileRuns
  \/ Crash \/ Restart \/ ToggleRoot \/ Tick

Spec == Init /\ [][Next]_vars

(***************************************************************************)
(* Fairness: the collector and the backups are goroutines driven by        *)
(* timers, the scheduler reconciles at each poll, and time passes.  A file *)
(* or a transaction that fails is tried again; that it fails for ever is   *)
(* left out, as are people who never stop uploading.                       *)
(***************************************************************************)
FairSpec ==
  /\ Spec
  /\ WF_vars(Collect) /\ WF_vars(Backing) /\ WF_vars(ReconcileRuns) /\ WF_vars(Tick)

(***************************************************************************)
(* Properties.                                                             *)
(***************************************************************************)
View == (SUBSET Assets) \cup {None}
Phase == {"none", "outdated", "staged"}
Index == [up: BOOLEAN, assets: [Products -> View], refs: [Assets -> Int],
          served: SUBSET Assets]

TypeOK ==
  /\ file \in [Assets -> {"unused", "uploading", "stray", "stored", "deleted"}]
  /\ row \subseteq Assets
  /\ images \in [Products -> SUBSET Assets] /\ published \subseteq Products
  /\ unit \in [Products -> [assets: View, what: Phase]]
  /\ active \in [Products -> View]
  /\ working \subseteq Assets /\ site \subseteq Assets /\ versions \subseteq SUBSET Assets
  /\ switch \in [site: View, what: Phase, units: [Products -> View]]
  /\ index \in Index
  /\ orphan \in [Assets -> (0..Grace) \cup {None}]
  /\ queue \in Seq(Assets)
  /\ gc \in [step: {"idle", "list", "remove", "record"}, todo: Seq(Assets), ok: BOOLEAN]
  /\ pins \in [Backups -> SUBSET Assets]
  /\ backup \in [run: Backups \cup {None}, todo: SUBSET Assets,
                 step: {"idle", "snapshot", "pin", "copy", "complete", "fail"}]
  /\ ledger \in [Backups -> {"none", "running", "succeeded", "failed"}]
  /\ kept \subseteq Backups
  /\ root \in BOOLEAN /\ up \in BOOLEAN
  /\ unseen \in [Assets -> 0..Grace]

\* What a product, a website configuration of any age, or a public page refers
\* to has its row and its file: the checks of a reference, the copies made of
\* references outside the transactions, and the collector's list of what is in
\* use agree.  One asset missing takes a product, or the whole site, off line.
Used == (UNION {images[p] : p \in Products}) \cup Assigned(active)
          \cup working \cup (UNION versions) \cup site
UsedAssetsKept == \A a \in Used : a \in row /\ file[a] = "stored"

\* From its snapshot until it is done a backup finds the file of every row of
\* the snapshot, although what the snapshot says is in use may no longer be.
BackupFindsFiles == \A a \in backup.todo : file[a] = "stored"

\* However the index was brought up to date, entry by entry or at once, it
\* serves the assets of the active website and of the listed views and no
\* other: an asset two of them share stays while one remains, and what was
\* hidden is private again.
IndexServesPublished ==
  index.up => /\ index.served = site \cup Assigned(index.assets)
              /\ \A p \in Products : index.assets[p] \in {None, active[p]}

\* No row is deleted before the grace period is over since a cycle last found
\* the asset in use, or since it was uploaded.
GraceKept == [][\A a \in row \ row' : unseen[a] >= Grace]_vars

\* Once the process keeps running and the asset directory can be reached, no
\* file remains for good that nothing refers to: whatever crashes and outages
\* came before, each is deleted or used again.
Garbage(a) == file[a] = "stored" /\ a \notin Protected
Quiet == <>[](up /\ root)
EventuallyReclaimed == Quiet => \A a \in Assets : []<>~Garbage(a)

\* Then, too, no backup run stays open, and one is called successful only if
\* its backup stands.
Settled(b) == ledger[b] \in {"none", "failed"} \/ (ledger[b] = "succeeded" /\ b \in kept)
RunsSettle == Quiet => \A b \in Backups : []<>Settled(b)

(***************************************************************************)
(* The inductive invariant: what is copied from a reference outside its    *)
(* transaction names rows as long as it can still be written back; what    *)
(* the collector has taken out of the table never comes back; a mark is    *)
(* no older than the time an asset has not been seen in use.               *)
(***************************************************************************)
FileInv == \A a \in row : file[a] = "stored"

Elements(s) == {s[i] : i \in DOMAIN s}

CollectorInv ==
  /\ \A a \in Elements(queue) \cup Elements(gc.todo) :
       a \notin row /\ file[a] \in {"stored", "deleted"}
  /\ gc.step \in {"remove", "record"} => gc.todo # <<>>

ReferenceInv ==
  /\ working \subseteq row /\ \A S \in versions : S \subseteq row
  /\ site \in versions
  /\ \A p \in Products :
       /\ images[p] \subseteq row
       /\ active[p] # None => active[p] \subseteq row
       /\ unit[p].what = "staged" => unit[p].assets = images[p]
  /\ switch.what = "staged" =>
       /\ switch.site = working
       /\ \A p \in Products : switch.units[p] \in {None, images[p]}

BackupInv ==
  /\ \A b \in Backups : pins[b] \subseteq row
  /\ backup.step # "idle" => backup.run \in Backups
  /\ backup.step = "pin" => backup.todo \subseteq row
  /\ backup.step = "copy" => backup.todo \subseteq pins[backup.run]
  /\ backup.step \notin {"pin", "copy"} => backup.todo = {}
  /\ ~up => backup.step = "idle"

MarkInv ==
  \A a \in Assets : orphan[a] # None => a \in row /\ orphan[a] <= unseen[a]

AssetInv == TypeOK /\ FileInv /\ CollectorInv /\ ReferenceInv /\ BackupInv /\ MarkInv

\* The index counts for each asset the views that have it, and the website.
Holders(f, a) == {p \in Products : f[p] # None /\ a \in f[p]}
Consistent(x, act, conf) ==
  x.up => /\ x.served = conf \cup Assigned(x.assets)
          /\ \A p \in Products : x.assets[p] \in {None, act[p]}
          /\ \A a \in Assets : x.refs[a] = Cardinality(Holders(x.assets, a)) + One(a, conf)
IndexInv == Consistent(index, active, site)
=============================================================================
