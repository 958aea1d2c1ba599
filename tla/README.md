# A TLA+ model of prods

prods is a self-hosted product catalog: one Go process with an embedded SQLite
database, an admin API, a public website it renders itself, and a set of
background workers. This directory holds a specification of the parts of it
whose correctness depends on the order of events, the TLC configurations that
check them on small instances, and proofs, checked by TLAPS, that some of the
results hold for every instance.

1. [The system](#1-the-system): inventory of components
2. [Modules](#2-modules): what models what
3. [Runs](#3-runs): what TLC checks, with which bounds
4. [Proofs](#4-proofs)
5. [Observations](#5-observations): where code and documentation disagree
6. [Limits](#6-limits): what is only checked, what is abstracted, what is left out
7. [Plan](#7-plan)

## 1. The system

All components share one SQLite database. `beginWrite` in
`internal/storage/sqlite/store.go` admits one write transaction at a time
through a channel of capacity one, so a write transaction is the unit of
atomicity throughout; a read transaction sees one snapshot. What makes the
system hard is everything that spans *several* transactions: a worker that reads,
works for a long time and then writes; a preview shown to a person and committed
the next day; an in-memory structure that has to follow committed rows; a call
that dies between two of its transactions and is repeated.

| Component | State | Operations | Talks to | What is hard | What makes it correct |
|---|---|---|---|---|---|
| **Publication** (`internal/publishing`, `publication_store.go`) | durable: intents, visibility generation, active unit per product, route history, site epoch and URL configuration; volatile: the public index, the worker's claim, a candidate site | edit, hide, archive, retry, claim, stage, activate, switch routes, reconcile | is fed by every catalog writer; serves visitors from memory | units are staged outside any transaction; a switch replaces all routes under the worker's feet; the index is installed after the commit and may fail to be | visitors see only what committed rows entitle them to; what goes online is current; pages of two site epochs never mix; nothing published is forgotten |
| **Product bulk actions** (`product_bulk_store.go`, `webapp/product_bulk.go`) | runs, items, recorded results | preflight, execute, record, complete | changes products through the catalog and publication stores | the result is not written in the transaction that changes the product; two calls may execute one run | each product changed at most once, from the revision that was shown; what is reported happened |
| **Atomic import** (`import_store.go`, `import_job_store.go`, `webapp/imports.go`) | jobs, preview files, receipts; a goroutine and a cancellable context per job | upload, parse, preview, cancel, commit, reconcile | writes many products at once and queues their publication | preview and commit are far apart; errors of the error path are discarded; the process dies anywhere | all rows or none, once; no edit overwritten; no identity twice; no job unsettled |
| **Catalog store** (`catalog_store.go`, `taxonomy_*`, `image_store.go`, `spec_document_store.go`) | products with revisions, dictionaries, categories, translations, images, documents | revisioned create, update, archive; moves and merges | feeds publication and search | optimistic concurrency, references between records | no lost update, no dangling reference, unique current identity |
| **Website and settings** (`website_store.go`, `site_settings_store.go`, `public_copy_store.go`) | website versions, URL patterns, copy | draft, publish, localisation | the route switch of publication | publication and settings change concurrently | a version is published as it was validated |
| **Backup** (`internal/recovery/backup.go`, `scheduler.go`, `backup_store.go`) | backup runs, pins on assets | claim, snapshot, pin, copy, verify, complete, reconcile, expire | pins what the garbage collector would delete | database and files are copied at different times | every file a snapshot refers to is in the backup |
| **Restore and migration** (`restore.go`, `migration.go`) | a journal file, renamed roots | stage, swap, verify, resume (forward only), supersede | replaces everything while the server is down | a crash between any two renames | every root can reach its new state, the old one is kept, a mixture is never served |
| **Asset garbage collection** (`internal/recovery/asset_gc.go`, `asset_gc_store.go`) | asset rows and files, marks, planned deletions | mark, wait, plan, list, remove, record | backups, publication, images, website | references are copied outside transactions; an asset can be referenced again between its mark and its deletion; a file is removed after its row | what is referred to or pinned has its file; the rest goes, but not early |
| **RFQ and mail** (`store.go` SubmitRFQ, `rfq_receipt.go`, `rfq_management.go`, `delivery_store.go`, `internal/maildelivery`) | requests and their receipts, recipients, delivery attempts; the worker, its wake channel and health | submit, replay, change status and recipients, anonymise, decide to send, claim, send, complete, reconcile | visitors, staff, an SMTP server | a form is sent twice; the process dies after the server took a message; anonymisation meets a mail on its way; a wake is lost | one request per form; a message goes out at most once and its record is true; nothing is kept or sent of an anonymised request |
| **Identity** (`internal/identity`, `identity_store.go`, `invitation_mail_store.go`, `webapp/admin_console.go`) | users, sessions, invitations | sign in and out, invite, accept, revoke, change role | every admin request | capability checked in the transaction of the change; last owner; one cookie for all tabs | there is always an owner; a revoked session ends; a tab works for one session |
| **Installation** (`webapp/installer.go`) | installation marker, first owner | install once | | two browsers, a crash half-way | completes once |
| **Search notification** (`internal/searchnotify`) | events, attempts | record, coalesce, send, retry | search engines | retry and coalescing | the last state of a URL is announced |
| **Specification values, listing, search** (`internal/specnumeric`, `internal/catalogfilter`, `spec_bleve.go`) | projections of products | normalise, reconcile, filter | publication | projections lag behind | filters agree with values |
| **Platform** (`internal/platform`) | resource reservations, process ownership, logs | admit, release | imports, backups | limits under concurrency | reservations never exceed the budget |
| **HTTP server** (`webapp/server.go`) | drain flag, maintenance | admit, drain, close | everything | shutdown with work in flight | work in flight ends before the stores close |
| **Administration pages** (`web/ui/src/admin`) | per tab: a bound session, the panel shown, the working copy it holds, its forms, calls in flight | load, save, restore, switch panel, sign out | the admin API | several tabs and people edit one working copy; answers come late, for another session, or never | a save changes what its person changed and nothing they have not seen; sessions do not mix |
| Host configuration, consoles, reference catalog, sample data, exports, localisation, public pages | files and tables | sequential | | | outside this model |

`PROJECT.json` lists the same components with their sources and state of
modelling, and under `hazards` each hard spot at its line.

## 2. Modules

| Module | Models | Lines |
|---|---|---|
| `Publication` | the SQLite half and the engine's half of publication | the heart of the project |
| `PublicAdmission` | the abstract promise: revisions, one of them online, a visitor sees it or nothing | refined by `Publication` |
| `PublicationProofs` | theorems about `Publication`: store, worker, refinement | TLAPS |
| `VisitorProofs` | theorems about what visitors of the public index are answered | builds on `PublicationProofs` |
| `ProductBulk`, `ProductBulkProofs` | bulk actions and the calls that execute them | |
| `ImportJob`, `ImportJobProofs` | import jobs from upload to receipt | |
| `StartupRecovery`, `StartupRecoveryProofs` | starts, schema upgrades and restores, through crashes | |
| `RFQDelivery`, `RFQDeliveryProofs` | requests for quotation, their receipts and their mail | |
| `AdminConsole`, `AdminConsoleProofs` | the pages that edit the website's working copy, the browser's session, and the handlers they talk to | |
| `AssetLifecycle`, `AssetLifecycleProofs` | assets from upload to deletion, against publication, website, backups and the collector | |
| `MC...` | small instances of each for TLC | |

Every action is one write transaction, or one read, of the code, with everything
the handler does in it: queueing an intent is part of the edit, installing the
index part of the transaction that holds the engine's gate.

**Publication.** `product` is the working record (revision, status, and what a
route is built from: an address under the site's URL pattern, or a custom path).
`intents` is `publication_intents` in creation order; `vis`, `act` and `hist` are
`public_visibility`, `public_activations` and `public_route_history`; `site` is
`public_site_state`; `facts` and `fanout` stand for specification profiles and
the pending work that takes their change to the products. `index`, `worker` and
`switch` are memory and vanish in a `Crash`. `Edit`, `Import`, `Relocalize`,
`Revoke` and `Retry` are what administrators do; `Fanout`, `Claim`, `Stage`,
`ActivateOvertaken`, `ActivateStale`, `ActivateFails`, `Activate`, `Discard` and
`FailIntent` are the worker; the last two close its claim in a transaction of their own,
whose error the code drops (fault `record`); `BeginSwitch`, `ReadForSwitch`, `AbortSwitch` and `ActivateSwitch`
are `PublishSiteRoutes`; `Restart` is `NewEngine` with `Reconcile`. `Import` here is
the effect an import has on publication; how an import comes about is `ImportJob`.

Installing the index is modelled in both forms the code has: `InstallProduct`
replaces one product's entries in place (`product_visibility.go`), `FullIndex`
rebuilds the index from the rows and leaves out what does not verify on disk or
whose canonical path is taken; a failed installation takes the index down.

**PublicAdmission** has three variables: what editors have, what is public, what
a visitor is shown. `KeepsAdmission` is the refinement: `working`, `online` and
`shown` are read off `product`, the visible activations and the index. It says,
whatever faults occur, that a product leaves the public only by a revocation or by
an outage of the whole index, that revoking is immediate, and that what is
admitted is the working revision of that moment.

**ProductBulk.** A run fixes its products and their revisions at `Prepare`;
executing calls (`exec`) walk over the items: `Look` for a recorded result, `Read`
the product, `Decide` (done before, conflict, or go on), `Apply` in another
transaction (`ApplyProductBulkEdit` for publishing and new references, `RevokeProduct`
for hiding and archiving), `Record` in a third. Calls stop anywhere (`Abort`) and are repeated;
editors change, hide and archive products in between. `did` and `past` are history
variables: how often a run changed a product, and what values it has had.

**ImportJob.** A product is identified by part number and manufacturer; a file
says whether rows find their product by the part number alone or by both. `Upload`
and `Launch` are the two halves of the upload handler, `Start`, `Parse` and `Save`
the goroutine, `Load`, `Begin`, `Commit` and `GiveUp` the commit handler, of which
several may run for one job. `Fail` is `FailImportJob`, *including* that its own
error is discarded everywhere; jobs left behind that way are remembered in the
history variable `lost` until the next restart. `Drain`, `Exit`, `Crash` and `Restart`
are the process; `wrote` counts how often a job was applied.

**StartupRecovery.** A site is a set of roots; `live` is what stands at their paths,
each root a point of the site's history (`gen`), the database with a schema.
`restore` is the restore journal together with its staged and its set-aside files,
`migration` the migration journal, `proc` the process: what it is doing and for whom
(`by`: a start, the command line, the recovery UI, the UI of a prepared restore, a
first or a resumed migration). A start is the ladder of `run` in `cmd/prods/main.go`:
`ResumeAtStart`, `StartRestore`, then `ResumeMigration`, `CompleteMigration` or
`OfferRecovery`, then `StartUpgrade`, `OfferRecovery` or `Serve`, each guarded by what
the earlier ones found. `PrepareRestore` writes the journal; `MoveAside`, `MoveIn` and
`Record` are the two renames of `activateRestoreRoot` and the evidence after them, so
that `Crash` falls between any two. `Migrate` is one schema version, which is one
transaction. `log` is the write-ahead log beside the database: none, its own, or, once
another file has been renamed under it, whatever SQLite makes of the two.

**RFQDelivery.** `rfq` is `rfqs` with `rfq_recipients`, `receipt` is
`idempotency_receipts` by form, `attempt` is `smtp_delivery_attempts` with their
recipients by delivery key. `Ask` is `submitPublicRFQ` up to its look for a receipt,
`Submit` the transaction of `SubmitRFQ`; between the two another call with the same
form may have come through, and both answer from the receipt if there is one. A
row keeps what was submitted (`form`, `content`) for the properties, and `text` for
what is still retained of it. `UpdateRFQStatus`, `ReplaceRFQRecipients`,
`UpdateRFQRecipientSettings` and `AnonymizeRFQ` are staff; a call that names an old
revision changes nothing and is left out. `CreateDelivery` commits a decision to
send, `WakeWorker` is the call of `Wake` after it, which may never come: the handler
reads the attempt back in between, with the context of the request. The worker is
`TakeWake`, `Loop`, `Claim` (or `NothingToClaim` and `Return`, or `ClaimFails`),
`Transmit` and `CompleteDelivery` (or `CompletionFails`). `mails` is the SMTP server:
how often it took a message; `SendResult` says which answers `SMTPSender.Send` can
give in either case. `Restart` is `NewManager`.

**AdminConsole.** `work` is `website_working`, with a value named by the revision
that wrote it, so that "what this form was filled from" and "what is there now" can
be compared. `tab` is a document of the administration: the session whose CSRF token
it carries (`page`), the one it is bound to (`scope`, `api.ts`), the panel shown, the
working copy it holds (`view`) and what its forms have (`form`). A `call` is a
request from `fetch` to its answer: sent, admitted by `requireCapability`, for a text
of the public site the working copy read (`ReadCopy`), committed, read back,
answered. `Fetch` and `Write` are what the page sends; `Admit`, `Commit`, `ToggleCSS`,
`ReadBack`, `EndSession` and `Fail` are the server; `PanelAnswered`, `CopySaved`,
`Refused`, `Denied`, `SessionAnswered`, `LoggedOut`, `TooLate` and `Lose` what becomes
of the answer. A panel that is replaced, a tab that is closed and a session that
expires leave their calls behind (`shown`, `Orphan`), and the server goes on with
them. `from` and `base` are history variables for the properties.

**AssetLifecycle.** An asset is a file (`file`) and a row of `assets` (`row`).
`images` is what products refer to (`product_images`, `product_documents`),
`working` and `versions` what website configurations of any age do; `active` and
`site` are the copies of both in the public state. Copies are made outside the
transaction that writes them back: `unit` by the publication worker (`Stage`),
`switch` by a route switch (`BeginSwitch`), and every change of a product or of the
working configuration outdates them. `index` has the assets of each listed view, how
often each is referred to and which are served; as in `Publication` there are two
ways to bring it up to date, `FullIndex` and `ProductIndex`. The collector (`gc`) is
`Plan`, one transaction that marks rows nothing refers to (`orphan`: ticks since the
mark) and deletes rows whose mark is old, then `ListPending`, `RemoveFile` and
`RecordDeletion` for the files in `queue`, one step for each because the process can
die between them. A backup (`backup`, `ledger`, `pins`, `kept`) is `ClaimBackupRun`,
`Snapshot` and `PinAssets` (two transactions, under one lock against `Plan`),
`CopyAsset` for each file, `PublishBackup` and `FinishBackupRun`; any of them can fail,
and `ReconcileRuns` settles what was left. `root` is the asset directory, which can be
unreachable for a while; `up` the process. `unseen` is a history variable: how long
ago a cycle found the asset in use.

## 3. Runs

There are few runs, one for each distinct question; each takes at most a few
minutes. Every property of a passing run comes with a *mutant*: a plausible bug in
one definition of the model (an omitted comparison, a stale value, a reset that is
forgotten), for which TLC must find the property violated under the same
configuration. They show that each property depends on the code it is about; they
are the operators commented "Mutant" in the modules.

| Run | Question | Instance |
|---|---|---|
| `publication_switch` | Do worker and route switch, interleaved, ever mix epochs, show what is not authorised, activate what is stale, drop a page or break a link, or leave what `PublicAdmission` promises? | two products, two addresses, two URL patterns, two epochs, no faults |
| `publication_faults` | Does the public index follow the store through failed activations, installations and closings of claims, damage on disk and crashes? | two products, and paths of which one is another's `.json` document; every fault |
| `publication_live` | Over a long life of one product with a profile change, a switch and crashes: is anything forgotten, reopened or moved backwards, and does every publication get online, or somewhere it can be seen to be stuck? | one product, three revisions, four intents, three generations, two patterns, crash, unreadable sources |
| `publication_suffix_outage` | Does a published page stay online when another page's path has a suffix? (No: section 5.) | two products, paths `/x` and `/x.json` |
| `bulk_retry` | Do concurrent, aborted and repeated executions change a product once, from the revision shown, and report what happened? | one run of each action, one product, two calls, editors |
| `import_jobs` | Is an import applied once or not at all, without overwriting an edit, and is every job settled? | one job, four kinds of file, three products, two calls, every fault |
| `recovery_runs` | Does a site survive crashes, faults and damage in upgrades and restores: one site, nothing lost, served again? | three roots, three schema versions, three crashes, two faults, logs merged |
| `recovery_stray_log` | Does a completed restore read as the backup when a crash has left a log? (No: section 5.) | one crash |
| `rfq_mail` | Does a form give one request, is a message sent at most once and recorded truly, is an anonymised request forgotten, is a pending mail served? | two requests, one form with two contents sent twice at once, two recipients, one decision repeated, every fault |
| `console_editors` | Does a save change only the field it edits, replace only what its form had shown, and write only for the session its tab is bound to, when tabs, sessions, restores, failures and lost answers interleave? | two tabs, two sessions, two calls in flight, three revisions, sign-outs, revocation, closed tabs, panel switches |
| `console_stale_form` | Is a save that replaces what its form has never shown refused? (No, from the website panel: section 5.) | one session, two tabs, three revisions; of the writes beside the panels' saves only the custom CSS switch |
| `asset_collection` | Does what is referred to keep its file, does a backup find the files of its snapshot, is the index exact, is nothing deleted early, and does everything unused go and every run end? | two assets, one product, two backups, a grace of one tick, batches of one |

*Bounds.* Revisions, intents, epochs, generations and profile versions are bounded
in the guards of the actions that raise them (`MaxRev`, `MaxIntents`, `MaxEpoch`,
`MaxGen`, `MaxFacts`); the worker's own steps are bounded by no more than that. Two
products are needed for routes that collide and links that are taken over, and
suffice because routes are compared in pairs. Three revisions let a product be
edited while a unit of it is staged and once more after that unit was overtaken;
two epochs let a switch overtake a staged unit. For imports, three revisions let a
product be edited before and after the preview, and the four files cover a row that
changes the manufacturer, a row with a new product, a known and a new product in
one file, and two rows for one product. Every row that matches nothing needs an
identifier of its own, hence the third product; the editors leave it to the import,
make up to three changes to the other two and stop when the import has been applied
(`FewEdits`, `EditsBefore`). For recovery, three schema versions make an
intermediate one, three crashes allow a restore, its resumption and the supersession
after it each to be cut off once, and three roots include one that the program reads
before the journal. Where a bound would cut the behaviour a
property is about, the property says so: in `EventuallyOnline` a pending profile
change overtakes a publication, too, unless `MaxRev` or `MaxIntents` keeps it from
being fanned out. For requests, two submissions of one form under way together
and a second identifier are what a duplicate needs; two revisions let a request be
sent before or after it is changed or anonymised; two recipients give an attempt
every aggregate status. For the console, three revisions are another editor's save
between a panel's answer and its own; two tabs suffice because a save meets one
other at a time, and two calls in flight let each tab have one, or a tab a load
beside its save. `console_editors` has two parts because their
product is too large (`EitherPart`, `LeavesOnlyASave`): in one, two tabs of one session
save up to the last revision, and while a save is on its way its panel or its tab may
go, or the session end; a panel that is replaced then is the only one open, a
closed tab stays closed, and after the end of the session no new call is made. In the
other, sessions, tabs and panels come and go, and the write is the custom CSS switch,
whose admission is that of every write; of two open tabs there one has a call in
flight at a time. Steps to the last revision
are checked and not followed further: nothing is committed after it. For assets, a tick and a batch of
one make both the wait and a cycle that leaves work behind; the website, the
product, the second asset and the second backup are combined but not all at once
(`Small`), and the constraint only cuts what people and the environment would add,
never a fair step. Tabs, sessions
and calls are symmetric there; the runs with liveness use no symmetry. Deadlock is not
checked: with all counters at their bounds and an empty queue the models stop.

*Fairness.* `Publication!FairSpec` has weak fairness of the worker, which is woken
by every change and by a ticker every five seconds and then drains the queue
(`protocol.go`), and of a restart, which the service manager performs.
Switching routes, editing and retrying are people's choices and have none.
`ImportJob!FairSpec` has weak fairness of the goroutine of each job, of a call that is
under way, of the end of a draining process and of its restart. `StartupRecovery!FairSpec` has
weak fairness of what a process has begun and of starting it again (the service
manager, or the operator after "restart Prods"), and strong fairness of a person
choosing a restore when the recovery UI offers one, which a stop or crash of that UI
can withdraw. `RFQDelivery!FairSpec` has weak fairness of the worker, whose step may be
the failure of a statement, and of stopping when drained and starting again; not of
the call that should wake it, which ends when its client is gone. `AdminConsole` has
none: everything there is a person's choice or the network's. `AssetLifecycle!FairSpec`
has weak fairness of the collector, of a backup under way, of the scheduler's
reconciliation and of time, which are goroutines on timers; its liveness is stated
under `Quiet`, that from some moment on the process runs and the asset directory can
be reached. Nothing assumes
that an activation succeeds, an error does not occur or a crash does not.

*Liveness as it is.* `EventuallyOnline` has an exception for `Stuck`: an intent that
failed is retried only by an administrator, and one whose activation or closing erred
remains "processing" without a worker until the next start. `EventuallySettled` has one for
jobs that a discarded error left behind.

*Proved, and so not checked again.* Six statements are theorems and no run lists
them: `ProductBulk!FixedPreflight` and `ResultsStand`, `Publication!ClosedStaysClosed`,
`StartupRecovery!FailedStaysFailed`, `RFQDelivery!OutcomeStands` and
`AdminConsole!OneSession`.

## 4. Proofs

Theorems are about any number of products, calls, jobs, routes, any configuration
table and any set of faults, under the assumptions named in the modules
(`ConstantsAssumption` and `BulkAssumption` type the constants; so does
`ImportAssumption`, and `InitAssumption` says that an installation's first products
have different identities). `RecoveryAssumption` types the constants of recovery and
says that every initial backup has a database and assets. `RFQAssumption` and
`ConsoleAssumption` keep the constants of those modules apart and bound the counters.
`AssetAssumption` says that assets and products are finitely many, and that grace
period and batch are positive. `PathAssumption` says of paths what the code's
construction of them gives: the representations of a route have different paths, two
routes share neither the path of their pages nor that of a document, and where a page
has the path of another page's document its route is the longer one.

Three theorems of `VisitorProofs` have a hypothesis on the configuration, in their
statement. `PathsApart` says that different routes have no path in common; without it
the statements are false, and `publication_suffix_outage` shows one way. `PagesStayOnline`
assumes moreover that no installation fails, nothing is damaged and the process does
not stop, since each of these takes pages off line by design; `publication_switch`
checks the properties under the same hypotheses, `publication_faults` those that
need none of them.

| Theorem | Says |
|---|---|
| `PublicationProofs!InvariantHolds`, `TypeCorrect` | the inductive invariant `IndInv`, and types |
| `IndexIsFaithful` | the index shows nothing but committed visible rows of the active site |
| `EpochsNeverMix` | all active units are of the active epoch |
| `OnlyCurrentGoesOnline` | what is activated is the product as it stands |
| `NothingGoesBackwards` | revision, generation and epoch of the public side only grow |
| `NobodyForgotten`, `FinishedForGood` | no published product is left without an intent or a profile change that will renew it; a closed intent stays closed |
| `Refinement` | `Publication` implements `PublicAdmission` |
| `VisitorProofs!OneAnswer` | at most one page, and no redirect beside it, answers a path: in every configuration, under all faults |
| `VisitorsGetTheRows` | what the index answers on a path is what the committed rows entitle it to |
| `PagesStayOnline` | a page stays until its product is revoked or its unit replaced |
| `LinksFollowMoves` | the path a product has just left leads to its new page |
| `ProductBulkProofs!BulkInvariant`, `ChangedOnce`, `OnlyFromPreflight` | a run changes each product at most once and only from the revision shown |
| `SuccessesAreReal`, `ResultsKept` | the successes a run reports are real, and what it reports stays |
| `StartupRecoveryProofs!RecoveryInvariant`, `RollForward` | a prepared restore can be carried to its end from anywhere, also beside a stray log |
| `OneSite`, `NothingIsLost`, `StaysInstalled`, `NoRetry` | where no log survives: one site is served, the old one is kept, no site is installed over, no failed migration retried |
| `ImportJobProofs!ImportInvariant`, `AppliedOnce`, `OneIdentity`, `FinalStatusStays` | a job is applied once exactly when it says so; identities stay unique; final is final |
| `PlansBearRows`, `EditsSurviveImports`, `EveryRowArrives` | a plan has its rows' values and elsewhere the product's; so a commit overwrites no edit, and every row of the file arrives |
| `RFQDeliveryProofs!RFQInvariant`, `OneRequestPerForm`, `ReceiptsAreTruthful` | one request per form, and whoever has a receipt has such a request |
| `MailedAtMostOnce`, `RecordIsTruthful`, `OutcomesStand` | a message of a decision goes out at most once, its record is true and stands |
| `NothingIsRetained`, `NoMailAboutThePrivate` | nothing is kept or sent of an anonymised request |
| `AdminConsoleProofs!ConsoleInvariant`, `SessionsKeptApart`, `WritesAsShown` | no tab shows or writes for another session than its own |
| `SavesCarryAlong`, `NothingUnseenReplaced` | a save changes its field only; from the listing and copy panels only what its form had shown |
| `AssetLifecycleProofs!AssetInvariant`, `ReferencesHold` | what a product, a configuration of any age or a public page refers to has its row and its file |
| `SnapshotsAreCopied`, `GraceIsKept` | a backup finds the files of its snapshot; no row goes before the grace period is over |
| `IndexServesTheRows` | the index serves the assets of the website and the listed views and no other, however it was brought up to date |

*Why `OneEpoch` needs an invariant.* `ActivatePublication` never compares a unit's
epoch with the site's. The reason it need not is `StagedInv`: as long as the claim of
a staged unit stands, the unit is what would be staged now. A switch supersedes the
claims of all published products in its own transaction, an edit raises the
revision, and both make `ClaimCurrent` false. `ClaimInv` ties the worker to its
intent, `QueueInv` bounds the revisions of intents by those of products, `ActiveInv`
and `SwitchInv` carry the epoch, `OutageInv` and `IndexFollowsStore` the index. The
refinement then follows action by action: edits map to `Change`, revocations to
`Hide`, activations and switches to `Admit`, crashes, restarts and installations to
`Refresh`, the rest to stuttering.

*Why nothing is forgotten.* Three steps close an intent without publishing anything,
and each needs a reason to know that somebody else will. A superseded claim (`Discard`,
`ActivateOvertaken`) has lost its product to an edit, which queued its own intent, or
to a switch, which published it. A unit discarded because the profiles changed after
staging is the delicate one: its product must still be in the reach of the change, or
have moved on, until `Discard` closes the claim.
`StaleInv` says that it is, because `Fanout` runs in the worker's own loop and never
while a claim is being worked on. `Fate` lists all that a step may do to an intent that is there.

*What visitors get.* `IndexFollowsStore` says that the index shows nothing but rows;
`VisitorsSeeAuthority` is the converse as well. `IndexShape` gives the four things a
step can do to the index: leave it with its rows, take it down, rebuild it, replace one
product's entries. A rebuild goes through the units and keeps what is not taken
yet; the model states the outcome and not the order, so one has to know that there
is an outcome: `KeepingExists` takes the routes from the shortest to the longest, since a
page can only be in the way of a longer one. `RouteInv` says that active units, the staged
unit and the units of a candidate site have routes of their own. With that a
rebuilt index has one answer per path (`FullUnits`), and an entry replaced in place was
checked against the others (`Clashes`). Where paths are apart nothing is ever dropped,
and `Complete` (the index has the unit of every visible product) is invariant; redirects
are copied with their rows.

*Bulk.* `AppliesOnce` is not inductive: one has to know that the product is *past*
the revision the preflight fixed once the run has changed it. Revisions only grow
and `Fresh` compares for equality, so no second call gets through. `SuccessIsReal` is
about results that are recorded several steps after the product was read or written:
`RealInv` says of every call on its way to `Record` that the revision its success will
name bears it out, and `HoldsKept` that no later edit can take this away, because a
revision that has passed is never rewritten. It needs that a run lists each product
once, since results are kept by product.

*Import.* `AppliedIffCommitted` needs to know that two calls cannot both be between
`Begin` and `Commit` for a job that is not yet committed (`CallInv`), and that a job a
goroutine works on is not being committed (`WorkInv`). `IdentityUnique` is disturbed by
"no change" items, which are not written but whose identity is taken from the plan:
`PlanInv` says a plan describes truthfully every product whose revision has not moved.
`NoLostEdit` and `RowsArrive` need what a plan's values are, at the time of the commit:
`RowInv` says that an item of a waiting job has the values its row names and, where the
row says nothing, those of the product as it was planned, which are the product's
own unless it has been revised since; then `Commit` refuses.

*Recovery.* `CanRollForward` needs `OneAtATime`: with a prepared journal no other action
touches the files. `ServesWhole` needs to know where each root is in the middle of a
restore (`LiveRoots`: still to be moved, or aside and missing, or in place) and that
backups, and so the restores made of them, have both roots (`WholeBackups`). The
theorems that assume `~LogsSurvive` say so in their statements; `recovery_stray_log`
is why.

*Requests and mail.* `AtMostOnce` needs to know that a recipient whose message may
have been taken is never pending again: `RFQInv` ties `mails` to the status of each
recipient and to the worker's position (before `Transmit` nothing is out; after it the
result agrees with what the server did), and says that the one recipient the worker
serves is "sending", unless the process has ended since. `NoMailOncePrivate` follows
because `AnonymizeRFQ` refuses while one is. `OneRFQPerForm` needs that a form has a
receipt whenever it has a request, which is why a scrubbed receipt is kept.

*Console.* `WrittenAsShown` and `OneSession` rest on what a call carries: its scope is
the tab's as long as the tab has one, and the server admits a call with a scope only
for that session; a page that is not bound yet makes no writes. `CarriesAlong` is not
inductive: one has to know that as long as the revision a save names is the present
one, all it carries but its own field is what the working copy has (`Carried`), for a
text of the public site also after the handler has read the rest anew; and for that,
that every answer of the present revision is exact (`KnownTo`), so that a panel which
takes answers whole holds nothing else. `ListingAndCopySeen` needs in addition that the
forms of these two panels have what the panel holds, which is what the website panel
cannot say.

*Assets.* `UsedAssetsKept` is about rows and copies of references. `AssetInv` adds why
they agree. A staged unit or candidate names the assets its product or the working
configuration has, as long as it is not outdated (`ReferenceInv`), so writing it back
refers to nothing the collector could have taken meanwhile. What the collector has
taken from the table is in its queue and never comes back as a row (`CollectorInv`),
so removing a file late is harmless, and recording it twice, too. A snapshot's
files are pinned before the lock that keeps `Plan` out is released (`BackupInv`); only a
crash takes pins from a backup, and it ends the backup. `GraceKept` follows from
`MarkInv`: no mark is older than the time since the asset was last found in use. For
the index, `IndexInv` says that its counts are the numbers of the views that have an
asset; that a withdrawn view leaves what another still needs then is arithmetic on
cardinalities.

## 5. Observations

Three runs show the code doing something a document or the design says it does not.

* `publication_suffix_outage`: a page whose path is another page's `.json` (or `.md`)
  document is accepted, since `ensureActiveRouteAvailable` and the unique index
  compare canonical routes. Activating it makes `InstallProductVisibility` fail its
  check and the whole index goes down; the next installation (which any activation, revocation or route
  switch makes, `product_visibility.go:26`) or restart leaves the second page out.
* `recovery_stray_log`: a process that dies in an upgrade leaves `prods.db-wal`. The
  restore that follows does not open the old database for writing and renames only
  `prods.db`, so SQLite replays the old log over the restored file; final
  verification can pass and the site has its old content, or be damaged later.
* `console_stale_form`: the custom CSS switch of the website panel names no revision
  and its answer replaces the working copy the panel holds, with the revision of that
  moment, but not the values in its forms. If somebody else has saved in between, the
  next save from this panel is accepted and puts the old values back. Saving the
  localisation has the same gap for the other form: its handler fills one form from an
  answer that is read after the transaction. The listing and the copy panel fill their
  forms from every answer they take a revision from (`NothingUnseenReplaced`).

Three statements that one would expect are defined in the modules but are no property
of a run, because the code does otherwise; adding one to the run of its module shows
how.

* `ProductBulk!OutcomesTruthful`: of two calls that execute one run, the slower may
  record "conflict" first, for a product the other has just changed; the success is
  then discarded. (Two related things are accepted by the model: a product an editor
  has brought to the run's goal is reported as recovered from an earlier attempt, and
  an item whose result was lost is reread.)
* `ImportJob!OneMatch`: with part-number matching the commit repeats the comparison
  of revisions and identities but not the search for matches, so that a part number
  can be ambiguous immediately after an import that required it not to be.
* `StartupRecovery!RestoreEndsRecovery`: a restore that is completed by a start does
  not supersede the migration journal, as one from the command line or the recovery
  UI does. After "restart Prods to run normal startup checks" the next start is in
  recovery again. A crash between verification and supersession has the same effect.

Noted while modelling requests and mail: when the client of a decision to send is
gone before the handler has read the attempt back, the worker is not woken, and the
mail waits for the next decision or start (`EventuallyServed` excepts it). A recipient
whose outcome could not be stored stays "sending" until a restart, though the
health report reads well again after the next success, and its request cannot be
anonymised meanwhile. Recipients can be assigned to an anonymised request (the page
disables the button, the store does not check). Opening the send dialog again draws a
new delivery key, so that a retry after closing it is a new decision
(`ActivityPanel.tsx:396`).

Noted while modelling the console: the answer of a sign-out removes the cookie by its
name, also when another tab has signed in meanwhile; that session lives on without a
browser. A page that was served to one session and bound to another cannot write at
all until it is loaded again. The copy panel does not load again after an error, so a
conflict repeats until it is opened anew. Dropping the scope check alone does not
break `WrittenAsShown`, since the CSRF token binds the page to its session, too.

Noted while modelling recovery: a crash between two schema versions leaves a database
that `resumeMigration` refuses, though every version is a transaction that could be
continued, so only a restore helps; a crash between the two renames of the host
configuration stops a start that was given its path explicitly (`ConfigNamed`) before
it sees the journal.

Noted while modelling assets: a mark survives if an asset is used and dropped again
between two cycles, six hours apart, so that it can be deleted at once, though
`config.go:136` says an unreferenced asset remains for days (`GraceKept` therefore
counts from the last cycle that found it in use). An upload whose row is not written,
or that a crash cuts off after the rename, leaves a file no cycle looks for. Deletions
that fail keep their place at the head of the queue, and a full batch of them that
fails for good keeps the later ones waiting. A synchronisation that fails after a backup
has its name, and a reconciliation that cannot complete it, record "failed" for a
backup that stands. Pins whose release failed stay until a restart. A restart needs
the asset directory, and creates it if it is missing, so that on a mount that is not
there it starts with an empty one.

Noted while modelling, and part of the modelled behaviour: an activation that fails
leaves its intent "processing" until a restart, and so does a claim whose closing
fails, since the worker drops that error (`protocol.go:486`, `497`, `502`, `515`), while
`RetryPublicationJob` accepts only failed ones; after a failed installation the public site is down until the next
installation or restart; a redirect leads one step only, so after two moves the
oldest path is gone; a goroutine that cannot mark its job as parsing leaves it
queued until a restart.

## 6. Limits

*Only model-checked:* liveness, which is outside the prover's reach
(`EventuallyOnline`, `EventuallySettled`, `RestoreSettles`, `SiteReturns`,
`EventuallyServed`, `EventuallyReclaimed`, `RunsSettle`), and the statements the code
refutes (`RestoredIsBackup`, `SeenBeforeReplaced`, and `OnlineUntilReplaced` where paths
clash). Every safety and every action property of a passing run is a theorem. No theorem is about a recursive definition, and no module declares a
recursive operator; the one induction needed, over the lengths of routes, is made by the
least element of a set of numbers (`VisitorProofs!Least`).

*Abstracted:* field values (a product is what routes, identities and comparisons
depend on), rendering, the bytes of units (a unit is its revision, epoch, route,
generation and the profiles it was made from; damage is a set), authorisation
(everyone who calls is permitted), resource reservations, audit records. A claim by
a second worker does not occur: there is one worker per process and one process
per database. In `ImportJob` an archived product does not come back, references to
dictionaries do not become invalid (an error has the same effect), and the
publication intents of a commit are `Publication!Import`.
In `StartupRecovery` there is at most one journal of
each kind, a request at a time in the recovery UI, and no damage while a restore is
prepared; a new schema version does not arrive before the last upgrade is settled;
lost directory entries after a power failure are left out.
In `AssetLifecycle` the retention of backups, a drain, the purge of the history of
deletions, files and transactions that fail for good, the deferral of a batch and a
reconciliation that fails part-way are left out; a planned and a failed deletion are one
state, and a website configuration is the assets it names.

In `RFQDelivery` calls with an old revision, the check of recipients against users,
what a message says and the counters of the rate limiter are left out (a refused
submission is a submission that ends); which pending recipient is the oldest is left
open. In `AdminConsole` a panel's other data (categories, versions, routes), which
category or text is selected, and all of validation are left out; every revision may
be restored, as if each had been published; what a save carries is told apart by
field, not within one. `ListingProfilesPanel.remove` sets its form to the defaults
even when the removal and the load after it both fail; the model keeps the form.

*Not modelled:* users, roles, invitations and the last owner; the installer; search notification; numeric normalisation, filters
and listings; brand import, the exchange of public copy, preview and publish of the
website panel, and the other panels of the administration (what they ask the server
for is, in so far as it is modelled, in the modules of the server); generated and
bundled files. Of the 158,025 lines of JavaScript and TypeScript in the repository
144,834 are the bundles under `internal/webapp/static`, which are generated from
`web/ui/src`, some 13,000 lines, most of them labels, tables and forms. The program
proper is Go, and most of the map points there.

## 7. Plan

In this order, most valuable first. The first seven are modelled, checked and proved
about.

1. `Publication` with `PublicAdmission`.
2. `ProductBulk`.
3. `ImportJob`.
4. `StartupRecovery`.
5. `RFQDelivery`.
6. `AdminConsole`.
7. `AssetLifecycle`.
8. `Access`: installation, invitations, roles, the last owner.
9. Into existing modules: the machine-document refresh (`product_visibility.go`),
   search notification, taxonomy moves and merges in the catalog, the resource gate;
   preview and publish in `AdminConsole`; numeric normalisation as pure operators
   against a reference definition.
10. Proofs: that there is always an owner, with `Access`, and the safety of whatever 9 adds.
