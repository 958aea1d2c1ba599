----------------------------- MODULE ImportJob -----------------------------
(***************************************************************************)
(* Atomic product import (internal/storage/sqlite/import_job_store.go,     *)
(* import_store.go and internal/webapp/imports.go).                        *)
(*                                                                         *)
(* An uploaded file becomes a job.  A goroutine parses it and computes a   *)
(* preview against the catalog as it is then; an administrator looks at    *)
(* the preview and commits or cancels it, while others edit the catalog,   *)
(* other jobs are committed, and the process drains, dies and restarts.    *)
(*                                                                         *)
(* A product is identified by its part number and manufacturer.  A file    *)
(* says which of the two, or both, finds the product a row is about, and   *)
(* leaves what is blank in a row as it is.                                 *)
(***************************************************************************)
EXTENDS Integers, FiniteSets

CONSTANTS
  Products,   \* product identifiers, those of products to come included
  Jobs,
  Calls,      \* calls of adminCommitImport that may be under way together
  Parts, Makers, Texts,
  Blank,      \* an empty cell
  Files,      \* [mode, rows]
  InitProduct,
  Faults,     \* a subset of {"crash", "error"}
  MaxRev      \* bound on product revisions

Row == [part: Parts, maker: Makers \cup {Blank}, text: Texts \cup {Blank}]

ASSUME ImportAssumption ==
  /\ Blank \notin Makers \cup Texts
  /\ \A f \in Files : f.mode \in {"part_number", "composite"} /\ f.rows \subseteq Row
  /\ Files # {} /\ Jobs # {}
  /\ Faults \subseteq {"crash", "error"}
  /\ MaxRev \in Nat \ {0}

VARIABLES
  product,   \* products
  job,       \* import_jobs and the preview file of each
  receipts,  \* import_runs: jobs that have a receipt
  worker,    \* the upload handler and then the goroutine of each job
  cancelled, \* jobs whose context has been cancelled
  call,      \* the commit calls under way
  up,        \* "up", "draining" or "down"
  wrote,     \* history variable: how often a job was applied
  lost       \* history variable: jobs left behind by an error that is discarded

vars == <<product, job, receipts, worker, cancelled, call, up, wrote, lost>>

Product == [state: {"absent", "current", "archived"}, part: Parts,
            maker: Makers \cup {Blank}, text: Texts \cup {Blank}, rev: 0..MaxRev]
ItemSet == [product: Products, action: {"create", "update", "no_change"}, rev: 0..MaxRev,
            part: Parts, maker: Makers \cup {Blank}, text: Texts \cup {Blank}]
Plan == [ready: BOOLEAN, valid: BOOLEAN, items: SUBSET ItemSet]
NoPlan == [ready |-> FALSE, valid |-> FALSE, items |-> {}]
Statuses == {"none", "queued", "parsing", "preview_ready", "committing",
             "committed", "cancelled", "failed", "interrupted"}
Unsettled == {"queued", "parsing", "committing"}
Final == {"committed", "cancelled", "failed", "interrupted"}
NoWork == [pc |-> "none", plan |-> NoPlan]

Job == [status: Statuses, file: Files, plan: Plan]
Work == [pc: {"none", "upload", "start", "parse", "save"}, plan: Plan]
Call == [pc: {"idle", "loaded", "begun", "failing"}, job: Jobs]

\* The products an installation starts from: none that is to come has been
\* revised, and no two have one identity.
ASSUME InitAssumption ==
  /\ InitProduct \in [Products -> Product]
  /\ \A p \in Products : InitProduct[p].state = "absent" => InitProduct[p].rev = 0
  /\ \A p, q \in Products :
       /\ InitProduct[p].state = "current" /\ InitProduct[q].state = "current"
       /\ InitProduct[p].part = InitProduct[q].part /\ InitProduct[p].maker = InitProduct[q].maker
       => p = q

TypeOK ==
  /\ product \in [Products -> Product]
  /\ job \in [Jobs -> Job]
  /\ worker \in [Jobs -> Work]
  /\ call \in [Calls -> Call]
  /\ receipts \subseteq Jobs /\ cancelled \subseteq Jobs /\ lost \subseteq Jobs
  /\ up \in {"up", "draining", "down"}
  /\ wrote \in [Jobs -> Nat]

-----------------------------------------------------------------------------
(* The catalog *)

Current(p) == product[p].state = "current"

\* ensureCurrentIdentityAvailable
IdentityFree(p, part, maker) ==
  \A q \in Products \ {p} :
    Current(q) => product[q].part # part \/ product[q].maker # maker

\* currentImportMatches
Matches(mode, row) ==
  {p \in Products : /\ Current(p) /\ product[p].part = row.part
                    /\ mode = "composite" => product[p].maker = row.maker}

\* randomID: no preview and no product has the identifier.
Planned(p) ==
  \E j \in Jobs : \E i \in job[j].plan.items \cup worker[j].plan.items : i.product = p
Fresh(p) == product[p].state = "absent" /\ ~Planned(p)

\* An editor's create, update or archive.
Edit(p) ==
  /\ up = "up"
  /\ \E part \in Parts, maker \in Makers \cup {Blank}, text \in Texts :
       \/ /\ Fresh(p) /\ IdentityFree(p, part, maker)
          /\ product' = [product EXCEPT ![p] = [state |-> "current", part |-> part,
                           maker |-> maker, text |-> text, rev |-> 1]]
       \/ /\ Current(p) /\ product[p].rev < MaxRev /\ IdentityFree(p, part, maker)
          /\ product' = [product EXCEPT ![p].part = part, ![p].maker = maker,
                           ![p].text = text, ![p].rev = @ + 1]
       \/ /\ Current(p) /\ product[p].rev < MaxRev
          /\ product' = [product EXCEPT ![p].state = "archived", ![p].rev = @ + 1]
  /\ UNCHANGED <<job, receipts, worker, cancelled, call, up, wrote, lost>>

-----------------------------------------------------------------------------
(* The preview *)

\* applyMappedValues for an existing product
Merged(old, row) ==
  [part |-> row.part,
   maker |-> IF row.maker = Blank THEN old.maker ELSE row.maker,
   text |-> IF row.text = Blank THEN old.text ELSE row.text]

ItemFor(p, action, value) ==
  [product |-> p, action |-> action, rev |-> IF action = "create" THEN 0 ELSE product[p].rev,
   part |-> value.part, maker |-> value.maker, text |-> value.text]

\* Mutant: two rows for one product are not noticed.
FlawedUnlessTwice(file) ==
  \E row \in file.rows :
    \/ file.mode = "composite" /\ row.maker = Blank
    \/ Cardinality(Matches(file.mode, row)) > 1

\* Rows that name no product, two rows that name one, or a row that names two.
Flawed(file) ==
  \E row \in file.rows :
    \/ file.mode = "composite" /\ row.maker = Blank
    \/ Cardinality(Matches(file.mode, row)) > 1
    \/ \E other \in file.rows \ {row} :
         other.part = row.part /\ (file.mode = "composite" => other.maker = row.maker)

\* currentImportMatches of a row finds none: it describes a new product.
Unmatched(file) == {row \in file.rows : Matches(file.mode, row) = {}}

\* What a row becomes; new gives the rows without a match the identifiers of the
\* products to create.
RowItem(mode, row, new) ==
  LET M == Matches(mode, row)
      p == CHOOSE q \in M : TRUE
      value == Merged(product[p], row)
      same == \A f \in {"part", "maker", "text"} : value[f] = product[p][f]
  IN IF M = {} THEN ItemFor(new[row], "create", row)
     ELSE ItemFor(p, IF same THEN "no_change" ELSE "update", value)

\* BuildImportPreview, in one read transaction.
PreviewOf(file, new) ==
  [ready |-> TRUE, valid |-> ~Flawed(file),
   items |-> IF Flawed(file) THEN {} ELSE {RowItem(file.mode, row, new) : row \in file.rows}]

-----------------------------------------------------------------------------
(* The job's status, as the store's transitions change it *)

\* Mutant: any job can fail.
FailableAlways(status) == TRUE
Failable(status) == status \in {"queued", "parsing", "preview_ready", "committing"}

To(j, status) == job' = [job EXCEPT ![j].status = status]

\* FailImportJob, whose own error is discarded.
Fail(j) ==
  \/ /\ IF Failable(job[j].status) THEN To(j, "failed") ELSE UNCHANGED job
     /\ UNCHANGED lost
  \/ "error" \in Faults /\ lost' = lost \cup {j} /\ UNCHANGED job

Rest(j) == worker' = [worker EXCEPT ![j] = NoWork]
Erred == "error" \in Faults

-----------------------------------------------------------------------------
(* Upload and the goroutine that computes the preview *)

\* adminCreateImportJob up to CreateImportJob.
Upload(j, file) ==
  /\ up = "up" /\ job[j].status = "none"
  /\ job' = [job EXCEPT ![j] = [status |-> "queued", file |-> file, plan |-> NoPlan]]
  /\ worker' = [worker EXCEPT ![j] = [pc |-> "upload", plan |-> NoPlan]]
  /\ UNCHANGED <<product, receipts, cancelled, call, up, wrote, lost>>

\* The rest of it: the goroutine is started unless the process is closing or the
\* upload cannot be put in place.
Launch(j) ==
  /\ worker[j].pc = "upload"
  /\ \/ up = "up" /\ worker' = [worker EXCEPT ![j].pc = "start"] /\ UNCHANGED <<job, lost>>
     \/ (up = "draining" \/ Erred) /\ Rest(j) /\ Fail(j)
  /\ UNCHANGED <<product, receipts, cancelled, call, up, wrote>>

\* MarkImportJobParsing: processImportJob ends silently when it errs.
Start(j) ==
  /\ worker[j].pc = "start"
  /\ \/ /\ job[j].status = "queued" /\ j \notin cancelled
        /\ To(j, "parsing") /\ worker' = [worker EXCEPT ![j].pc = "parse"]
        /\ UNCHANGED lost
     \/ (job[j].status # "queued" \/ j \in cancelled) /\ Rest(j) /\ UNCHANGED <<job, lost>>
     \/ Erred /\ Rest(j) /\ lost' = lost \cup {j} /\ UNCHANGED job
  /\ UNCHANGED <<product, receipts, cancelled, call, up, wrote>>

\* ReadXLSXContext and BuildImportPreview.  A cancelled context ends the goroutine
\* silently after the first and as a failure in the second.
Parse(j) ==
  /\ worker[j].pc = "parse"
  /\ \/ /\ j \notin cancelled
        /\ \E new \in [Unmatched(job[j].file) -> {p \in Products : Fresh(p)}] :
             /\ \A r, s \in Unmatched(job[j].file) : new[r] = new[s] => r = s
             /\ worker' = [worker EXCEPT ![j] =
                             [pc |-> "save", plan |-> PreviewOf(job[j].file, new)]]
        /\ UNCHANGED <<job, lost>>
     \/ j \in cancelled /\ Rest(j) /\ UNCHANGED <<job, lost>>
     \/ (j \in cancelled \/ Erred) /\ Rest(j) /\ Fail(j)
  /\ UNCHANGED <<product, receipts, cancelled, call, up, wrote>>

\* writeImportPreview and SaveImportJobPreview
Save(j) ==
  /\ worker[j].pc = "save" /\ Rest(j)
  /\ \/ /\ j \notin cancelled /\ job[j].status = "parsing"
        /\ job' = [job EXCEPT ![j].status = "preview_ready", ![j].plan = worker[j].plan]
        /\ UNCHANGED lost
     \/ j \in cancelled /\ UNCHANGED <<job, lost>>
     \/ (job[j].status # "parsing" \/ Erred) /\ Fail(j)
  /\ UNCHANGED <<product, receipts, cancelled, call, up, wrote>>

\* RequestImportCancel, and the cancellation of the context after it.
Cancel(j) ==
  /\ up = "up" /\ job[j].status \in {"queued", "parsing", "preview_ready"}
  /\ To(j, "cancelled")
  /\ UNCHANGED <<product, receipts, worker, cancelled, call, up, wrote, lost>>

CancelContext(j) ==
  /\ job[j].status = "cancelled" /\ worker[j].pc \in {"start", "parse", "save"}
  /\ cancelled' = cancelled \cup {j}
  /\ UNCHANGED <<product, job, receipts, worker, call, up, wrote, lost>>

-----------------------------------------------------------------------------
(* Committing *)

\* adminCommitImport reads the job and its preview file.
Load(c, j) ==
  /\ up = "up" /\ call[c].pc = "idle" /\ job[j].plan.ready
  /\ call' = [call EXCEPT ![c] = [pc |-> "loaded", job |-> j]]
  /\ UNCHANGED <<product, job, receipts, worker, cancelled, up, wrote, lost>>

Goto(c, pc) == call' = [call EXCEPT ![c].pc = pc]

\* BeginImportCommit
Begin(c) ==
  LET j == call[c].job
  IN /\ call[c].pc = "loaded"
     /\ \/ job[j].status = "preview_ready" /\ To(j, "committing") /\ Goto(c, "begun")
        \/ job[j].status = "committed" /\ j \in receipts /\ Goto(c, "begun") /\ UNCHANGED job
        \/ job[j].status # "preview_ready" /\ j \notin receipts /\ Goto(c, "idle") /\ UNCHANGED job
        \/ Erred /\ Goto(c, "idle") /\ UNCHANGED job
     /\ UNCHANGED <<product, receipts, worker, cancelled, up, wrote, lost>>

\* Mutant: the revision the preview showed is not compared again.
UnmovedSinceUpload(i) == Current(i.product)
Unmoved(i) == Current(i.product) /\ product[i.product].rev = i.rev

\* CommitImport accepts an item (the identifier of a new product is the table's
\* primary key) ...
\* Mutant: it relies on the preview for the identity.
AcceptableOnceShown(i) ==
  IF i.action = "create" THEN product[i.product].state = "absent" ELSE Unmoved(i)
Acceptable(i) ==
  /\ IF i.action = "create" THEN product[i.product].state = "absent" ELSE Unmoved(i)
  /\ IdentityFree(i.product, i.part, i.maker)

\* ... and what it makes of it.
Applied(i) ==
  CASE i.action = "no_change" -> product[i.product]
    [] OTHER -> [state |-> "current", part |-> i.part, maker |-> i.maker, text |-> i.text,
                 rev |-> IF i.action = "create" THEN 1 ELSE product[i.product].rev + 1]

\* CommitImport, one transaction: all items or none, the receipt, and the job.
\* A job that has a receipt is answered with it.
\* Mutant: a receipt is not looked for.
ReplayNever(j) == FALSE
Replay(j) == j \in receipts

Commit(c) ==
  LET j == call[c].job
      plan == job[j].plan
      ok == /\ plan.valid
            /\ \A i \in plan.items : Acceptable(i)
            /\ \A i, k \in plan.items :
                 i.part = k.part /\ i.maker = k.maker => i = k
  IN /\ call[c].pc = "begun"
     /\ \/ /\ Replay(j) /\ UNCHANGED <<product, receipts, wrote>>
           /\ To(j, IF job[j].status = "committing" THEN "committed" ELSE job[j].status)
           /\ Goto(c, "idle")
        \/ /\ ~Replay(j) /\ ok
           /\ \A i \in plan.items : i.action = "update" => product[i.product].rev < MaxRev
           /\ product' = [p \in Products |->
                            IF \E i \in plan.items : i.product = p
                            THEN Applied(CHOOSE i \in plan.items : i.product = p)
                            ELSE product[p]]
           /\ receipts' = receipts \cup {j}
           /\ wrote' = [wrote EXCEPT ![j] = @ + 1]
           /\ To(j, IF job[j].status = "committing" THEN "committed" ELSE job[j].status)
           /\ Goto(c, "idle")
        \/ /\ (~Replay(j) /\ ~ok) \/ Erred
           /\ Goto(c, "failing") /\ UNCHANGED <<product, receipts, wrote, job>>
     /\ UNCHANGED <<worker, cancelled, up, lost>>

GiveUp(c) ==
  /\ call[c].pc = "failing" /\ Fail(call[c].job) /\ Goto(c, "idle")
  /\ UNCHANGED <<product, receipts, worker, cancelled, up, wrote>>

-----------------------------------------------------------------------------
(* The process *)

\* BeginDrain cancels the contexts of the registered goroutines.
Drain ==
  /\ up = "up" /\ up' = "draining"
  /\ cancelled' = cancelled \cup {j \in Jobs : worker[j].pc \in {"start", "parse", "save"}}
  /\ UNCHANGED <<product, job, receipts, worker, call, wrote, lost>>

Stop ==
  /\ up' = "down" /\ cancelled' = {}
  /\ worker' = [j \in Jobs |-> NoWork]
  /\ call' = [c \in Calls |-> [call[c] EXCEPT !.pc = "idle"]]
  /\ UNCHANGED <<product, job, receipts, wrote, lost>>

\* Close waits for the goroutines, and the server for its handlers.
Exit ==
  /\ up = "draining" /\ \A j \in Jobs : worker[j].pc = "none"
  /\ \A c \in Calls : call[c].pc = "idle"
  /\ Stop

Crash == "crash" \in Faults /\ up # "down" /\ Stop

\* ReconcileImportJobs, before anything else runs.
\* Mutant: a job that was being committed is left as it is.
ReconciledPartly(j) ==
  IF job[j].status \in {"queued", "parsing"} THEN "interrupted" ELSE job[j].status
Reconciled(j) ==
  CASE job[j].status = "committing" /\ j \in receipts -> "committed"
    [] job[j].status \in Unsettled /\ j \notin receipts -> "interrupted"
    [] OTHER -> job[j].status

Restart ==
  /\ up = "down" /\ up' = "up" /\ lost' = {}
  /\ job' = [j \in Jobs |-> [job[j] EXCEPT !.status = Reconciled(j)]]
  /\ UNCHANGED <<product, receipts, worker, cancelled, call, wrote>>

-----------------------------------------------------------------------------

Init ==
  /\ product = InitProduct
  /\ job = [j \in Jobs |-> [status |-> "none", file |-> CHOOSE f \in Files : TRUE, plan |-> NoPlan]]
  /\ receipts = {} /\ cancelled = {} /\ lost = {}
  /\ worker = [j \in Jobs |-> NoWork]
  /\ call = [c \in Calls |-> [pc |-> "idle", job |-> CHOOSE j \in Jobs : TRUE]]
  /\ up = "up"
  /\ wrote = [j \in Jobs |-> 0]

Labour(j) == Launch(j) \/ Start(j) \/ Parse(j) \/ Save(j)
Proceed(c) == Begin(c) \/ Commit(c) \/ GiveUp(c)

Next ==
  \/ \E p \in Products : Edit(p)
  \/ \E j \in Jobs, f \in Files : Upload(j, f)
  \/ \E j \in Jobs : Labour(j) \/ Cancel(j) \/ CancelContext(j)
  \/ \E c \in Calls, j \in Jobs : Load(c, j)
  \/ \E c \in Calls : Proceed(c)
  \/ Drain \/ Exit \/ Crash \/ Restart

Spec == Init /\ [][Next]_vars

\* Goroutines and handlers run; a drained process ends and is started again.
FairSpec ==
  /\ Spec
  /\ \A j \in Jobs : WF_vars(Labour(j))
  /\ \A c \in Calls : WF_vars(Proceed(c))
  /\ WF_vars(Exit) /\ WF_vars(Restart)

-----------------------------------------------------------------------------
(* Properties *)

\* No two current products have one identity, although an import decides on
\* identities long before it writes them (no index of the table enforces it).
IdentityUnique ==
  \A p, q \in Products :
    Current(p) /\ Current(q) /\ product[p].part = product[q].part
      /\ product[p].maker = product[q].maker => p = q

\* A job's changes are in the catalog, once, exactly when the job says committed
\* and has a receipt, whatever was cancelled, repeated, lost or restarted.
AppliedIffCommitted ==
  \A j \in Jobs :
    /\ wrote[j] = IF job[j].status = "committed" THEN 1 ELSE 0
    /\ j \in receipts <=> job[j].status = "committed"

\* An import never changes what its row leaves blank, however long ago its
\* preview was computed: no edit in between is lost.
NoLostEdit ==
  [][\A j \in Jobs : wrote'[j] # wrote[j] =>
       \A i \in job[j].plan.items : i.action = "update" =>
         \E row \in job[j].file.rows :
           /\ row.part = i.part
           /\ row.maker = Blank => product'[i.product].maker = product[i.product].maker
           /\ row.text = Blank => product'[i.product].text = product[i.product].text]_vars

\* When a job commits, every row of its file is there: one current product has the
\* row's values, the only one with its identity if the manufacturer is part of it.
RowsArrive ==
  [][\A j \in Jobs : wrote'[j] # wrote[j] =>
       \A row \in job[j].file.rows : \E p \in Products :
         LET new == product'[p]
         IN /\ new.state = "current" /\ new.part = row.part
            /\ row.maker # Blank => new.maker = row.maker
            /\ row.text # Blank => new.text = row.text
            /\ job[j].file.mode = "composite" => Matches("composite", row)' = {p}]_vars

\* The same for a file that says part numbers identify its products: what it
\* commits is not ambiguous to it ("validates and rechecks the import at commit").
OneMatch ==
  [][\A j \in Jobs : wrote'[j] # wrote[j] =>
       \A row \in job[j].file.rows :
         Cardinality(Matches(job[j].file.mode, row)') = 1]_vars

\* What is committed, cancelled, failed or interrupted stays so.
FinalStays ==
  [][\A j \in Jobs : job[j].status \in Final => job'[j].status = job[j].status]_vars

\* A job is not left queued, parsing or committing for ever, unless an error that
\* the code discards left it behind, and then only until the next restart.
EventuallySettled ==
  \A j \in Jobs : job[j].status \in Unsettled ~> job[j].status \notin Unsettled \/ j \in lost

-----------------------------------------------------------------------------
(* The inductive invariant: who may still change a job of which status, and   *)
(* what a plan says about a product that has not been changed since.          *)

Busy(c) == call[c].pc \in {"begun", "failing"}

CallInv ==
  \A c \in Calls : Busy(c) =>
    /\ job[call[c].job].status \in {"committing", "committed"}
    /\ \A d \in Calls : d # c /\ Busy(d) /\ call[d].job = call[c].job =>
         job[call[c].job].status = "committed"

WorkInv ==
  \A j \in Jobs :
    /\ worker[j].pc \in {"upload", "start"} => job[j].status \in {"queued", "cancelled"}
    /\ worker[j].pc \in {"parse", "save"} => job[j].status \in {"parsing", "cancelled"}

DownInv ==
  up = "down" => /\ \A j \in Jobs : worker[j].pc = "none"
                 /\ \A c \in Calls : call[c].pc = "idle"

PlanInv ==
  /\ \A p \in Products : product[p].state = "absent" => product[p].rev = 0
  /\ \A j \in Jobs : \A i \in job[j].plan.items \cup worker[j].plan.items :
       i.action = "no_change" =>
         /\ i.rev <= product[i.product].rev
         /\ i.rev = product[i.product].rev =>
              product[i.product].part = i.part /\ product[i.product].maker = i.maker

ImportInv ==
  TypeOK /\ AppliedIffCommitted /\ IdentityUnique /\ CallInv /\ WorkInv /\ DownInv /\ PlanInv

\* What an item still says of its row, old being its product as it is: the row's
\* values where it has any and, unless the product has been revised since, the
\* product's elsewhere.
Bears(i, row, old) ==
  /\ i.part = row.part
  /\ row.maker # Blank => i.maker = row.maker
  /\ row.text # Blank => i.text = row.text
  /\ i.action # "create" =>
       /\ i.rev <= old.rev
       /\ i.rev = old.rev =>
            /\ row.maker = Blank => i.maker = old.maker
            /\ row.text = Blank => i.text = old.text
            /\ i.action = "no_change" => i.text = old.text

\* A plan has an item for every row of its file, each for a product of its own.
PlanOf(file, plan, catalog) ==
  /\ \A i \in plan.items : \E row \in file.rows : Bears(i, row, catalog[i.product])
  /\ plan.valid => \A row \in file.rows : \E i \in plan.items : Bears(i, row, catalog[i.product])
  /\ \A i, k \in plan.items : i.product = k.product => i = k
  /\ plan.valid /\ file.mode = "composite" => \A row \in file.rows : row.maker # Blank

RowInv ==
  \A j \in Jobs : /\ PlanOf(job[j].file, job[j].plan, product)
                   /\ PlanOf(job[j].file, worker[j].plan, product)
=============================================================================
