-------------------------- MODULE ImportJobProofs --------------------------
(***************************************************************************)
(* What ImportJob guarantees for any number of products, jobs, calls and   *)
(* files.  The inductive invariant ImportInv says which statuses a job can *)
(* have while a goroutine or a call works on it, so that only one call can *)
(* apply it, and that a plan still tells the truth about every product     *)
(* whose revision has not moved.                                           *)
(***************************************************************************)
EXTENDS ImportJob, TLAPS

Same(k) == /\ job'[k].status = job[k].status
           /\ job'[k].file = job[k].file /\ job'[k].plan = job[k].plan

-----------------------------------------------------------------------------
(* Jobs *)

\* To changes the status of one job and nothing else of any.
LEMMA ToStep ==
  ASSUME TypeOK, NEW j \in Jobs, NEW s \in Statuses, To(j, s)
  PROVE  /\ job' \in [Jobs -> Job]
         /\ \A k \in Jobs : job'[k].plan = job[k].plan /\ job'[k].file = job[k].file
         /\ \A k \in Jobs \ {j} : job'[k].status = job[k].status
         /\ job'[j].status = s
  BY DEF TypeOK, To, Job

\* FailImportJob changes at most the status of its job, from one that can fail.
LEMMA FailStep ==
  ASSUME TypeOK, NEW j \in Jobs, Fail(j)
  PROVE  /\ job' \in [Jobs -> Job] /\ lost' \subseteq Jobs
         /\ \A k \in Jobs : job'[k].plan = job[k].plan /\ job'[k].file = job[k].file
         /\ \A k \in Jobs \ {j} : job'[k].status = job[k].status
         /\ \/ job'[j].status = job[j].status
            \/ Failable(job[j].status) /\ job'[j].status = "failed"
<1>1. CASE UNCHANGED job
  <2>1. lost' \subseteq Jobs
    BY DEF Fail, TypeOK
  <2> QED
    BY <1>1, <2>1 DEF TypeOK
<1>2. CASE Failable(job[j].status) /\ To(j, "failed") /\ UNCHANGED lost
  BY <1>2, ToStep DEF TypeOK, Statuses
<1> QED
  BY <1>1, <1>2 DEF Fail

\* What a step that leaves the catalog and the receipts alone keeps, as long as no
\* job becomes or stops being committed.
LEMMA Untouched ==
  ASSUME ImportInv, UNCHANGED <<product, receipts, wrote>>,
         \A k \in Jobs : job'[k].status = "committed" <=> job[k].status = "committed",
         \A k \in Jobs : job'[k].plan.items \cup worker'[k].plan.items
                           \subseteq job[k].plan.items \cup worker[k].plan.items
  PROVE  AppliedIffCommitted' /\ IdentityUnique' /\ PlanInv'
<1>1. AppliedIffCommitted'
  BY DEF ImportInv, AppliedIffCommitted
<1>2. IdentityUnique'
  BY DEF ImportInv, IdentityUnique, Current
<1>3. PlanInv'
  BY DEF ImportInv, PlanInv
<1> QED
  BY <1>1, <1>2, <1>3

-----------------------------------------------------------------------------
(* The goroutine *)

\* A step of the goroutine of one job.  No call is at work on that job: its
\* status is one from before the commit.
LEMMA LabourStep ==
  ASSUME ImportInv, NEW j \in Jobs, worker[j].pc # "none", up # "down",
         NEW w \in Work, worker' = [worker EXCEPT ![j] = w],
         job' \in [Jobs -> Job], lost' \subseteq Jobs,
         UNCHANGED <<product, receipts, cancelled, call, up, wrote>>,
         \A k \in Jobs \ {j} : Same(k),
         job'[j].status # "committed",
         w.pc \in {"upload", "start"} => job'[j].status \in {"queued", "cancelled"},
         w.pc \in {"parse", "save"} => job'[j].status \in {"parsing", "cancelled"},
         PlanInv'
  PROVE  ImportInv'
<1>1. TypeOK'
  BY DEF ImportInv, TypeOK
<1>2. job[j].status \in {"queued", "parsing", "cancelled"}
  BY DEF ImportInv, WorkInv, TypeOK, Work
<1>3. AppliedIffCommitted'
  BY <1>2 DEF ImportInv, AppliedIffCommitted, Same
<1>4. IdentityUnique'
  BY DEF ImportInv, IdentityUnique, Current
<1>5. CallInv'
  <2>1. \A c \in Calls : Busy(c) => call[c].job # j
    BY <1>2 DEF ImportInv, CallInv
  <2>2. \A c \in Calls : Busy(c)' <=> Busy(c)
    BY DEF Busy
  <2>3. \A c \in Calls : call[c].job \in Jobs
    BY DEF ImportInv, TypeOK, Call
  <2> QED
    BY <2>1, <2>2, <2>3 DEF ImportInv, CallInv, Same
<1>6. WorkInv'
  <2>1. worker'[j] = w /\ \A k \in Jobs \ {j} : worker'[k] = worker[k]
    BY DEF ImportInv, TypeOK
  <2> QED
    BY <2>1 DEF ImportInv, WorkInv, Same
<1>7. DownInv'
  BY DEF DownInv
<1> QED
  BY <1>1, <1>3, <1>4, <1>5, <1>6, <1>7 DEF ImportInv

\* While a goroutine is at work the process is up.
LEMMA WorkingUp ==
  ASSUME ImportInv, NEW j \in Jobs, worker[j].pc # "none"
  PROVE  up # "down"
  BY DEF ImportInv, DownInv

LEMMA NoWorkType == NoPlan \in Plan /\ NoWork \in Work
  BY DEF NoPlan, Plan, NoWork, Work

\* Ending a goroutine with or without a failure.
LEMMA RestStep ==
  ASSUME ImportInv, NEW j \in Jobs, worker[j].pc # "none", Rest(j),
         UNCHANGED <<product, receipts, cancelled, call, up, wrote>>,
         Fail(j) \/ (UNCHANGED job /\ lost' \subseteq Jobs)
  PROVE  ImportInv'
<1>1. TypeOK /\ job[j].status # "committed" /\ up # "down"
  BY WorkingUp DEF ImportInv, WorkInv, TypeOK, Work
<1>2. /\ job' \in [Jobs -> Job] /\ lost' \subseteq Jobs
      /\ \A k \in Jobs : job'[k].plan = job[k].plan
      /\ \A k \in Jobs \ {j} : Same(k)
      /\ job'[j].status # "committed"
  BY <1>1, FailStep DEF Same, TypeOK
<1>3. NoWork \in Work /\ NoWork.plan.items = {} /\ NoWork.pc = "none"
  BY NoWorkType DEF NoWork, NoPlan
<1>4. worker'[j] = NoWork /\ \A k \in Jobs \ {j} : worker'[k] = worker[k]
  BY <1>1 DEF Rest, TypeOK
<1>5. PlanInv'
  <2>1. \A k \in Jobs : job'[k].plan.items \cup worker'[k].plan.items
                          \subseteq job[k].plan.items \cup worker[k].plan.items
    BY <1>2, <1>3, <1>4
  <2> QED
    BY <2>1 DEF ImportInv, PlanInv
<1> QED
  BY <1>1, <1>2, <1>3, <1>5, LabourStep DEF Rest

LEMMA LaunchStep ==
  ASSUME ImportInv, NEW j \in Jobs, Launch(j)
  PROVE  ImportInv'
<1>1. worker[j].pc = "upload" /\ TypeOK /\ job[j].status \in {"queued", "cancelled"}
  BY DEF Launch, ImportInv, WorkInv
<1>2. CASE Rest(j) /\ Fail(j)
  BY <1>1, <1>2, RestStep DEF Launch
<1>3. CASE worker' = [worker EXCEPT ![j].pc = "start"] /\ UNCHANGED <<job, lost>>
  <2> DEFINE w == [worker[j] EXCEPT !.pc = "start"]
  <2>1. w \in Work /\ w.pc = "start" /\ w.plan = worker[j].plan
    BY <1>1 DEF TypeOK, Work
  <2>2. worker' = [worker EXCEPT ![j] = w]
    BY <1>1, <1>3 DEF TypeOK
  <2>3. \A k \in Jobs : worker'[k].plan = worker[k].plan
    BY <1>1, <2>1, <2>2 DEF TypeOK
  <2>4. PlanInv'
    BY <1>3, <2>3 DEF Launch, ImportInv, PlanInv
  <2>5. up # "down"
    BY <1>1, WorkingUp
  <2> HIDE DEF w
  <2> QED
    BY <1>1, <1>3, <2>1, <2>2, <2>4, <2>5, LabourStep DEF Launch, Same, TypeOK
<1> QED
  BY <1>2, <1>3 DEF Launch

LEMMA StartStep ==
  ASSUME ImportInv, NEW j \in Jobs, Start(j)
  PROVE  ImportInv'
<1>1. worker[j].pc = "start" /\ TypeOK
  BY DEF Start, ImportInv
<1>2. CASE Rest(j) /\ UNCHANGED job /\ lost' \subseteq Jobs
  BY <1>1, <1>2, RestStep DEF Start
<1>3. CASE /\ To(j, "parsing") /\ worker' = [worker EXCEPT ![j].pc = "parse"]
           /\ UNCHANGED lost
  <2> DEFINE w == [worker[j] EXCEPT !.pc = "parse"]
  <2>1. w \in Work /\ w.pc = "parse" /\ w.plan = worker[j].plan
    BY <1>1 DEF TypeOK, Work
  <2>2. worker' = [worker EXCEPT ![j] = w]
    BY <1>1, <1>3 DEF TypeOK
  <2>3. \A k \in Jobs : worker'[k].plan = worker[k].plan
    BY <1>1, <2>1, <2>2 DEF TypeOK
  <2>4. /\ job' \in [Jobs -> Job] /\ job'[j].status = "parsing"
        /\ \A k \in Jobs : job'[k].plan = job[k].plan
        /\ \A k \in Jobs \ {j} : Same(k)
    BY <1>1, <1>3, ToStep DEF Statuses, Same
  <2>5. PlanInv'
    BY <2>3, <2>4 DEF Start, ImportInv, PlanInv
  <2>6. up # "down" /\ lost' \subseteq Jobs
    BY <1>1, <1>3, WorkingUp DEF TypeOK
  <2> HIDE DEF w
  <2> QED
    BY <1>1, <2>1, <2>2, <2>4, <2>5, <2>6, LabourStep DEF Start
<1>4. lost' \subseteq Jobs
  BY <1>1 DEF Start, TypeOK
<1> QED
  BY <1>2, <1>3, <1>4 DEF Start


-----------------------------------------------------------------------------
(* The preview *)

\* What a row becomes is an item about a product, and one that changes nothing
\* describes the product as it is.
LEMMA RowItemTyped ==
  ASSUME TypeOK, NEW file, NEW row \in Row, row \in file.rows,
         NEW new \in [Unmatched(file) -> Products], NEW i, i = RowItem(file.mode, row, new)
  PROVE  /\ i \in ItemSet
         /\ i.action = "no_change" =>
              /\ i.rev = product[i.product].rev
              /\ product[i.product].part = i.part /\ product[i.product].maker = i.maker
<1> DEFINE M == Matches(file.mode, row)
           p == CHOOSE q \in M : TRUE
           value == Merged(product[p], row)
           same == \A f \in {"part", "maker", "text"} : value[f] = product[p][f]
<1>1. /\ row.part \in Parts /\ row.maker \in Makers \cup {Blank}
      /\ row.text \in Texts \cup {Blank}
  BY DEF Row
<1>2. CASE M = {}
  <2>1. i = ItemFor(new[row], "create", row)
    BY <1>2 DEF RowItem
  <2>2. new[row] \in Products /\ 0 \in 0..MaxRev
    BY <1>2, ImportAssumption DEF Unmatched
  <2> QED
    BY <2>1, <2>2, <1>1 DEF ItemFor, ItemSet
<1>3. CASE M # {}
  <2>1. p \in Products
    BY <1>3 DEF Matches
  <2>2. /\ product[p].part \in Parts /\ product[p].maker \in Makers \cup {Blank}
        /\ product[p].text \in Texts \cup {Blank} /\ product[p].rev \in 0..MaxRev
    BY <2>1 DEF TypeOK, Product
  <2>3. /\ value.part \in Parts /\ value.maker \in Makers \cup {Blank}
        /\ value.text \in Texts \cup {Blank}
    BY <1>1, <2>2 DEF Merged
  <2>4. i = ItemFor(p, IF same THEN "no_change" ELSE "update", value)
    BY <1>3 DEF RowItem
  <2>5. same => value.part = product[p].part /\ value.maker = product[p].maker
    BY DEF Merged
  <2> HIDE DEF p, value, same
  <2> QED
    BY <2>1, <2>2, <2>3, <2>4, <2>5 DEF ItemFor, ItemSet
<1> QED
  BY <1>2, <1>3

LEMMA PreviewTyped ==
  ASSUME TypeOK, NEW file \in Files, NEW new \in [Unmatched(file) -> Products]
  PROVE  /\ PreviewOf(file, new) \in Plan
         /\ \A i \in PreviewOf(file, new).items : i.action = "no_change" =>
              /\ i.rev = product[i.product].rev
              /\ product[i.product].part = i.part /\ product[i.product].maker = i.maker
<1>1. file.rows \subseteq Row
  BY ImportAssumption
<1>2. \A i \in PreviewOf(file, new).items :
        \E row \in file.rows : i = RowItem(file.mode, row, new)
  BY DEF PreviewOf
<1>3. ASSUME NEW i \in PreviewOf(file, new).items
      PROVE  /\ i \in ItemSet
             /\ i.action = "no_change" =>
                  /\ i.rev = product[i.product].rev
                  /\ product[i.product].part = i.part /\ product[i.product].maker = i.maker
  <2>1. PICK row \in file.rows : i = RowItem(file.mode, row, new)
    BY <1>2
  <2> QED
    BY <1>1, <2>1, RowItemTyped
<1>4. PreviewOf(file, new).items \subseteq ItemSet
  BY <1>3
<1>5. PreviewOf(file, new) =
        [ready |-> TRUE, valid |-> ~Flawed(file), items |-> PreviewOf(file, new).items]
  BY DEF PreviewOf
<1>6. \A b \in BOOLEAN, S \in SUBSET ItemSet : [ready |-> TRUE, valid |-> b, items |-> S] \in Plan
  BY DEF Plan
<1>7. PreviewOf(file, new) \in Plan
  <2>1. CASE Flawed(file)
    BY <2>1, <1>4, <1>5, <1>6
  <2>2. CASE ~Flawed(file)
    BY <2>2, <1>4, <1>5, <1>6
  <2> QED
    BY <2>1, <2>2
<1> QED
  BY <1>3, <1>7

LEMMA ParseStep ==
  ASSUME ImportInv, NEW j \in Jobs, Parse(j)
  PROVE  ImportInv'
<1>1. worker[j].pc = "parse" /\ TypeOK /\ job[j].status \in {"parsing", "cancelled"}
  BY DEF Parse, ImportInv, WorkInv
<1>2. CASE Rest(j) /\ (Fail(j) \/ UNCHANGED <<job, lost>>)
  <2>1. lost \subseteq Jobs
    BY <1>1 DEF TypeOK
  <2> QED
    BY <1>1, <1>2, <2>1, RestStep DEF Parse
<1>3. CASE /\ \E new \in [Unmatched(job[j].file) -> {p \in Products : Fresh(p)}] :
                worker' = [worker EXCEPT ![j] =
                             [pc |-> "save", plan |-> PreviewOf(job[j].file, new)]]
           /\ UNCHANGED <<job, lost>>
  <2>1. PICK new \in [Unmatched(job[j].file) -> {p \in Products : Fresh(p)}] :
               worker' = [worker EXCEPT ![j] =
                             [pc |-> "save", plan |-> PreviewOf(job[j].file, new)]]
    BY <1>3
  <2> DEFINE plan == PreviewOf(job[j].file, new)
             w == [pc |-> "save", plan |-> plan]
  <2>2. job[j].file \in Files /\ new \in [Unmatched(job[j].file) -> Products]
    BY <1>1 DEF TypeOK, Job
  <2>3. /\ plan \in Plan
        /\ \A i \in plan.items : i.action = "no_change" =>
              /\ i.rev = product[i.product].rev
              /\ product[i.product].part = i.part /\ product[i.product].maker = i.maker
    BY <1>1, <2>2, PreviewTyped
  <2>4. worker' = [worker EXCEPT ![j] = w]
    BY <2>1
  <2> HIDE DEF plan
  <2>5. w \in Work /\ w.pc = "save" /\ w.plan = plan
    BY <2>3 DEF Work
  <2> HIDE DEF w
  <2>6. worker'[j].plan = plan /\ \A k \in Jobs \ {j} : worker'[k] = worker[k]
    BY <1>1, <2>4, <2>5 DEF TypeOK
  <2>7. PlanInv'
    <3>1. UNCHANGED <<product, job>>
      BY <1>3 DEF Parse
    <3>2. \A p \in Products : product[p].rev \in Int
      BY <1>1 DEF TypeOK, Product
    <3>3. \A i \in plan.items : i.product \in Products
      BY <2>3 DEF Plan, ItemSet
    <3>4. \A i \in plan.items : i.action = "no_change" =>
            /\ i.rev <= product[i.product].rev
            /\ product[i.product].part = i.part /\ product[i.product].maker = i.maker
      BY <2>3, <3>2, <3>3
    <3> QED
      BY <2>6, <3>1, <3>4 DEF ImportInv, PlanInv
  <2>8. up # "down"
    BY <1>1, WorkingUp
  <2> QED
    BY <1>1, <1>3, <2>4, <2>5, <2>7, <2>8, LabourStep DEF Parse, Same, TypeOK
<1> QED
  BY <1>2, <1>3 DEF Parse

LEMMA SaveStep ==
  ASSUME ImportInv, NEW j \in Jobs, Save(j)
  PROVE  ImportInv'
<1>1. worker[j].pc = "save" /\ TypeOK /\ Rest(j)
  BY DEF Save, ImportInv
<1>2. CASE Fail(j) \/ UNCHANGED <<job, lost>>
  <2>1. lost \subseteq Jobs
    BY <1>1 DEF TypeOK
  <2> QED
    BY <1>1, <1>2, <2>1, RestStep DEF Save
<1>3. CASE /\ job' = [job EXCEPT ![j].status = "preview_ready", ![j].plan = worker[j].plan]
           /\ UNCHANGED lost
  <2> DEFINE r == [job[j] EXCEPT !.status = "preview_ready", !.plan = worker[j].plan]
  <2>1. /\ r \in Job /\ r.status = "preview_ready" /\ r.plan = worker[j].plan
    BY <1>1 DEF TypeOK, Job, Work, Statuses
  <2>2. job' = [job EXCEPT ![j] = r]
    BY <1>1, <1>3 DEF TypeOK
  <2> HIDE DEF r
  <2>3. /\ job' \in [Jobs -> Job] /\ job'[j] = r
        /\ \A k \in Jobs \ {j} : job'[k] = job[k]
    BY <1>1, <2>1, <2>2 DEF TypeOK
  <2>4. NoWork \in Work /\ NoWork.plan.items = {} /\ NoWork.pc = "none"
    BY NoWorkType DEF NoWork, NoPlan
  <2>5. worker'[j] = NoWork /\ \A k \in Jobs \ {j} : worker'[k] = worker[k]
    BY <1>1 DEF Rest, TypeOK
  <2>6. \A k \in Jobs : job'[k].plan.items \cup worker'[k].plan.items
                          \subseteq job[k].plan.items \cup worker[k].plan.items
    BY <2>1, <2>3, <2>4, <2>5
  <2>7. PlanInv'
    BY <2>6 DEF Save, ImportInv, PlanInv
  <2>8. up # "down" /\ lost' \subseteq Jobs
    BY <1>1, <1>3, WorkingUp DEF TypeOK
  <2> QED
    BY <1>1, <2>1, <2>3, <2>4, <2>7, <2>8, LabourStep DEF Save, Same, Rest
<1> QED
  BY <1>2, <1>3 DEF Save


-----------------------------------------------------------------------------
(* Upload, cancellation and the beginning of a commit *)

LEMMA UploadStep ==
  ASSUME ImportInv, NEW j \in Jobs, NEW file \in Files, Upload(j, file)
  PROVE  ImportInv'
<1> DEFINE r == [status |-> "queued", file |-> file, plan |-> NoPlan]
           w == [pc |-> "upload", plan |-> NoPlan]
<1>1. /\ r \in Job /\ w \in Work /\ r.status = "queued" /\ r.plan.items = {}
      /\ w.pc = "upload" /\ w.plan.items = {}
  BY NoWorkType DEF Job, Work, Statuses, NoPlan
<1>2. job' = [job EXCEPT ![j] = r] /\ worker' = [worker EXCEPT ![j] = w]
  BY DEF Upload
<1> HIDE DEF r, w
<1>3. TypeOK /\ job[j].status = "none" /\ up = "up"
      /\ UNCHANGED <<product, receipts, cancelled, call, up, wrote, lost>>
  BY DEF ImportInv, Upload
<1>4. /\ job'[j] = r /\ worker'[j] = w
      /\ \A k \in Jobs \ {j} : job'[k] = job[k] /\ worker'[k] = worker[k]
  BY <1>2, <1>3 DEF TypeOK
<1>5. TypeOK'
  BY <1>1, <1>2, <1>3 DEF TypeOK
<1>6. AppliedIffCommitted' /\ IdentityUnique' /\ PlanInv'
  BY <1>1, <1>3, <1>4, Untouched
<1>7. CallInv'
  <2>1. \A c \in Calls : call[c].job \in Jobs /\ (Busy(c)' <=> Busy(c))
    BY <1>3 DEF TypeOK, Call, Busy
  <2>2. \A c \in Calls : Busy(c) => call[c].job # j
    BY <1>3 DEF ImportInv, CallInv
  <2> QED
    BY <1>3, <1>4, <2>1, <2>2 DEF ImportInv, CallInv
<1>8. WorkInv'
  BY <1>1, <1>4 DEF ImportInv, WorkInv
<1>9. DownInv'
  BY <1>3 DEF DownInv
<1> QED
  BY <1>5, <1>6, <1>7, <1>8, <1>9 DEF ImportInv

\* A job that is cancelled was not yet being committed.
LEMMA CancelStep ==
  ASSUME ImportInv, NEW j \in Jobs, Cancel(j)
  PROVE  ImportInv'
<1>1. /\ TypeOK /\ up = "up" /\ job[j].status \in {"queued", "parsing", "preview_ready"}
      /\ UNCHANGED <<product, receipts, worker, cancelled, call, up, wrote, lost>>
  BY DEF ImportInv, Cancel
<1>2. /\ job' \in [Jobs -> Job] /\ job'[j].status = "cancelled"
      /\ \A k \in Jobs : job'[k].plan = job[k].plan
      /\ \A k \in Jobs \ {j} : job'[k].status = job[k].status
  BY <1>1, ToStep DEF Cancel, Statuses
<1>3. TypeOK'
  BY <1>1, <1>2 DEF TypeOK
<1>4. AppliedIffCommitted' /\ IdentityUnique' /\ PlanInv'
  BY <1>1, <1>2, Untouched
<1>5. CallInv'
  <2>1. \A c \in Calls : call[c].job \in Jobs /\ (Busy(c)' <=> Busy(c))
    BY <1>1 DEF TypeOK, Call, Busy
  <2>2. \A c \in Calls : Busy(c) => call[c].job # j
    BY <1>1 DEF ImportInv, CallInv
  <2> QED
    BY <1>1, <1>2, <2>1, <2>2 DEF ImportInv, CallInv
<1>6. WorkInv'
  BY <1>1, <1>2 DEF ImportInv, WorkInv
<1>7. DownInv'
  BY <1>1 DEF DownInv
<1> QED
  BY <1>3, <1>4, <1>5, <1>6, <1>7 DEF ImportInv

\* Cancelling contexts, in a draining process or not, changes nothing of the rest.
LEMMA ContextStep ==
  ASSUME ImportInv, cancelled' \subseteq Jobs, up' \in {"up", "draining"},
         UNCHANGED <<product, job, receipts, worker, call, wrote, lost>>
  PROVE  ImportInv'
<1>1. TypeOK'
  BY DEF ImportInv, TypeOK
<1>2. AppliedIffCommitted' /\ IdentityUnique' /\ PlanInv'
  BY Untouched
<1>3. CallInv' /\ WorkInv'
  BY DEF ImportInv, CallInv, WorkInv, Busy
<1>4. DownInv'
  BY DEF DownInv
<1> QED
  BY <1>1, <1>2, <1>3, <1>4 DEF ImportInv

LEMMA LoadStep ==
  ASSUME ImportInv, NEW c \in Calls, NEW j \in Jobs, Load(c, j)
  PROVE  ImportInv'
<1> DEFINE r == [pc |-> "loaded", job |-> j]
<1>1. /\ r \in Call /\ r.pc = "loaded" /\ call' = [call EXCEPT ![c] = r] /\ up = "up"
      /\ UNCHANGED <<product, job, receipts, worker, cancelled, up, wrote, lost>>
  BY DEF Call, Load
<1> HIDE DEF r
<1>2. call'[c] = r /\ \A d \in Calls \ {c} : call'[d] = call[d]
  BY <1>1 DEF ImportInv, TypeOK
<1>3. TypeOK'
  BY <1>1 DEF ImportInv, TypeOK
<1>4. AppliedIffCommitted' /\ IdentityUnique' /\ PlanInv'
  BY <1>1, Untouched
<1>5. CallInv'
  <2>1. ~Busy(c)' /\ \A d \in Calls \ {c} : Busy(d)' <=> Busy(d)
    BY <1>1, <1>2 DEF Busy
  <2> QED
    BY <1>1, <1>2, <2>1 DEF ImportInv, CallInv
<1>6. WorkInv' /\ DownInv'
  BY <1>1 DEF ImportInv, WorkInv, DownInv
<1> QED
  BY <1>3, <1>4, <1>5, <1>6 DEF ImportInv

\* A call moves on: its job stays the same, and so do the other calls.
LEMMA GotoStep ==
  ASSUME TypeOK, NEW c \in Calls, NEW pc \in {"idle", "loaded", "begun", "failing"}, Goto(c, pc)
  PROVE  /\ call' \in [Calls -> Call]
         /\ call'[c].pc = pc
         /\ \A d \in Calls : call'[d].job = call[d].job /\ call[d].job \in Jobs
         /\ \A d \in Calls \ {c} : call'[d].pc = call[d].pc /\ (Busy(d)' <=> Busy(d))
<1>1. call' \in [Calls -> Call]
  BY DEF TypeOK, Call, Goto
<1>2. call'[c].pc = pc /\ \A d \in Calls : call'[d].job = call[d].job
  BY DEF TypeOK, Call, Goto
<1>3. \A d \in Calls \ {c} : call'[d].pc = call[d].pc
  BY DEF TypeOK, Call, Goto
<1>4. \A d \in Calls : call[d].job \in Jobs
  BY DEF TypeOK, Call
<1> QED
  BY <1>1, <1>2, <1>3, <1>4 DEF Busy

\* Only a call that takes a job from preview_ready to committing, or one that will
\* be answered with a receipt, begins.
LEMMA BeginStep ==
  ASSUME ImportInv, NEW c \in Calls, Begin(c)
  PROVE  ImportInv'
<1> DEFINE j == call[c].job
<1>1. /\ TypeOK /\ call[c].pc = "loaded" /\ j \in Jobs
      /\ UNCHANGED <<product, receipts, worker, cancelled, up, wrote, lost>>
  BY DEF ImportInv, TypeOK, Call, Begin
<1>2. \A k \in Jobs : job[k].status \in Statuses
  BY <1>1 DEF TypeOK, Job
<1>3. CASE job[j].status = "preview_ready" /\ To(j, "committing") /\ Goto(c, "begun")
  <2>1. /\ job' \in [Jobs -> Job] /\ job'[j].status = "committing"
        /\ \A k \in Jobs : job'[k].plan = job[k].plan
        /\ \A k \in Jobs \ {j} : job'[k].status = job[k].status
    BY <1>1, <1>3, ToStep DEF Statuses
  <2>2. /\ call' \in [Calls -> Call]
        /\ \A d \in Calls : call'[d].job = call[d].job /\ call[d].job \in Jobs
        /\ \A d \in Calls \ {c} : Busy(d)' <=> Busy(d)
    BY <1>1, <1>3, GotoStep
  <2>3. TypeOK'
    BY <1>1, <2>1, <2>2 DEF TypeOK
  <2>4. AppliedIffCommitted' /\ IdentityUnique' /\ PlanInv'
    BY <1>1, <1>3, <2>1, Untouched
  <2>5. CallInv'
    <3>1. \A d \in Calls : Busy(d) => call[d].job # j
      BY <1>3 DEF ImportInv, CallInv
    <3>2. c \in Calls /\ ~Busy(c)
      BY <1>1 DEF Busy
    <3> HIDE DEF j
    <3>3. call[c].job = j
      BY DEF j
    <3> QED
      BY <2>1, <2>2, <3>1, <3>2, <3>3 DEF ImportInv, CallInv
  <2>6. WorkInv'
    BY <1>1, <1>3, <2>1 DEF ImportInv, WorkInv
  <2>7. up # "down"
    BY <1>1 DEF ImportInv, DownInv
  <2> QED
    BY <1>1, <2>3, <2>4, <2>5, <2>6, <2>7 DEF ImportInv, DownInv
<1>4. CASE job[j].status = "committed" /\ Goto(c, "begun") /\ UNCHANGED job
  <2>1. /\ call' \in [Calls -> Call]
        /\ \A d \in Calls : call'[d].job = call[d].job /\ call[d].job \in Jobs
        /\ \A d \in Calls \ {c} : Busy(d)' <=> Busy(d)
    BY <1>1, <1>4, GotoStep
  <2>2. TypeOK'
    BY <1>1, <1>4, <2>1 DEF TypeOK
  <2>3. AppliedIffCommitted' /\ IdentityUnique' /\ PlanInv'
    BY <1>1, <1>4, Untouched
  <2>4. CallInv'
    BY <1>4, <2>1 DEF ImportInv, CallInv
  <2>5. WorkInv' /\ up # "down"
    BY <1>1, <1>4 DEF ImportInv, WorkInv, DownInv
  <2> QED
    BY <1>1, <2>2, <2>3, <2>4, <2>5 DEF ImportInv, DownInv
<1>5. CASE Goto(c, "idle") /\ UNCHANGED job
  <2>1. /\ call' \in [Calls -> Call] /\ call'[c].pc = "idle"
        /\ \A d \in Calls : call'[d].job = call[d].job /\ call[d].job \in Jobs
        /\ \A d \in Calls \ {c} : Busy(d)' <=> Busy(d)
    BY <1>1, <1>5, GotoStep
  <2>2. TypeOK'
    BY <1>1, <1>5, <2>1 DEF TypeOK
  <2>3. AppliedIffCommitted' /\ IdentityUnique' /\ PlanInv'
    BY <1>1, <1>5, Untouched
  <2>4. CallInv'
    <3>1. ~Busy(c)'
      BY <2>1 DEF Busy
    <3> QED
      BY <1>5, <2>1, <3>1 DEF ImportInv, CallInv
  <2>5. WorkInv' /\ up # "down"
    BY <1>1, <1>5 DEF ImportInv, WorkInv, DownInv
  <2> QED
    BY <1>1, <2>2, <2>3, <2>4, <2>5 DEF ImportInv, DownInv
<1> QED
  BY <1>3, <1>4, <1>5 DEF Begin

\* A call that fails changes its job only while no other call is at work on it.
LEMMA GiveUpStep ==
  ASSUME ImportInv, NEW c \in Calls, GiveUp(c)
  PROVE  ImportInv'
<1> DEFINE j == call[c].job
<1>1. /\ TypeOK /\ call[c].pc = "failing" /\ j \in Jobs /\ Fail(j) /\ Goto(c, "idle")
      /\ UNCHANGED <<product, receipts, worker, cancelled, up, wrote>>
  BY DEF ImportInv, TypeOK, Call, GiveUp
<1>2. Busy(c) /\ job[j].status \in {"committing", "committed"}
  BY <1>1 DEF ImportInv, CallInv, Busy
<1>3. /\ job' \in [Jobs -> Job] /\ lost' \subseteq Jobs
      /\ \A k \in Jobs : job'[k].plan = job[k].plan
      /\ \A k \in Jobs \ {j} : job'[k].status = job[k].status
      /\ \/ job'[j].status = job[j].status
         \/ job[j].status = "committing" /\ job'[j].status = "failed"
  BY <1>1, <1>2, FailStep DEF Failable
<1>4. /\ call' \in [Calls -> Call] /\ call'[c].pc = "idle"
      /\ \A d \in Calls : call'[d].job = call[d].job /\ call[d].job \in Jobs
      /\ \A d \in Calls \ {c} : Busy(d)' <=> Busy(d)
  BY <1>1, GotoStep
<1>5. TypeOK'
  BY <1>1, <1>3, <1>4 DEF TypeOK
<1>6. \A k \in Jobs : job'[k].status = "committed" <=> job[k].status = "committed"
  BY <1>3
<1>7. AppliedIffCommitted' /\ IdentityUnique' /\ PlanInv'
  BY <1>1, <1>3, <1>6, Untouched
<1>8. CallInv'
  <2>1. ~Busy(c)'
    BY <1>4 DEF Busy
  <2>2. job[j].status = "committing" =>
          \A d \in Calls \ {c} : Busy(d) => call[d].job # j
    BY <1>2 DEF ImportInv, CallInv
  <2> HIDE DEF j
  <2> QED
    BY <1>3, <1>4, <2>1, <2>2 DEF ImportInv, CallInv
<1>9. WorkInv' /\ up # "down"
  BY <1>1, <1>2, <1>3 DEF ImportInv, WorkInv, DownInv
<1> QED
  BY <1>1, <1>5, <1>7, <1>8, <1>9 DEF ImportInv, DownInv


-----------------------------------------------------------------------------
(* The end and the beginning of a process *)

LEMMA StopStep ==
  ASSUME ImportInv, Stop
  PROVE  ImportInv'
<1>1. /\ TypeOK /\ up' = "down" /\ cancelled' = {} /\ worker' = [j \in Jobs |-> NoWork]
      /\ call' = [c \in Calls |-> [call[c] EXCEPT !.pc = "idle"]]
      /\ UNCHANGED <<product, job, receipts, wrote, lost>>
  BY DEF ImportInv, Stop
<1>2. /\ NoWork \in Work /\ NoWork.plan.items = {} /\ NoWork.pc = "none"
  BY NoWorkType DEF NoWork, NoPlan
<1>3. \A j \in Jobs : worker'[j].pc = "none" /\ worker'[j].plan.items = {}
  BY <1>1, <1>2
<1>4. /\ call' \in [Calls -> Call]
      /\ \A c \in Calls : call'[c].pc = "idle"
  BY <1>1 DEF TypeOK, Call
<1>5. TypeOK'
  BY <1>1, <1>2, <1>4 DEF TypeOK
<1>6. AppliedIffCommitted' /\ IdentityUnique' /\ PlanInv'
  BY <1>1, <1>3, Untouched
<1>7. CallInv' /\ WorkInv' /\ DownInv'
  BY <1>3, <1>4 DEF CallInv, Busy, WorkInv, DownInv
<1> QED
  BY <1>5, <1>6, <1>7 DEF ImportInv

\* What a restart settles was not applied: a job is committed in the transaction
\* that writes its receipt.
LEMMA RestartStep ==
  ASSUME ImportInv, Restart
  PROVE  ImportInv'
<1>1. /\ TypeOK /\ up' = "up" /\ lost' = {}
      /\ job' = [j \in Jobs |-> [job[j] EXCEPT !.status = Reconciled(j)]]
      /\ UNCHANGED <<product, receipts, worker, cancelled, call, wrote>>
  BY DEF ImportInv, Restart
<1>2. /\ \A j \in Jobs : worker[j].pc = "none"
      /\ \A c \in Calls : call[c].pc = "idle"
  BY DEF ImportInv, DownInv, Restart
<1>3. \A j \in Jobs : Reconciled(j) \in Statuses
  BY <1>1 DEF TypeOK, Job, Statuses, Reconciled
<1>4. job' \in [Jobs -> Job]
  BY <1>1, <1>3 DEF TypeOK, Job
<1>5. \A j \in Jobs : job'[j].status = Reconciled(j) /\ job'[j].plan = job[j].plan
  BY <1>1 DEF TypeOK, Job
<1>6. \A j \in Jobs : job'[j].status = "committed" <=> job[j].status = "committed"
  <2>1. \A j \in Jobs : j \in receipts <=> job[j].status = "committed"
    BY DEF ImportInv, AppliedIffCommitted
  <2> QED
    BY <1>5, <2>1 DEF Reconciled, Unsettled
<1>7. TypeOK'
  BY <1>1, <1>4 DEF TypeOK
<1>8. AppliedIffCommitted' /\ IdentityUnique' /\ PlanInv'
  BY <1>1, <1>5, <1>6, Untouched
<1>9. CallInv' /\ WorkInv' /\ DownInv'
  BY <1>1, <1>2 DEF CallInv, Busy, WorkInv, DownInv
<1> QED
  BY <1>7, <1>8, <1>9 DEF ImportInv

-----------------------------------------------------------------------------
(* The catalog *)

\* What a step that writes products must show: it leaves a product alone or moves
\* its revision, and no two current products get one identity.
Moved(p) == product'[p] = product[p] \/ product'[p].rev > product[p].rev

LEMMA PlansStayTrue ==
  ASSUME TypeOK, PlanInv, product' \in [Products -> Product],
         \A p \in Products : Moved(p),
         \A p \in Products : product'[p].state = "absent" => product'[p].rev = 0,
         \A j \in Jobs : /\ job'[j].plan = job[j].plan /\ worker' = worker
  PROVE  PlanInv'
<1>1. \A p \in Products : product[p].rev \in Int /\ product'[p].rev \in Int
  BY DEF TypeOK, Product
<1>2. ASSUME NEW j \in Jobs, NEW i \in job[j].plan.items \cup worker[j].plan.items,
             i.action = "no_change"
      PROVE  /\ i.rev <= product'[i.product].rev
             /\ i.rev = product'[i.product].rev =>
                  product'[i.product].part = i.part /\ product'[i.product].maker = i.maker
  <2>1. i \in ItemSet
    BY DEF TypeOK, Job, Work, Plan
  <2>2. i.product \in Products /\ i.rev \in Int
    BY <2>1 DEF ItemSet
  <2>3. /\ i.rev <= product[i.product].rev
        /\ i.rev = product[i.product].rev =>
             product[i.product].part = i.part /\ product[i.product].maker = i.maker
    BY <1>2 DEF PlanInv
  <2> QED
    BY <1>1, <2>2, <2>3 DEF Moved
<1> QED
  BY <1>2 DEF PlanInv

\* An edit gives a product a value of a later revision, and an identity, if it has
\* one, that no other product has.
LEMMA ReplaceStep ==
  ASSUME ImportInv, NEW p \in Products, NEW v \in Product,
         product' = [product EXCEPT ![p] = v],
         v.rev > product[p].rev, v.state # "absent",
         v.state = "current" => IdentityFree(p, v.part, v.maker),
         UNCHANGED <<job, receipts, worker, cancelled, call, up, wrote, lost>>
  PROVE  ImportInv'
<1>1. TypeOK
  BY DEF ImportInv
<1>2. /\ product' \in [Products -> Product]
      /\ product'[p] = v /\ \A q \in Products \ {p} : product'[q] = product[q]
  BY <1>1 DEF TypeOK
<1>3. TypeOK'
  BY <1>1, <1>2 DEF TypeOK
<1>4. IdentityUnique'
  <2>1. IdentityUnique
    BY DEF ImportInv
  <2>2. ASSUME NEW q \in Products, NEW r \in Products,
               product'[q].state = "current", product'[r].state = "current",
               product'[q].part = product'[r].part, product'[q].maker = product'[r].maker
        PROVE  q = r
    <3>1. CASE q # p /\ r # p
      BY <1>2, <2>1, <2>2, <3>1 DEF IdentityUnique, Current
    <3>2. CASE q = p /\ r # p
      BY <1>2, <2>2, <3>2 DEF IdentityFree, Current
    <3>3. CASE q # p /\ r = p
      BY <1>2, <2>2, <3>3 DEF IdentityFree, Current
    <3> QED
      BY <3>1, <3>2, <3>3
  <2> QED
    BY <2>2 DEF IdentityUnique, Current
<1>5. PlanInv'
  <2>1. \A q \in Products : Moved(q)
    BY <1>2 DEF Moved
  <2>2. PlanInv /\ \A q \in Products : product[q].state = "absent" => product[q].rev = 0
    BY DEF ImportInv, PlanInv
  <2>3. \A q \in Products : product'[q].state = "absent" => product'[q].rev = 0
    BY <1>2, <2>2
  <2> QED
    BY <1>1, <1>2, <2>1, <2>2, <2>3, PlansStayTrue
<1>6. AppliedIffCommitted' /\ CallInv' /\ WorkInv' /\ DownInv'
  BY <1>1 DEF ImportInv, AppliedIffCommitted, CallInv, WorkInv, DownInv, Busy
<1> QED
  BY <1>3, <1>4, <1>5, <1>6 DEF ImportInv

\* What an edit does to a product.
LEMMA EditStep ==
  ASSUME ImportInv, NEW p \in Products, Edit(p)
  PROVE  ImportInv'
<1>1. TypeOK /\ up = "up" /\ UNCHANGED <<job, receipts, worker, cancelled, call, up, wrote, lost>>
  BY DEF ImportInv, Edit
<1>2. MaxRev \in Nat \ {0}
  BY ImportAssumption
<1>3. PICK part \in Parts, maker \in Makers \cup {Blank}, text \in Texts :
       \/ /\ Fresh(p) /\ IdentityFree(p, part, maker)
          /\ product' = [product EXCEPT ![p] = [state |-> "current", part |-> part,
                           maker |-> maker, text |-> text, rev |-> 1]]
       \/ /\ Current(p) /\ product[p].rev < MaxRev /\ IdentityFree(p, part, maker)
          /\ product' = [product EXCEPT ![p].part = part, ![p].maker = maker,
                           ![p].text = text, ![p].rev = @ + 1]
       \/ /\ Current(p) /\ product[p].rev < MaxRev
          /\ product' = [product EXCEPT ![p].state = "archived", ![p].rev = @ + 1]
  BY DEF Edit
<1>4. product[p] \in Product
  BY <1>1 DEF TypeOK
<1>5. CASE /\ Fresh(p) /\ IdentityFree(p, part, maker)
           /\ product' = [product EXCEPT ![p] = [state |-> "current", part |-> part,
                            maker |-> maker, text |-> text, rev |-> 1]]
  <2> DEFINE new == [state |-> "current", part |-> part, maker |-> maker,
                   text |-> text, rev |-> 1]
  <2>1. product[p].rev = 0
    BY <1>5 DEF ImportInv, PlanInv, Fresh
  <2>2. new \in Product
    BY <1>2 DEF Product
  <2>3. product' = [product EXCEPT ![p] = new]
    BY <1>5
  <2>4. new.rev = 1 /\ new.state = "current" /\ new.part = part /\ new.maker = maker
    OBVIOUS
  <2>5. IdentityFree(p, part, maker)
    BY <1>5
  <2> HIDE DEF new
  <2>6. new.rev > product[p].rev
    BY <2>1, <2>4
  <2>7. IdentityFree(p, new.part, new.maker)
    BY <2>4, <2>5
  <2>8. new.state # "absent"
    BY <2>4
  <2> QED
    BY <1>1, <2>2, <2>3, <2>6, <2>7, <2>8, ReplaceStep
<1>6. CASE /\ Current(p) /\ product[p].rev < MaxRev /\ IdentityFree(p, part, maker)
           /\ product' = [product EXCEPT ![p].part = part, ![p].maker = maker,
                            ![p].text = text, ![p].rev = @ + 1]
  <2> DEFINE new == [product[p] EXCEPT !.part = part, !.maker = maker, !.text = text,
                                     !.rev = product[p].rev + 1]
  <2>1. product[p].rev \in Int /\ product[p].rev + 1 \in 0..MaxRev
    BY <1>2, <1>4, <1>6 DEF Product
  <2>2. new \in Product
    BY <1>4, <2>1 DEF Product
  <2>3. new.rev = product[p].rev + 1 /\ new.part = part /\ new.maker = maker
    BY <1>4 DEF Product
  <2>4. new.state = "current"
    BY <1>4, <1>6 DEF Product, Current
  <2>5. product' = [product EXCEPT ![p] = new]
    BY <1>1, <1>6 DEF TypeOK
  <2>6. IdentityFree(p, part, maker)
    BY <1>6
  <2> HIDE DEF new
  <2>7. new.rev > product[p].rev
    BY <2>1, <2>3
  <2>8. IdentityFree(p, new.part, new.maker)
    BY <2>3, <2>6
  <2>9. new.state # "absent"
    BY <2>4
  <2> QED
    BY <1>1, <2>2, <2>5, <2>7, <2>8, <2>9, ReplaceStep
<1>7. CASE /\ Current(p) /\ product[p].rev < MaxRev
           /\ product' = [product EXCEPT ![p].state = "archived", ![p].rev = @ + 1]
  <2> DEFINE new == [product[p] EXCEPT !.state = "archived", !.rev = product[p].rev + 1]
  <2>1. product[p].rev \in Int /\ product[p].rev + 1 \in 0..MaxRev
    BY <1>2, <1>4, <1>7 DEF Product
  <2>2. new \in Product
    BY <1>4, <2>1 DEF Product
  <2>3. new.rev = product[p].rev + 1 /\ new.state = "archived"
    BY <1>4 DEF Product
  <2>4. product' = [product EXCEPT ![p] = new]
    BY <1>1, <1>7 DEF TypeOK
  <2> HIDE DEF new
  <2>5. new.rev > product[p].rev
    BY <2>1, <2>3
  <2>6. new.state # "absent" /\ new.state # "current"
    BY <2>3
  <2> QED
    BY <1>1, <2>2, <2>4, <2>5, <2>6, ReplaceStep
<1> QED
  BY <1>3, <1>5, <1>6, <1>7


-----------------------------------------------------------------------------
(* The commit *)

\* What CommitImport makes of an item it accepts is a current product with the item's
\* identity, unchanged or of a later revision.
LEMMA AppliedItem ==
  ASSUME ImportInv, NEW j \in Jobs, NEW i \in job[j].plan.items, Acceptable(i),
         i.action = "update" => product[i.product].rev < MaxRev
  PROVE  /\ i.product \in Products /\ Applied(i) \in Product
         /\ Applied(i).state = "current"
         /\ Applied(i).part = i.part /\ Applied(i).maker = i.maker
         /\ Applied(i) = product[i.product] \/ Applied(i).rev > product[i.product].rev
<1>1. TypeOK /\ i \in ItemSet
  BY DEF ImportInv, TypeOK, Job, Plan
<1>2. /\ i.product \in Products /\ i.part \in Parts /\ i.maker \in Makers \cup {Blank}
      /\ i.text \in Texts \cup {Blank} /\ i.action \in {"create", "update", "no_change"}
  BY <1>1 DEF ItemSet
<1>3. product[i.product] \in Product /\ product[i.product].rev \in 0..MaxRev
  BY <1>1, <1>2 DEF TypeOK, Product
<1>4. MaxRev \in Nat \ {0}
  BY ImportAssumption
<1>5. CASE i.action = "no_change"
  <2>1. product[i.product].state = "current" /\ product[i.product].rev = i.rev
    BY <1>5 DEF Acceptable, Unmoved, Current
  <2>2. product[i.product].part = i.part /\ product[i.product].maker = i.maker
    BY <1>5, <2>1 DEF ImportInv, PlanInv
  <2>3. Applied(i) = product[i.product]
    BY <1>5 DEF Applied
  <2> QED
    BY <1>2, <1>3, <2>1, <2>2, <2>3
<1>6. CASE i.action = "create"
  <2>1. product[i.product].rev = 0
    BY <1>2, <1>6 DEF Acceptable, ImportInv, PlanInv
  <2>2. Applied(i) = [state |-> "current", part |-> i.part, maker |-> i.maker,
                      text |-> i.text, rev |-> 1]
    BY <1>6 DEF Applied
  <2> QED
    BY <1>2, <1>4, <2>1, <2>2 DEF Product
<1>7. CASE i.action = "update"
  <2>1. Applied(i) = [state |-> "current", part |-> i.part, maker |-> i.maker,
                      text |-> i.text, rev |-> product[i.product].rev + 1]
    BY <1>7 DEF Applied
  <2>2. product[i.product].rev + 1 \in 0..MaxRev
    BY <1>3, <1>4, <1>7
  <2>3. product[i.product].rev + 1 > product[i.product].rev
    BY <1>3
  <2> QED
    BY <1>2, <2>1, <2>2, <2>3 DEF Product
<1> QED
  BY <1>2, <1>5, <1>6, <1>7

\* What a commit that goes through does to the products.
LEMMA CommittedProducts ==
  ASSUME ImportInv, NEW j \in Jobs, NEW items, items = job[j].plan.items,
         \A i \in items : Acceptable(i),
         \A i, k \in items : i.part = k.part /\ i.maker = k.maker => i = k,
         \A i \in items : i.action = "update" => product[i.product].rev < MaxRev,
         product' = [p \in Products |->
                       IF \E i \in items : i.product = p
                       THEN Applied(CHOOSE i \in items : i.product = p)
                       ELSE product[p]]
  PROVE  /\ product' \in [Products -> Product]
         /\ \A p \in Products : Moved(p)
         /\ \A p \in Products : product'[p].state = "absent" => product'[p].rev = 0
         /\ IdentityUnique'
<1>1. \A p \in Products :
        \/ product'[p] = product[p] /\ ~ \E i \in items : i.product = p
        \/ \E i \in items : i.product = p /\ product'[p] = Applied(i)
  OBVIOUS
<1>2. \A i \in items :
        /\ Applied(i) \in Product /\ Applied(i).state = "current"
        /\ Applied(i).part = i.part /\ Applied(i).maker = i.maker
        /\ Applied(i) = product[i.product] \/ Applied(i).rev > product[i.product].rev
  BY AppliedItem
<1>3. product' \in [Products -> Product]
  <2>1. \A p \in Products : product[p] \in Product
    BY DEF ImportInv, TypeOK
  <2>2. \A p \in Products : product'[p] \in Product
    BY <1>1, <1>2, <2>1
  <2>3. DOMAIN product' = Products /\ product' = [p \in Products |-> product'[p]]
    OBVIOUS
  <2> QED
    BY <2>2, <2>3
<1>4. \A p \in Products : Moved(p)
  BY <1>1, <1>2 DEF Moved
<1>5. \A p \in Products : product'[p].state = "absent" => product'[p].rev = 0
  <2>1. \A p \in Products : product[p].state = "absent" => product[p].rev = 0
    BY DEF ImportInv, PlanInv
  <2> QED
    BY <1>1, <1>2, <2>1
<1>6. ASSUME NEW p \in Products, NEW q \in Products,
             product'[p].state = "current", product'[q].state = "current",
             product'[p].part = product'[q].part, product'[p].maker = product'[q].maker
      PROVE  p = q
  <2>1. CASE product'[p] = product[p] /\ product'[q] = product[q]
    BY <1>6, <2>1 DEF ImportInv, IdentityUnique, Current
  <2>2. ASSUME NEW i \in items, i.product = p, product'[p] = Applied(i),
               product'[q] = product[q]
        PROVE  p = q
    <3>1. IdentityFree(p, i.part, i.maker)
      BY <2>2 DEF Acceptable
    <3> QED
      BY <1>2, <1>6, <2>2, <3>1 DEF IdentityFree, Current
  <2>3. ASSUME NEW i \in items, i.product = q, product'[q] = Applied(i),
               product'[p] = product[p]
        PROVE  p = q
    <3>1. IdentityFree(q, i.part, i.maker)
      BY <2>3 DEF Acceptable
    <3> QED
      BY <1>2, <1>6, <2>3, <3>1 DEF IdentityFree, Current
  <2>4. ASSUME NEW i \in items, i.product = p, product'[p] = Applied(i),
               NEW k \in items, k.product = q, product'[q] = Applied(k)
        PROVE  p = q
    BY <1>2, <1>6, <2>4
  <2> QED
    BY <1>1, <2>1, <2>2, <2>3, <2>4
<1>7. IdentityUnique'
  BY <1>6 DEF IdentityUnique, Current
<1> QED
  BY <1>3, <1>4, <1>5, <1>7

\* Only one call applies a job: the others find its receipt.
LEMMA CommitStep ==
  ASSUME ImportInv, NEW c \in Calls, Commit(c)
  PROVE  ImportInv'
<1> DEFINE j == call[c].job
           items == job[j].plan.items
           done == IF job[j].status = "committing" THEN "committed" ELSE job[j].status
<1>1. /\ TypeOK /\ call[c].pc = "begun" /\ Busy(c) /\ j \in Jobs
      /\ UNCHANGED <<worker, cancelled, up, lost>>
  BY DEF ImportInv, TypeOK, Call, Commit, Busy
<1>2. /\ job[j].status \in {"committing", "committed"} /\ up # "down"
      /\ j \in receipts <=> job[j].status = "committed"
  BY <1>1 DEF ImportInv, CallInv, DownInv, AppliedIffCommitted
<1>3. done = "committed"
  BY <1>2
<1>4. CASE Replay(j) /\ UNCHANGED <<product, receipts, wrote>> /\ To(j, done) /\ Goto(c, "idle")
  <2>1. /\ job' \in [Jobs -> Job] /\ job'[j].status = "committed"
        /\ job[j].status = "committed"
        /\ \A k \in Jobs : job'[k].plan = job[k].plan
        /\ \A k \in Jobs \ {j} : job'[k].status = job[k].status
    BY <1>1, <1>2, <1>3, <1>4, ToStep DEF Statuses, Replay
  <2>2. /\ call' \in [Calls -> Call] /\ call'[c].pc = "idle"
        /\ \A d \in Calls : call'[d].job = call[d].job /\ call[d].job \in Jobs
        /\ \A d \in Calls \ {c} : Busy(d)' <=> Busy(d)
    BY <1>1, <1>4, GotoStep
  <2> HIDE DEF j
  <2>3. TypeOK'
    BY <1>1, <1>4, <2>1, <2>2 DEF TypeOK
  <2>4. AppliedIffCommitted' /\ IdentityUnique' /\ PlanInv'
    BY <1>1, <1>4, <2>1, Untouched
  <2>5. ~Busy(c)' /\ \A k \in Jobs : job'[k].status = job[k].status
    BY <2>1, <2>2 DEF Busy
  <2>6. CallInv' /\ WorkInv' /\ DownInv'
    BY <1>1, <1>2, <2>2, <2>5 DEF ImportInv, CallInv, WorkInv, DownInv
  <2> QED
    BY <2>3, <2>4, <2>6 DEF ImportInv
<1>5. CASE /\ ~Replay(j)
           /\ \A i \in items : Acceptable(i)
           /\ \A i, k \in items : i.part = k.part /\ i.maker = k.maker => i = k
           /\ \A i \in items : i.action = "update" => product[i.product].rev < MaxRev
           /\ product' = [p \in Products |->
                            IF \E i \in items : i.product = p
                            THEN Applied(CHOOSE i \in items : i.product = p)
                            ELSE product[p]]
           /\ receipts' = receipts \cup {j}
           /\ wrote' = [wrote EXCEPT ![j] = @ + 1]
           /\ To(j, done) /\ Goto(c, "idle")
  <2>1. /\ job' \in [Jobs -> Job] /\ job'[j].status = "committed"
        /\ job[j].status = "committing"
        /\ \A k \in Jobs : job'[k].plan = job[k].plan
        /\ \A k \in Jobs \ {j} : job'[k].status = job[k].status
    BY <1>1, <1>2, <1>3, <1>5, ToStep DEF Statuses, Replay
  <2>2. /\ call' \in [Calls -> Call] /\ call'[c].pc = "idle"
        /\ \A d \in Calls : call'[d].job = call[d].job /\ call[d].job \in Jobs
        /\ \A d \in Calls \ {c} : Busy(d)' <=> Busy(d)
    BY <1>1, <1>5, GotoStep
  <2>3. /\ product' \in [Products -> Product]
        /\ \A p \in Products : Moved(p)
        /\ \A p \in Products : product'[p].state = "absent" => product'[p].rev = 0
        /\ IdentityUnique'
    BY <1>1, <1>5, CommittedProducts
  <2>4. PlanInv'
    BY <1>1, <2>1, <2>3, PlansStayTrue DEF ImportInv
  <2> HIDE DEF j, items
  <2>5. wrote' \in [Jobs -> Nat] /\ receipts' \subseteq Jobs
    BY <1>1, <1>5 DEF TypeOK
  <2>6. TypeOK'
    BY <1>1, <2>1, <2>2, <2>3, <2>5 DEF TypeOK
  <2>7. AppliedIffCommitted'
    <3>1. AppliedIffCommitted
      BY DEF ImportInv
    <3>2. wrote'[j] = 1 /\ \A k \in Jobs \ {j} : wrote'[k] = wrote[k]
      BY <1>1, <1>5, <2>1, <3>1 DEF TypeOK, AppliedIffCommitted
    <3> QED
      BY <1>1, <1>5, <2>1, <3>1, <3>2 DEF AppliedIffCommitted
  <2>8. CallInv'
    <3>1. ~Busy(c)'
      BY <2>2 DEF Busy
    <3> QED
      BY <1>1, <2>1, <2>2, <3>1 DEF ImportInv, CallInv
  <2>9. WorkInv' /\ DownInv'
    BY <1>1, <1>2, <2>1 DEF ImportInv, WorkInv, DownInv
  <2> QED
    BY <2>3, <2>4, <2>6, <2>7, <2>8, <2>9 DEF ImportInv
<1>6. CASE Goto(c, "failing") /\ UNCHANGED <<product, receipts, wrote, job>>
  <2>1. /\ call' \in [Calls -> Call]
        /\ \A d \in Calls : call'[d].job = call[d].job /\ call[d].job \in Jobs
        /\ \A d \in Calls \ {c} : Busy(d)' <=> Busy(d)
    BY <1>1, <1>6, GotoStep
  <2>2. TypeOK'
    BY <1>1, <1>6, <2>1 DEF TypeOK
  <2>3. AppliedIffCommitted' /\ IdentityUnique' /\ PlanInv'
    BY <1>1, <1>6, Untouched
  <2>4. CallInv'
    <3>1. \A d \in Calls : Busy(d)' => Busy(d)
      BY <1>1, <2>1
    <3> QED
      BY <1>6, <2>1, <3>1 DEF ImportInv, CallInv
  <2>5. WorkInv' /\ DownInv'
    BY <1>1, <1>2, <1>6 DEF ImportInv, WorkInv, DownInv
  <2> QED
    BY <2>2, <2>3, <2>4, <2>5 DEF ImportInv
<1> QED
  BY <1>4, <1>5, <1>6 DEF Commit

-----------------------------------------------------------------------------
(* The theorems *)

LEMMA InitImport ==
  ASSUME Init
  PROVE  ImportInv
<1>1. NoPlan \in Plan /\ NoWork \in Work /\ NoWork.pc = "none"
      /\ NoWork.plan.items = {} /\ NoPlan.items = {}
  BY NoWorkType DEF NoWork, NoPlan
<1>2. PICK f \in Files : f = CHOOSE g \in Files : TRUE
  BY ImportAssumption
<1>3. PICK k \in Jobs : k = CHOOSE j \in Jobs : TRUE
  BY ImportAssumption
<1>4. /\ job = [j \in Jobs |-> [status |-> "none", file |-> f, plan |-> NoPlan]]
      /\ call = [c \in Calls |-> [pc |-> "idle", job |-> k]]
      /\ worker = [j \in Jobs |-> NoWork] /\ wrote = [j \in Jobs |-> 0]
      /\ product = InitProduct /\ receipts = {} /\ cancelled = {} /\ lost = {} /\ up = "up"
  BY <1>2, <1>3 DEF Init
<1>5. job \in [Jobs -> Job] /\ call \in [Calls -> Call]
  BY <1>1, <1>4 DEF Job, Call, Statuses
<1>6. TypeOK
  BY <1>1, <1>4, <1>5, InitAssumption DEF TypeOK
<1>7. AppliedIffCommitted /\ CallInv /\ WorkInv /\ DownInv
  BY <1>1, <1>4 DEF AppliedIffCommitted, CallInv, Busy, WorkInv, DownInv
<1>8. IdentityUnique
  BY <1>4, InitAssumption DEF IdentityUnique, Current
<1>9. PlanInv
  BY <1>1, <1>4, InitAssumption DEF PlanInv
<1> QED
  BY <1>6, <1>7, <1>8, <1>9 DEF ImportInv

LEMMA NextImport ==
  ASSUME ImportInv, [Next]_vars
  PROVE  ImportInv'
<1>1. CASE UNCHANGED vars
  <2>1. TypeOK' /\ CallInv' /\ WorkInv' /\ DownInv'
    BY <1>1 DEF vars, ImportInv, TypeOK, CallInv, Busy, WorkInv, DownInv
  <2>2. AppliedIffCommitted' /\ IdentityUnique' /\ PlanInv'
    BY <1>1, Untouched DEF vars
  <2> QED
    BY <2>1, <2>2 DEF ImportInv
<1>2. ASSUME NEW p \in Products, Edit(p) PROVE ImportInv'
  BY <1>2, EditStep
<1>3. ASSUME NEW j \in Jobs, NEW f \in Files, Upload(j, f) PROVE ImportInv'
  BY <1>3, UploadStep
<1>4. ASSUME NEW j \in Jobs, Labour(j) PROVE ImportInv'
  BY <1>4, LaunchStep, StartStep, ParseStep, SaveStep DEF Labour
<1>5. ASSUME NEW j \in Jobs, Cancel(j) PROVE ImportInv'
  BY <1>5, CancelStep
<1>6. ASSUME NEW j \in Jobs, CancelContext(j) PROVE ImportInv'
  <2>1. up \in {"up", "draining"} /\ cancelled \subseteq Jobs
    BY <1>6 DEF CancelContext, ImportInv, TypeOK, DownInv
  <2> QED
    BY <1>6, <2>1, ContextStep DEF CancelContext
<1>7. ASSUME NEW c \in Calls, NEW j \in Jobs, Load(c, j) PROVE ImportInv'
  BY <1>7, LoadStep
<1>8. ASSUME NEW c \in Calls, Proceed(c) PROVE ImportInv'
  BY <1>8, BeginStep, CommitStep, GiveUpStep DEF Proceed
<1>9. CASE Drain
  <2>1. cancelled' \subseteq Jobs
    BY <1>9 DEF Drain, ImportInv, TypeOK
  <2> QED
    BY <1>9, <2>1, ContextStep DEF Drain
<1>10. CASE Exit \/ Crash
  BY <1>10, StopStep DEF Exit, Crash
<1>11. CASE Restart
  BY <1>11, RestartStep
<1> QED
  BY <1>1, <1>2, <1>3, <1>4, <1>5, <1>6, <1>7, <1>8, <1>9, <1>10, <1>11 DEF Next

\* The inductive invariant holds of every run, for any number of products, jobs,
\* calls and files: what import_job_store.go's transitions and CommitImport keep.
THEOREM ImportInvariant == Spec => []ImportInv
<1>1. Init => ImportInv
  BY InitImport
<1>2. ImportInv /\ [Next]_vars => ImportInv'
  BY NextImport
<1> QED
  BY <1>1, <1>2, PTL DEF Spec

\* A job's changes are in the catalog once, exactly when it says committed and has a
\* receipt: BeginImportCommit admits one call and the receipt answers the others.
THEOREM AppliedOnce == Spec => []AppliedIffCommitted
<1>1. ImportInv => AppliedIffCommitted
  BY DEF ImportInv
<1> QED
  BY <1>1, ImportInvariant, PTL

\* No two current products ever have one part number and manufacturer: CommitImport
\* checks identities in the transaction that writes them.
THEOREM OneIdentity == Spec => []IdentityUnique
<1>1. ImportInv => IdentityUnique
  BY DEF ImportInv
<1> QED
  BY <1>1, ImportInvariant, PTL


\* A step leaves the status of a job alone or finds it in one that is not final.
LEMMA FinalStep ==
  ASSUME ImportInv, [Next]_vars, NEW j \in Jobs, job[j].status \in Final
  PROVE  job'[j].status = job[j].status
<1>1. TypeOK
  BY DEF ImportInv
<1>2. ASSUME NEW k \in Jobs, NEW s \in Statuses, To(k, s), k # j \/ s = job[k].status
      PROVE  job'[j].status = job[j].status
  BY <1>1, <1>2, ToStep
<1>3. ASSUME NEW k \in Jobs, Fail(k) PROVE job'[j].status = job[j].status
  <2>1. k = j => ~Failable(job[k].status)
    BY DEF Failable, Final
  <2> QED
    BY <1>1, <1>3, <2>1, FailStep
<1>4. CASE UNCHANGED job
  BY <1>4
<1>5. ASSUME NEW k \in Jobs, NEW f \in Files, Upload(k, f)
      PROVE  job'[j].status = job[j].status
  <2>1. k # j
    BY <1>5 DEF Upload, Final
  <2> QED
    BY <1>1, <1>5, <2>1 DEF Upload, TypeOK
<1>6. ASSUME NEW k \in Jobs, Labour(k) PROVE job'[j].status = job[j].status
  <2>1. CASE UNCHANGED job \/ Fail(k)
    BY <1>3, <2>1
  <2>2. CASE job[k].status = "queued" /\ To(k, "parsing")
    BY <1>2, <2>2 DEF Final, Statuses
  <2>3. CASE /\ job[k].status = "parsing"
             /\ job' = [job EXCEPT ![k].status = "preview_ready", ![k].plan = worker[k].plan]
    <3>1. k # j
      BY <2>3 DEF Final
    <3> QED
      BY <1>1, <2>3, <3>1 DEF TypeOK
  <2> QED
    BY <1>6, <2>1, <2>2, <2>3 DEF Labour, Launch, Start, Parse, Save
<1>7. ASSUME NEW k \in Jobs, Cancel(k) PROVE job'[j].status = job[j].status
  BY <1>2, <1>7 DEF Cancel, Final, Statuses
<1>8. ASSUME NEW c \in Calls, Proceed(c) PROVE job'[j].status = job[j].status
  <2> DEFINE k == call[c].job
             done == IF job[k].status = "committing" THEN "committed" ELSE job[k].status
  <2>1. k \in Jobs /\ job[k].status \in Statuses
    BY <1>1 DEF TypeOK, Call, Job
  <2>2. k = j => job[k].status # "preview_ready" /\ done = job[k].status
    BY DEF Final
  <2>3. CASE UNCHANGED job \/ Fail(k)
    BY <1>3, <2>1, <2>3
  <2>4. CASE job[k].status = "preview_ready" /\ To(k, "committing")
    BY <1>2, <2>1, <2>2, <2>4 DEF Statuses
  <2>5. CASE To(k, done)
    <3>1. done \in Statuses
      BY <2>1 DEF Statuses
    <3> HIDE DEF k, done
    <3> QED
      BY <1>2, <2>1, <2>2, <2>5, <3>1
  <2> QED
    BY <1>8, <2>3, <2>4, <2>5 DEF Proceed, Begin, Commit, GiveUp
<1>9. CASE Restart
  <2>1. job'[j].status = Reconciled(j)
    BY <1>1, <1>9 DEF Restart, TypeOK, Job
  <2> QED
    BY <2>1 DEF Reconciled, Final, Unsettled
<1> QED
  BY <1>4, <1>5, <1>6, <1>7, <1>8, <1>9
     DEF Next, vars, Edit, CancelContext, Load, Drain, Exit, Crash, Stop

\* What is committed, cancelled, failed or interrupted stays so: each transition of
\* import_job_store.go names the statuses it starts from.
THEOREM FinalStatusStays == Spec => FinalStays
<1>1. ImportInv /\ [Next]_vars =>
        [\A j \in Jobs : job[j].status \in Final => job'[j].status = job[j].status]_vars
  BY FinalStep
<1> QED
  BY <1>1, ImportInvariant, PTL DEF Spec, FinalStays

-----------------------------------------------------------------------------
(* What a plan says of its rows *)

\* Revisions only grow, and what a product is changes with its revision only.
LEMMA RevisionsGrow ==
  ASSUME ImportInv, [Next]_vars
  PROVE  \A p \in Products : Moved(p)
<1>1. TypeOK /\ \A p \in Products : product[p].rev \in Int
  BY DEF ImportInv, TypeOK, Product
<1>2. CASE UNCHANGED product
  BY <1>2 DEF Moved
<1>3. ASSUME NEW p \in Products, Edit(p) PROVE \A q \in Products : Moved(q)
  <2>1. \A q \in Products \ {p} : product'[q] = product[q]
    BY <1>1, <1>3 DEF Edit, TypeOK
  <2>2. Fresh(p) => product[p].rev = 0
    BY DEF ImportInv, PlanInv, Fresh
  <2>3. product'[p].rev > product[p].rev
    BY <1>1, <1>3, <2>2 DEF Edit, TypeOK, Product
  <2> QED
    BY <2>1, <2>3 DEF Moved
<1>4. ASSUME NEW c \in Calls, Commit(c) PROVE \A q \in Products : Moved(q)
  <2>1. CASE UNCHANGED product
    BY <2>1 DEF Moved
  <2> DEFINE items == job[call[c].job].plan.items
  <2>2. CASE /\ \A i \in items : Acceptable(i)
             /\ \A i, k \in items : i.part = k.part /\ i.maker = k.maker => i = k
             /\ \A i \in items : i.action = "update" => product[i.product].rev < MaxRev
             /\ product' = [p \in Products |->
                              IF \E i \in items : i.product = p
                              THEN Applied(CHOOSE i \in items : i.product = p)
                              ELSE product[p]]
    <3>1. call[c].job \in Jobs
      BY <1>1 DEF TypeOK, Call
    <3> QED
      BY <2>2, <3>1, CommittedProducts
  <2> QED
    BY <1>4, <2>1, <2>2 DEF Commit
<1> QED
  BY <1>2, <1>3, <1>4 DEF Next, vars, Upload, Labour, Launch, Start, Parse, Save, Cancel,
     CancelContext, Load, Proceed, Begin, GiveUp, Drain, Exit, Crash, Stop, Restart

\* A plan that is kept says what it said.
LEMMA PlanKept ==
  ASSUME TypeOK, product' \in [Products -> Product], \A p \in Products : Moved(p),
         NEW file, NEW plan \in Plan, PlanOf(file, plan, product)
  PROVE  PlanOf(file, plan, product')
<1>1. ASSUME NEW i \in plan.items, NEW row, Bears(i, row, product[i.product])
      PROVE  Bears(i, row, product'[i.product])
  <2>1. i.product \in Products /\ i.rev \in Int
    BY DEF Plan, ItemSet
  <2>2. product[i.product].rev \in Int /\ product'[i.product].rev \in Int
    BY <2>1 DEF TypeOK, Product
  <2>3. Moved(i.product)
    BY <2>1
  <2>4. CASE product'[i.product] = product[i.product]
    BY <1>1, <2>4
  <2>5. CASE product'[i.product].rev > product[i.product].rev
    BY <1>1, <2>1, <2>2, <2>5 DEF Bears
  <2> QED
    BY <2>3, <2>4, <2>5 DEF Moved
<1> QED
  BY <1>1 DEF PlanOf

LEMMA NoPlanOf ==
  ASSUME NEW file, NEW catalog
  PROVE  PlanOf(file, NoPlan, catalog)
  BY DEF PlanOf, NoPlan

\* A row becomes an item that bears its values and the product's.
LEMMA RowItemBears ==
  ASSUME TypeOK, NEW file, NEW row \in Row, row \in file.rows,
         NEW new \in [Unmatched(file) -> Products], NEW i, i = RowItem(file.mode, row, new)
  PROVE  /\ Bears(i, row, product[i.product])
         /\ \/ i.product \in Matches(file.mode, row)
            \/ row \in Unmatched(file) /\ i.product = new[row]
<1> DEFINE M == Matches(file.mode, row)
           p == CHOOSE q \in M : TRUE
           value == Merged(product[p], row)
           same == \A f \in {"part", "maker", "text"} : value[f] = product[p][f]
<1>1. CASE M = {}
  <2>1. i = ItemFor(new[row], "create", row)
    BY <1>1 DEF RowItem
  <2> QED
    BY <1>1, <2>1 DEF ItemFor, Bears, Unmatched
<1>2. CASE M # {}
  <2>1. p \in M /\ p \in Products
    BY <1>2 DEF Matches
  <2>2. product[p].rev \in Int
    BY <2>1 DEF TypeOK, Product
  <2>3. i = ItemFor(p, IF same THEN "no_change" ELSE "update", value)
    BY <1>2 DEF RowItem
  <2>4. /\ value.part = row.part
        /\ row.maker # Blank => value.maker = row.maker
        /\ row.maker = Blank => value.maker = product[p].maker
        /\ row.text # Blank => value.text = row.text
        /\ row.text = Blank => value.text = product[p].text
    BY DEF Merged
  <2>5. same => value.text = product[p].text
    OBVIOUS
  <2> HIDE DEF p, value, same
  <2>6. /\ i.product = p /\ i.rev = product[p].rev /\ i.part = value.part
        /\ i.maker = value.maker /\ i.text = value.text
        /\ i.action = "no_change" => same
    BY <2>3 DEF ItemFor
  <2> QED
    BY <2>1, <2>2, <2>4, <2>5, <2>6 DEF Bears
<1> QED
  BY <1>1, <1>2

\* BuildImportPreview: without a flaw every row has an item, no two of them for one
\* product, since each new product has an identifier of its own.
LEMMA PreviewOfRows ==
  ASSUME TypeOK, NEW file \in Files,
         NEW new \in [Unmatched(file) -> {p \in Products : Fresh(p)}],
         \A r, s \in Unmatched(file) : new[r] = new[s] => r = s
  PROVE  PlanOf(file, PreviewOf(file, new), product)
<1> DEFINE plan == PreviewOf(file, new)
<1>1. /\ file.rows \subseteq Row /\ new \in [Unmatched(file) -> Products]
      /\ \A r \in Unmatched(file) : ~ Current(new[r])
  BY ImportAssumption DEF Fresh, Current
<1>2. /\ plan.valid <=> ~ Flawed(file)
      /\ Flawed(file) => plan.items = {}
      /\ ~ Flawed(file) => plan.items = {RowItem(file.mode, row, new) : row \in file.rows}
  BY DEF PreviewOf
<1> HIDE DEF plan
<1>3. ASSUME Flawed(file) PROVE PlanOf(file, plan, product)
  BY <1>2, <1>3 DEF PlanOf
<1>4. ASSUME ~ Flawed(file) PROVE PlanOf(file, plan, product)
  <2>1. ASSUME NEW row \in file.rows
        PROVE  LET i == RowItem(file.mode, row, new)
               IN  /\ Bears(i, row, product[i.product])
                   /\ \/ i.product \in Matches(file.mode, row)
                      \/ row \in Unmatched(file) /\ i.product = new[row]
    BY <1>1, RowItemBears
  <2>2. ASSUME NEW r \in file.rows, NEW s \in file.rows,
               RowItem(file.mode, r, new).product = RowItem(file.mode, s, new).product
        PROVE  r = s
    <3> DEFINE p == RowItem(file.mode, r, new).product
    <3>1. /\ p \in Matches(file.mode, r) \/ (r \in Unmatched(file) /\ p = new[r])
          /\ p \in Matches(file.mode, s) \/ (s \in Unmatched(file) /\ p = new[s])
      BY <2>1, <2>2
    <3> HIDE DEF p
    <3>2. CASE {r, s} \subseteq Unmatched(file) /\ p = new[r] /\ p = new[s]
      BY <3>2
    <3>3. CASE p \in Matches(file.mode, r) /\ p \in Matches(file.mode, s)
      BY <1>4, <3>3 DEF Matches, Flawed
    <3>4. \A t \in file.rows : p \in Matches(file.mode, t) => Current(p)
      BY DEF Matches
    <3> QED
      BY <1>1, <3>1, <3>2, <3>3, <3>4
  <2>3. file.mode = "composite" => \A row \in file.rows : row.maker # Blank
    BY <1>4 DEF Flawed
  <2>4. \A i \in plan.items : \E row \in file.rows : i = RowItem(file.mode, row, new)
    BY <1>2, <1>4
  <2>5. \A i \in plan.items : \E row \in file.rows : Bears(i, row, product[i.product])
    BY <2>1, <2>4
  <2>6. \A row \in file.rows : \E i \in plan.items : Bears(i, row, product[i.product])
    BY <1>2, <1>4, <2>1
  <2>7. \A i, k \in plan.items : i.product = k.product => i = k
    BY <2>2, <2>4
  <2> QED
    BY <2>3, <2>5, <2>6, <2>7 DEF PlanOf
<1> QED
  BY <1>3, <1>4 DEF plan

\* Where the plan of a job after a step comes from.
LEMMA PlansComeFrom ==
  ASSUME TypeOK, [Next]_vars, NEW j \in Jobs
  PROVE  \/ /\ job'[j].file = job[j].file
            /\ job'[j].plan \in {job[j].plan, worker[j].plan}
            /\ worker'[j].plan \in {worker[j].plan, NoPlan}
         \/ job'[j].plan = NoPlan /\ worker'[j].plan = NoPlan
         \/ /\ job' = job /\ product' = product
            /\ \E new \in [Unmatched(job[j].file) -> {p \in Products : Fresh(p)}] :
                 /\ \A r, s \in Unmatched(job[j].file) : new[r] = new[s] => r = s
                 /\ worker'[j].plan = PreviewOf(job[j].file, new)
<1> DEFINE Keeps == /\ job'[j].file = job[j].file
                    /\ job'[j].plan \in {job[j].plan, worker[j].plan}
                    /\ worker'[j].plan \in {worker[j].plan, NoPlan}
           Drops == job'[j].plan = NoPlan /\ worker'[j].plan = NoPlan
           Makes == /\ job' = job /\ product' = product
                    /\ \E new \in [Unmatched(job[j].file) -> {p \in Products : Fresh(p)}] :
                         /\ \A r, s \in Unmatched(job[j].file) : new[r] = new[s] => r = s
                         /\ worker'[j].plan = PreviewOf(job[j].file, new)
<1>1. ASSUME NEW k \in Jobs, NEW s \in Statuses, To(k, s)
      PROVE  job'[j].file = job[j].file /\ job'[j].plan = job[j].plan
  BY <1>1, ToStep
<1>2. ASSUME NEW k \in Jobs, Fail(k) \/ UNCHANGED job
      PROVE  job'[j].file = job[j].file /\ job'[j].plan = job[j].plan
  BY <1>2, FailStep
<1>3. ASSUME NEW k \in Jobs, Rest(k) PROVE worker'[j].plan \in {worker[j].plan, NoPlan}
  BY <1>3 DEF Rest, NoWork, TypeOK
<1>4. ASSUME NEW k \in Jobs, NEW f \in Files, Upload(k, f) PROVE Keeps \/ Drops
  BY <1>4 DEF Upload, TypeOK
<1>5. ASSUME NEW k \in Jobs, Launch(k) PROVE Keeps
  <2>1. worker'[j].plan \in {worker[j].plan, NoPlan}
    BY <1>3, <1>5 DEF Launch, TypeOK, Work
  <2> QED
    BY <1>2, <1>5, <2>1 DEF Launch
<1>6. ASSUME NEW k \in Jobs, Start(k) PROVE Keeps
  <2>1. worker'[j].plan \in {worker[j].plan, NoPlan}
    BY <1>3, <1>6 DEF Start, TypeOK, Work
  <2> QED
    BY <1>1, <1>6, <2>1 DEF Start, Statuses
<1>7. ASSUME NEW k \in Jobs, Parse(k) PROVE Keeps \/ Makes
  <2>1. CASE Rest(k) /\ (Fail(k) \/ UNCHANGED job)
    BY <1>2, <1>3, <2>1
  <2>2. CASE /\ \E new \in [Unmatched(job[k].file) -> {p \in Products : Fresh(p)}] :
                  /\ \A r, s \in Unmatched(job[k].file) : new[r] = new[s] => r = s
                  /\ worker' = [worker EXCEPT ![k] =
                                  [pc |-> "save", plan |-> PreviewOf(job[k].file, new)]]
             /\ UNCHANGED <<job, product>>
    <3>1. PICK new \in [Unmatched(job[k].file) -> {p \in Products : Fresh(p)}] :
                  /\ \A r, s \in Unmatched(job[k].file) : new[r] = new[s] => r = s
                  /\ worker' = [worker EXCEPT ![k] =
                                  [pc |-> "save", plan |-> PreviewOf(job[k].file, new)]]
      BY <2>2
    <3>2. CASE k = j
      <4>1. worker'[j].plan = PreviewOf(job[j].file, new)
        BY <3>1, <3>2 DEF TypeOK
      <4> QED
        BY <2>2, <3>1, <3>2, <4>1
    <3>3. CASE k # j
      BY <2>2, <3>1, <3>3 DEF TypeOK
    <3> QED
      BY <3>2, <3>3
  <2> QED
    BY <1>7, <2>1, <2>2 DEF Parse
<1>8. ASSUME NEW k \in Jobs, Save(k) PROVE Keeps
  <2>1. CASE job' = [job EXCEPT ![k].status = "preview_ready", ![k].plan = worker[k].plan]
    BY <1>3, <1>8, <2>1 DEF Save, TypeOK, Job
  <2> QED
    BY <1>2, <1>3, <1>8, <2>1 DEF Save
<1>9. ASSUME NEW k \in Jobs, Cancel(k) PROVE Keeps
  BY <1>1, <1>9 DEF Cancel, Statuses
<1>10. ASSUME NEW c \in Calls, Proceed(c) PROVE Keeps
  <2> DEFINE k == call[c].job
             done == IF job[k].status = "committing" THEN "committed" ELSE job[k].status
  <2>1. k \in Jobs /\ done \in Statuses /\ worker' = worker
    BY <1>10 DEF TypeOK, Call, Job, Statuses, Proceed, Begin, Commit, GiveUp
  <2>2. UNCHANGED job \/ Fail(k) \/ To(k, "committing") \/ To(k, done)
    BY <1>10 DEF Proceed, Begin, Commit, GiveUp
  <2> HIDE DEF k, done
  <2> QED
    BY <1>1, <1>2, <2>1, <2>2 DEF Statuses
<1>11. ASSUME Exit \/ Crash PROVE Keeps \/ Drops
  BY <1>11 DEF Exit, Crash, Stop, NoWork
<1>12. ASSUME Restart PROVE Keeps
  BY <1>12 DEF Restart, TypeOK, Job
<1>13. ASSUME UNCHANGED <<job, worker>> PROVE Keeps
  BY <1>13
<1> HIDE DEF Keeps
<1>14. ASSUME NEW p \in Products, Edit(p) PROVE Keeps
  BY <1>13, <1>14 DEF Edit
<1>15. ASSUME NEW k \in Jobs, CancelContext(k) PROVE Keeps
  BY <1>13, <1>15 DEF CancelContext
<1>16. ASSUME NEW c \in Calls, NEW k \in Jobs, Load(c, k) PROVE Keeps
  BY <1>13, <1>16 DEF Load
<1>17. ASSUME Drain \/ UNCHANGED vars PROVE Keeps
  BY <1>13, <1>17 DEF Drain, vars
<1> HIDE DEF Drops, Makes
<1>18. Keeps \/ Drops \/ Makes
  BY <1>4, <1>5, <1>6, <1>7, <1>8, <1>9, <1>10, <1>11, <1>12, <1>14, <1>15, <1>16, <1>17
     DEF Next, Labour
<1> QED
  BY <1>18 DEF Keeps, Drops, Makes

LEMMA RowStep ==
  ASSUME ImportInv, ImportInv', RowInv, [Next]_vars
  PROVE  RowInv'
<1>1. /\ TypeOK /\ product' \in [Products -> Product]
      /\ \A j \in Jobs : job[j].file \in Files /\ job[j].plan \in Plan /\ worker[j].plan \in Plan
  BY DEF ImportInv, TypeOK, Job, Work
<1>2. ASSUME NEW j \in Jobs
      PROVE  /\ PlanOf(job'[j].file, job'[j].plan, product')
             /\ PlanOf(job'[j].file, worker'[j].plan, product')
  <2>1. /\ PlanOf(job[j].file, job[j].plan, product')
        /\ PlanOf(job[j].file, worker[j].plan, product')
    BY <1>1, RevisionsGrow, PlanKept DEF RowInv
  <2>2. \A file, catalog : PlanOf(file, NoPlan, catalog)
    BY NoPlanOf
  <2>3. \A new \in [Unmatched(job[j].file) -> {p \in Products : Fresh(p)}] :
          (\A r, s \in Unmatched(job[j].file) : new[r] = new[s] => r = s)
            => PlanOf(job[j].file, PreviewOf(job[j].file, new), product)
    BY <1>1, PreviewOfRows
  <2> QED
    BY <1>1, <2>1, <2>2, <2>3, PlansComeFrom
<1> QED
  BY <1>2 DEF RowInv

\* A plan tells the rows of its file from preview to commit, whatever has become of
\* the products meanwhile.
THEOREM PlansBearRows == Spec => []RowInv
<1>1. Init => RowInv
  <2>1. ASSUME Init, NEW j \in Jobs PROVE job[j].plan = NoPlan /\ worker[j].plan = NoPlan
    BY <2>1 DEF Init, NoWork
  <2> QED
    BY <2>1, NoPlanOf DEF RowInv
<1>2. ImportInv /\ ImportInv' /\ RowInv /\ [Next]_vars => RowInv'
  BY RowStep
<1> QED
  BY <1>1, <1>2, ImportInvariant, PTL DEF Spec


\* Only a commit of a job applies it, and what it makes of the job's items is the
\* catalog's next state.
LEMMA Applies ==
  ASSUME ImportInv, [Next]_vars, NEW j \in Jobs, wrote'[j] # wrote[j]
  PROVE  /\ job[j].plan.valid
         /\ \A i \in job[j].plan.items :
              /\ i \in ItemSet /\ Acceptable(i)
              /\ (\A k \in job[j].plan.items : k.product = i.product => k = i)
                   => product'[i.product] = Applied(i)
<1>1. TypeOK /\ job[j].plan.items \subseteq ItemSet
  BY DEF ImportInv, TypeOK, Job, Plan
<1>2. PICK c \in Calls : Commit(c)
  BY DEF Next, vars, Edit, Upload, Labour, Launch, Start, Parse, Save, Cancel,
     CancelContext, Load, Proceed, Begin, GiveUp, Drain, Exit, Crash, Stop, Restart
<1> DEFINE plan == job[call[c].job].plan
<1>3. /\ plan.valid
      /\ \A i \in plan.items : Acceptable(i)
      /\ product' = [p \in Products |->
                       IF \E i \in plan.items : i.product = p
                       THEN Applied(CHOOSE i \in plan.items : i.product = p)
                       ELSE product[p]]
      /\ wrote' = [wrote EXCEPT ![call[c].job] = @ + 1]
  BY <1>2 DEF Commit
<1>4. call[c].job = j
  BY <1>1, <1>3 DEF TypeOK
<1>5. ASSUME NEW i \in plan.items,
             \A k \in plan.items : k.product = i.product => k = i
      PROVE  product'[i.product] = Applied(i)
  <2>1. i.product \in Products
    BY <1>1, <1>4 DEF ItemSet
  <2>2. (CHOOSE k \in plan.items : k.product = i.product) = i
    BY <1>5
  <2> QED
    BY <1>3, <2>1, <2>2
<1> QED
  BY <1>1, <1>3, <1>4, <1>5

\* The item a row arrives as, at the product it names.
LEMMA RowArrives ==
  ASSUME ImportInv, ImportInv', RowInv, [Next]_vars, NEW j \in Jobs, wrote'[j] # wrote[j],
         NEW row \in job[j].file.rows, NEW i \in job[j].plan.items,
         Bears(i, row, product[i.product])
  PROVE  LET new == product'[i.product]
         IN  /\ i.product \in Products
             /\ new.state = "current" /\ new.part = row.part
             /\ row.maker # Blank => new.maker = row.maker
             /\ row.text # Blank => new.text = row.text
             /\ i.action # "create" /\ row.maker = Blank => new.maker = product[i.product].maker
             /\ i.action # "create" /\ row.text = Blank => new.text = product[i.product].text
<1>1. /\ i \in ItemSet /\ Acceptable(i) /\ product'[i.product] = Applied(i)
  BY Applies DEF RowInv, PlanOf
<1>2. i.product \in Products /\ i.action \in {"create", "update", "no_change"}
  BY <1>1 DEF ItemSet
<1>3. i.action # "create" => Current(i.product) /\ product[i.product].rev = i.rev
  BY <1>1 DEF Acceptable, Unmoved
<1>4. CASE i.action = "no_change"
  <2>1. product'[i.product] = product[i.product]
    BY <1>1, <1>4 DEF Applied
  <2>2. i.part = product[i.product].part /\ i.maker = product[i.product].maker
    BY <1>3, <1>4 DEF ImportInv, PlanInv
  <2> QED
    BY <1>2, <1>3, <1>4, <2>1, <2>2 DEF Bears, Current
<1>5. CASE i.action # "no_change"
  <2>1. /\ Applied(i).state = "current" /\ Applied(i).part = i.part
        /\ Applied(i).maker = i.maker /\ Applied(i).text = i.text
    BY <1>5 DEF Applied
  <2> QED
    BY <1>1, <1>2, <1>3, <2>1 DEF Bears
<1> QED
  BY <1>4, <1>5

\* An import never changes what its row leaves blank, however long ago its preview was
\* computed: CommitImport compares the revision the preview showed.
THEOREM EditsSurviveImports == Spec => NoLostEdit
<1>1. ASSUME ImportInv, ImportInv', RowInv, [Next]_vars, NEW j \in Jobs, wrote'[j] # wrote[j],
             NEW i \in job[j].plan.items, i.action = "update"
      PROVE  \E row \in job[j].file.rows :
               /\ row.part = i.part
               /\ row.maker = Blank => product'[i.product].maker = product[i.product].maker
               /\ row.text = Blank => product'[i.product].text = product[i.product].text
  <2>1. PICK row \in job[j].file.rows : Bears(i, row, product[i.product])
    BY <1>1 DEF RowInv, PlanOf
  <2> QED
    BY <1>1, <2>1, RowArrives DEF Bears
<1>2. ImportInv /\ ImportInv' /\ RowInv /\ [Next]_vars =>
        [\A j \in Jobs : wrote'[j] # wrote[j] =>
           \A i \in job[j].plan.items : i.action = "update" =>
             \E row \in job[j].file.rows :
               /\ row.part = i.part
               /\ row.maker = Blank => product'[i.product].maker = product[i.product].maker
               /\ row.text = Blank => product'[i.product].text = product[i.product].text]_vars
  BY <1>1
<1> QED
  BY <1>2, ImportInvariant, PlansBearRows, PTL DEF Spec, NoLostEdit

\* When a job commits every row of its file is there, at the one product with its
\* identity where the manufacturer is part of it: what BuildImportPreview promised and
\* CommitImport rechecks.
THEOREM EveryRowArrives == Spec => RowsArrive
<1>1. ASSUME ImportInv, ImportInv', RowInv, [Next]_vars, NEW j \in Jobs, wrote'[j] # wrote[j],
             NEW row \in job[j].file.rows
      PROVE  \E p \in Products :
               LET new == product'[p]
               IN /\ new.state = "current" /\ new.part = row.part
                  /\ row.maker # Blank => new.maker = row.maker
                  /\ row.text # Blank => new.text = row.text
                  /\ job[j].file.mode = "composite" => Matches("composite", row)' = {p}
  <2>1. job[j].plan.valid
    BY <1>1, Applies
  <2>2. PICK i \in job[j].plan.items : Bears(i, row, product[i.product])
    BY <1>1, <2>1 DEF RowInv, PlanOf
  <2>3. /\ i.product \in Products
        /\ product'[i.product].state = "current" /\ product'[i.product].part = row.part
        /\ row.maker # Blank => product'[i.product].maker = row.maker
        /\ row.text # Blank => product'[i.product].text = row.text
    BY <1>1, <2>2, RowArrives
  <2>4. ASSUME job[j].file.mode = "composite" PROVE Matches("composite", row)' = {i.product}
    <3>1. row.maker # Blank
      BY <1>1, <2>1, <2>4 DEF RowInv, PlanOf
    <3>2. ASSUME NEW q \in Products, product'[q].state = "current",
                 product'[q].part = row.part, product'[q].maker = row.maker
          PROVE  q = i.product
      <4>1. IdentityUnique'
        BY <1>1 DEF ImportInv
      <4> DEFINE p == i.product
      <4>2. /\ p \in Products /\ product'[p].state = "current" /\ product'[q].part = product'[p].part
            /\ product'[q].maker = product'[p].maker
        BY <2>3, <3>1, <3>2
      <4> HIDE DEF p
      <4>3. q = p
        BY <3>2, <4>1, <4>2 DEF IdentityUnique, Current
      <4> QED
        BY <4>3 DEF p
    <3>3. \A q : q \in Matches("composite", row)' <=>
            /\ q \in Products /\ product'[q].state = "current"
            /\ product'[q].part = row.part /\ product'[q].maker = row.maker
      BY DEF Matches, Current
    <3>4. \A q : q \in Matches("composite", row)' <=> q = i.product
      BY <2>3, <3>1, <3>2, <3>3
    <3> QED
      BY <3>4
  <2> QED
    BY <2>3, <2>4
<1>2. ImportInv /\ ImportInv' /\ RowInv /\ [Next]_vars =>
        [\A j \in Jobs : wrote'[j] # wrote[j] =>
           \A row \in job[j].file.rows : \E p \in Products :
             LET new == product'[p]
             IN /\ new.state = "current" /\ new.part = row.part
                /\ row.maker # Blank => new.maker = row.maker
                /\ row.text # Blank => new.text = row.text
                /\ job[j].file.mode = "composite" => Matches("composite", row)' = {p}]_vars
  BY <1>1
<1> QED
  BY <1>2, ImportInvariant, PlansBearRows, PTL DEF Spec, RowsArrive
=============================================================================
