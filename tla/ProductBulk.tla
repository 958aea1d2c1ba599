---------------------------- MODULE ProductBulk ----------------------------
(***************************************************************************)
(* Bulk actions on products: a run is prepared (its items and the revision *)
(* each product has are fixed), then executed item by item by an HTTP      *)
(* handler, and completed with a receipt                                   *)
(* (internal/storage/sqlite/product_bulk_store.go and                      *)
(* internal/webapp/product_bulk.go).                                       *)
(*                                                                         *)
(* Every handler step is a transaction or read of its own.  The handler    *)
(* may stop anywhere (the client leaves, the process dies) and be called   *)
(* again, and two calls may execute one run at the same time.              *)
(***************************************************************************)
EXTENDS Integers, Sequences

CONSTANTS
  Products,
  Runs,
  Executors,   \* calls of adminExecuteProductBulk that may be under way together
  Tags,        \* categories or lifecycles a run may set
  Actions,     \* the actions of the runs, a subset of AllActions
  Faults,      \* a subset of {"abort", "error", "install"}
  MaxRev       \* bound on product revisions

AllActions == {"publish", "hide", "archive", "tag"}

ASSUME BulkAssumption ==
  /\ Actions \subseteq AllActions
  /\ Faults \subseteq {"abort", "error", "install"}
  /\ MaxRev \in Nat \ {0}
  /\ Runs # {} /\ Tags # {}

VARIABLES
  product,   \* products
  runs,      \* product_bulk_runs with their product_bulk_items
  exec,      \* the calls under way
  past,      \* history variable: the value every product had at each revision
  did        \* history variable: how often a run changed a product

vars == <<product, runs, exec, past, did>>

Product == [current: BOOLEAN, status: {"hidden", "published"}, tag: Tags, rev: 1..MaxRev]
Outcomes == {"succeeded", "no_change", "conflict", "invalid", "failed"}
Outcome == [status: Outcomes \cup {"prepared"}, rev: 0..MaxRev, recovered: BOOLEAN]
Item == [product: Products, rev: 1..MaxRev, eligible: BOOLEAN]
Run == [status: {"none", "prepared", "running", "completed"}, action: AllActions,
        target: Tags, items: Seq(Item), results: [Products -> Outcome]]
Exec == [pc: {"idle", "loaded", "item", "read", "apply", "reread", "record", "complete"},
         run: Runs, k: Nat, out: Outcome]

Prepared == [status |-> "prepared", rev |-> 0, recovered |-> FALSE]
NoRun == [status |-> "none", action |-> "publish", target |-> CHOOSE t \in Tags : TRUE,
          items |-> <<>>, results |-> [p \in Products |-> Prepared]]
Idle == [pc |-> "idle", run |-> CHOOSE r \in Runs : TRUE, k |-> 0, out |-> Prepared]

TypeOK ==
  /\ product \in [Products -> Product]
  /\ runs \in [Runs -> Run]
  /\ exec \in [Executors -> Exec]
  /\ past \in [Products -> [1..MaxRev -> Product]]
  /\ did \in [Runs -> [Products -> Nat]]

-----------------------------------------------------------------------------
(* Helpers *)

\* bulkTargetReached
Reached(value, run) ==
  CASE run.action = "publish" -> value.current /\ value.status = "published"
    [] run.action = "hide"    -> value.current /\ value.status = "hidden"
    [] run.action = "archive" -> ~value.current /\ value.status = "hidden"
    [] run.action = "tag"     -> value.current /\ value.tag = run.target

\* What the action makes of a product, at its next revision.
Changed(value, run) ==
  LET next == [value EXCEPT !.rev = @ + 1]
  IN CASE run.action = "publish" -> [next EXCEPT !.status = "published"]
       [] run.action = "hide"    -> [next EXCEPT !.status = "hidden"]
       [] run.action = "archive" -> [next EXCEPT !.current = FALSE, !.status = "hidden"]
       [] run.action = "tag"     -> [next EXCEPT !.tag = run.target]

Revokes(run) == run.action \in {"hide", "archive"}

RunOf(e) == runs[exec[e].run]
ItemOf(e) == RunOf(e).items[exec[e].k]
ProductOf(e) == product[ItemOf(e).product]

Write(p, value) ==
  /\ product' = [product EXCEPT ![p] = value]
  /\ past' = [past EXCEPT ![p][value.rev] = value]

Goto(e, pc) == exec' = [exec EXCEPT ![e].pc = pc]
Return(e) == exec' = [exec EXCEPT ![e] = Idle]
Outcome1(status, rev) == [status |-> status, rev |-> rev, recovered |-> FALSE]
Give(e, out) == exec' = [exec EXCEPT ![e].pc = "record", ![e].out = out]

-----------------------------------------------------------------------------
(* Preparing *)

\* PrepareProductBulk: the preflight fixes the selection, its order and the
\* revision and eligibility of every product in it.
Prepare(r, action, target, selection) ==
  /\ runs[r].status = "none"
  /\ runs' = [runs EXCEPT ![r] =
       [status |-> "prepared", action |-> action, target |-> target,
        items |-> [i \in DOMAIN selection |->
                     [product |-> selection[i], rev |-> product[selection[i]].rev,
                      eligible |-> product[selection[i]].current]],
        results |-> [p \in Products |-> Prepared]]]
  /\ UNCHANGED <<product, exec, past, did>>

-----------------------------------------------------------------------------
(* Executing *)

\* ProductBulkRun.  A completed run is answered with its receipt.
Load(e, r) ==
  /\ exec[e].pc = "idle" /\ runs[r].status \in {"prepared", "running"}
  /\ exec' = [exec EXCEPT ![e] = [Idle EXCEPT !.pc = "loaded", !.run = r]]
  /\ UNCHANGED <<product, runs, past, did>>

\* StartProductBulk.  The run may have been completed by another call meanwhile.
Start(e) ==
  /\ exec[e].pc = "loaded"
  /\ runs' = [runs EXCEPT ![exec[e].run].status = IF @ = "completed" THEN @ ELSE "running"]
  /\ exec' = [exec EXCEPT ![e].pc = "item", ![e].k = 1]
  /\ UNCHANGED <<product, past, did>>

\* ProductBulkItemResult: an item with a result is not executed again.
Look(e) ==
  /\ exec[e].pc = "item"
  /\ IF exec[e].k > Len(RunOf(e).items) THEN Goto(e, "complete")
     ELSE IF RunOf(e).results[ItemOf(e).product] # Prepared
     THEN exec' = [exec EXCEPT ![e].k = @ + 1]
     ELSE Goto(e, "read")
  /\ UNCHANGED <<product, runs, past, did>>

\* Mutant: whatever the next revision holds, the run is taken to have made it.
DecideAnyNext(value, item, run) ==
  IF ~item.eligible THEN Outcome1("invalid", 0)
  ELSE IF value.rev = item.rev + 1
       THEN [status |-> "succeeded", rev |-> value.rev, recovered |-> TRUE]
  ELSE IF value.rev # item.rev THEN Outcome1("conflict", value.rev)
  ELSE IF Reached(value, run) THEN Outcome1("no_change", value.rev)
  ELSE Prepared

\* executeProductBulkItem before it changes anything: Prepared means go on.
Decide(value, item, run) ==
  IF ~item.eligible THEN Outcome1("invalid", 0)
  ELSE IF value.rev = item.rev + 1 /\ Reached(value, run)
       THEN [status |-> "succeeded", rev |-> value.rev, recovered |-> TRUE]
  ELSE IF value.rev # item.rev THEN Outcome1("conflict", value.rev)
  ELSE IF Reached(value, run) THEN Outcome1("no_change", value.rev)
  ELSE Prepared

Read(e) ==
  /\ exec[e].pc = "read"
  /\ LET out == Decide(ProductOf(e), ItemOf(e), RunOf(e))
     IN IF out = Prepared THEN Goto(e, "apply") ELSE Give(e, out)
  /\ UNCHANGED <<product, runs, past, did>>

\* The revision is compared again in the transaction that writes.
\* Mutant: it is not.
FreshAny(e) == ProductOf(e).current
Fresh(e) == ProductOf(e).rev = ItemOf(e).rev /\ ProductOf(e).current

\* The transaction that writes an item, still at the revision of its preflight.
WriteItem(e) ==
  LET p == ItemOf(e).product
      r == exec[e].run
  IN /\ exec[e].pc = "apply"
     /\ Fresh(e) /\ product[p].rev < MaxRev
     /\ Write(p, Changed(product[p], runs[r]))
     /\ did' = [did EXCEPT ![r][p] = @ + 1]
     /\ UNCHANGED runs

\* Publishing, another category or another lifecycle: the new revision is the answer.
ApplyProductBulkEdit(e) ==
  /\ ~Revokes(RunOf(e))
  /\ WriteItem(e)
  /\ Give(e, Outcome1("succeeded", Changed(ProductOf(e), RunOf(e)).rev))

\* Hiding and archiving answer nothing: the product is read again.  A revocation
\* whose index cannot be installed has been committed and is still an error.
RevokeProduct(e) ==
  /\ Revokes(RunOf(e))
  /\ WriteItem(e)
  /\ Goto(e, "reread") \/ ("install" \in Faults /\ Give(e, Outcome1("failed", 0)))

Apply(e) == ApplyProductBulkEdit(e) \/ RevokeProduct(e)

\* An archived product is invalid; a changed one is in conflict.
\* RevokeProduct and ApplyProductBulkEdit test these in opposite orders.
Refused(e) ==
  /\ exec[e].pc = "apply"
  /\ ~Fresh(e)
  /\ LET archived == ~ProductOf(e).current
         changed == ProductOf(e).rev # ItemOf(e).rev
     IN Give(e, Outcome1(IF Revokes(RunOf(e))
                         THEN IF archived THEN "invalid" ELSE "conflict"
                         ELSE IF changed THEN "conflict" ELSE "invalid", 0))
  /\ UNCHANGED <<product, runs, past, did>>

\* The target category is disabled or the route is taken; or anything fails.
Errs(e) ==
  /\ \/ exec[e].pc = "apply" /\ ~Revokes(RunOf(e)) /\ Fresh(e) /\ Give(e, Outcome1("invalid", 0))
     \/ /\ exec[e].pc = "apply" \/ (exec[e].pc = "read" /\ ItemOf(e).eligible)
        /\ "error" \in Faults /\ Give(e, Outcome1("failed", 0))
  /\ UNCHANGED <<product, runs, past, did>>

\* A revocation reads the product again for the revision it reports, and reports
\* none when the read fails.
Reread(e) ==
  /\ exec[e].pc = "reread"
  /\ \/ Give(e, Outcome1("succeeded", ProductOf(e).rev))
     \/ "error" \in Faults /\ Give(e, Outcome1("succeeded", 0))
  /\ UNCHANGED <<product, runs, past, did>>

RecordedFirst(old, new) == IF old = Prepared THEN new ELSE old

\* RecordProductBulkItem: the first recorded result stands.
Record(e) ==
  LET p == ItemOf(e).product
  IN /\ exec[e].pc = "record"
     /\ runs' = [runs EXCEPT ![exec[e].run].results[p] = RecordedFirst(@, exec[e].out)]
     /\ exec' = [exec EXCEPT ![e].pc = "item", ![e].k = @ + 1, ![e].out = Prepared]
     /\ UNCHANGED <<product, past, did>>

\* CompleteProductBulk
Complete(e) ==
  LET run == RunOf(e)
      open == \E i \in DOMAIN run.items : run.results[run.items[i].product] = Prepared
  IN /\ exec[e].pc = "complete"
     /\ runs' = [runs EXCEPT ![exec[e].run].status =
                   IF @ = "running" /\ ~open THEN "completed" ELSE @]
     /\ Return(e)
     /\ UNCHANGED <<product, past, did>>

\* The client leaves or the process stops: nothing but the call is lost.
Abort(e) ==
  /\ "abort" \in Faults /\ exec[e].pc # "idle"
  /\ Return(e)
  /\ UNCHANGED <<product, runs, past, did>>

-----------------------------------------------------------------------------

\* Anybody else's write: a form, another page, an import.
Edit(p) ==
  /\ product[p].current /\ product[p].rev < MaxRev
  /\ \E status \in {"hidden", "published"}, tag \in Tags, current \in BOOLEAN :
       /\ ~current => status = "hidden" /\ tag = product[p].tag
       /\ Write(p, [current |-> current, status |-> status, tag |-> tag,
                    rev |-> product[p].rev + 1])
  /\ UNCHANGED <<runs, exec, did>>

Init ==
  /\ product \in [Products -> {[current |-> TRUE, status |-> s, rev |-> 1,
                                tag |-> CHOOSE t \in Tags : TRUE] : s \in {"hidden", "published"}}]
  /\ runs = [r \in Runs |-> NoRun]
  /\ exec = [e \in Executors |-> Idle]
  /\ past = [p \in Products |-> [v \in 1..MaxRev |-> product[p]]]
  /\ did = [r \in Runs |-> [p \in Products |-> 0]]

\* Orders in which products can be selected, each once.
Selections ==
  {s \in UNION {[1..n -> Products] : n \in {1, 2}} :
     \A i, j \in DOMAIN s : s[i] = s[j] => i = j}

Step(e) ==
  \/ \E r \in Runs : Load(e, r)
  \/ Start(e) \/ Look(e) \/ Read(e) \/ Apply(e) \/ Refused(e) \/ Errs(e) \/ Reread(e)
  \/ Record(e) \/ Complete(e) \/ Abort(e)

Next ==
  \/ \E r \in Runs, a \in Actions, t \in Tags, s \in Selections : Prepare(r, a, t, s)
  \/ \E e \in Executors : Step(e)
  \/ \E p \in Products : Edit(p)

Spec == Init /\ [][Next]_vars

-----------------------------------------------------------------------------
(* Properties *)

Results(r) == {i \in DOMAIN runs[r].items :
                 runs[r].results[runs[r].items[i].product] # Prepared}
Result(r, i) == runs[r].results[runs[r].items[i].product]

\* However often a run is executed, by how many calls at once and wherever they
\* stop, it changes each product at most once (no result is recorded in the
\* transaction that changes the product).
AppliesOnce == \A r \in Runs, p \in Products : did[r][p] <= 1

\* A reported success is real: between the preflight and now the product has had
\* the value the run was asked for, at the revision that is reported or before.
SuccessIsReal ==
  \A r \in Runs : \A i \in Results(r) :
    LET p == runs[r].items[i].product
        reported == IF Result(r, i).rev = 0 THEN product[p].rev ELSE Result(r, i).rev
    IN Result(r, i).status \in {"succeeded", "no_change"} =>
         \E v \in runs[r].items[i].rev..reported : Reached(past[p][v], runs[r])

\* A reported conflict, refusal or failure is real: the run left the product as
\* it was.  ("Product Bulk instead records separate per-product outcomes".)
OutcomesTruthful ==
  \A r \in Runs : \A i \in Results(r) :
    Result(r, i).status \in {"conflict", "invalid", "failed"} =>
      did[r][runs[r].items[i].product] = 0

\* A result once recorded, and with it the receipt a replay returns, stays.
ResultsStand ==
  [][\A r \in Runs : \A i \in Results(r) : runs'[r].results[runs[r].items[i].product]
                                             = Result(r, i)]_vars

\* A run changes a product only from the revision its preflight showed, and never
\* after its result was recorded.
FixedPreflight ==
  [][\A r \in Runs, p \in Products : did'[r][p] # did[r][p] =>
       \E i \in DOMAIN runs[r].items :
         /\ runs[r].items[i].product = p
         /\ runs[r].items[i].rev = product[p].rev]_vars

-----------------------------------------------------------------------------
(* The inductive invariant: a call works on an item of a run that exists, and *)
(* a product a run has changed is past the revision of the preflight.        *)

Working == {"read", "apply", "reread", "record"}

CallInv ==
  \A e \in Executors :
    /\ exec[e].pc # "idle" => RunOf(e).status # "none"
    /\ exec[e].pc = "item" => exec[e].k > 0
    /\ exec[e].pc \in Working => exec[e].k \in DOMAIN RunOf(e).items

SpentInv ==
  \A r \in Runs, p \in Products :
    /\ runs[r].status = "none" => did[r][p] = 0
    /\ \A i \in DOMAIN runs[r].items : runs[r].items[i].product = p =>
         /\ runs[r].items[i].rev <= product[p].rev
         /\ did[r][p] > 0 => runs[r].items[i].rev < product[p].rev

BulkInv == TypeOK /\ CallInv /\ AppliesOnce /\ SpentInv
=============================================================================
