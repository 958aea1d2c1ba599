------------------------- MODULE ProductBulkProofs -------------------------
(***************************************************************************)
(* A bulk run changes a product at most once, only from the revision its   *)
(* preflight showed, and what it reports is real and stays, for any number *)
(* of products, runs and concurrent executions.                            *)
(***************************************************************************)
EXTENDS ProductBulk, TLAPS

USE DEF Outcomes, AllActions

LEMMA PreparedType == Prepared \in Outcome
  BY BulkAssumption DEF Prepared, Outcome

LEMMA IdleType == Idle \in Exec
<1>1. (CHOOSE r \in Runs : TRUE) \in Runs
  BY BulkAssumption
<1> QED
  BY <1>1, PreparedType DEF Idle, Exec

LEMMA NoRunType == NoRun \in Run
<1>1. (CHOOSE t \in Tags : TRUE) \in Tags
  BY BulkAssumption
<1>2. <<>> \in Seq(Item)
  OBVIOUS
<1> QED
  BY <1>1, <1>2, PreparedType DEF NoRun, Run

\* The items of a run, one by one.
LEMMA ItemType ==
  ASSUME TypeOK, NEW r \in Runs, NEW i \in DOMAIN runs[r].items
  PROVE  runs[r].items[i] \in Item
<1>1. runs[r].items \in Seq(Item)
  BY DEF TypeOK, Run
<1> QED
  BY <1>1

\* A change makes the next revision of the product.
LEMMA ChangedType ==
  ASSUME NEW value \in Product, value.rev < MaxRev, NEW run \in Run
  PROVE  Changed(value, run) \in Product /\ Changed(value, run).rev = value.rev + 1
<1>1. run.target \in Tags /\ run.action \in AllActions
  BY DEF Run
<1>2. value.rev + 1 \in 1..MaxRev
  BY BulkAssumption DEF Product
<1> QED
  BY <1>1, <1>2 DEF Changed, Product

\* What a call decides is an outcome.
LEMMA DecideType ==
  ASSUME NEW value \in Product, NEW item \in Item, NEW run \in Run
  PROVE  Decide(value, item, run) \in Outcome
<1>1. value.rev \in 0..MaxRev /\ 0 \in 0..MaxRev
  BY BulkAssumption DEF Product
<1> QED
  BY <1>1, PreparedType DEF Decide, Outcome1, Outcome


\* The conditions of CallInv on one call.
CallOK(x, rs) ==
  /\ x.pc # "idle" => rs[x.run].status # "none"
  /\ x.pc = "item" => x.k > 0
  /\ x.pc \in Working => x.k \in DOMAIN rs[x.run].items

LEMMA CallInvByCall == CallInv <=> \A e \in Executors : CallOK(exec[e], runs)
  BY DEF CallInv, CallOK, RunOf

\* A step that moves one call and nothing else keeps the invariant.
LEMMA CallStep ==
  ASSUME BulkInv, NEW e \in Executors, NEW x \in Exec, CallOK(x, runs),
         exec' = [exec EXCEPT ![e] = x], UNCHANGED <<product, runs, past, did>>
  PROVE  BulkInv'
<1>1. exec \in [Executors -> Exec]
  BY DEF BulkInv, TypeOK
<1>2. TypeOK'
  BY <1>1 DEF BulkInv, TypeOK
<1>3. \A d \in Executors : CallOK(exec[d], runs)
  BY CallInvByCall DEF BulkInv
<1>4. \A d \in Executors : CallOK(exec'[d], runs)
  BY <1>1, <1>3
<1>5. CallInv'
  BY <1>4 DEF CallInv, CallOK, RunOf
<1>6. AppliesOnce' /\ SpentInv'
  BY DEF BulkInv, AppliesOnce, SpentInv
<1> QED
  BY <1>2, <1>5, <1>6 DEF BulkInv

\* A call at work has an item of its run, and that item a product.
LEMMA AtWork ==
  ASSUME BulkInv, NEW e \in Executors, exec[e].pc \in Working
  PROVE  /\ exec[e] \in Exec /\ exec[e].run \in Runs /\ RunOf(e) \in Run
         /\ RunOf(e).status # "none"
         /\ exec[e].k \in DOMAIN RunOf(e).items
         /\ ItemOf(e) \in Item /\ ItemOf(e).product \in Products
         /\ ProductOf(e) \in Product
<1>1. exec[e] \in Exec
  BY DEF BulkInv, TypeOK
<1>2. exec[e].run \in Runs
  BY <1>1 DEF Exec
<1>3. RunOf(e) \in Run
  BY <1>2 DEF BulkInv, TypeOK, RunOf
<1>4. exec[e].k \in DOMAIN RunOf(e).items /\ RunOf(e).status # "none"
  BY DEF BulkInv, CallInv, Working
<1>5. ItemOf(e) \in Item
  BY <1>2, <1>4, ItemType DEF BulkInv, RunOf, ItemOf
<1>6. ItemOf(e).product \in Products
  BY <1>5 DEF Item
<1>7. ProductOf(e) \in Product
  BY <1>6 DEF BulkInv, TypeOK, ProductOf
<1> QED
  BY <1>1, <1>2, <1>3, <1>4, <1>5, <1>6, <1>7


LEMMA LoadStep ==
  ASSUME BulkInv, NEW e \in Executors, NEW r \in Runs, Load(e, r)
  PROVE  BulkInv'
<1> DEFINE x == [Idle EXCEPT !.pc = "loaded", !.run = r]
<1>1. x \in Exec
  BY IdleType DEF Exec
<1>2. x.pc = "loaded" /\ x.run = r
  BY IdleType DEF Exec
<1>3. CallOK(x, runs)
  BY <1>2 DEF Load, CallOK, Working
<1>4. exec' = [exec EXCEPT ![e] = x] /\ UNCHANGED <<product, runs, past, did>>
  BY DEF Load
<1> HIDE DEF x
<1> QED
  BY <1>1, <1>3, <1>4, CallStep

LEMMA GotoStep ==
  ASSUME BulkInv, NEW e \in Executors, NEW pc, pc \in {"complete"} \cup Working,
         pc \in Working => exec[e].k \in DOMAIN RunOf(e).items,
         exec[e].pc # "idle",
         Goto(e, pc), UNCHANGED <<product, runs, past, did>>
  PROVE  BulkInv'
<1> DEFINE x == [exec[e] EXCEPT !.pc = pc]
<1>1. exec[e] \in Exec /\ exec \in [Executors -> Exec]
  BY DEF BulkInv, TypeOK
<1>2. x \in Exec /\ x.pc = pc /\ x.run = exec[e].run /\ x.k = exec[e].k
  BY <1>1 DEF Exec, Working
<1>3. CallOK(x, runs)
  BY <1>2 DEF CallOK, BulkInv, CallInv, RunOf, Working
<1>4. exec' = [exec EXCEPT ![e] = x]
  BY <1>1 DEF Goto
<1> HIDE DEF x
<1> QED
  BY <1>2, <1>3, <1>4, CallStep

LEMMA GiveStep ==
  ASSUME BulkInv, NEW e \in Executors, NEW out \in Outcome, exec[e].pc \in Working,
         Give(e, out), UNCHANGED <<product, runs, past, did>>
  PROVE  BulkInv'
<1> DEFINE x == [exec[e] EXCEPT !.pc = "record", !.out = out]
<1>1. exec[e] \in Exec /\ exec \in [Executors -> Exec]
  BY DEF BulkInv, TypeOK
<1>2. x \in Exec /\ x.pc = "record" /\ x.run = exec[e].run /\ x.k = exec[e].k
  BY <1>1 DEF Exec
<1>3. CallOK(x, runs)
  BY <1>2 DEF CallOK, BulkInv, CallInv, RunOf, Working
<1>4. exec' = [exec EXCEPT ![e] = x]
  BY <1>1 DEF Give
<1> HIDE DEF x
<1> QED
  BY <1>2, <1>3, <1>4, CallStep

LEMMA LookStep ==
  ASSUME BulkInv, NEW e \in Executors, Look(e)
  PROVE  BulkInv'
<1>1. exec[e] \in Exec /\ exec \in [Executors -> Exec] /\ exec[e].pc = "item"
  BY DEF BulkInv, TypeOK, Look
<1>2. exec[e].k \in Nat /\ exec[e].k > 0 /\ exec[e].run \in Runs
  BY <1>1 DEF BulkInv, CallInv, Exec
<1>3. RunOf(e).items \in Seq(Item) /\ RunOf(e).status # "none"
  BY <1>1, <1>2 DEF BulkInv, TypeOK, Run, RunOf, CallInv
<1>4. CASE exec[e].k > Len(RunOf(e).items)
  <2>1. Goto(e, "complete") /\ UNCHANGED <<product, runs, past, did>>
    BY <1>4 DEF Look
  <2> QED
    BY <1>1, <2>1, GotoStep DEF Working
<1>5. CASE ~(exec[e].k > Len(RunOf(e).items)) /\ RunOf(e).results[ItemOf(e).product] # Prepared
  <2> DEFINE x == [exec[e] EXCEPT !.k = @ + 1]
  <2>1. x \in Exec /\ x.pc = "item" /\ x.run = exec[e].run /\ x.k > 0
    BY <1>1, <1>2 DEF Exec
  <2>2. CallOK(x, runs)
    BY <2>1, <1>3 DEF CallOK, RunOf, Working
  <2>3. exec' = [exec EXCEPT ![e] = x] /\ UNCHANGED <<product, runs, past, did>>
    BY <1>1, <1>5 DEF Look
  <2> HIDE DEF x
  <2> QED
    BY <2>1, <2>2, <2>3, CallStep
<1>6. CASE ~(exec[e].k > Len(RunOf(e).items)) /\ ~(RunOf(e).results[ItemOf(e).product] # Prepared)
  <2>1. Goto(e, "read") /\ UNCHANGED <<product, runs, past, did>>
    BY <1>6 DEF Look
  <2>2. exec[e].k \in DOMAIN RunOf(e).items
    BY <1>2, <1>3, <1>6
  <2> QED
    BY <1>1, <2>1, <2>2, GotoStep DEF Working
<1> QED
  BY <1>4, <1>5, <1>6

LEMMA ReadStep ==
  ASSUME BulkInv, NEW e \in Executors, Read(e)
  PROVE  BulkInv'
<1> DEFINE out == Decide(ProductOf(e), ItemOf(e), RunOf(e))
<1>1. exec[e].pc \in Working /\ exec[e].pc # "idle"
  BY DEF Read, Working
<1>2. out \in Outcome
  BY <1>1, AtWork, DecideType
<1>3. UNCHANGED <<product, runs, past, did>>
  BY DEF Read
<1>4. CASE out = Prepared
  BY <1>1, <1>3, <1>4, AtWork, GotoStep DEF Read, Working
<1>5. CASE out # Prepared
  BY <1>1, <1>2, <1>3, <1>5, GiveStep DEF Read
<1> QED
  BY <1>4, <1>5

LEMMA RefusedStep ==
  ASSUME BulkInv, NEW e \in Executors, Refused(e)
  PROVE  BulkInv'
<1>1. exec[e].pc \in Working /\ UNCHANGED <<product, runs, past, did>>
  BY DEF Refused, Working
<1>2. Outcome1("invalid", 0) \in Outcome /\ Outcome1("conflict", 0) \in Outcome
  BY BulkAssumption DEF Outcome1, Outcome
<1>3. Give(e, Outcome1("invalid", 0)) \/ Give(e, Outcome1("conflict", 0))
  BY DEF Refused
<1> QED
  BY <1>1, <1>2, <1>3, GiveStep

LEMMA ErrsStep ==
  ASSUME BulkInv, NEW e \in Executors, Errs(e)
  PROVE  BulkInv'
<1>1. exec[e].pc \in Working /\ UNCHANGED <<product, runs, past, did>>
  BY DEF Errs, Working
<1>2. Outcome1("invalid", 0) \in Outcome /\ Outcome1("failed", 0) \in Outcome
  BY BulkAssumption DEF Outcome1, Outcome
<1>3. Give(e, Outcome1("invalid", 0)) \/ Give(e, Outcome1("failed", 0))
  BY DEF Errs
<1> QED
  BY <1>1, <1>2, <1>3, GiveStep

LEMMA RereadStep ==
  ASSUME BulkInv, NEW e \in Executors, Reread(e)
  PROVE  BulkInv'
<1>1. exec[e].pc \in Working /\ UNCHANGED <<product, runs, past, did>>
  BY DEF Reread, Working
<1>2. ProductOf(e).rev \in 0..MaxRev
  BY <1>1, AtWork DEF Product
<1>3. Outcome1("succeeded", ProductOf(e).rev) \in Outcome /\ Outcome1("succeeded", 0) \in Outcome
  BY <1>2, BulkAssumption DEF Outcome1, Outcome
<1>4. Give(e, Outcome1("succeeded", ProductOf(e).rev)) \/ Give(e, Outcome1("succeeded", 0))
  BY DEF Reread
<1> QED
  BY <1>1, <1>3, <1>4, GiveStep

LEMMA AbortStep ==
  ASSUME BulkInv, NEW e \in Executors, Abort(e)
  PROVE  BulkInv'
<1>1. CallOK(Idle, runs)
  BY IdleType DEF Idle, CallOK, Working
<1> QED
  BY <1>1, IdleType, CallStep DEF Abort, Return


\* A step that moves one call and rewrites the status or results of its run.
LEMMA RunStep ==
  ASSUME BulkInv, NEW e \in Executors, NEW x \in Exec, CallOK(x, runs),
         NEW r \in Runs, NEW run \in Run, run.items = runs[r].items,
         runs[r].status # "none", run.status # "none",
         runs' = [runs EXCEPT ![r] = run],
         exec' = [exec EXCEPT ![e] = x], UNCHANGED <<product, past, did>>
  PROVE  BulkInv'
<1>1. exec \in [Executors -> Exec] /\ runs \in [Runs -> Run]
  BY DEF BulkInv, TypeOK
<1>2. TypeOK'
  BY <1>1 DEF BulkInv, TypeOK
<1>3. \A q \in Runs : /\ runs'[q].items = runs[q].items
                      /\ runs[q].status # "none" => runs'[q].status # "none"
                      /\ runs'[q].status = "none" => runs[q].status = "none"
  BY <1>1
<1>4. \A d \in Executors : CallOK(exec'[d], runs) /\ exec'[d] \in Exec
  BY <1>1, CallInvByCall DEF BulkInv
<1>5. \A d \in Executors : exec'[d].run \in Runs
  BY <1>4 DEF Exec
<1>6. CallInv'
  BY <1>3, <1>4, <1>5 DEF CallInv, CallOK, RunOf
<1>7. AppliesOnce' /\ SpentInv'
  BY <1>3 DEF BulkInv, AppliesOnce, SpentInv
<1> QED
  BY <1>2, <1>6, <1>7 DEF BulkInv

LEMMA StartStep ==
  ASSUME BulkInv, NEW e \in Executors, Start(e)
  PROVE  BulkInv'
<1>1. exec[e] \in Exec /\ exec \in [Executors -> Exec] /\ runs \in [Runs -> Run]
  BY DEF BulkInv, TypeOK
<1> DEFINE r == exec[e].run
           run == [runs[r] EXCEPT !.status = IF @ = "completed" THEN @ ELSE "running"]
           x == [exec[e] EXCEPT !.pc = "item", !.k = 1]
<1>2. r \in Runs /\ runs[r].status # "none"
  BY <1>1 DEF Exec, BulkInv, CallInv, Start, RunOf
<1>3. run \in Run /\ run.items = runs[r].items /\ run.status # "none"
  BY <1>1, <1>2, ZenonT(60) DEF Run
<1>4. x \in Exec /\ x.pc = "item" /\ x.run = r /\ x.k = 1
  BY <1>1 DEF Exec
<1>5. CallOK(x, runs)
  BY <1>2, <1>4 DEF CallOK, Working
<1>6. /\ runs' = [runs EXCEPT ![r] = run] /\ exec' = [exec EXCEPT ![e] = x]
      /\ UNCHANGED <<product, past, did>>
  BY <1>1 DEF Start
<1> HIDE DEF r, run, x
<1> QED
  BY <1>2, <1>3, <1>4, <1>5, <1>6, RunStep

LEMMA RecordStep ==
  ASSUME BulkInv, NEW e \in Executors, Record(e)
  PROVE  BulkInv'
<1>1. exec[e] \in Exec /\ exec \in [Executors -> Exec] /\ runs \in [Runs -> Run]
  BY DEF BulkInv, TypeOK
<1> DEFINE r == exec[e].run
           p == ItemOf(e).product
           run == [runs[r] EXCEPT !.results[p] = RecordedFirst(@, exec[e].out)]
           x == [exec[e] EXCEPT !.pc = "item", !.k = @ + 1, !.out = Prepared]
<1>2. exec[e].pc \in Working
  BY DEF Record, Working
<1>3. r \in Runs /\ runs[r].status # "none" /\ p \in Products
  BY <1>2, AtWork DEF RunOf
<1>4. exec[e].k \in Nat /\ exec[e].k > 0
  <2>1. RunOf(e).items \in Seq(Item) /\ exec[e].k \in DOMAIN RunOf(e).items
    BY <1>2, AtWork DEF Run
  <2> QED
    BY <2>1
<1>5. run \in Run /\ run.items = runs[r].items /\ run.status = runs[r].status
  <2>1. runs[r] \in Run /\ exec[e].out \in Outcome
    BY <1>1, <1>3 DEF Exec
  <2>2. runs[r].results \in [Products -> Outcome]
    BY <2>1 DEF Run
  <2>3. [runs[r].results EXCEPT ![p] = RecordedFirst(@, exec[e].out)] \in [Products -> Outcome]
    BY <2>1, <2>2, <1>3 DEF RecordedFirst
  <2> QED
    BY <2>1, <2>3 DEF Run
<1>6. x \in Exec /\ x.pc = "item" /\ x.run = r /\ x.k > 0
  <2> DEFINE c == exec[e]
  <2>1. x = [pc |-> "item", run |-> c.run, k |-> c.k + 1, out |-> Prepared]
    <3>1. c \in [pc: {"idle", "loaded", "item", "read", "apply", "reread", "record", "complete"},
                 run: Runs, k: Nat, out: Outcome]
      BY <1>1 DEF Exec
    <3>2. x = [c EXCEPT !.pc = "item", !.k = @ + 1, !.out = Prepared]
      OBVIOUS
    <3> HIDE DEF c, x, p, run, r
    <3> QED
      BY <3>1, <3>2
  <2>2. exec[e].k + 1 \in Nat /\ exec[e].k + 1 > 0
    BY <1>4
  <2> QED
    BY <1>3, <2>1, <2>2, PreparedType DEF Exec
<1>7. CallOK(x, runs)
  BY <1>3, <1>6 DEF CallOK, Working
<1>8. /\ runs' = [runs EXCEPT ![r] = run] /\ exec' = [exec EXCEPT ![e] = x]
      /\ UNCHANGED <<product, past, did>>
  BY <1>1 DEF Record
<1> HIDE DEF r, p, run, x
<1> QED
  BY <1>3, <1>5, <1>6, <1>7, <1>8, RunStep

LEMMA CompleteStep ==
  ASSUME BulkInv, NEW e \in Executors, Complete(e)
  PROVE  BulkInv'
<1>1. exec[e] \in Exec /\ exec \in [Executors -> Exec] /\ runs \in [Runs -> Run]
  BY DEF BulkInv, TypeOK
<1>2. PICK status : /\ status \in {runs[exec[e].run].status, "completed"}
                    /\ runs' = [runs EXCEPT ![exec[e].run].status = status]
  BY DEF Complete
<1> DEFINE r == exec[e].run
           run == [runs[r] EXCEPT !.status = status]
<1>3. r \in Runs /\ runs[r].status # "none"
  BY <1>1 DEF Exec, BulkInv, CallInv, Complete, RunOf
<1>4. run \in Run /\ run.items = runs[r].items /\ run.status # "none"
  BY <1>1, <1>2, <1>3, ZenonT(60) DEF Run
<1>5. CallOK(Idle, runs)
  BY IdleType DEF Idle, CallOK, Working
<1>6. /\ runs' = [runs EXCEPT ![r] = run] /\ exec' = [exec EXCEPT ![e] = Idle]
      /\ UNCHANGED <<product, past, did>>
  BY <1>1, <1>2 DEF Complete, Return
<1> HIDE DEF r, run
<1> QED
  BY <1>3, <1>4, <1>5, <1>6, IdleType, RunStep

LEMMA PrepareStep ==
  ASSUME BulkInv, NEW r \in Runs, NEW a \in Actions, NEW t \in Tags,
         NEW s \in Selections, Prepare(r, a, t, s)
  PROVE  BulkInv'
<1>1. /\ product \in [Products -> Product] /\ runs \in [Runs -> Run]
      /\ exec \in [Executors -> Exec]
  BY DEF BulkInv, TypeOK
<1> DEFINE items == [i \in DOMAIN s |-> [product |-> s[i], rev |-> product[s[i]].rev,
                                         eligible |-> product[s[i]].current]]
           run == [status |-> "prepared", action |-> a, target |-> t, items |-> items,
                   results |-> [p \in Products |-> Prepared]]
<1>2. PICK n \in {1, 2} : s \in [1..n -> Products]
  BY DEF Selections
<1>3. \A i \in 1..n : items[i] \in Item
  <2> TAKE i \in 1..n
  <2>1. s[i] \in Products
    BY <1>2
  <2>2. product[s[i]] \in Product
    BY <1>1, <2>1
  <2> QED
    BY <1>2, <2>1, <2>2 DEF Item, Product
<1>4. items \in Seq(Item)
  BY <1>2, <1>3
<1>5. run \in Run
  <2>1. a \in AllActions
    BY BulkAssumption
  <2> HIDE DEF items
  <2> QED
    BY <1>4, <2>1, PreparedType DEF Run
<1>6. run.status = "prepared"
  OBVIOUS
<1> HIDE DEF items, run
<1>7. runs' = [runs EXCEPT ![r] = run] /\ UNCHANGED <<product, exec, past, did>>
  BY DEF Prepare, run, items
<1>8. runs[r].status = "none"
  BY DEF Prepare
<1>9. TypeOK'
  BY <1>1, <1>5, <1>7 DEF BulkInv, TypeOK
<1>10. CallInv'
  <2>1. \A e \in Executors : exec[e].run \in Runs
    BY <1>1 DEF Exec
  <2>2. \A e \in Executors : exec[e].pc # "idle" => exec[e].run # r
    BY <1>8 DEF BulkInv, CallInv, RunOf
  <2>3. \A e \in Executors : exec[e].pc # "idle" => runs'[exec[e].run] = runs[exec[e].run]
    BY <1>1, <1>7, <2>1, <2>2
  <2> QED
    BY <1>7, <2>3 DEF BulkInv, CallInv, RunOf, Working
<1>11. AppliesOnce'
  BY <1>7 DEF BulkInv, AppliesOnce
<1>12. SpentInv'
  <2>1. \A p \in Products : did[r][p] = 0
    BY <1>8 DEF BulkInv, SpentInv
  <2>2. runs'[r].items = items /\ runs'[r].status = "prepared"
    BY <1>1, <1>6, <1>7 DEF run
  <2>3. \A i \in DOMAIN items : items[i].rev = product[items[i].product].rev
    BY DEF items
  <2>4. \A p \in Products : product[p].rev \in Int
    BY <1>1 DEF Product
  <2>5. \A p \in Products, i \in DOMAIN runs'[r].items : runs'[r].items[i].product = p =>
          runs'[r].items[i].rev <= product'[p].rev
    BY <1>7, <2>2, <2>3, <2>4
  <2>6. \A q \in Runs \ {r} : runs'[q] = runs[q]
    BY <1>1, <1>7
  <2> QED
    BY <1>7, <2>1, <2>2, <2>5, <2>6 DEF BulkInv, SpentInv
<1> QED
  BY <1>9, <1>10, <1>11, <1>12 DEF BulkInv


\* Writing the next revision of a product keeps types and makes nothing older.
LEMMA WriteStep ==
  ASSUME TypeOK, NEW p \in Products, NEW value \in Product,
         value.rev = product[p].rev + 1, Write(p, value)
  PROVE  /\ product' \in [Products -> Product]
         /\ past' \in [Products -> [1..MaxRev -> Product]]
         /\ \A q \in Products : product'[q].rev >= product[q].rev
         /\ product'[p].rev = product[p].rev + 1
<1>1. product \in [Products -> Product] /\ past \in [Products -> [1..MaxRev -> Product]]
  BY DEF TypeOK
<1>2. product' = [product EXCEPT ![p] = value] /\ past' = [past EXCEPT ![p][value.rev] = value]
  BY DEF Write
<1>3. value.rev \in 1..MaxRev
  BY DEF Product
<1>4. past' \in [Products -> [1..MaxRev -> Product]]
  BY <1>1, <1>2, <1>3
<1>5. \A q \in Products : product[q].rev \in Int
  BY <1>1 DEF Product
<1>6. \A q \in Products : product'[q].rev >= product[q].rev
  BY <1>1, <1>2, <1>5
<1> QED
  BY <1>1, <1>2, <1>4, <1>6

\* Products that only get newer leave what runs have spent as it was.
LEMMA SpentKept ==
  ASSUME BulkInv, NEW r \in Runs, NEW p \in Products,
         product'[p].rev >= product[p].rev, product'[p].rev \in Int,
         NEW i \in DOMAIN runs[r].items, runs[r].items[i].product = p
  PROVE  /\ runs[r].items[i].rev <= product'[p].rev
         /\ did[r][p] > 0 => runs[r].items[i].rev < product'[p].rev
<1>1. /\ runs[r].items[i].rev <= product[p].rev
      /\ did[r][p] > 0 => runs[r].items[i].rev < product[p].rev
  BY DEF BulkInv, SpentInv
<1>2. runs[r].items[i].rev \in Int
  BY ItemType DEF BulkInv, Item
<1>3. product[p].rev \in Int
  BY DEF BulkInv, TypeOK, Product
<1> QED
  BY <1>1, <1>2, <1>3

LEMMA EditStep ==
  ASSUME BulkInv, NEW p \in Products, Edit(p)
  PROVE  BulkInv'
<1>1. product \in [Products -> Product]
  BY DEF BulkInv, TypeOK
<1>2. PICK status \in {"hidden", "published"}, tag \in Tags, current \in BOOLEAN :
        Write(p, [current |-> current, status |-> status, tag |-> tag,
                  rev |-> product[p].rev + 1])
  BY DEF Edit
<1> DEFINE value == [current |-> current, status |-> status, tag |-> tag,
                     rev |-> product[p].rev + 1]
<1>3. value \in Product /\ value.rev = product[p].rev + 1
  <2>1. product[p].rev + 1 \in 1..MaxRev
    BY <1>1, BulkAssumption DEF Edit, Product
  <2> QED
    BY <2>1 DEF Product
<1>4. Write(p, value)
  BY <1>2
<1> HIDE DEF value
<1>5. /\ product' \in [Products -> Product] /\ past' \in [Products -> [1..MaxRev -> Product]]
      /\ \A q \in Products : product'[q].rev >= product[q].rev
  BY <1>3, <1>4, WriteStep DEF BulkInv
<1>6. UNCHANGED <<runs, exec, did>>
  BY DEF Edit
<1>7. TypeOK'
  BY <1>5, <1>6 DEF BulkInv, TypeOK
<1>8. CallInv' /\ AppliesOnce'
  BY <1>6 DEF BulkInv, CallInv, AppliesOnce, RunOf
<1>9. SpentInv'
  <2> SUFFICES ASSUME NEW r \in Runs, NEW q \in Products
               PROVE  /\ runs[r].status = "none" => did[r][q] = 0
                      /\ \A i \in DOMAIN runs[r].items : runs[r].items[i].product = q =>
                           /\ runs[r].items[i].rev <= product'[q].rev
                           /\ did[r][q] > 0 => runs[r].items[i].rev < product'[q].rev
    BY <1>6 DEF SpentInv
  <2>1. runs[r].status = "none" => did[r][q] = 0
    BY DEF BulkInv, SpentInv
  <2>2. product'[q].rev \in Int
    BY <1>5 DEF Product
  <2> QED
    BY <1>5, <2>1, <2>2, SpentKept
<1> QED
  BY <1>7, <1>8, <1>9 DEF BulkInv

\* What a change looks like: the item at work, at the revision of the preflight.
LEMMA ApplyFacts ==
  ASSUME BulkInv, NEW e \in Executors, Apply(e)
  PROVE  LET p == ItemOf(e).product
             r == exec[e].run
         IN /\ p \in Products /\ r \in Runs
            /\ \E value \in Product : value.rev = product[p].rev + 1 /\ Write(p, value)
            /\ did' = [did EXCEPT ![r][p] = @ + 1]
            /\ product[p].rev = ItemOf(e).rev
            /\ \E x \in Exec : /\ exec' = [exec EXCEPT ![e] = x]
                               /\ x.pc \in Working /\ x.run = r /\ x.k = exec[e].k
            /\ UNCHANGED runs
<1> DEFINE p == ItemOf(e).product
           r == exec[e].run
           value == Changed(product[p], runs[r])
<1>1. exec[e].pc \in Working /\ exec[e].pc = "apply"
  BY DEF Apply, ApplyProductBulkEdit, RevokeProduct, WriteItem, Working
<1>2. /\ exec[e] \in Exec /\ r \in Runs /\ p \in Products /\ product[p] \in Product
      /\ runs[r] \in Run
  BY <1>1, AtWork DEF ProductOf, RunOf
<1>3. product[p].rev < MaxRev /\ product[p].rev = ItemOf(e).rev
  BY DEF Apply, ApplyProductBulkEdit, RevokeProduct, WriteItem, Fresh, ProductOf
<1>4. value \in Product /\ value.rev = product[p].rev + 1
  <2> HIDE DEF r, p
  <2> QED
    BY <1>2, <1>3, ChangedType
<1>5. Write(p, value) /\ did' = [did EXCEPT ![r][p] = @ + 1] /\ UNCHANGED runs
  BY DEF Apply, ApplyProductBulkEdit, RevokeProduct, WriteItem
<1>6. \/ Give(e, Outcome1("succeeded", value.rev))
      \/ Goto(e, "reread")
      \/ Give(e, Outcome1("failed", 0))
  BY DEF Apply, ApplyProductBulkEdit, RevokeProduct, WriteItem, ProductOf, RunOf
<1>7. \E x \in Exec : /\ exec' = [exec EXCEPT ![e] = x]
                      /\ x.pc \in Working /\ x.run = r /\ x.k = exec[e].k
  <2> DEFINE c == exec[e]
  <2>1. Outcome1("succeeded", value.rev) \in Outcome /\ Outcome1("failed", 0) \in Outcome
    <3> HIDE DEF value
    <3>1. value.rev \in 0..MaxRev
      BY <1>4 DEF Product
    <3> QED
      BY <3>1, BulkAssumption DEF Outcome1, Outcome
  <2>2. CASE Goto(e, "reread")
    <3>1. [c EXCEPT !.pc = "reread"] \in Exec
      BY <1>2 DEF Exec
    <3>2. exec' = [exec EXCEPT ![e] = [c EXCEPT !.pc = "reread"]]
      BY <2>2 DEF Goto, BulkInv, TypeOK
    <3> QED
      BY <1>2, <3>1, <3>2 DEF Working, Exec
  <2>3. ASSUME NEW out \in Outcome, Give(e, out)
        PROVE  \E x \in Exec : /\ exec' = [exec EXCEPT ![e] = x]
                               /\ x.pc \in Working /\ x.run = r /\ x.k = exec[e].k
    <3>1. [c EXCEPT !.pc = "record", !.out = out] \in Exec
      BY <1>2 DEF Exec
    <3>2. exec' = [exec EXCEPT ![e] = [c EXCEPT !.pc = "record", !.out = out]]
      BY <2>3 DEF Give, BulkInv, TypeOK
    <3> QED
      BY <1>2, <3>1, <3>2 DEF Working, Exec
  <2> HIDE DEF value
  <2> QED
    BY <1>6, <2>1, <2>2, <2>3
<1> HIDE DEF value
<1> QED
  BY <1>2, <1>3, <1>4, <1>5, <1>7

LEMMA ApplyStep ==
  ASSUME BulkInv, NEW e \in Executors, Apply(e)
  PROVE  BulkInv'
<1> DEFINE p == ItemOf(e).product
           r == exec[e].run
           k == exec[e].k
<1>1. /\ p \in Products /\ r \in Runs
      /\ did' = [did EXCEPT ![r][p] = @ + 1]
      /\ product[p].rev = ItemOf(e).rev
      /\ UNCHANGED runs
  BY ApplyFacts
<1>2. PICK value \in Product : value.rev = product[p].rev + 1 /\ Write(p, value)
  BY ApplyFacts
<1>3. PICK x \in Exec : /\ exec' = [exec EXCEPT ![e] = x]
                        /\ x.pc \in Working /\ x.run = r /\ x.k = k
  BY ApplyFacts
<1>4. exec[e].pc \in Working
  BY DEF Apply, ApplyProductBulkEdit, RevokeProduct, WriteItem, Working
<1>5. k \in DOMAIN runs[r].items /\ runs[r].items[k].product = p
      /\ runs[r].items[k].rev = product[p].rev /\ runs[r].status # "none"
  BY <1>1, <1>4, AtWork DEF RunOf, ItemOf
<1> HIDE DEF p, r, k
<1>6. /\ product' \in [Products -> Product] /\ past' \in [Products -> [1..MaxRev -> Product]]
      /\ \A q \in Products : product'[q].rev >= product[q].rev
      /\ product'[p].rev = product[p].rev + 1
  BY <1>1, <1>2, WriteStep DEF BulkInv
<1>7. /\ exec \in [Executors -> Exec] /\ did \in [Runs -> [Products -> Nat]]
      /\ product \in [Products -> Product]
  BY DEF BulkInv, TypeOK
<1>8. TypeOK'
  <2>1. exec' \in [Executors -> Exec]
    BY <1>3, <1>7
  <2>2. did' \in [Runs -> [Products -> Nat]]
    BY <1>1, <1>7
  <2> QED
    BY <1>1, <1>6, <2>1, <2>2 DEF BulkInv, TypeOK
<1>9. CallInv'
  <2>1. CallOK(x, runs)
    BY <1>3, <1>5 DEF CallOK, Working
  <2>2. \A d \in Executors : CallOK(exec[d], runs)
    BY CallInvByCall DEF BulkInv
  <2>3. \A d \in Executors : CallOK(exec'[d], runs)
    BY <1>3, <1>7, <2>1, <2>2
  <2> QED
    BY <1>1, <2>3 DEF CallInv, CallOK, RunOf
<1>10. did[r][p] = 0
  <2>1. ~(did[r][p] > 0)
    <3>1. product[p].rev \in Int
      BY <1>1, <1>7 DEF Product
    <3> QED
      BY <1>1, <1>5, <3>1 DEF BulkInv, SpentInv
  <2> QED
    BY <1>1, <1>7, <2>1
<1>11. /\ did'[r][p] = 1
       /\ \A q \in Runs, o \in Products : q # r \/ o # p => did'[q][o] = did[q][o]
  BY <1>1, <1>7, <1>10
<1>12. AppliesOnce'
  BY <1>11 DEF BulkInv, AppliesOnce
<1>13. SpentInv'
  <2>1. \A q \in Runs, o \in Products : runs[q].status = "none" => did'[q][o] = 0
    BY <1>5, <1>11 DEF BulkInv, SpentInv
  <2>2. \A o \in Products : product'[o].rev \in Int
    BY <1>6 DEF Product
  <2>3. ASSUME NEW q \in Runs, NEW o \in Products, NEW i \in DOMAIN runs[q].items,
               runs[q].items[i].product = o
        PROVE  /\ runs[q].items[i].rev <= product'[o].rev
               /\ did[q][o] > 0 => runs[q].items[i].rev < product'[o].rev
    BY <1>6, <2>2, <2>3, SpentKept
  <2>4. ASSUME NEW i \in DOMAIN runs[r].items, runs[r].items[i].product = p
        PROVE  runs[r].items[i].rev < product'[p].rev
    <3>1. runs[r].items[i].rev <= product[p].rev
      BY <1>1, <2>4 DEF BulkInv, SpentInv
    <3>2. runs[r].items[i].rev \in Int
      BY <1>1, <2>4, ItemType DEF BulkInv, Item
    <3>3. product[p].rev \in Int
      BY <1>1, <1>7 DEF Product
    <3> QED
      BY <1>6, <3>1, <3>2, <3>3
  <2>5. \A q \in Runs, o \in Products : \A i \in DOMAIN runs[q].items :
          runs[q].items[i].product = o =>
            /\ runs[q].items[i].rev <= product'[o].rev
            /\ did'[q][o] > 0 => runs[q].items[i].rev < product'[o].rev
    BY <1>11, <2>3, <2>4
  <2> QED
    BY <1>1, <2>1, <2>5 DEF SpentInv
<1> QED
  BY <1>8, <1>9, <1>12, <1>13 DEF BulkInv

LEMMA NewProduct ==
  ASSUME NEW s \in {"hidden", "published"}, NEW t \in Tags
  PROVE  [current |-> TRUE, status |-> s, rev |-> 1, tag |-> t] \in Product
<1>1. 1 \in 1..MaxRev
  BY BulkAssumption
<1> QED
  BY <1>1 DEF Product

LEMMA BulkInit ==
  ASSUME Init
  PROVE  BulkInv
<1> DEFINE t0 == CHOOSE t \in Tags : TRUE
<1>1. t0 \in Tags /\ 1 \in 1..MaxRev
  BY BulkAssumption
<1> DEFINE P0 == {[current |-> TRUE, status |-> s, rev |-> 1, tag |-> t0] :
                    s \in {"hidden", "published"}}
<1>2. P0 \subseteq Product
  <2>1. ASSUME NEW x \in P0
        PROVE  x \in Product
    <3>1. PICK s \in {"hidden", "published"} :
            x = [current |-> TRUE, status |-> s, rev |-> 1, tag |-> t0]
      OBVIOUS
    <3> HIDE DEF t0, P0
    <3> QED
      BY <1>1, <3>1, NewProduct
  <2> HIDE DEF P0
  <2> QED
    BY <2>1
<1>3. product \in [Products -> P0]
  BY DEF Init
<1> HIDE DEF P0, t0
<1>4. product \in [Products -> Product]
  BY <1>2, <1>3
<1>5. runs \in [Runs -> Run] /\ \A r \in Runs : runs[r].status = "none" /\ runs[r].items = <<>>
  BY NoRunType DEF Init, NoRun
<1>6. exec \in [Executors -> Exec] /\ \A e \in Executors : exec[e].pc = "idle"
  BY IdleType DEF Init, Idle
<1>7. past \in [Products -> [1..MaxRev -> Product]]
  BY <1>4 DEF Init
<1>8. did \in [Runs -> [Products -> Nat]] /\ \A r \in Runs, p \in Products : did[r][p] = 0
  BY DEF Init
<1>9. TypeOK
  BY <1>4, <1>5, <1>6, <1>7, <1>8 DEF TypeOK
<1>10. CallInv
  BY <1>6 DEF CallInv, Working
<1>11. AppliesOnce
  BY <1>8 DEF AppliesOnce
<1>12. SpentInv
  BY <1>5, <1>8 DEF SpentInv
<1> QED
  BY <1>9, <1>10, <1>11, <1>12 DEF BulkInv

LEMMA BulkStep ==
  ASSUME BulkInv, [Next]_vars
  PROVE  BulkInv'
<1>1. ASSUME NEW r \in Runs, NEW a \in Actions, NEW t \in Tags, NEW s \in Selections,
             Prepare(r, a, t, s)
      PROVE  BulkInv'
  BY <1>1, PrepareStep
<1>2. ASSUME NEW e \in Executors, Step(e)
      PROVE  BulkInv'
  <2>1. CASE \E r \in Runs : Load(e, r)
    BY <2>1, LoadStep
  <2>2. CASE Start(e)
    BY <2>2, StartStep
  <2>3. CASE Look(e)
    BY <2>3, LookStep
  <2>4. CASE Read(e)
    BY <2>4, ReadStep
  <2>5. CASE Apply(e)
    BY <2>5, ApplyStep
  <2>6. CASE Refused(e)
    BY <2>6, RefusedStep
  <2>7. CASE Errs(e)
    BY <2>7, ErrsStep
  <2>8. CASE Reread(e)
    BY <2>8, RereadStep
  <2>9. CASE Record(e)
    BY <2>9, RecordStep
  <2>10. CASE Complete(e)
    BY <2>10, CompleteStep
  <2>11. CASE Abort(e)
    BY <2>11, AbortStep
  <2> QED
    BY <1>2, <2>1, <2>2, <2>3, <2>4, <2>5, <2>6, <2>7, <2>8, <2>9, <2>10, <2>11 DEF Step
<1>3. ASSUME NEW p \in Products, Edit(p)
      PROVE  BulkInv'
  BY <1>3, EditStep
<1>4. CASE UNCHANGED vars
  BY <1>4 DEF vars, BulkInv, TypeOK, CallInv, AppliesOnce, SpentInv, RunOf
<1> QED
  BY <1>1, <1>2, <1>3, <1>4 DEF Next

\* The inductive invariant holds in every reachable state.
THEOREM BulkInvariant == Spec => []BulkInv
<1>1. Init => BulkInv
  BY BulkInit
<1>2. BulkInv /\ [Next]_vars => BulkInv'
  BY BulkStep
<1> QED
  BY <1>1, <1>2, PTL DEF Spec

\* A run changes a product at most once, however many calls execute it, wherever
\* they stop and whoever else edits the product.
THEOREM ChangedOnce == Spec => []AppliesOnce
<1>1. BulkInv => AppliesOnce
  BY DEF BulkInv
<1> QED
  BY <1>1, BulkInvariant, PTL

\* Only a call's Apply changes the count, for its item.
LEMMA OnlyApplyCounts ==
  ASSUME BulkInv, [Next]_vars, UNCHANGED did \/ \E e \in Executors : Apply(e)
  PROVE  \A r \in Runs, p \in Products : did'[r][p] # did[r][p] =>
           \E i \in DOMAIN runs[r].items :
             /\ runs[r].items[i].product = p
             /\ runs[r].items[i].rev = product[p].rev
<1>1. CASE UNCHANGED did
  BY <1>1
<1>2. ASSUME NEW e \in Executors, Apply(e), NEW r \in Runs, NEW p \in Products,
             did'[r][p] # did[r][p]
      PROVE  \E i \in DOMAIN runs[r].items :
               /\ runs[r].items[i].product = p
               /\ runs[r].items[i].rev = product[p].rev
  <2>1. exec[e].pc \in Working
    BY <1>2 DEF Apply, ApplyProductBulkEdit, RevokeProduct, WriteItem, Working
  <2>2. did \in [Runs -> [Products -> Nat]]
    BY DEF BulkInv, TypeOK
  <2> DEFINE q == exec[e].run
             o == ItemOf(e).product
  <2>3. did' = [did EXCEPT ![q][o] = @ + 1] /\ product[o].rev = ItemOf(e).rev
        /\ q \in Runs /\ o \in Products
    BY <1>2, ApplyFacts
  <2>4. exec[e].k \in DOMAIN runs[q].items /\ runs[q].items[exec[e].k] = ItemOf(e)
    BY <2>1, AtWork DEF RunOf, ItemOf
  <2>5. r = q /\ p = o
    <3> HIDE DEF q, o
    <3> QED
      BY <1>2, <2>2, <2>3
  <2> QED
    BY <2>3, <2>4, <2>5
<1> QED
  BY <1>1, <1>2

\* A run changes a product only from the revision its preflight showed.
THEOREM OnlyFromPreflight == Spec => FixedPreflight
<1>1. BulkInv /\ [Next]_vars =>
        [\A r \in Runs, p \in Products : did'[r][p] # did[r][p] =>
           \E i \in DOMAIN runs[r].items :
             /\ runs[r].items[i].product = p
             /\ runs[r].items[i].rev = product[p].rev]_vars
  <2> SUFFICES ASSUME BulkInv, [Next]_vars
               PROVE  \A r \in Runs, p \in Products : did'[r][p] # did[r][p] =>
                        \E i \in DOMAIN runs[r].items :
                          /\ runs[r].items[i].product = p
                          /\ runs[r].items[i].rev = product[p].rev
    OBVIOUS
  <2>1. UNCHANGED did \/ \E e \in Executors : Apply(e)
    BY DEF Next, Step, Prepare, Edit, Load, Start, Look, Read, Refused, Errs, Reread,
           Record, Complete, Abort, vars
  <2> QED
    BY <2>1, OnlyApplyCounts
<1> QED
  BY <1>1, BulkInvariant, PTL DEF Spec, FixedPreflight

-----------------------------------------------------------------------------
(* Reported successes.  A result is recorded long after the product was read *)
(* or changed, by which time others may have edited it again; it stays real  *)
(* because no revision that has passed is ever rewritten.                     *)

\* What an outcome of the item i of a run claims of the product: if it is a
\* success, some revision from the preflight's on, and no later than the one it
\* reports, was what the run asks for.
Holds(prod, pst, run, i, status, rev) ==
  status \in {"succeeded", "no_change"} =>
    \E v \in run.items[i].rev..prod[run.items[i].product].rev :
      (rev = 0 \/ v <= rev) /\ Reached(pst[run.items[i].product][v], run)

PastInv == \A p \in Products : past[p][product[p].rev] = product[p]

ItemsInv ==
  \A r \in Runs : \A i, j \in DOMAIN runs[r].items :
    /\ runs[r].status # "none"
    /\ runs[r].items[i].product = runs[r].items[j].product => i = j

ResultsReal ==
  \A r \in Runs : \A i \in DOMAIN runs[r].items :
    Holds(product, past, runs[r], i, Result(r, i).status, Result(r, i).rev)

CallReal(prod, pst, rs, x) ==
  /\ x.pc = "record" => Holds(prod, pst, rs[x.run], x.k, x.out.status, x.out.rev)
  /\ x.pc = "reread" => Holds(prod, pst, rs[x.run], x.k, "succeeded", 0)

CallsReal == \A e \in Executors : CallReal(product, past, runs, exec[e])

RealInv == PastInv /\ ItemsInv /\ ResultsReal /\ CallsReal

\* What a step leaves of a run that has been prepared: its items, action and
\* target, and every result but the one Record adds.
LEMMA RunKept ==
  ASSUME BulkInv, [Next]_vars, NEW r \in Runs, runs[r].status # "none"
  PROVE  /\ runs'[r].status # "none" /\ runs'[r].items = runs[r].items
         /\ runs'[r].action = runs[r].action /\ runs'[r].target = runs[r].target
         /\ \A p \in Products :
              \/ runs'[r].results[p] = runs[r].results[p]
              \/ \E e \in Executors :
                   /\ exec[e].pc = "record" /\ exec[e].run = r /\ ItemOf(e).product = p
                   /\ runs[r].results[p] = Prepared /\ runs'[r].results[p] = exec[e].out
<1>1. runs \in [Runs -> Run] /\ exec \in [Executors -> Exec] /\ runs[r] \in Run
  BY DEF BulkInv, TypeOK
<1>2. CASE runs'[r] = runs[r]
  BY <1>2
<1>3. ASSUME NEW q \in Runs, NEW status, status # "none",
             runs' = [runs EXCEPT ![q].status = status], q = r
      PROVE  /\ runs'[r].status # "none" /\ runs'[r].items = runs[r].items
             /\ runs'[r].action = runs[r].action /\ runs'[r].target = runs[r].target
             /\ runs'[r].results = runs[r].results
  <2>1. runs'[r] = [runs[r] EXCEPT !.status = status]
    BY <1>1, <1>3
  <2>2. runs[r] \in [status: {"none", "prepared", "running", "completed"}, action: AllActions,
                     target: Tags, items: Seq(Item), results: [Products -> Outcome]]
    BY <1>1 DEF Run
  <2> QED BY <1>3, <2>1, <2>2
<1>4. ASSUME NEW q \in Runs, NEW a \in Actions, NEW t \in Tags, NEW s \in Selections,
             Prepare(q, a, t, s)
      PROVE  runs'[r] = runs[r]
  BY <1>1, <1>4 DEF Prepare
<1>5. ASSUME NEW e \in Executors, Start(e) \/ Complete(e), runs'[r] # runs[r]
      PROVE  /\ runs'[r].status # "none" /\ runs'[r].items = runs[r].items
             /\ runs'[r].action = runs[r].action /\ runs'[r].target = runs[r].target
             /\ runs'[r].results = runs[r].results
  <2>1. PICK status : /\ status \in {runs[exec[e].run].status, "running", "completed"}
                      /\ runs' = [runs EXCEPT ![exec[e].run].status = status]
    BY <1>5 DEF Start, Complete
  <2>2. exec[e].run \in Runs /\ exec[e].run = r
    BY <1>1, <1>5, <2>1 DEF Exec
  <2> QED BY <1>3, <2>1, <2>2
<1>6. ASSUME NEW e \in Executors, Record(e)
      PROVE  /\ runs'[r].status # "none" /\ runs'[r].items = runs[r].items
             /\ runs'[r].action = runs[r].action /\ runs'[r].target = runs[r].target
             /\ \A p \in Products :
                  \/ runs'[r].results[p] = runs[r].results[p]
                  \/ /\ exec[e].pc = "record" /\ exec[e].run = r /\ ItemOf(e).product = p
                     /\ runs[r].results[p] = Prepared /\ runs'[r].results[p] = exec[e].out
  <2> DEFINE o == ItemOf(e).product
             out == RecordedFirst(runs[r].results[o], exec[e].out)
             results == [runs[r].results EXCEPT ![o] = out]
  <2>1. CASE exec[e].run # r
    <3>1. runs'[r] = runs[r]
      BY <1>1, <1>6, <2>1 DEF Record
    <3> QED BY <3>1
  <2>2. CASE exec[e].run = r
    <3>1. runs'[r] = [runs[r] EXCEPT !.results = results]
      BY <1>1, <1>6, <2>2 DEF Record
    <3>2. runs[r].results \in [Products -> Outcome]
      BY <1>1 DEF Run
    <3>3. \A p \in Products : results[p] = IF p = o THEN out ELSE runs[r].results[p]
      BY <3>2
    <3>4. out = runs[r].results[o] \/ (runs[r].results[o] = Prepared /\ out = exec[e].out)
      BY DEF RecordedFirst
    <3>5. exec[e].pc = "record"
      BY <1>6 DEF Record
    <3> HIDE DEF out, results
    <3>6. /\ runs'[r].items = runs[r].items /\ runs'[r].status = runs[r].status
          /\ runs'[r].action = runs[r].action /\ runs'[r].target = runs[r].target
          /\ runs'[r].results = results
      BY <1>1, <3>1 DEF Run
    <3> QED BY <2>2, <3>3, <3>4, <3>5, <3>6
  <2> QED BY <2>1, <2>2
<1>7. CASE \E e \in Executors : Step(e)
  <2>1. PICK e \in Executors : Step(e)
    BY <1>7
  <2>2. CASE UNCHANGED runs
    BY <1>2, <2>2
  <2>3. CASE Start(e) \/ Complete(e)
    BY <1>2, <1>5, <2>3
  <2>4. CASE Record(e)
    BY <1>6, <2>4
  <2>5. Step(e) => UNCHANGED runs \/ Start(e) \/ Complete(e) \/ Record(e)
    BY ZenonT(60) DEF Step, Load, Look, Read, Apply, ApplyProductBulkEdit, RevokeProduct,
                    WriteItem, Refused, Errs, Reread, Abort
  <2> QED BY <2>1, <2>2, <2>3, <2>4, <2>5
<1>8. CASE UNCHANGED runs
  BY <1>2, <1>8
<1> QED BY <1>2, <1>4, <1>7, <1>8 DEF Next, Edit, vars

\* Revisions only grow, and a revision that has passed keeps its value.
Grown(prod, pst) ==
  \A p \in Products :
    /\ prod[p].rev >= product[p].rev /\ prod[p].rev \in Int
    /\ \A v \in 1..product[p].rev : pst[p][v] = past[p][v]

LEMMA WriteGrows ==
  ASSUME TypeOK, PastInv, NEW p \in Products, NEW value \in Product,
         value.rev = product[p].rev + 1, Write(p, value)
  PROVE  PastInv' /\ Grown(product', past') /\ product'[p] = value /\ past'[p][value.rev] = value
<1>1. /\ product \in [Products -> Product] /\ past \in [Products -> [1..MaxRev -> Product]]
      /\ value.rev \in 1..MaxRev /\ \A q \in Products : product[q].rev \in 1..MaxRev
  BY DEF TypeOK, Product
<1>2. product' = [product EXCEPT ![p] = value] /\ past' = [past EXCEPT ![p][value.rev] = value]
  BY DEF Write
<1>3. /\ product'[p] = value /\ past'[p][value.rev] = value
      /\ \A v \in 1..MaxRev : v # value.rev => past'[p][v] = past[p][v]
      /\ \A q \in Products : q # p => product'[q] = product[q] /\ past'[q] = past[q]
  <2>1. past'[p] = [past[p] EXCEPT ![value.rev] = value] /\ past[p] \in [1..MaxRev -> Product]
    BY <1>1, <1>2
  <2>2. past'[p][value.rev] = value /\ \A v \in 1..MaxRev : v # value.rev => past'[p][v] = past[p][v]
    BY <1>1, <2>1
  <2>3. product'[p] = value /\ \A q \in Products : q # p => product'[q] = product[q] /\ past'[q] = past[q]
    BY <1>1, <1>2
  <2> QED BY <2>2, <2>3
<1>4. PastInv'
  BY <1>3 DEF PastInv
<1>5. Grown(product', past')
  <2> SUFFICES ASSUME NEW q \in Products
               PROVE  /\ product'[q].rev >= product[q].rev /\ product'[q].rev \in Int
                      /\ \A v \in 1..product[q].rev : past'[q][v] = past[q][v]
    BY DEF Grown
  <2>1. CASE q = p
    BY <1>1, <1>3, <2>1, BulkAssumption
  <2>2. CASE q # p
    BY <1>1, <1>3, <2>2
  <2> QED BY <2>1, <2>2
<1> QED BY <1>3, <1>4, <1>5

LEMMA StillGrows ==
  ASSUME TypeOK, PastInv, UNCHANGED <<product, past>>
  PROVE  PastInv' /\ Grown(product', past')
<1>1. \A q \in Products : product[q].rev \in 1..MaxRev
  BY DEF TypeOK, Product
<1> QED BY <1>1 DEF PastInv, Grown

LEMMA Grows ==
  ASSUME BulkInv, PastInv, [Next]_vars
  PROVE  PastInv' /\ Grown(product', past')
<1>1. TypeOK
  BY DEF BulkInv
<1>2. CASE UNCHANGED <<product, past>>
  BY <1>1, <1>2, StillGrows
<1>3. ASSUME NEW e \in Executors, Apply(e)
      PROVE  PastInv' /\ Grown(product', past')
  <2>1. PICK value \in Product : /\ value.rev = product[ItemOf(e).product].rev + 1
                                 /\ Write(ItemOf(e).product, value)
    BY <1>3, ApplyFacts
  <2>2. ItemOf(e).product \in Products
    BY <1>3, ApplyFacts
  <2> QED BY <1>1, <2>1, <2>2, WriteGrows
<1>4. ASSUME NEW p \in Products, Edit(p)
      PROVE  PastInv' /\ Grown(product', past')
  <2>1. PICK status \in {"hidden", "published"}, tag \in Tags, current \in BOOLEAN :
          Write(p, [current |-> current, status |-> status, tag |-> tag,
                    rev |-> product[p].rev + 1])
    BY <1>4 DEF Edit
  <2> DEFINE value == [current |-> current, status |-> status, tag |-> tag,
                       rev |-> product[p].rev + 1]
  <2>2. product[p].rev + 1 \in 1..MaxRev
    BY <1>1, <1>4, BulkAssumption DEF Edit, TypeOK, Product
  <2>3. value \in Product /\ value.rev = product[p].rev + 1 /\ Write(p, value)
    BY <2>1, <2>2 DEF Product
  <2> HIDE DEF value
  <2> QED BY <1>1, <2>3, WriteGrows
<1>5. CASE \E e \in Executors : Step(e)
  <2>1. PICK e \in Executors : Step(e)
    BY <1>5
  <2>2. Step(e) => UNCHANGED <<product, past>> \/ Apply(e)
    BY ZenonT(60) DEF Step, Load, Start, Look, Read, Refused, Errs, Reread, Record, Complete, Abort
  <2> QED BY <1>2, <1>3, <2>1, <2>2
<1>6. CASE \E r \in Runs, a \in Actions, t \in Tags, s \in Selections : Prepare(r, a, t, s)
  BY <1>2, <1>6 DEF Prepare
<1> QED BY <1>2, <1>4, <1>5, <1>6 DEF Next, vars

\* A success that is real stays real, whatever others make of the product.
LEMMA HoldsKept ==
  ASSUME BulkInv, NEW prod, NEW pst, Grown(prod, pst),
         NEW run, NEW next, next.items = run.items, next.action = run.action,
         next.target = run.target, NEW i, run.items[i] \in Item,
         NEW status, NEW rev, Holds(product, past, run, i, status, rev)
  PROVE  Holds(prod, pst, next, i, status, rev)
<1> DEFINE p == run.items[i].product
<1>1. p \in Products /\ run.items[i].rev \in 1..MaxRev
  BY DEF Item
<1>2. product[p].rev \in 1..MaxRev
  BY <1>1 DEF BulkInv, TypeOK, Product
<1>3. /\ prod[p].rev >= product[p].rev /\ prod[p].rev \in Int
      /\ \A v \in 1..product[p].rev : pst[p][v] = past[p][v]
  BY <1>1 DEF Grown
<1>4. SUFFICES ASSUME status \in {"succeeded", "no_change"}
               PROVE  \E v \in run.items[i].rev..prod[p].rev :
                        (rev = 0 \/ v <= rev) /\ Reached(pst[p][v], next)
  BY DEF Holds
<1>5. PICK v \in run.items[i].rev..product[p].rev : (rev = 0 \/ v <= rev) /\ Reached(past[p][v], run)
  BY <1>4 DEF Holds
<1> DEFINE first == run.items[i].rev
           last == product[p].rev
           end == prod[p].rev
<1>6. v \in 1..last /\ v \in first..end
  <2>1. first \in 1..MaxRev /\ last \in 1..MaxRev /\ end \in Int /\ end >= last /\ v \in first..last
    BY <1>1, <1>2, <1>3, <1>5
  <2> HIDE DEF first, last, end
  <2> QED BY <2>1
<1>7. pst[p][v] = past[p][v]
  BY <1>3, <1>6
<1>8. Reached(pst[p][v], next)
  BY <1>5, <1>7 DEF Reached
<1> QED BY <1>5, <1>6, <1>8

\* The revision that bears a success out.
LEMMA HoldsBy ==
  ASSUME NEW prod, NEW pst, NEW run, NEW i, NEW status, NEW rev,
         NEW item, item = run.items[i], NEW v, v \in item.rev..prod[item.product].rev,
         rev = 0 \/ v <= rev, Reached(pst[item.product][v], run)
  PROVE  Holds(prod, pst, run, i, status, rev)
BY DEF Holds

\* What a product is now is among what it has been.
LEMMA NowHolds ==
  ASSUME BulkInv, PastInv, NEW e \in Executors, exec[e].pc \in Working, NEW status, NEW rev,
         ItemOf(e).rev <= ProductOf(e).rev, rev = 0 \/ rev = ProductOf(e).rev,
         Reached(ProductOf(e), RunOf(e))
  PROVE  Holds(product, past, RunOf(e), exec[e].k, status, rev)
<1>1. /\ ItemOf(e) \in Item /\ ItemOf(e).product \in Products /\ ProductOf(e) \in Product
  BY AtWork
<1>2. past[ItemOf(e).product][ProductOf(e).rev] = ProductOf(e)
  BY <1>1 DEF PastInv, ProductOf
<1>3. ProductOf(e).rev \in 1..MaxRev /\ ItemOf(e).rev \in 1..MaxRev
  BY <1>1 DEF Product, Item
<1> DEFINE run == RunOf(e)
           k == exec[e].k
           v == ProductOf(e).rev
<1>4. v \in ItemOf(e).rev..ProductOf(e).rev /\ (rev = 0 \/ v <= rev)
      /\ Reached(past[ItemOf(e).product][v], run)
  BY <1>2, <1>3
<1>5. ItemOf(e) = run.items[k] /\ ProductOf(e) = product[ItemOf(e).product]
  BY DEF ItemOf, ProductOf
<1> HIDE DEF run, k, v
<1>6. Holds(product, past, run, k, status, rev)
  BY <1>4, <1>5, HoldsBy
<1> QED BY <1>6 DEF run, k

\* What a call decides from the product as it is.
LEMMA DecideReal ==
  ASSUME BulkInv, PastInv, NEW e \in Executors, exec[e].pc \in Working
  PROVE  LET out == Decide(ProductOf(e), ItemOf(e), RunOf(e))
         IN Holds(product, past, RunOf(e), exec[e].k, out.status, out.rev)
<1> DEFINE out == Decide(ProductOf(e), ItemOf(e), RunOf(e))
<1> SUFFICES Holds(product, past, RunOf(e), exec[e].k, out.status, out.rev)
  OBVIOUS
<1>1. ItemOf(e) \in Item /\ ProductOf(e) \in Product
  BY AtWork
<1>2. ItemOf(e).rev \in 1..MaxRev /\ ProductOf(e).rev \in 1..MaxRev
  BY <1>1 DEF Item, Product
<1>3. \/ out.status \notin {"succeeded", "no_change"}
      \/ /\ out.rev = ProductOf(e).rev /\ Reached(ProductOf(e), RunOf(e))
         /\ ProductOf(e).rev = ItemOf(e).rev \/ ProductOf(e).rev = ItemOf(e).rev + 1
  BY DEF Decide, Outcome1, Prepared
<1> HIDE DEF out
<1>4. CASE out.status \notin {"succeeded", "no_change"}
  BY <1>4 DEF Holds
<1>5. CASE /\ out.rev = ProductOf(e).rev /\ Reached(ProductOf(e), RunOf(e))
           /\ ProductOf(e).rev = ItemOf(e).rev \/ ProductOf(e).rev = ItemOf(e).rev + 1
  <2>1. ItemOf(e).rev <= ProductOf(e).rev
    BY <1>2, <1>5
  <2> QED BY <1>5, <2>1, NowHolds
<1> QED BY <1>3, <1>4, <1>5

\* A change makes of a current product what the run asks for.
LEMMA ChangedReached ==
  ASSUME NEW value \in Product, value.current, NEW run \in Run
  PROVE  Reached(Changed(value, run), run)
<1>1. run.action \in AllActions
  BY DEF Run
<1>2. value.current = TRUE
  OBVIOUS
<1>3. CASE run.action = "publish"
  BY <1>3 DEF Reached, Changed, Product
<1>4. CASE run.action = "hide"
  BY <1>4 DEF Reached, Changed, Product
<1>5. CASE run.action = "archive"
  BY <1>5 DEF Reached, Changed, Product
<1>6. CASE run.action = "tag"
  BY <1>6 DEF Reached, Changed, Product
<1> QED BY <1>1, <1>3, <1>4, <1>5, <1>6

LEMMA ApplyReal ==
  ASSUME BulkInv, PastInv, NEW e \in Executors, Apply(e)
  PROVE  LET value == Changed(ProductOf(e), RunOf(e))
         IN /\ Holds(product', past', RunOf(e), exec[e].k, "succeeded", value.rev)
            /\ Holds(product', past', RunOf(e), exec[e].k, "succeeded", 0)
<1> DEFINE p == ItemOf(e).product
           value == Changed(ProductOf(e), RunOf(e))
<1>1. exec[e].pc \in Working
  BY DEF Apply, ApplyProductBulkEdit, RevokeProduct, WriteItem, Working
<1>2. /\ ItemOf(e) \in Item /\ p \in Products /\ ProductOf(e) \in Product /\ RunOf(e) \in Run
  BY <1>1, AtWork
<1>3. ProductOf(e).rev = ItemOf(e).rev /\ ProductOf(e).current /\ ProductOf(e).rev < MaxRev
  BY DEF Apply, ApplyProductBulkEdit, RevokeProduct, WriteItem, Fresh, ProductOf
<1>4. value \in Product /\ value.rev = ProductOf(e).rev + 1 /\ Reached(value, RunOf(e))
  BY <1>2, <1>3, ChangedType, ChangedReached
<1>5. Write(p, value)
  BY DEF Apply, ApplyProductBulkEdit, RevokeProduct, WriteItem, ProductOf, RunOf
<1> HIDE DEF value
<1>6. product'[p] = value /\ past'[p][value.rev] = value
  BY <1>2, <1>4, <1>5, WriteGrows DEF BulkInv, ProductOf
<1>7. value.rev \in ItemOf(e).rev..product'[p].rev
  BY <1>2, <1>3, <1>4, <1>6 DEF Item
<1>8. Reached(past'[p][value.rev], RunOf(e))
  BY <1>4, <1>6
<1>9. value.rev <= value.rev
  BY <1>2, <1>4 DEF Product
<1>10. ASSUME NEW rev, rev = 0 \/ rev = value.rev
       PROVE  Holds(product', past', RunOf(e), exec[e].k, "succeeded", rev)
  <2> DEFINE run == RunOf(e)
             k == exec[e].k
             prod == product'
             pst == past'
  <2>1. ItemOf(e) = run.items[k]
    BY DEF ItemOf
  <2>2. /\ value.rev \in ItemOf(e).rev..prod[ItemOf(e).product].rev
        /\ rev = 0 \/ value.rev <= rev
        /\ Reached(pst[ItemOf(e).product][value.rev], run)
    BY <1>7, <1>8, <1>9, <1>10
  <2> HIDE DEF run, k, prod, pst
  <2>3. Holds(prod, pst, run, k, "succeeded", rev)
    BY <2>1, <2>2, HoldsBy
  <2> QED BY <2>3 DEF run, k, prod, pst
<1>11. /\ Holds(product', past', RunOf(e), exec[e].k, "succeeded", value.rev)
       /\ Holds(product', past', RunOf(e), exec[e].k, "succeeded", 0)
  BY <1>10
<1> QED BY <1>11 DEF value

\* The call that moves: what it is about to record is real.
LEMMA GaveCall ==
  ASSUME BulkInv, NEW e \in Executors, NEW out, Give(e, out)
  PROVE  exec'[e].pc = "record" /\ exec'[e].run = exec[e].run /\ exec'[e].k = exec[e].k
         /\ exec'[e].out = out
<1>1. exec \in [Executors -> Exec] /\ exec[e] \in Exec
  BY DEF BulkInv, TypeOK
<1>2. exec'[e] = [exec[e] EXCEPT !.pc = "record", !.out = out]
  BY <1>1 DEF Give
<1> QED BY <1>1, <1>2 DEF Exec

LEMMA GiveReal ==
  ASSUME BulkInv, NEW e \in Executors, NEW out, Give(e, out), UNCHANGED runs,
         Holds(product', past', RunOf(e), exec[e].k, out.status, out.rev)
  PROVE  CallReal(product', past', runs', exec'[e])
BY GaveCall DEF CallReal, RunOf

LEMMA GotoReal ==
  ASSUME BulkInv, NEW e \in Executors, NEW pc, Goto(e, pc), UNCHANGED runs, pc # "record",
         pc = "reread" => Holds(product', past', RunOf(e), exec[e].k, "succeeded", 0)
  PROVE  CallReal(product', past', runs', exec'[e])
<1>1. exec \in [Executors -> Exec] /\ exec[e] \in Exec
  BY DEF BulkInv, TypeOK
<1>2. exec'[e] = [exec[e] EXCEPT !.pc = pc]
  BY <1>1 DEF Goto
<1>3. exec'[e].pc = pc /\ exec'[e].run = exec[e].run /\ exec'[e].k = exec[e].k
  BY <1>1, <1>2 DEF Exec
<1> QED BY <1>3 DEF CallReal, RunOf

\* A call that claims nothing.
LEMMA QuietReal ==
  ASSUME BulkInv, NEW e \in Executors,
         \/ \E r \in Runs : Load(e, r)
         \/ Start(e) \/ Look(e) \/ Record(e) \/ Complete(e) \/ Abort(e)
  PROVE  CallReal(product', past', runs', exec'[e])
<1>1. exec \in [Executors -> Exec] /\ exec[e] \in Exec
  BY DEF BulkInv, TypeOK
<1> DEFINE x == exec[e]
<1>2. CASE \E r \in Runs : Load(e, r)
  <2>1. PICK r \in Runs : Load(e, r)
    BY <1>2
  <2> DEFINE y == [Idle EXCEPT !.pc = "loaded", !.run = r]
  <2>2. exec' = [exec EXCEPT ![e] = y]
    BY <2>1 DEF Load
  <2>3. y.pc = "loaded"
    BY IdleType DEF Exec
  <2> HIDE DEF y
  <2>4. exec'[e].pc = "loaded"
    BY <1>1, <2>2, <2>3
  <2> QED BY <2>4 DEF CallReal
<1>3. CASE Start(e)
  <2>1. exec'[e] = [x EXCEPT !.pc = "item", !.k = 1]
    BY <1>1, <1>3 DEF Start
  <2>2. exec'[e].pc = "item"
    BY <1>1, <2>1 DEF Exec
  <2> QED BY <2>2 DEF CallReal
<1>4. CASE Record(e)
  <2>1. exec'[e] = [x EXCEPT !.pc = "item", !.k = @ + 1, !.out = Prepared]
    BY <1>1, <1>4 DEF Record
  <2>2. exec'[e].pc = "item"
    BY <1>1, <2>1 DEF Exec
  <2> QED BY <2>2 DEF CallReal
<1>5. CASE Complete(e) \/ Abort(e)
  <2>1. exec'[e] = Idle
    BY <1>1, <1>5 DEF Complete, Abort, Return
  <2> QED BY <2>1 DEF CallReal, Idle
<1>6. CASE Look(e)
  <2>1. CASE exec' = [exec EXCEPT ![e].k = @ + 1]
    <3>1. exec'[e] = [x EXCEPT !.k = @ + 1] /\ x.pc = "item"
      BY <1>1, <1>6, <2>1 DEF Look
    <3>2. exec'[e].pc = "item"
      BY <1>1, <3>1 DEF Exec
    <3> QED BY <3>2 DEF CallReal
  <2>2. CASE Goto(e, "complete") \/ Goto(e, "read")
    BY <1>6, <2>2, GotoReal DEF Look
  <2> QED BY <1>6, <2>1, <2>2 DEF Look
<1> QED BY <1>2, <1>3, <1>4, <1>5, <1>6

LEMMA MoverReal ==
  ASSUME BulkInv, RealInv, NEW e \in Executors, Step(e)
  PROVE  CallReal(product', past', runs', exec'[e])
<1>1. PastInv /\ CallReal(product, past, runs, exec[e])
  BY DEF RealInv, CallsReal
<1>2. CASE (\E r \in Runs : Load(e, r)) \/ Start(e) \/ Look(e) \/ Record(e) \/ Complete(e) \/ Abort(e)
  BY <1>2, QuietReal
<1>3. CASE Read(e)
  <2> DEFINE out == Decide(ProductOf(e), ItemOf(e), RunOf(e))
  <2>1. exec[e].pc \in Working
    BY <1>3 DEF Read, Working
  <2>2. Holds(product', past', RunOf(e), exec[e].k, out.status, out.rev)
    BY <1>1, <1>3, <2>1, DecideReal DEF Read
  <2>3. UNCHANGED runs /\ (Goto(e, "apply") \/ Give(e, out))
    BY <1>3 DEF Read
  <2> HIDE DEF out
  <2> QED BY <2>2, <2>3, GotoReal, GiveReal
<1>4. CASE Apply(e)
  <2> DEFINE value == Changed(ProductOf(e), RunOf(e))
             done == Outcome1("succeeded", value.rev)
             failed == Outcome1("failed", 0)
  <2>1. /\ Holds(product', past', RunOf(e), exec[e].k, "succeeded", value.rev)
        /\ Holds(product', past', RunOf(e), exec[e].k, "succeeded", 0)
    BY <1>1, <1>4, ApplyReal
  <2>2. UNCHANGED runs /\ (Give(e, done) \/ Goto(e, "reread") \/ Give(e, failed))
    BY <1>4 DEF Apply, ApplyProductBulkEdit, RevokeProduct, WriteItem, ProductOf, RunOf
  <2>3. done.status = "succeeded" /\ done.rev = value.rev /\ failed.status = "failed"
    BY DEF Outcome1
  <2>4. Holds(product', past', RunOf(e), exec[e].k, failed.status, failed.rev)
    BY <2>3 DEF Holds
  <2> HIDE DEF value, done, failed
  <2> QED BY <2>1, <2>2, <2>3, <2>4, GotoReal, GiveReal
<1>5. CASE Refused(e) \/ Errs(e)
  <2>1. UNCHANGED runs /\ \E status \in {"invalid", "conflict", "failed"} : Give(e, Outcome1(status, 0))
    BY <1>5 DEF Refused, Errs
  <2>2. PICK status \in {"invalid", "conflict", "failed"} : Give(e, Outcome1(status, 0))
    BY <2>1
  <2>3. Holds(product', past', RunOf(e), exec[e].k, Outcome1(status, 0).status, Outcome1(status, 0).rev)
    BY DEF Holds, Outcome1
  <2> QED BY <2>1, <2>2, <2>3, GiveReal
<1>6. CASE Reread(e)
  <2> DEFINE now == ProductOf(e).rev
  <2>1. Holds(product, past, RunOf(e), exec[e].k, "succeeded", 0) /\ exec[e].pc \in Working
    BY <1>1, <1>6 DEF Reread, CallReal, RunOf, Working
  <2>2. now \in Int /\ ItemOf(e) \in Item
    BY <2>1, AtWork DEF Product
  <2>3. Holds(product, past, RunOf(e), exec[e].k, "succeeded", now)
    <3>1. PICK v \in ItemOf(e).rev..now : Reached(past[ItemOf(e).product][v], RunOf(e))
      BY <2>1 DEF Holds, ItemOf, ProductOf
    <3> DEFINE run == RunOf(e)
               k == exec[e].k
    <3>2. v <= now
      BY <2>2 DEF Item
    <3>3. /\ v \in ItemOf(e).rev..product[ItemOf(e).product].rev
          /\ ItemOf(e) = run.items[k]
          /\ Reached(past[ItemOf(e).product][v], run)
      BY <3>1 DEF ProductOf, ItemOf
    <3> HIDE DEF now, run, k
    <3>4. Holds(product, past, run, k, "succeeded", now)
      BY <3>2, <3>3, HoldsBy
    <3> QED BY <3>4 DEF run, k
  <2>4. UNCHANGED <<product, past, runs>>
        /\ (Give(e, Outcome1("succeeded", now)) \/ Give(e, Outcome1("succeeded", 0)))
    BY <1>6 DEF Reread
  <2>5. \A rev : Outcome1("succeeded", rev).status = "succeeded" /\ Outcome1("succeeded", rev).rev = rev
    BY DEF Outcome1
  <2> HIDE DEF now
  <2>6. ASSUME NEW rev \in {now, 0}, Give(e, Outcome1("succeeded", rev))
        PROVE  CallReal(product', past', runs', exec'[e])
    <3>1. Holds(product', past', RunOf(e), exec[e].k, Outcome1("succeeded", rev).status,
                Outcome1("succeeded", rev).rev)
      BY <2>1, <2>3, <2>4, <2>5
    <3> QED BY <2>4, <2>6, <3>1, GiveReal
  <2> QED BY <2>4, <2>6
<1> QED BY <1>2, <1>3, <1>4, <1>5, <1>6 DEF Step

\* Of the calls, a step moves one.
LEMMA OneMoves ==
  ASSUME BulkInv, NEW e \in Executors, Step(e), NEW d \in Executors, d # e
  PROVE  exec'[d] = exec[d]
<1>1. exec \in [Executors -> Exec]
  BY DEF BulkInv, TypeOK
<1>2. \E x : exec' = [exec EXCEPT ![e] = x]
  <2>1. CASE \E r \in Runs : Load(e, r)
    BY <2>1 DEF Load
  <2>2. CASE Start(e) \/ Look(e) \/ Record(e)
    BY <2>2 DEF Start, Look, Record, Goto
  <2>3. CASE Read(e) \/ Refused(e) \/ Errs(e) \/ Reread(e) \/ Apply(e)
    <3>1. (\E pc : Goto(e, pc)) \/ (\E out : Give(e, out))
      BY <2>3 DEF Read, Refused, Errs, Reread, Apply, ApplyProductBulkEdit, RevokeProduct, WriteItem
    <3> QED BY <3>1 DEF Goto, Give
  <2>4. CASE Complete(e) \/ Abort(e)
    BY <2>4 DEF Complete, Abort, Return
  <2> QED BY <2>1, <2>2, <2>3, <2>4 DEF Step
<1> QED BY <1>1, <1>2

\* A call that does not move: its claim is kept.
LEMMA StillReal ==
  ASSUME BulkInv, RealInv, [Next]_vars, NEW d \in Executors, exec'[d] = exec[d]
  PROVE  CallReal(product', past', runs', exec'[d])
<1>1. CASE exec[d].pc \notin Working
  BY <1>1 DEF CallReal, Working
<1>2. CASE exec[d].pc \in Working
  <2> DEFINE x == exec[d]
             run == runs[x.run]
             next == runs'[x.run]
  <2>1. x.run \in Runs /\ run.status # "none" /\ run.items[x.k] \in Item
    BY <1>2, AtWork DEF RunOf, ItemOf
  <2>2. next.items = run.items /\ next.action = run.action /\ next.target = run.target
    BY <2>1, RunKept
  <2>3. Grown(product', past')
    BY Grows DEF RealInv
  <2>4. CallReal(product, past, runs, x)
    BY DEF RealInv, CallsReal
  <2>5. ASSUME NEW status, NEW rev, Holds(product, past, run, x.k, status, rev)
        PROVE  Holds(product', past', next, x.k, status, rev)
    <3> DEFINE prod == product'
               pst == past'
    <3>1. Grown(prod, pst)
      BY <2>3
    <3> HIDE DEF x, run, next, prod, pst
    <3>2. Holds(prod, pst, next, x.k, status, rev)
      BY <2>1, <2>2, <2>5, <3>1, HoldsKept
    <3> QED BY <3>2 DEF prod, pst
  <2> QED BY <2>4, <2>5 DEF CallReal
<1> QED BY <1>1, <1>2

\* A run that is not prepared is changed by Prepare alone.
LEMMA FreshOnly ==
  ASSUME BulkInv, [Next]_vars, NEW r \in Runs, runs[r].status = "none", runs'[r] # runs[r]
  PROVE  \E a \in Actions, t \in Tags, s \in Selections : Prepare(r, a, t, s)
<1>1. runs \in [Runs -> Run] /\ exec \in [Executors -> Exec]
  BY DEF BulkInv, TypeOK
<1>2. ASSUME NEW e \in Executors, Step(e)
      PROVE  FALSE
  <2>1. Step(e) => UNCHANGED runs \/ Start(e) \/ Complete(e) \/ Record(e)
    BY ZenonT(60) DEF Step, Load, Look, Read, Apply, ApplyProductBulkEdit, RevokeProduct,
                    WriteItem, Refused, Errs, Reread, Abort
  <2>2. Start(e) \/ Complete(e) \/ Record(e)
    BY <1>2, <2>1
  <2>3. exec[e].run \in Runs /\ runs[exec[e].run].status # "none"
    BY <1>1, <2>2 DEF Exec, BulkInv, CallInv, RunOf, Start, Complete, Record
  <2>4. runs'[r] = runs[r]
    BY <1>1, <2>2, <2>3 DEF Start, Complete, Record
  <2> QED BY <2>4
<1>3. ASSUME NEW q \in Runs, NEW a \in Actions, NEW t \in Tags, NEW s \in Selections,
             Prepare(q, a, t, s)
      PROVE  q = r
  BY <1>1, <1>3 DEF Prepare
<1> QED BY <1>2, <1>3 DEF Next, Edit, vars

\* The items of a run are fixed when it is prepared, each product once.
LEMMA ItemsStep ==
  ASSUME BulkInv, RealInv, [Next]_vars
  PROVE  ItemsInv'
<1>1. runs \in [Runs -> Run]
  BY DEF BulkInv, TypeOK
<1> SUFFICES ASSUME NEW r \in Runs, NEW i \in DOMAIN runs'[r].items, NEW j \in DOMAIN runs'[r].items
             PROVE  /\ runs'[r].status # "none"
                    /\ runs'[r].items[i].product = runs'[r].items[j].product => i = j
  BY DEF ItemsInv
<1>2. CASE runs[r].status # "none"
  BY <1>2, RunKept DEF RealInv, ItemsInv
<1>3. CASE runs[r].status = "none" /\ runs'[r] = runs[r]
  BY <1>3 DEF RealInv, ItemsInv
<1>4. ASSUME NEW a \in Actions, NEW t \in Tags, NEW s \in Selections, Prepare(r, a, t, s)
      PROVE  /\ runs'[r].status # "none"
             /\ runs'[r].items[i].product = runs'[r].items[j].product => i = j
  <2>1. /\ runs'[r].status = "prepared" /\ DOMAIN runs'[r].items = DOMAIN s
        /\ \A k \in DOMAIN s : runs'[r].items[k].product = s[k]
    BY <1>1, <1>4 DEF Prepare
  <2>2. \A k, l \in DOMAIN s : s[k] = s[l] => k = l
    BY DEF Selections
  <2> QED BY <2>1, <2>2
<1>5. CASE runs[r].status = "none" /\ runs'[r] # runs[r]
  BY <1>4, <1>5, FreshOnly
<1> QED BY <1>2, <1>3, <1>5

\* What is reported of an item stays real; what is reported anew was about to be.
LEMMA ResultsStep ==
  ASSUME BulkInv, RealInv, [Next]_vars
  PROVE  ResultsReal'
<1> SUFFICES ASSUME NEW r \in Runs, NEW i \in DOMAIN runs'[r].items
             PROVE  Holds(product', past', runs'[r], i,
                          runs'[r].results[runs'[r].items[i].product].status,
                          runs'[r].results[runs'[r].items[i].product].rev)
  BY DEF ResultsReal, Result
<1> DEFINE run == runs[r]
           next == runs'[r]
           p == run.items[i].product
           prod == product'
           pst == past'
<1>1. CASE run.status # "none"
  <2>1. /\ next.items = run.items /\ next.action = run.action /\ next.target = run.target
        /\ \A o \in Products :
             \/ next.results[o] = run.results[o]
             \/ \E e \in Executors :
                  /\ exec[e].pc = "record" /\ exec[e].run = r /\ ItemOf(e).product = o
                  /\ run.results[o] = Prepared /\ next.results[o] = exec[e].out
    BY <1>1, RunKept
  <2>2. run.items[i] \in Item /\ p \in Products
    BY <2>1, ItemType DEF BulkInv, Item
  <2>3. Grown(prod, pst)
    BY Grows DEF RealInv
  <2>4. ASSUME NEW status, NEW rev, Holds(product, past, run, i, status, rev)
        PROVE  Holds(prod, pst, next, i, status, rev)
    <3> HIDE DEF run, next, prod, pst, p
    <3> QED BY <2>1, <2>2, <2>3, <2>4, HoldsKept
  <2>5. CASE next.results[p] = run.results[p]
    <3>1. Holds(product, past, run, i, run.results[p].status, run.results[p].rev)
      BY <2>1 DEF RealInv, ResultsReal, Result
    <3> HIDE DEF run, next, prod, pst, p
    <3>2. Holds(prod, pst, next, i, next.results[p].status, next.results[p].rev)
      BY <2>4, <2>5, <3>1
    <3> QED BY <2>1, <3>2 DEF run, next, prod, pst, p
  <2>6. ASSUME NEW e \in Executors, exec[e].pc = "record", exec[e].run = r,
               ItemOf(e).product = p, next.results[p] = exec[e].out
        PROVE  Holds(product', past', runs'[r], i,
                     runs'[r].results[runs'[r].items[i].product].status,
                     runs'[r].results[runs'[r].items[i].product].rev)
    <3>1. exec[e].k \in DOMAIN run.items /\ run.items[exec[e].k].product = p
      BY <2>6, AtWork DEF Working, RunOf, ItemOf
    <3>2. exec[e].k = i
      BY <2>1, <3>1 DEF RealInv, ItemsInv
    <3>3. Holds(product, past, run, exec[e].k, exec[e].out.status, exec[e].out.rev)
      BY <2>6 DEF RealInv, CallsReal, CallReal
    <3> HIDE DEF run, next, prod, pst, p
    <3>4. Holds(prod, pst, next, i, next.results[p].status, next.results[p].rev)
      BY <2>4, <2>6, <3>2, <3>3
    <3> QED BY <2>1, <3>4 DEF run, next, prod, pst, p
  <2> QED BY <2>1, <2>2, <2>5, <2>6
<1>2. CASE run.status = "none" /\ runs'[r] = runs[r]
  <2>1. FALSE
    BY <1>2 DEF RealInv, ItemsInv
  <2> QED BY <2>1
<1>3. CASE run.status = "none" /\ runs'[r] # runs[r]
  <2>1. PICK a \in Actions, t \in Tags, s \in Selections : Prepare(r, a, t, s)
    BY <1>3, FreshOnly
  <2>2. next.results = [o \in Products |-> Prepared] /\ next.items[i].product \in Products
    <3>1. runs \in [Runs -> Run]
      BY DEF BulkInv, TypeOK
    <3>2. next.results = [o \in Products |-> Prepared] /\ DOMAIN next.items = DOMAIN s
          /\ next.items[i].product = s[i]
      BY <2>1, <3>1 DEF Prepare
    <3>3. s[i] \in Products
      BY <3>2 DEF Selections
    <3> QED BY <3>2, <3>3
  <2>3. next.results[next.items[i].product].status = "prepared"
    BY <2>2 DEF Prepared
  <2> QED BY <2>3 DEF Holds
<1> QED BY <1>1, <1>2, <1>3

LEMMA RealStep ==
  ASSUME BulkInv, RealInv, [Next]_vars
  PROVE  RealInv'
<1>1. PastInv'
  BY Grows DEF RealInv
<1>2. ASSUME NEW d \in Executors
      PROVE  CallReal(product', past', runs', exec'[d])
  <2>1. CASE exec'[d] = exec[d]
    BY <2>1, StillReal
  <2>2. CASE exec'[d] # exec[d]
    <3>1. PICK e \in Executors : Step(e)
      BY <2>2 DEF Next, Prepare, Edit, vars
    <3>2. e = d
      BY <2>2, <3>1, OneMoves
    <3> QED BY <3>1, <3>2, MoverReal
  <2> QED BY <2>1, <2>2
<1>3. CallsReal'
  BY <1>2 DEF CallsReal
<1> QED BY <1>1, <1>3, ItemsStep, ResultsStep DEF RealInv

LEMMA RealInit ==
  ASSUME Init
  PROVE  RealInv
<1>1. \A r \in Runs : runs[r].items = <<>>
  BY DEF Init, NoRun
<1>2. \A e \in Executors : exec[e].pc = "idle"
  BY DEF Init, Idle
<1>3. ItemsInv /\ ResultsReal
  BY <1>1 DEF ItemsInv, ResultsReal
<1>4. CallsReal
  BY <1>2 DEF CallsReal, CallReal
<1>5. PastInv
  <2>1. TypeOK
    BY BulkInit DEF BulkInv
  <2>2. \A p \in Products : product[p].rev \in 1..MaxRev
    BY <2>1 DEF TypeOK, Product
  <2> QED BY <2>2 DEF Init, PastInv
<1> QED BY <1>3, <1>4, <1>5 DEF RealInv

THEOREM RealInvariant == Spec => []RealInv
<1>1. Init => RealInv
  BY RealInit
<1>2. BulkInv /\ RealInv /\ [Next]_vars => RealInv'
  BY RealStep
<1> QED BY <1>1, <1>2, BulkInvariant, PTL DEF Spec

\* A success a run reports is real: between the preflight and the revision it
\* reports the product has had the value the run asks for, however late the
\* result was recorded and whoever edited the product meanwhile.
THEOREM SuccessesAreReal == Spec => []SuccessIsReal
<1>1. BulkInv /\ RealInv => SuccessIsReal
  <2> SUFFICES ASSUME BulkInv, RealInv, NEW r \in Runs, NEW i \in Results(r),
                      Result(r, i).status \in {"succeeded", "no_change"}
               PROVE  LET p == runs[r].items[i].product
                          reported == IF Result(r, i).rev = 0 THEN product[p].rev ELSE Result(r, i).rev
                      IN \E v \in runs[r].items[i].rev..reported : Reached(past[p][v], runs[r])
    BY DEF SuccessIsReal
  <2> DEFINE p == runs[r].items[i].product
             rev == Result(r, i).rev
  <2>1. i \in DOMAIN runs[r].items
    BY DEF Results
  <2>2. Holds(product, past, runs[r], i, Result(r, i).status, rev)
    BY <2>1 DEF RealInv, ResultsReal
  <2>3. PICK v \in runs[r].items[i].rev..product[p].rev :
          (rev = 0 \/ v <= rev) /\ Reached(past[p][v], runs[r])
    BY <2>2 DEF Holds
  <2>4. runs[r].items[i] \in Item
    BY <2>1, ItemType DEF BulkInv
  <2>5. rev \in Int
    <3>1. runs[r].results \in [Products -> Outcome]
      BY DEF BulkInv, TypeOK, Run
    <3>2. Result(r, i) \in Outcome
      BY <2>4, <3>1 DEF Result, Item
    <3> QED BY <3>2 DEF Outcome
  <2>6. v \in runs[r].items[i].rev..(IF rev = 0 THEN product[p].rev ELSE rev)
    BY <2>3, <2>4, <2>5 DEF Item
  <2> QED BY <2>3, <2>6
<1> QED BY <1>1, BulkInvariant, RealInvariant, PTL

\* A result once recorded stays: whoever executes the run again, and the receipt
\* it is answered with, report the same.
THEOREM ResultsKept == Spec => ResultsStand
<1> DEFINE Stand == \A r \in Runs : \A i \in Results(r) :
                      runs'[r].results[runs[r].items[i].product] = Result(r, i)
<1>1. BulkInv /\ RealInv /\ [Next]_vars => Stand
  <2> SUFFICES ASSUME BulkInv, RealInv, [Next]_vars, NEW r \in Runs, NEW i \in Results(r)
               PROVE  runs'[r].results[runs[r].items[i].product] = Result(r, i)
    OBVIOUS
  <2>1. i \in DOMAIN runs[r].items /\ Result(r, i) # Prepared
    BY DEF Results, Result
  <2>2. runs[r].status # "none" /\ runs[r].items[i].product \in Products
    BY <2>1, ItemType DEF RealInv, ItemsInv, BulkInv, Item
  <2> QED BY <2>1, <2>2, RunKept DEF Result
<1> HIDE DEF Stand
<1>2. BulkInv /\ RealInv /\ [Next]_vars => [Stand]_vars
  BY <1>1
<1>3. Spec => [][Stand]_vars
  BY <1>2, BulkInvariant, RealInvariant, PTL DEF Spec
<1> QED BY <1>3 DEF ResultsStand, Stand
=============================================================================
