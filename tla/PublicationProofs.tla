------------------------- MODULE PublicationProofs -------------------------
(***************************************************************************)
(* Theorems about Publication for any number of products, routes, intents  *)
(* and revisions, any configuration table and any set of faults.           *)
(***************************************************************************)
EXTENDS Publication, TLAPS

-----------------------------------------------------------------------------
(* Lemmas about the helpers and the records *)

LEMMA NoRecords ==
  /\ NoUnit \in Unit /\ NoIntent \in Intent /\ NoHistory \in History
  /\ NoUnits \in [Products -> Unit] /\ NoHistories \in [Paths -> History]
  /\ DownIndex \in Index /\ Idle \in Claimed /\ NoSwitch \in Candidate
BY ConstantsAssumption
DEF NoUnit, NoIntent, NoHistory, NoUnits, NoHistories, DownIndex, Idle, NoSwitch, Unit, Intent,
    History, Index, Claimed, Candidate, IntentStatus, LiveStatus

\* Queue adds pending intents for products of S behind the existing ones.
LEMMA QueueAdds ==
  ASSUME NEW base, base \in [Ids -> Intent], NEW S, S \subseteq Products,
         NEW rev, rev \in [Products -> Nat],
         nextIntent \in 1..(MaxIntents + 1), Queue(base, S, rev)
  PROVE  /\ intents' \in [Ids -> Intent]
         /\ nextIntent' \in nextIntent..(MaxIntents + 1)
         /\ \A i \in Ids :
              \/ intents'[i] = base[i]
              \/ /\ i >= nextIntent /\ i < nextIntent'
                 /\ \E q \in S : intents'[i] = [product |-> q, rev |-> rev[q], status |-> "pending"]
<1> USE ConstantsAssumption
<1>1. PICK n \in nextIntent..(MaxIntents + 1) : \E owner \in [nextIntent..(n - 1) -> S] :
        /\ intents' = [i \in Ids |->
             IF i \in DOMAIN owner
             THEN [product |-> owner[i], rev |-> rev[owner[i]], status |-> "pending"]
             ELSE base[i]]
        /\ nextIntent' = n
  BY DEF Queue
<1>2. PICK owner \in [nextIntent..(n - 1) -> S] :
        /\ intents' = [i \in Ids |->
             IF i \in DOMAIN owner
             THEN [product |-> owner[i], rev |-> rev[owner[i]], status |-> "pending"]
             ELSE base[i]]
        /\ nextIntent' = n
  BY <1>1
<1>3. \A i \in nextIntent..(n - 1) :
        [product |-> owner[i], rev |-> rev[owner[i]], status |-> "pending"] \in Intent
  BY DEF Intent, IntentStatus, LiveStatus
<1>4. intents' \in [Ids -> Intent]
  BY <1>2, <1>3
<1>5. ASSUME NEW i \in Ids
      PROVE  \/ intents'[i] = base[i]
             \/ /\ i >= nextIntent /\ i < nextIntent'
                /\ \E q \in S : intents'[i] = [product |-> q, rev |-> rev[q], status |-> "pending"]
  BY <1>2 DEF Ids
<1> QED BY <1>2, <1>4, <1>5

LEMMA RememberType ==
  ASSUME TypeOK, NEW moves, NEW state \in {"redirect", "gone"},
         \A m \in moves : m.product \in Products /\ m.new \in Routes \cup {NoRoute}
  PROVE  Remember(moves, state) \in [Paths -> History]
<1> USE ConstantsAssumption
<1> SUFFICES ASSUME NEW x \in Paths PROVE Remember(moves, state)[x] \in History
  BY DEF Remember
<1>1. CASE \E m \in moves, s \in Suffixes : PathOf[m.old][s] = x
  <2> DEFINE m == CHOOSE m \in moves : \E s \in Suffixes : PathOf[m.old][s] = x
             s == CHOOSE s \in Suffixes : PathOf[m.old][s] = x
  <2>1. m \in moves /\ s \in Suffixes
    BY <1>1
  <2>2. Remember(moves, state)[x] =
          [product |-> m.product, state |-> state,
           target |-> IF m.new = NoRoute THEN NoRoute ELSE PathOf[m.new][s]]
    BY <1>1 DEF Remember
  <2> HIDE DEF m, s
  <2>3. (IF m.new = NoRoute THEN NoRoute ELSE PathOf[m.new][s]) \in Paths \cup {NoRoute}
    BY <2>1
  <2>4. m.product \in Products \cup {NoProduct}
    BY <2>1
  <2> QED BY <2>2, <2>3, <2>4 DEF History
<1>2. CASE ~\E m \in moves, s \in Suffixes : PathOf[m.old][s] = x
  BY <1>2 DEF Remember, TypeOK
<1> QED BY <1>1, <1>2

\* Whatever way the index is installed, it is an index.
LEMMA InstallType ==
  ASSUME TypeOK, act' \in [Products -> Unit], hist' \in [Paths -> History], site' \in Site,
         (\E p \in Products : InstallProduct(p)) \/ InstallFails
  PROVE  index' \in Index
<1>1. FullIndex' \in Index
  BY NoRecords DEF FullIndex, Index, Site
<1>2. CASE InstallFails
  BY <1>2, NoRecords DEF InstallFails
<1>3. ASSUME NEW p \in Products, InstallProduct(p)
      PROVE  index' \in Index
  <2>1. CASE index' = FullIndex'
    BY <1>1, <2>1
  <2>2. CASE index' = DownIndex
    BY <2>2, NoRecords
  <2> DEFINE unit == IF Visible(p)' THEN act'[p] ELSE NoUnit
             rows == HistoryWith(p)
  <2>3. CASE index' = [index EXCEPT !.units[p] = unit, !.hist = rows]
    <3>1. unit \in Unit /\ rows \in [Paths -> History]
      BY NoRecords DEF TypeOK, Index, HistoryWith
    <3> HIDE DEF unit, rows
    <3> QED BY <2>3, <3>1 DEF TypeOK, Index
  <2> QED BY <1>3, <2>1, <2>2, <2>3 DEF InstallProduct
<1> QED BY <1>2, <1>3

LEMMA HiddenType ==
  ASSUME NEW x \in Product, NEW live \in BOOLEAN, NEW rev \in Nat
  PROVE  [x EXCEPT !.current = live, !.status = "hidden", !.rev = rev] \in Product
BY DEF Product, Status

LEMMA RevisedType ==
  ASSUME NEW x \in Product
  PROVE  [x EXCEPT !.rev = @ + 1] \in Product
BY DEF Product

LEMMA VisibleType ==
  ASSUME NEW x \in Unit, NEW gen \in Nat
  PROVE  [x EXCEPT !.gen = gen] \in Unit
BY DEF Unit

LEMMA RevsType == product' \in [Products -> Product] => Revs' \in [Products -> Nat]
BY DEF Revs, Product

-----------------------------------------------------------------------------
(* Type correctness *)

\* In the initial state everything is hidden and the index is empty.
LEMMA InitType == Init => TypeOK
<1> USE ConstantsAssumption
<1> SUFFICES ASSUME Init PROVE TypeOK
  OBVIOUS
<1>1. site \in Site /\ act \in [Products -> Unit] /\ hist \in [Paths -> History]
  BY NoRecords DEF Init, Site
<1>2. index \in Index
  BY <1>1 DEF Init, FullIndex, Index, Site, NoUnits, NoUnit, Unit
<1>3. product \in [Products -> Product] /\ vis \in [Products -> Visibility]
  BY DEF Init, Product, Status, Visibility
<1> QED BY <1>1, <1>2, <1>3, NoRecords DEF Init, TypeOK, Ids

\* The commands of the administrators keep the types.
LEMMA CommandsType ==
  ASSUME TypeOK,
         \/ \E p \in Products : Edit(p) \/ Import(p) \/ Revoke(p, TRUE) \/ Revoke(p, FALSE)
         \/ Relocalize
         \/ \E S \in SUBSET Products : ChangeProfile(S)
         \/ \E id \in Ids : Retry(id)
  PROVE  TypeOK'
<1> USE ConstantsAssumption
<1>1. ASSUME NEW p \in Products, Edit(p) PROVE TypeOK'
  <2>1. product' \in [Products -> Product]
    BY <1>1 DEF Edit, TypeOK, Product, Status
  <2>2. Queue(intents, {p}, Revs')
    BY <1>1 DEF Edit
  <2>3. intents' \in [Ids -> Intent] /\ nextIntent' \in nextIntent..(MaxIntents + 1)
    BY <2>1, <2>2, RevsType, QueueAdds DEF TypeOK
  <2> QED BY <1>1, <2>1, <2>3 DEF Edit, TypeOK
<1>2. ASSUME NEW p \in Products, Import(p) PROVE TypeOK'
  <2>1. product' \in [Products -> Product]
    BY <1>2 DEF Import, TypeOK, Product
  <2>2. Queue(intents, {p}, Revs')
    BY <1>2 DEF Import
  <2>3. intents' \in [Ids -> Intent] /\ nextIntent' \in nextIntent..(MaxIntents + 1)
    BY <2>1, <2>2, RevsType, QueueAdds DEF TypeOK
  <2> QED BY <1>2, <2>1, <2>3 DEF Import, TypeOK
<1>3. ASSUME NEW p \in Products, NEW archive \in BOOLEAN, Revoke(p, archive) PROVE TypeOK'
  <2> DEFINE same == ~archive /\ product[p].status = "hidden"
             rev == IF same THEN product[p].rev ELSE product[p].rev + 1
             moves == {[product |-> p, old |-> act[p].route, new |-> NoRoute]}
  <2>1. product' \in [Products -> Product]
    <3>1. product' = [product EXCEPT ![p].current = ~archive, ![p].status = "hidden",
                                     ![p].rev = IF same THEN @ ELSE @ + 1]
      BY <1>3 DEF Revoke
    <3>2. rev \in Nat
      BY DEF TypeOK, Product
    <3> HIDE DEF same
    <3>3. product' = [product EXCEPT ![p] = [@ EXCEPT !.current = ~archive,
                                               !.status = "hidden", !.rev = rev]]
      BY <3>1 DEF TypeOK, Product
    <3>4. PICK live \in BOOLEAN : live = ~archive
      OBVIOUS
    <3>5. product' = [product EXCEPT ![p] = [@ EXCEPT !.current = live,
                                               !.status = "hidden", !.rev = rev]]
      BY <3>3, <3>4, Zenon
    <3> HIDE DEF rev
    <3>6. [product[p] EXCEPT !.current = live, !.status = "hidden", !.rev = rev] \in Product
      BY <3>2, HiddenType DEF TypeOK
    <3> QED BY <3>5, <3>6 DEF TypeOK
  <2>2. Queue(intents, IF same THEN {} ELSE {p}, Revs')
    BY <1>3 DEF Revoke
  <2>3. intents' \in [Ids -> Intent] /\ nextIntent' \in nextIntent..(MaxIntents + 1)
    BY <2>1, <2>2, RevsType, QueueAdds DEF TypeOK
  <2>4. vis' \in [Products -> Visibility]
    <3>1. vis' = [vis EXCEPT ![p] = [gen |-> @.gen + 1, visible |-> FALSE]]
      BY <1>3 DEF Revoke
    <3> QED BY <3>1 DEF TypeOK, Visibility
  <2>8. act' \in [Products -> Unit]
    BY <1>3, NoRecords DEF Revoke, TypeOK
  <2>5. Remember(moves, "gone") \in [Paths -> History]
    BY RememberType, SMTT(30)
  <2>6. hist' \in [Paths -> History]
    BY <1>3, <2>5 DEF Revoke, TypeOK
  <2>7. index' \in Index
    BY <1>3, <2>8, <2>6, InstallType DEF Revoke, TypeOK
  <2>9. UNCHANGED <<site, facts, fanout, damaged, worker, switch>>
    BY <1>3 DEF Revoke
  <2> QED BY <2>1, <2>3, <2>4, <2>6, <2>7, <2>8, <2>9 DEF TypeOK
<1>4. CASE Relocalize
  <2>1. Revs \in [Products -> Nat]
    BY DEF Revs, TypeOK, Product
  <2>2. intents' \in [Ids -> Intent] /\ nextIntent' \in nextIntent..(MaxIntents + 1)
    BY <1>4, <2>1, QueueAdds DEF Relocalize, TypeOK
  <2> QED BY <1>4, <2>2 DEF Relocalize, TypeOK
<1>5. ASSUME NEW S \in SUBSET Products, ChangeProfile(S) PROVE TypeOK'
  BY <1>5 DEF ChangeProfile, TypeOK
<1>6. ASSUME NEW id \in Ids, Retry(id) PROVE TypeOK'
  <2>1. Revs \in [Products -> Nat]
    BY DEF Revs, TypeOK, Product
  <2>2. Queue(intents, {intents[id].product}, Revs) /\ intents[id].product \in Products
    BY <1>6 DEF Retry
  <2>3. intents' \in [Ids -> Intent] /\ nextIntent' \in nextIntent..(MaxIntents + 1)
    BY <2>1, <2>2, QueueAdds DEF TypeOK
  <2> QED BY <1>6, <2>3 DEF Retry, TypeOK
<1>7. ASSUME NEW p \in Products, Revoke(p, TRUE) \/ Revoke(p, FALSE) PROVE TypeOK'
  <2>1. CASE Revoke(p, TRUE)
    BY <1>3, <2>1
  <2>2. CASE Revoke(p, FALSE)
    BY <1>3, <2>2
  <2> QED BY <1>7, <2>1, <2>2
<1> QED BY <1>1, <1>2, <1>4, <1>5, <1>6, <1>7


\* What is staged for a product is a unit, whatever the configuration.
LEMMA UnitForType ==
  ASSUME TypeOK, NEW p \in Products, NEW config \in Configs, NEW epoch \in Nat
  PROVE  /\ RouteOf(config, p) \in Routes \cup {NoRoute}
         /\ UnitFor(p, config, epoch) \in Unit
<1>1. RouteOf(config, p) \in Routes \cup {NoRoute}
  BY ConstantsAssumption DEF RouteOf, RouteUnder, TypeOK, Product
<1>2. product[p].rev \in Nat /\ facts[p] \in Nat
  BY DEF TypeOK, Product
<1> QED BY <1>1, <1>2 DEF UnitFor, Unit

LEMMA CloseType ==
  ASSUME TypeOK, NEW id, NEW from, NEW status \in IntentStatus, Close(id, from, status)
  PROVE  intents' \in [Ids -> Intent]
BY DEF Close, TypeOK, Intent

\* The worker keeps the types; it needs to know that its claim names a product.
LEMMA WorkerType ==
  ASSUME TypeOK, QueueInv, Worker
  PROVE  TypeOK'
<1> USE ConstantsAssumption
<1>1. ASSUME NEW chunk \in SUBSET Products, Fanout(chunk) PROVE TypeOK'
  <2> DEFINE S == {q \in chunk : product[q].current}
  <2>1. product' \in [Products -> Product]
    <3>1. product' = [q \in Products |->
                        IF q \in S THEN [product[q] EXCEPT !.rev = @ + 1] ELSE product[q]]
      BY <1>1 DEF Fanout
    <3>2. \A q \in Products : [product[q] EXCEPT !.rev = @ + 1] \in Product
      BY RevisedType DEF TypeOK
    <3> QED BY <3>1, <3>2 DEF TypeOK
  <2>2. Queue(intents, S, Revs')
    BY <1>1 DEF Fanout
  <2>3. intents' \in [Ids -> Intent] /\ nextIntent' \in nextIntent..(MaxIntents + 1)
    BY <2>1, <2>2, RevsType, QueueAdds DEF TypeOK
  <2> QED BY <1>1, <2>1, <2>3 DEF Fanout, TypeOK
<1>2. CASE Claim
  <2>1. PICK id \in Ids :
          /\ intents' = [intents EXCEPT ![id].status = "processing"]
          /\ worker' = [pc |-> "claimed", id |-> id, product |-> intents[id].product,
                        rev |-> intents[id].rev, unit |-> NoUnit]
    BY <1>2 DEF Claim
  <2>2. intents' \in [Ids -> Intent]
    BY <2>1 DEF TypeOK, Intent, IntentStatus, LiveStatus
  <2>3. worker' \in Claimed
    BY <2>1, NoRecords, SMTT(30) DEF TypeOK, Intent, Claimed, Ids
  <2> QED BY <1>2, <2>2, <2>3 DEF Claim, TypeOK
<1>3. ASSUME NEW p \in Products, Stage(p) PROVE TypeOK'
  <2>1. site.config \in Configs /\ site.epoch \in Nat
    BY DEF TypeOK, Site
  <2>2. UnitFor(p, site.config, site.epoch) \in Unit
    BY <2>1, UnitForType
  <2>3. worker' \in Claimed
    BY <1>3, <2>2 DEF Stage, TypeOK, Claimed
  <2> QED BY <1>3, <2>3 DEF Stage, TypeOK, durable
<1>4. ASSUME NEW p \in Products, ActivateOvertaken(p) PROVE TypeOK'
  <2>1. "superseded" \in IntentStatus
    BY DEF IntentStatus
  <2>2. intents' \in [Ids -> Intent]
    BY <1>4, <2>1, CloseType DEF ActivateOvertaken
  <2>3. index' \in Index
    BY <1>4, InstallType DEF ActivateOvertaken, TypeOK
  <2> QED BY <1>4, <2>2, <2>3, NoRecords DEF ActivateOvertaken, TypeOK
<1>5. ASSUME NEW p \in Products, ActivateStale(p) PROVE TypeOK'
  <2>1. UNCHANGED <<durable, switch>>
    BY <1>5 DEF ActivateStale
  <2>2. index' \in Index
    BY <1>5, <2>1, InstallType DEF ActivateStale, TypeOK, durable
  <2>3. worker' \in Claimed
    BY <1>5, NoRecords DEF ActivateStale, TypeOK, Claimed
  <2> QED BY <2>1, <2>2, <2>3 DEF TypeOK, durable
<1>6. CASE Discard \/ FailIntent
  <2>1. {"superseded", "failed"} \subseteq IntentStatus
    BY DEF IntentStatus
  <2>2. PICK from \in SUBSET IntentStatus, status \in IntentStatus : CloseClaim(from, status)
    BY <1>6, <2>1 DEF Discard, FailIntent, IntentStatus, LiveStatus
  <2>3. intents' \in [Ids -> Intent]
    BY <2>2, CloseType DEF CloseClaim, TypeOK
  <2> QED BY <2>2, <2>3, NoRecords DEF CloseClaim, TypeOK
<1>7. ASSUME NEW p \in Products, ActivateFails(p) PROVE TypeOK'
  BY <1>7, NoRecords DEF ActivateFails, TypeOK, durable
<1>8. ASSUME NEW p \in Products, Activate(p) PROVE TypeOK'
  <2> DEFINE gen == NextGen(p)
             unit == [worker.unit EXCEPT !.gen = gen]
             moves == {[product |-> p, old |-> act[p].route, new |-> unit.route]}
  <2>1. gen \in Nat
    BY DEF TypeOK, Visibility, NextGen
  <2>2. unit \in Unit
    BY <2>1 DEF TypeOK, Claimed, Unit
  <2>3. vis' \in [Products -> Visibility]
    <3>1. vis' = [vis EXCEPT ![p] = [gen |-> gen, visible |-> TRUE]]
      BY <1>8 DEF Activate
    <3> HIDE DEF gen
    <3> QED BY <2>1, <3>1 DEF TypeOK, Visibility
  <2>4. act' \in [Products -> Unit]
    <3>1. act' = [act EXCEPT ![p] = unit]
      BY <1>8 DEF Activate
    <3> HIDE DEF unit
    <3> QED BY <2>2, <3>1 DEF TypeOK
  <2>5. hist' \in [Paths -> History]
    <3>1. hist' = IF act[p] # NoUnit /\ act[p].route # unit.route
                  THEN Remember(moves, "redirect") ELSE hist
      BY <1>8 DEF Activate
    <3>2. Remember(moves, "redirect") \in [Paths -> History]
      <4>1. unit.route \in Routes \cup {NoRoute}
        BY <2>2 DEF Unit
      <4> HIDE DEF unit
      <4>2. \A m \in moves : m.product \in Products /\ m.new \in Routes \cup {NoRoute}
        BY <4>1
      <4> HIDE DEF moves
      <4> QED BY <4>2, RememberType
    <3>3. hist \in [Paths -> History]
      BY DEF TypeOK
    <3> HIDE DEF unit, moves
    <3> QED BY <3>1, <3>2, <3>3
  <2>6. intents' \in [Ids -> Intent]
    <3>1. \A i \in Ids : /\ [intents[i] EXCEPT !.status = "completed"] \in Intent
                         /\ [intents[i] EXCEPT !.status = "superseded"] \in Intent
      BY ZenonT(60) DEF TypeOK, Intent, IntentStatus
    <3>2. intents' = [i \in Ids |->
            IF i = worker.id THEN [intents[i] EXCEPT !.status = "completed"]
            ELSE IF Overtaken(i, p, unit.rev) THEN [intents[i] EXCEPT !.status = "superseded"]
            ELSE intents[i]]
      BY <1>8 DEF Activate
    <3> HIDE DEF unit
    <3> QED BY <3>1, <3>2 DEF TypeOK
  <2>7. /\ UNCHANGED <<product, nextIntent, site, facts, fanout, switch>>
        /\ worker' = Idle /\ damaged' = damaged \ {p}
    BY <1>8 DEF Activate
  <2>8. index' \in Index
    <3>1. InstallProduct(p) \/ InstallFails
      BY <1>8 DEF Activate
    <3> QED BY <2>4, <2>5, <2>7, <3>1, InstallType DEF TypeOK
  <2> QED BY <2>3, <2>4, <2>5, <2>6, <2>7, <2>8, NoRecords DEF TypeOK
<1> QED BY <1>1, <1>2, <1>3, <1>4, <1>5, <1>6, <1>7, <1>8 DEF Worker


\* The route switch, the faults and the restart keep the types.
LEMMA SystemType ==
  ASSUME TypeOK,
         \/ \E c \in Configs : BeginSwitch(c)
         \/ \E p \in Products : ReadForSwitch(p)
         \/ AbortSwitch \/ ActivateSwitch
         \/ \E p \in Products : Damage(p)
         \/ Crash \/ Restart
  PROVE  TypeOK'
<1> USE ConstantsAssumption
<1>1. ASSUME NEW c \in Configs, BeginSwitch(c) PROVE TypeOK'
  <2>1. switch' \in Candidate
    BY <1>1, NoRecords DEF BeginSwitch, TypeOK, Candidate, Site
  <2> QED BY <1>1, <2>1 DEF BeginSwitch, TypeOK, durable
<1>2. ASSUME NEW p \in Products, ReadForSwitch(p) PROVE TypeOK'
  <2> DEFINE unit == UnitFor(p, switch.config, switch.epoch + 1)
  <2>1. unit \in Unit
    <3>1. switch.config \in Configs /\ switch.epoch + 1 \in Nat
      BY DEF TypeOK, Candidate
    <3> QED BY <3>1, UnitForType
  <2>2. switch' = [switch EXCEPT !.todo = @ \ {p}, !.units[p] = unit]
    BY <1>2 DEF ReadForSwitch
  <2>3. switch' \in Candidate
    <3> HIDE DEF unit
    <3> QED BY <2>1, <2>2 DEF TypeOK, Candidate
  <2> QED BY <1>2, <2>3 DEF ReadForSwitch, TypeOK, durable
<1>3. CASE AbortSwitch
  BY <1>3, NoRecords DEF AbortSwitch, TypeOK, durable
<1>4. CASE ActivateSwitch
  <2> DEFINE S == {p \in Products : Published(p)}
             unit == [p \in Products |-> IF p \in S
                        THEN [switch.units[p] EXCEPT !.gen = vis[p].gen + 1] ELSE NoUnit]
             moved == {p \in S : act[p] # NoUnit /\ act[p].route # unit[p].route}
             moves == {[product |-> p, old |-> act[p].route, new |-> unit[p].route] : p \in moved}
  <2>1. unit \in [Products -> Unit]
    <3>1. \A p \in Products : switch.units[p] \in Unit /\ vis[p].gen + 1 \in Nat
      BY DEF TypeOK, Candidate, Visibility
    <3>2. \A p \in Products : [switch.units[p] EXCEPT !.gen = vis[p].gen + 1] \in Unit
      BY <3>1, VisibleType
    <3>3. \A p \in Products : unit[p] \in Unit
      BY <3>2, NoRecords
    <3>4. unit = [p \in Products |-> unit[p]]
      BY Zenon
    <3> HIDE DEF unit
    <3> QED BY <3>3, <3>4
  <2>2. site' \in Site
    <3>1. site' = [epoch |-> site.epoch + 1, config |-> switch.config]
      BY ZenonT(60), <1>4 DEF ActivateSwitch
    <3> QED BY <3>1 DEF TypeOK, Site, Candidate
  <2>3. vis' \in [Products -> Visibility]
    <3>1. vis' = [p \in Products |-> IF p \in S THEN [gen |-> vis[p].gen + 1, visible |-> TRUE]
                                     ELSE vis[p]]
      BY <1>4 DEF ActivateSwitch
    <3>2. \A p \in Products : [gen |-> vis[p].gen + 1, visible |-> TRUE] \in Visibility
      BY DEF TypeOK, Visibility
    <3> HIDE DEF S
    <3> QED BY <3>1, <3>2 DEF TypeOK
  <2>4. act' = unit
    BY <1>4 DEF ActivateSwitch
  <2>5. hist' \in [Paths -> History]
    <3>1. hist' = Remember(moves, "redirect")
      BY <1>4 DEF ActivateSwitch
    <3>2. \A m \in moves : m.product \in Products /\ m.new \in Routes \cup {NoRoute}
      <4> HIDE DEF unit
      <4> QED BY <2>1 DEF Unit
    <3> HIDE DEF moves
    <3> QED BY <3>1, <3>2, RememberType
  <2>6. intents' \in [Ids -> Intent]
    <3>1. \A i \in Ids : [intents[i] EXCEPT !.status = "superseded"] \in Intent
      BY ZenonT(60) DEF TypeOK, Intent, IntentStatus
    <3>2. intents' = [i \in Ids |->
            IF \E p \in S : Overtaken(i, p, unit[p].rev)
            THEN [intents[i] EXCEPT !.status = "superseded"]
            ELSE intents[i]]
      BY <1>4 DEF ActivateSwitch
    <3> HIDE DEF unit, S
    <3> QED BY <3>1, <3>2 DEF TypeOK
  <2>7. /\ UNCHANGED <<product, nextIntent, facts, fanout, worker>>
        /\ switch' = NoSwitch /\ damaged' = damaged \ S
    BY <1>4 DEF ActivateSwitch
  <2>8. index' \in Index
    <3>1. CASE index' = FullIndex'
      <4>1. FullIndex' \in Index
        <5> HIDE DEF unit
        <5> QED BY <2>1, <2>2, <2>4, <2>5, NoRecords DEF FullIndex, Index, Site
      <4> QED BY <3>1, <4>1
    <3>2. CASE InstallFails
      BY <3>2, NoRecords DEF InstallFails
    <3> QED BY <1>4, <3>1, <3>2 DEF ActivateSwitch
  <2> HIDE DEF unit, S
  <2> QED BY <2>1, <2>2, <2>3, <2>4, <2>5, <2>6, <2>7, <2>8, NoRecords DEF TypeOK
<1>5. ASSUME NEW p \in Products, Damage(p) PROVE TypeOK'
  BY <1>5 DEF Damage, TypeOK
<1>6. CASE Crash
  <2>1. [Idle EXCEPT !.pc = "down"] \in Claimed
    BY NoRecords DEF Claimed
  <2> QED BY <1>6, <2>1, NoRecords DEF Crash, TypeOK, durable
<1>7. CASE Restart
  <2> DEFINE reset == ClaimsReset
             repair == {p \in damaged : /\ Visible(p) /\ act[p].rev = product[p].rev
                                 /\ \A i \in Ids : ~ /\ reset[i].product = p
                                                     /\ reset[i].rev = act[p].rev
                                                     /\ reset[i].status \in LiveStatus}
  <2>1. reset \in [Ids -> Intent]
    <3>1. \A i \in Ids : [intents[i] EXCEPT !.status = "pending"] \in Intent
      BY ZenonT(60) DEF TypeOK, Intent, IntentStatus, LiveStatus
    <3> QED BY <3>1 DEF TypeOK, ClaimsReset
  <2>2. Queue(reset, repair, Revs) /\ repair \subseteq Products
    BY <1>7 DEF Restart, TypeOK
  <2>3. Revs \in [Products -> Nat]
    BY DEF Revs, TypeOK, Product
  <2>4. intents' \in [Ids -> Intent] /\ nextIntent' \in nextIntent..(MaxIntents + 1)
    <3> HIDE DEF reset, repair
    <3> QED BY <2>1, <2>2, <2>3, QueueAdds DEF TypeOK
  <2>5. index' \in Index
    <3>1. FullIndex \in Index
      BY NoRecords DEF FullIndex, Index, Site, TypeOK
    <3> QED BY <1>7, <3>1 DEF Restart
  <2> QED BY <1>7, <2>4, <2>5, NoRecords DEF Restart, TypeOK
<1> QED BY <1>1, <1>2, <1>3, <1>4, <1>5, <1>6, <1>7

\* A step keeps the types, given that the queue names products.
LEMMA NextType ==
  ASSUME TypeOK, QueueInv, [Next]_vars
  PROVE  TypeOK'
<1>1. CASE Worker
  BY <1>1, WorkerType
<1>2. CASE UNCHANGED vars
  BY <1>2 DEF vars, durable, TypeOK
<1> QED BY <1>1, <1>2, CommandsType, SystemType DEF Next


-----------------------------------------------------------------------------
(* The shape of a step: what every action does to products and intents *)

\* Revisions only grow, and a product that keeps its revision keeps its record,
\* unless it is hidden.
ProductsGrow ==
  \A p \in Products :
    \/ product'[p] = product[p]
    \/ product'[p].rev > product[p].rev
    \/ product'[p].rev = product[p].rev /\ ~Published(p)'

\* f keeps what the intents ask for, and revives none.
Keeps(f) ==
  \A i \in Ids : /\ f[i].product = intents[i].product /\ f[i].rev = intents[i].rev
                 /\ f[i].status = "none" <=> intents[i].status = "none"
                 /\ f[i].status = "processing" =>
                      \/ intents[i].status = "processing"
                      \/ worker.pc = "idle"

\* An intent is kept or is new, and then asks for a revision the product has had.
IntentsGrow ==
  /\ nextIntent' >= nextIntent
  /\ \E f \in [Ids -> Intent] :
       /\ Keeps(f)
       /\ \A i \in Ids :
            \/ intents'[i] = f[i]
            \/ /\ i >= nextIntent /\ i < nextIntent'
               /\ intents'[i].product \in Products
               /\ intents'[i].rev <= product'[intents'[i].product].rev
               /\ intents'[i].status = "pending"

LEMMA KeepsItself == ASSUME TypeOK PROVE Keeps(intents)
BY DEF Keeps

LEMMA KeptIntents ==
  ASSUME TypeOK, intents' \in [Ids -> Intent], Keeps(intents'), UNCHANGED nextIntent
  PROVE  IntentsGrow
<1>1. nextIntent' >= nextIntent
  BY DEF TypeOK
<1> QED BY <1>1 DEF IntentsGrow

LEMMA QueuedIntents ==
  ASSUME TypeOK, NEW base \in [Ids -> Intent], Keeps(base), NEW S, S \subseteq Products,
         NEW rev \in [Products -> Nat], Queue(base, S, rev),
         \A q \in S : rev[q] <= product'[q].rev
  PROVE  IntentsGrow
<1>0. nextIntent \in 1..(MaxIntents + 1)
  BY DEF TypeOK
<1>1. nextIntent' \in nextIntent..(MaxIntents + 1)
  BY <1>0, QueueAdds
<1>2. \A i \in Ids :
           \/ intents'[i] = base[i]
           \/ /\ i >= nextIntent /\ i < nextIntent'
              /\ \E q \in S : intents'[i] = [product |-> q, rev |-> rev[q], status |-> "pending"]
  BY <1>0, QueueAdds
<1>3. ASSUME NEW i \in Ids, intents'[i] # base[i]
      PROVE  /\ i >= nextIntent /\ i < nextIntent'
             /\ intents'[i].product \in Products
             /\ intents'[i].rev <= product'[intents'[i].product].rev
             /\ intents'[i].status = "pending"
  <2>1. PICK q \in S : intents'[i] = [product |-> q, rev |-> rev[q], status |-> "pending"]
    BY <1>2, <1>3
  <2>2. i >= nextIntent /\ i < nextIntent'
    BY <1>2, <1>3
  <2> QED BY <2>1, <2>2
<1>4. nextIntent' >= nextIntent
  BY <1>0, <1>1, ConstantsAssumption
<1> QED BY <1>3, <1>4 DEF IntentsGrow

\* Closing an intent keeps the queue.
LEMMA ClosedIntents ==
  ASSUME TypeOK, QueueInv, NEW id, NEW from, "none" \notin from,
         NEW status \in {"superseded", "failed"}, Close(id, from, status), UNCHANGED nextIntent
  PROVE  IntentsGrow
<1>1. intents' \in [Ids -> Intent]
  BY CloseType DEF IntentStatus
<1>2. Keeps(intents')
  <2> SUFFICES ASSUME NEW i \in Ids
               PROVE  /\ intents'[i].product = intents[i].product
                      /\ intents'[i].rev = intents[i].rev
                      /\ intents'[i].status = "none" <=> intents[i].status = "none"
                      /\ intents'[i].status = "processing" =>
                           \/ intents[i].status = "processing"
                           \/ worker.pc = "idle"
    BY Zenon DEF Keeps
  <2>1. intents[i] \in Intent
    BY DEF TypeOK
  <2>2. CASE i = id
    <3>1. intents'[i] = [intents[i] EXCEPT !.status =
                           IF intents[i].status \in from THEN status ELSE intents[i].status]
      BY <2>2 DEF Close, TypeOK
    <3> QED BY <2>1, <3>1 DEF Intent
  <2>3. CASE i # id
    BY <2>3 DEF Close, TypeOK
  <2> QED BY <2>2, <2>3
<1> QED BY <1>1, <1>2, KeptIntents

\* What every action does to the products.
LEMMA ProductsShape ==
  ASSUME TypeOK, [Next]_vars
  PROVE  ProductsGrow
<1>1. ASSUME NEW p \in Products, Edit(p) PROVE ProductsGrow
  BY <1>1 DEF Edit, TypeOK, Product, ProductsGrow
<1>2. ASSUME NEW p \in Products, Import(p) PROVE ProductsGrow
  BY <1>2 DEF Import, TypeOK, Product, ProductsGrow
<1>3. ASSUME NEW p \in Products, NEW archive, Revoke(p, archive) PROVE ProductsGrow
  <2>1. product' = [product EXCEPT ![p].current = ~archive, ![p].status = "hidden",
             ![p].rev = IF ~archive /\ product[p].status = "hidden" THEN @ ELSE @ + 1]
    BY <1>3 DEF Revoke
  <2>2. product'[p].status = "hidden" /\ product'[p].rev \in {product[p].rev, product[p].rev + 1}
    BY <2>1 DEF TypeOK, Product
  <2>3. \A q \in Products \ {p} : product'[q] = product[q]
    BY <2>1 DEF TypeOK
  <2>4. product[p].rev \in Nat
    BY DEF TypeOK, Product
  <2> QED BY <2>2, <2>3, <2>4 DEF ProductsGrow, Published
<1>4. ASSUME NEW chunk \in SUBSET Products, Fanout(chunk) PROVE ProductsGrow
  BY <1>4 DEF Fanout, TypeOK, Product, ProductsGrow
<1>5. CASE UNCHANGED product
  BY <1>5 DEF ProductsGrow
<1>6. CASE \E p \in Products : Edit(p) \/ Import(p) \/ Revoke(p, TRUE) \/ Revoke(p, FALSE)
  BY <1>1, <1>2, <1>3, <1>6
<1>7. CASE Worker
  <2>1. (\E S \in SUBSET Products : Fanout(S)) \/ UNCHANGED product
    BY <1>7 DEF Worker, Claim, Discard, FailIntent, CloseClaim, Stage, ActivateOvertaken,
                ActivateStale, ActivateFails, Activate, durable
  <2> QED BY <1>4, <1>5, <2>1
<1>8. \/ \E p \in Products : Edit(p) \/ Import(p) \/ Revoke(p, TRUE) \/ Revoke(p, FALSE)
      \/ Worker \/ UNCHANGED product
  BY DEF Next, vars, durable, Relocalize, ChangeProfile, Retry, BeginSwitch, ReadForSwitch,
         AbortSwitch, ActivateSwitch, Damage, Crash, Restart
<1> QED BY <1>5, <1>6, <1>7, <1>8

\* What every action does to the queue of intents.
LEMMA IntentsShape ==
  ASSUME TypeOK, QueueInv, [Next]_vars
  PROVE  IntentsGrow
<1>0. /\ \A q \in Products : Revs[q] = product[q].rev /\ Revs'[q] = product'[q].rev
      /\ \A q \in Products : product[q].rev \in Nat
      /\ Revs \in [Products -> Nat]
  BY DEF Revs, TypeOK, Product
<1>1. ASSUME NEW S, S \subseteq Products, Queue(intents, S, Revs') PROVE IntentsGrow
  <2>1. Revs' \in [Products -> Nat]
    <3>1. product' \in [Products -> Product]
      BY NextType DEF TypeOK
    <3> QED BY <3>1, RevsType
  <2>2. \A q \in S : Revs'[q] <= product'[q].rev
    BY <1>0, <1>1, <2>1
  <2>3. intents \in [Ids -> Intent]
    BY DEF TypeOK
  <2> QED BY <1>1, <2>1, <2>2, <2>3, KeepsItself, QueuedIntents
<1>2. ASSUME NEW base \in [Ids -> Intent], Keeps(base), NEW S, S \subseteq Products,
             Queue(base, S, Revs), UNCHANGED product
      PROVE  IntentsGrow
  BY <1>0, <1>2, QueuedIntents
<1>3. CASE UNCHANGED <<intents, nextIntent>>
  BY <1>3, KeepsItself, KeptIntents DEF TypeOK, Keeps
<1>4. ASSUME NEW p \in Products, Edit(p) \/ Import(p) PROVE IntentsGrow
  <2>1. Queue(intents, {p}, Revs')
    BY <1>4 DEF Edit, Import
  <2> QED BY <1>1, <2>1
<1>5. ASSUME NEW p \in Products, NEW archive, Revoke(p, archive) PROVE IntentsGrow
  <2> DEFINE S == IF ~archive /\ product[p].status = "hidden" THEN {} ELSE {p}
  <2>1. Queue(intents, S, Revs') /\ S \subseteq Products
    BY <1>5 DEF Revoke
  <2> QED BY <1>1, <2>1
<1>6. CASE Relocalize
  <2>1. Queue(intents, {p \in Products : Published(p)}, Revs) /\ UNCHANGED product
    BY <1>6 DEF Relocalize
  <2> QED BY <1>2, <2>1, KeepsItself DEF TypeOK
<1>7. ASSUME NEW id \in Ids, Retry(id) PROVE IntentsGrow
  <2>1. Queue(intents, {intents[id].product}, Revs) /\ UNCHANGED product
        /\ intents[id].product \in Products
    BY <1>7 DEF Retry
  <2> QED BY <1>2, <2>1, KeepsItself DEF TypeOK
<1>8. ASSUME NEW chunk \in SUBSET Products, Fanout(chunk) PROVE IntentsGrow
  <2>1. Queue(intents, {q \in chunk : product[q].current}, Revs')
    BY <1>8 DEF Fanout
  <2> QED BY <1>1, <2>1
<1>9. CASE Claim
  <2>1. PICK id \in Ids : intents' = [intents EXCEPT ![id].status = "processing"]
                          /\ intents[id].status = "pending"
    BY <1>9 DEF Claim
  <2>2. intents' \in [Ids -> Intent]
    BY <2>1 DEF TypeOK, Intent, IntentStatus, LiveStatus
  <2>3. worker.pc = "idle" /\ UNCHANGED nextIntent
    BY <1>9 DEF Claim
  <2>4. Keeps(intents')
    BY <2>1, <2>3 DEF Keeps, TypeOK, Intent
  <2> QED BY <2>2, <2>3, <2>4, KeptIntents
<1>10. ASSUME NEW p \in Products, Stage(p) PROVE IntentsGrow
  BY <1>3, <1>10 DEF Stage, durable
<1>11. ASSUME NEW p \in Products, ActivateOvertaken(p) PROVE IntentsGrow
  BY <1>11, ClosedIntents DEF ActivateOvertaken
<1>12. CASE Discard \/ FailIntent
  <2>1. CASE UNCHANGED intents
    BY <1>3, <1>12, <2>1 DEF Discard, FailIntent, CloseClaim
  <2>2. CASE Close(worker.id, LiveStatus, "superseded")
    BY <1>12, <2>2, ClosedIntents DEF Discard, FailIntent, CloseClaim, LiveStatus
  <2>3. CASE Close(worker.id, {"processing"}, "failed")
    BY <1>12, <2>3, ClosedIntents DEF Discard, FailIntent, CloseClaim
  <2> QED BY <1>12, <2>1, <2>2, <2>3 DEF Discard, FailIntent, CloseClaim
<1>13. ASSUME intents' \in [Ids -> Intent], UNCHANGED nextIntent,
              \A i \in Ids : \/ intents'[i] = intents[i]
                             \/ /\ intents[i].status # "none"
                                /\ intents'[i].product = intents[i].product
                                /\ intents'[i].rev = intents[i].rev
                                /\ intents'[i].status \in {"completed", "superseded"}
       PROVE  IntentsGrow
  BY <1>13, KeptIntents DEF Keeps
<1>14. ASSUME NEW p \in Products, Activate(p) PROVE IntentsGrow
  <2>1. intents' \in [Ids -> Intent] /\ UNCHANGED nextIntent
    BY <1>14, NextType DEF Activate, TypeOK
  <2>2. intents[worker.id].status = "processing"
    BY <1>14 DEF Activate, ClaimCurrent
  <2>3. ASSUME NEW i \in Ids, intents'[i] # intents[i]
        PROVE  /\ intents[i].status # "none"
               /\ intents'[i].product = intents[i].product
               /\ intents'[i].rev = intents[i].rev
               /\ intents'[i].status \in {"completed", "superseded"}
    <3>1. \/ i = worker.id /\ intents'[i] = [intents[i] EXCEPT !.status = "completed"]
          \/ intents[i].status \in LiveStatus
             /\ intents'[i] = [intents[i] EXCEPT !.status = "superseded"]
      BY <1>14, <2>3 DEF Activate, Overtaken
    <3>2. intents[i] \in Intent
      BY DEF TypeOK
    <3> QED BY <2>2, <3>1, <3>2 DEF Intent, LiveStatus
  <2> QED BY <1>13, <2>1, <2>3
<1>15. CASE ActivateSwitch
  <2>1. intents' \in [Ids -> Intent] /\ UNCHANGED nextIntent
    BY <1>15, NextType DEF ActivateSwitch, TypeOK
  <2>2. ASSUME NEW i \in Ids, intents'[i] # intents[i]
        PROVE  /\ intents[i].status # "none"
               /\ intents'[i].product = intents[i].product
               /\ intents'[i].rev = intents[i].rev
               /\ intents'[i].status \in {"completed", "superseded"}
    <3>1. /\ intents[i].status \in LiveStatus
          /\ intents'[i] = [intents[i] EXCEPT !.status = "superseded"]
      BY <1>15, <2>2 DEF ActivateSwitch, Overtaken
    <3>2. intents[i] \in Intent
      BY DEF TypeOK
    <3> QED BY <3>1, <3>2 DEF Intent, LiveStatus
  <2> QED BY <1>13, <2>1, <2>2
<1>16. CASE Restart
  <2> DEFINE reset == ClaimsReset
             repair == {p \in damaged : /\ Visible(p) /\ act[p].rev = product[p].rev
                                 /\ \A i \in Ids : ~ /\ reset[i].product = p
                                                     /\ reset[i].rev = act[p].rev
                                                     /\ reset[i].status \in LiveStatus}
  <2>1. Queue(reset, repair, Revs) /\ repair \subseteq Products /\ UNCHANGED product
    BY <1>16 DEF Restart, TypeOK
  <2>2. reset \in [Ids -> Intent]
    BY DEF TypeOK, Intent, IntentStatus, LiveStatus, ClaimsReset
  <2>3. Keeps(reset)
    BY DEF Keeps, TypeOK, Intent, ClaimsReset
  <2> HIDE DEF reset, repair
  <2> QED BY <1>2, <2>1, <2>2, <2>3
<1>17. CASE Worker
  BY <1>3, <1>8, <1>9, <1>10, <1>11, <1>12, <1>14, <1>17
  DEF Worker, ActivateStale, ActivateFails, durable
<1>18. \/ \E p \in Products : Edit(p) \/ Import(p) \/ Revoke(p, TRUE) \/ Revoke(p, FALSE)
       \/ Relocalize \/ (\E id \in Ids : Retry(id)) \/ Worker \/ ActivateSwitch \/ Restart
       \/ UNCHANGED <<intents, nextIntent>>
  BY DEF Next, vars, durable, ChangeProfile, BeginSwitch, ReadForSwitch, AbortSwitch, Damage, Crash
<1> QED BY <1>3, <1>4, <1>5, <1>6, <1>7, <1>15, <1>16, <1>17, <1>18

-----------------------------------------------------------------------------
(* The parts of the invariant, one by one *)

LEMMA QueueStep ==
  ASSUME TypeOK, QueueInv, [Next]_vars
  PROVE  QueueInv'
<1> SUFFICES ASSUME NEW i \in Ids, intents'[i].status # "none"
             PROVE  /\ i < nextIntent'
                    /\ intents'[i].product \in Products
                    /\ intents'[i].rev <= product'[intents'[i].product].rev
  BY DEF QueueInv
<1>1. ProductsGrow /\ IntentsGrow /\ TypeOK'
  BY ProductsShape, IntentsShape, NextType
<1>2. PICK f \in [Ids -> Intent] :
        /\ Keeps(f)
        /\ \A j \in Ids :
            \/ intents'[j] = f[j]
            \/ /\ j >= nextIntent /\ j < nextIntent'
               /\ intents'[j].product \in Products
               /\ intents'[j].rev <= product'[intents'[j].product].rev
               /\ intents'[j].status = "pending"
  BY <1>1 DEF IntentsGrow
<1>3. CASE intents'[i] = f[i]
  <2>1. /\ intents[i].status # "none"
        /\ intents'[i].product = intents[i].product /\ intents'[i].rev = intents[i].rev
    BY <1>2, <1>3 DEF Keeps
  <2>2. /\ i < nextIntent /\ intents[i].product \in Products
        /\ intents[i].rev <= product[intents[i].product].rev
    BY <2>1 DEF QueueInv
  <2>3. nextIntent' >= nextIntent /\ nextIntent \in Int /\ nextIntent' \in Int
    BY <1>1, ConstantsAssumption DEF IntentsGrow, TypeOK
  <2>4. /\ product'[intents[i].product].rev \in Nat /\ product[intents[i].product].rev \in Nat
        /\ intents[i].rev \in Nat
    BY <1>1, <2>2 DEF TypeOK, Product, Intent
  <2>5. product'[intents[i].product].rev >= product[intents[i].product].rev
    BY <1>1, <2>2, <2>4 DEF ProductsGrow
  <2> QED BY <2>1, <2>2, <2>3, <2>4, <2>5, ConstantsAssumption DEF Ids
<1> QED BY <1>2, <1>3

\* A claimed intent stays what it was claimed as; only a step that frees or
\* takes the worker can leave it.
LEMMA ClaimKept ==
  ASSUME TypeOK, QueueInv, [Next]_vars, NEW id \in Ids, intents[id].status # "none"
  PROVE  /\ intents'[id].product = intents[id].product
         /\ intents'[id].rev = intents[id].rev
         /\ intents'[id].status # "none"
         /\ intents'[id].status = "processing" /\ worker.pc # "idle" =>
              intents[id].status = "processing"
<1>1. PICK f \in [Ids -> Intent] :
        /\ Keeps(f)
        /\ \A j \in Ids :
            \/ intents'[j] = f[j]
            \/ /\ j >= nextIntent /\ j < nextIntent'
               /\ intents'[j].product \in Products
               /\ intents'[j].rev <= product'[intents'[j].product].rev
               /\ intents'[j].status = "pending"
  BY IntentsShape DEF IntentsGrow
<1>2. id < nextIntent
  BY DEF QueueInv
<1>3. intents'[id] = f[id]
  BY <1>1, <1>2, ConstantsAssumption DEF Ids, TypeOK
<1> QED BY <1>1, <1>3 DEF Keeps

\* Steps that do not concern the worker's claim.
LEMMA ClaimShape ==
  ASSUME [Next]_vars
  PROVE  \/ worker' = worker
         \/ worker'.pc \in {"idle", "down"}
         \/ Claim
         \/ \E p \in Products : Stage(p) \/ ActivateStale(p)
<1>1. CASE Worker
  <2>1. Idle.pc = "idle"
    BY DEF Idle
  <2>2. ASSUME NEW p \in Products, ActivateOvertaken(p) \/ ActivateFails(p) \/ Activate(p)
        PROVE  worker' = Idle
    BY <2>2 DEF ActivateOvertaken, ActivateFails, Activate
  <2>3. Discard \/ FailIntent => worker' = Idle
    BY DEF Discard, FailIntent, CloseClaim
  <2>4. ASSUME NEW S \in SUBSET Products, Fanout(S) PROVE worker' = worker
    BY <2>4 DEF Fanout
  <2> QED BY <1>1, <2>1, <2>2, <2>3, <2>4 DEF Worker
<1>2. CASE Crash \/ Restart
  BY <1>2 DEF Crash, Restart, Idle
<1>3. Worker \/ Crash \/ Restart \/ worker' = worker
  BY DEF Next, vars, Edit, Import, Revoke, Relocalize, ChangeProfile, Retry, BeginSwitch,
         ReadForSwitch, AbortSwitch, ActivateSwitch, Damage
<1> QED BY <1>1, <1>2, <1>3

LEMMA ClaimStep ==
  ASSUME TypeOK, QueueInv, ClaimInv, [Next]_vars
  PROVE  ClaimInv'
<1>1. CASE \/ worker' = worker
           \/ /\ worker.pc \in {"claimed", "staged"}
              /\ worker'.id = worker.id /\ worker'.product = worker.product
              /\ worker'.rev = worker.rev
  <2> SUFFICES ASSUME worker'.pc \in {"claimed", "staged", "discard", "failing"}
               PROVE  /\ worker'.id \in Ids /\ worker'.product \in Products
                      /\ intents'[worker'.id].status # "none"
                      /\ intents'[worker'.id].product = worker'.product
                      /\ intents'[worker'.id].rev = worker'.rev
    BY DEF ClaimInv
  <2>1. /\ worker.id \in Ids /\ worker.product \in Products
        /\ intents[worker.id].status # "none"
        /\ intents[worker.id].product = worker.product
        /\ intents[worker.id].rev = worker.rev
    BY <1>1 DEF ClaimInv
  <2>2. worker'.id = worker.id /\ worker'.product = worker.product /\ worker'.rev = worker.rev
    BY <1>1
  <2> QED BY <2>1, <2>2, ClaimKept
<1>2. CASE worker'.pc \in {"idle", "down"}
  BY <1>2 DEF ClaimInv
<1>3. CASE Claim
  <2>1. PICK id \in Ids :
          /\ intents[id].status = "pending"
          /\ intents' = [intents EXCEPT ![id].status = "processing"]
          /\ worker' = [pc |-> "claimed", id |-> id, product |-> intents[id].product,
                        rev |-> intents[id].rev, unit |-> NoUnit]
    BY <1>3 DEF Claim
  <2>2. intents[id].product \in Products
    BY <2>1 DEF QueueInv
  <2> QED BY <2>1, <2>2, ClaimKept DEF ClaimInv
<1>4. ASSUME NEW p \in Products, Stage(p) \/ ActivateStale(p)
      PROVE  \/ worker'.pc \in {"idle", "down"}
             \/ /\ worker.pc \in {"claimed", "staged"}
                /\ worker'.id = worker.id /\ worker'.product = worker.product
                /\ worker'.rev = worker.rev
  <2>1. worker \in Claimed /\ Idle.pc = "idle"
    BY DEF TypeOK, Idle
  <2>2. CASE Stage(p)
    <3>1. /\ worker.pc = "claimed"
          /\ \/ \E pc \in {"discard", "failing"} : worker' = [worker EXCEPT !.pc = pc]
             \/ worker' = [worker EXCEPT !.pc = "staged",
                                         !.unit = UnitFor(p, site.config, site.epoch)]
      BY <2>2 DEF Stage
    <3> QED BY <2>1, <3>1 DEF Claimed
  <2>3. CASE ActivateStale(p)
    <3>1. /\ worker.pc = "staged"
          /\ worker' = Idle \/ worker' = [worker EXCEPT !.pc = "discard"]
      BY <2>3 DEF ActivateStale
    <3> QED BY <2>1, <3>1 DEF Claimed
  <2> QED BY <1>4, <2>2, <2>3
<1> QED BY <1>1, <1>2, <1>3, <1>4, ClaimShape

\* A step that leaves a staged claim standing has not touched its product.
LEMMA StandingClaim ==
  ASSUME TypeOK, QueueInv, ClaimInv, [Next]_vars,
         worker' = worker, worker.pc = "staged", ClaimCurrent'
  PROVE  /\ ClaimCurrent
         /\ product'[worker.product] = product[worker.product]
<1> DEFINE p == worker.product
<1>1. /\ worker.id \in Ids /\ p \in Products
      /\ intents[worker.id].status # "none"
      /\ intents[worker.id].product = p
      /\ intents[worker.id].rev = worker.rev
  BY DEF ClaimInv
<1>2. /\ intents'[worker.id].status = "processing" /\ product'[p].rev = worker.rev
      /\ Published(p)'
  BY DEF ClaimCurrent
<1>3. intents[worker.id].status = "processing"
  BY <1>1, <1>2, ClaimKept
<1>4. worker.rev <= product[p].rev /\ worker.rev \in Nat /\ product[p].rev \in Nat
  BY <1>1 DEF QueueInv, TypeOK, Claimed, Product
<1>5. product'[p] = product[p]
  BY <1>1, <1>2, <1>4, ProductsShape DEF ProductsGrow
<1> QED BY <1>2, <1>3, <1>5 DEF ClaimCurrent, Published

LEMMA StagedStep ==
  ASSUME TypeOK, QueueInv, ClaimInv, StagedInv, [Next]_vars
  PROVE  StagedInv'
<1> SUFFICES ASSUME worker'.pc = "staged", ClaimCurrent'
             PROVE  /\ worker'.unit.rev = worker'.rev
                    /\ worker'.unit.epoch = site'.epoch
                    /\ worker'.unit.route = CurrentRoute(worker.product)'
  BY DEF StagedInv
<1>1. CASE worker' = worker
  <2>1. ClaimCurrent /\ product'[worker.product] = product[worker.product]
    BY <1>1, StandingClaim
  <2>2. CASE site' = site
    <3>1. /\ worker.unit.rev = worker.rev /\ worker.unit.epoch = site.epoch
          /\ worker.unit.route = CurrentRoute(worker.product)
      BY <1>1, <2>1 DEF StagedInv
    <3> QED BY <1>1, <2>1, <2>2, <3>1 DEF CurrentRoute, RouteOf
  <2>3. CASE ActivateSwitch
    <3> DEFINE p == worker.product
    <3>1. /\ worker.id \in Ids /\ p \in Products
          /\ intents[worker.id].product = p /\ intents[worker.id].rev = worker.rev
      BY <1>1 DEF ClaimInv
    <3>2. /\ Published(p) /\ intents[worker.id].status = "processing"
          /\ product[p].rev = worker.rev /\ worker.rev \in Nat
      BY <2>1 DEF ClaimCurrent, TypeOK, Claimed
    <3>3. switch.units[p] \in Unit /\ vis[p].gen \in Nat
      BY <3>1 DEF TypeOK, Candidate, Visibility
    <3> DEFINE S == {q \in Products : Published(q)}
               unit == [q \in Products |-> IF q \in S
                          THEN [switch.units[q] EXCEPT !.gen = vis[q].gen + 1] ELSE NoUnit]
    <3>4. /\ unit[p].rev = product[p].rev
          /\ intents' = [i \in Ids |->
               IF \E q \in S : Overtaken(i, q, unit[q].rev)
               THEN [intents[i] EXCEPT !.status = "superseded"] ELSE intents[i]]
      BY <2>3, <3>1, <3>2 DEF ActivateSwitch
    <3>5. intents'[worker.id] = [intents[worker.id] EXCEPT !.status = "superseded"]
      <4>1. p \in S
        BY <3>1, <3>2
      <4> HIDE DEF S, unit
      <4>2. Overtaken(worker.id, p, unit[p].rev)
        BY <3>1, <3>2, <3>4 DEF Overtaken, LiveStatus
      <4> QED BY <3>1, <3>4, <4>1, <4>2
    <3>6. intents'[worker.id].status = "superseded"
      BY <3>1, <3>5 DEF TypeOK, Intent
    <3> QED BY <1>1, <3>6 DEF ClaimCurrent
  <2>4. ActivateSwitch \/ site' = site
    BY DEF Next, vars, durable, Edit, Import, Revoke, Relocalize, ChangeProfile, Retry, BeginSwitch,
           ReadForSwitch, AbortSwitch, Damage, Worker, Fanout, Claim, Stage, ActivateOvertaken,
           ActivateStale, Discard, FailIntent, CloseClaim, ActivateFails, Activate, Crash, Restart
  <2> QED BY <2>2, <2>3, <2>4
<1>2. ASSUME NEW p \in Products, Stage(p)
      PROVE  /\ worker'.unit.rev = worker'.rev
             /\ worker'.unit.epoch = site'.epoch
             /\ worker'.unit.route = CurrentRoute(worker.product)'
  <2>1. /\ worker.product = p /\ product[p].rev = worker.rev
        /\ worker' = [worker EXCEPT !.pc = "staged",
                                    !.unit = UnitFor(p, site.config, site.epoch)]
        /\ UNCHANGED <<site, product>>
    BY <1>2 DEF Stage, TypeOK, Claimed, durable
  <2>2. /\ worker'.unit = UnitFor(p, site.config, site.epoch)
        /\ worker'.rev = worker.rev /\ worker'.product = p
    BY <2>1 DEF TypeOK, Claimed
  <2> QED BY <2>1, <2>2 DEF UnitFor, CurrentRoute, RouteOf
<1>3. CASE Claim
  <2>1. worker'.pc = "claimed"
    BY <1>3 DEF Claim
  <2> QED BY <2>1
<1>4. ASSUME NEW p \in Products, ActivateStale(p) PROVE FALSE
  <2>1. worker'.pc \in {"idle", "discard"}
    BY <1>4 DEF ActivateStale, TypeOK, Claimed, Idle
  <2> QED BY <2>1
<1> QED BY <1>1, <1>2, <1>3, <1>4, ClaimShape

\* The candidate units of a switch carry the epoch it will begin.
LEMMA SwitchStep ==
  ASSUME TypeOK, SwitchInv, [Next]_vars
  PROVE  SwitchInv'
<1>1. CASE switch' = switch
  BY <1>1 DEF SwitchInv
<1>2. CASE switch' = NoSwitch
  BY <1>2 DEF SwitchInv, NoSwitch, NoUnits
<1>3. ASSUME NEW c \in Configs, BeginSwitch(c) PROVE SwitchInv'
  BY <1>3 DEF BeginSwitch, SwitchInv, NoUnits
<1>4. ASSUME NEW p \in Products, ReadForSwitch(p) PROVE SwitchInv'
  <2> DEFINE unit == UnitFor(p, switch.config, switch.epoch + 1)
  <2>1. switch' = [switch EXCEPT !.todo = @ \ {p}, !.units[p] = unit]
    BY <1>4 DEF ReadForSwitch
  <2>2. unit.epoch = switch.epoch + 1
    BY DEF UnitFor
  <2> HIDE DEF unit
  <2>3. switch'.epoch = switch.epoch /\ switch'.units = [switch.units EXCEPT ![p] = unit]
    BY <2>1 DEF TypeOK, Candidate
  <2> QED BY <2>2, <2>3 DEF SwitchInv, TypeOK, Candidate
<1>5. \/ switch' = switch \/ switch' = NoSwitch \/ \E c \in Configs : BeginSwitch(c)
      \/ \E p \in Products : ReadForSwitch(p)
  BY DEF Next, vars, durable, Edit, Import, Revoke, Relocalize, ChangeProfile, Retry,
         AbortSwitch, ActivateSwitch, Damage, Worker, Fanout, Claim, Stage, ActivateOvertaken,
         ActivateStale, Discard, FailIntent, CloseClaim, ActivateFails, Activate, Crash, Restart
<1> QED BY <1>1, <1>2, <1>3, <1>4, <1>5

-----------------------------------------------------------------------------
(* The active rows and the index *)

\* The rows the public side is made of stay, and no product leaves the public.
RowsKept ==
  /\ UNCHANGED <<act, vis, hist, site>>
  /\ \A p \in Products : Published(p) => Published(p)'

LEMMA RowsKeptSteps ==
  ASSUME TypeOK, [Next]_vars
  PROVE  \/ RowsKept /\ index' = index
         \/ RowsKept /\ \E p \in Products : InstallProduct(p)
         \/ RowsKept /\ InstallFails
         \/ RowsKept /\ index' = DownIndex
         \/ RowsKept /\ index' = FullIndex /\ UNCHANGED <<product, damaged>>
         \/ \E p \in Products : Activate(p) \/ Revoke(p, TRUE) \/ Revoke(p, FALSE)
         \/ ActivateSwitch
<1>1. ASSUME NEW p \in Products, Edit(p) PROVE RowsKept /\ index' = index
  BY <1>1 DEF Edit, TypeOK, Product, Published, RowsKept
<1>2. ASSUME NEW p \in Products, Import(p) PROVE RowsKept /\ index' = index
  BY <1>2 DEF Import, TypeOK, Product, Published, RowsKept
<1>3. ASSUME NEW S \in SUBSET Products, Fanout(S) PROVE RowsKept /\ index' = index
  BY <1>3 DEF Fanout, TypeOK, Product, Published, RowsKept
<1>4. UNCHANGED product => \A p \in Products : Published(p) => Published(p)'
  BY DEF Published
<1>5. ASSUME NEW p \in Products, Stage(p) \/ ActivateFails(p) PROVE RowsKept /\ index' = index
  BY <1>4, <1>5 DEF Stage, ActivateFails, RowsKept, durable
<1>6. ASSUME NEW p \in Products, ActivateOvertaken(p) \/ ActivateStale(p)
      PROVE  RowsKept /\ (InstallProduct(p) \/ InstallFails)
  BY <1>4, <1>6 DEF ActivateOvertaken, ActivateStale, RowsKept, durable
<1>7. CASE Claim \/ Discard \/ FailIntent
  BY <1>4, <1>7 DEF Claim, Discard, FailIntent, CloseClaim, RowsKept
<1>8. CASE Worker
  BY <1>3, <1>5, <1>6, <1>7, <1>8 DEF Worker
<1>9. CASE \/ Relocalize \/ (\E S \in SUBSET Products : ChangeProfile(S))
           \/ (\E id \in Ids : Retry(id)) \/ (\E c \in Configs : BeginSwitch(c))
           \/ (\E p \in Products : ReadForSwitch(p)) \/ AbortSwitch
           \/ (\E p \in Products : Damage(p)) \/ UNCHANGED vars
  BY <1>4, <1>9 DEF Relocalize, ChangeProfile, Retry, BeginSwitch, ReadForSwitch, AbortSwitch,
                    Damage, vars, durable, RowsKept
<1>10. CASE Crash
  BY <1>4, <1>10 DEF Crash, durable, RowsKept
<1>11. CASE Restart
  BY <1>4, <1>11 DEF Restart, RowsKept
<1>12. CASE \E p \in Products : Edit(p) \/ Import(p) \/ Revoke(p, TRUE) \/ Revoke(p, FALSE)
  BY <1>1, <1>2, <1>12
<1> QED BY <1>8, <1>9, <1>10, <1>11, <1>12 DEF Next

\* A full rebuild shows what the rows entitle visitors to.
LEMMA FullIndexFollows ==
  ASSUME index' = FullIndex'
  PROVE  IndexFollowsStore'
BY DEF FullIndex, IndexFollowsStore, Authority

\* So does the update of one product, if the rows of the others stay.
LEMMA InstallFollows ==
  ASSUME TypeOK, IndexFollowsStore, NEW p \in Products, InstallProduct(p) \/ InstallFails,
         act' \in [Products -> Unit], hist' \in [Paths -> History],
         \A q \in Products \ {p} : Authority'[q] = Authority[q],
         \A x \in Paths : hist'[x] = hist[x] \/ hist'[x].product = p
  PROVE  IndexFollowsStore'
<1> DEFINE unit == IF Visible(p)' THEN act'[p] ELSE NoUnit
           rows == HistoryWith(p)
<1>1. CASE index' = FullIndex'
  BY <1>1, FullIndexFollows
<1>2. CASE index' = DownIndex
  BY <1>2 DEF DownIndex, IndexFollowsStore
<1>3. CASE /\ index.up /\ index.epoch = site'.epoch
           /\ index' = [index EXCEPT !.units[p] = unit, !.hist = rows]
  <2>1. /\ index.hist = hist
        /\ \A q \in Products : index.units[q] \in {NoUnit, Authority[q]}
    BY <1>3 DEF IndexFollowsStore
  <2>2. unit = Authority'[p]
    BY DEF Authority
  <2>3. rows = hist'
    BY <2>1 DEF TypeOK, History, HistoryWith
  <2> HIDE DEF unit, rows
  <2>4. /\ index'.epoch = site'.epoch /\ index'.hist = rows
        /\ index'.units = [index.units EXCEPT ![p] = unit]
    BY <1>3 DEF TypeOK, Index
  <2>5. ASSUME NEW q \in Products PROVE index'.units[q] \in {NoUnit, Authority'[q]}
    <3>1. CASE q = p
      BY <2>2, <2>4, <3>1 DEF TypeOK, Index
    <3>2. CASE q # p
      BY <2>1, <2>4, <3>2 DEF TypeOK, Index
    <3> QED BY <3>1, <3>2
  <2> QED BY <2>3, <2>4, <2>5 DEF IndexFollowsStore
<1> QED BY <1>1, <1>2, <1>3 DEF InstallProduct, InstallFails

\* The history of a move of product p changes no row of another product.
LEMMA RememberOwner ==
  ASSUME NEW p \in Products, NEW moves, \A m \in moves : m.product = p, NEW state
  PROVE  \A x \in Paths : \/ Remember(moves, state)[x] = hist[x]
                          \/ Remember(moves, state)[x].product = p
<1> SUFFICES ASSUME NEW x \in Paths
             PROVE  \/ Remember(moves, state)[x] = hist[x]
                    \/ Remember(moves, state)[x].product = p
  OBVIOUS
<1>1. CASE \E m \in moves, s \in Suffixes : PathOf[m.old][s] = x
  <2> DEFINE m == CHOOSE m \in moves : \E s \in Suffixes : PathOf[m.old][s] = x
             s == CHOOSE s \in Suffixes : PathOf[m.old][s] = x
  <2>1. m \in moves
    BY <1>1
  <2>2. Remember(moves, state)[x] =
          [product |-> m.product, state |-> state,
           target |-> IF m.new = NoRoute THEN NoRoute ELSE PathOf[m.new][s]]
    BY <1>1 DEF Remember
  <2>3. m.product = p
    <3> HIDE DEF m
    <3> QED BY <2>1
  <2> HIDE DEF m, s
  <2> QED BY <2>2, <2>3
<1>2. CASE ~\E m \in moves, s \in Suffixes : PathOf[m.old][s] = x
  BY <1>2 DEF Remember
<1> QED BY <1>1, <1>2

\* A revocation clears the active row of its product and touches no other.
LEMMA RevokeShape ==
  ASSUME TypeOK, NEW p \in Products, NEW archive, Revoke(p, archive)
  PROVE  /\ act'[p] = NoUnit /\ site' = site
         /\ ~Published(p)'
         /\ \A q \in Products \ {p} : /\ act'[q] = act[q] /\ vis'[q] = vis[q]
                                      /\ product'[q] = product[q]
         /\ \A x \in Paths : hist'[x] = hist[x] \/ hist'[x].product = p
         /\ InstallProduct(p) \/ InstallFails
<1>1. /\ act' = [act EXCEPT ![p] = NoUnit] /\ site' = site
      /\ vis' = [vis EXCEPT ![p] = [gen |-> @.gen + 1, visible |-> FALSE]]
      /\ product' = [product EXCEPT ![p].current = ~archive, ![p].status = "hidden",
             ![p].rev = IF ~archive /\ product[p].status = "hidden" THEN @ ELSE @ + 1]
      /\ InstallProduct(p) \/ InstallFails
  BY DEF Revoke
<1>2. product'[p].status = "hidden"
  BY <1>1 DEF TypeOK, Product
<1>3. \A q \in Products \ {p} : act'[q] = act[q] /\ vis'[q] = vis[q] /\ product'[q] = product[q]
  BY <1>1 DEF TypeOK
<1>4. \A x \in Paths : hist'[x] = hist[x] \/ hist'[x].product = p
  <2> DEFINE moves == {[product |-> p, old |-> act[p].route, new |-> NoRoute]}
  <2>1. hist' = hist \/ hist' = Remember(moves, "gone")
    BY DEF Revoke
  <2>2. \A m \in moves : m.product = p
    OBVIOUS
  <2> HIDE DEF moves
  <2> QED BY <2>1, <2>2, RememberOwner
<1>5. act'[p] = NoUnit /\ ~Published(p)'
  BY <1>1, <1>2 DEF TypeOK, Published
<1> QED BY <1>1, <1>3, <1>4, <1>5

\* An activation puts the staged unit into the active row of its product, visible
\* under the row's generation, and touches no other.
LEMMA ActivateShape ==
  ASSUME TypeOK, ClaimInv, StagedInv, NEW p \in Products, Activate(p)
  PROVE  /\ ClaimCurrent /\ worker.product = p
         /\ act'[p] \in Unit
         /\ act'[p].rev = product[p].rev /\ act'[p].epoch = site.epoch
         /\ act'[p].route = CurrentRoute(p) /\ act'[p].facts = facts[p]
         /\ act'[p].gen = vis'[p].gen /\ vis'[p].visible
         /\ vis'[p].gen = IF vis[p].visible THEN vis[p].gen ELSE vis[p].gen + 1
         /\ Published(p) /\ UNCHANGED <<product, site, facts>>
         /\ \A q \in Products \ {p} : act'[q] = act[q] /\ vis'[q] = vis[q]
         /\ \A x \in Paths : hist'[x] = hist[x] \/ hist'[x].product = p
         /\ InstallProduct(p) \/ InstallFails
<1> DEFINE gen == NextGen(p)
           unit == [worker.unit EXCEPT !.gen = gen]
<1>1. /\ worker.pc = "staged" /\ worker.product = p /\ ClaimCurrent
      /\ worker.unit.facts = facts[p]
      /\ vis' = [vis EXCEPT ![p] = [gen |-> gen, visible |-> TRUE]]
      /\ act' = [act EXCEPT ![p] = unit]
      /\ UNCHANGED <<product, site, facts>>
      /\ InstallProduct(p) \/ InstallFails
  BY DEF Activate
<1>2. /\ worker.unit.rev = product[p].rev /\ worker.unit.epoch = site.epoch
      /\ worker.unit.route = CurrentRoute(p) /\ Published(p)
  BY <1>1 DEF StagedInv, ClaimCurrent
<1>3. gen \in Nat
  BY DEF TypeOK, Visibility, NextGen
<1>4. \A x \in Paths : hist'[x] = hist[x] \/ hist'[x].product = p
  <2> DEFINE moves == {[product |-> p, old |-> act[p].route, new |-> unit.route]}
  <2>1. hist' = hist \/ hist' = Remember(moves, "redirect")
    BY DEF Activate
  <2>2. \A m \in moves : m.product = p
    OBVIOUS
  <2> HIDE DEF moves
  <2> QED BY <2>1, <2>2, RememberOwner
<1> HIDE DEF gen
<1>5. /\ unit \in Unit /\ unit.gen = gen
      /\ unit.rev = worker.unit.rev /\ unit.epoch = worker.unit.epoch
      /\ unit.route = worker.unit.route /\ unit.facts = worker.unit.facts
  BY <1>3 DEF TypeOK, Claimed, Unit
<1> HIDE DEF unit
<1>6. /\ act'[p] = unit /\ vis'[p] = [gen |-> gen, visible |-> TRUE]
      /\ \A q \in Products \ {p} : act'[q] = act[q] /\ vis'[q] = vis[q]
  BY <1>1 DEF TypeOK
<1> QED BY <1>1, <1>2, <1>4, <1>5, <1>6 DEF gen, NextGen

\* A route switch puts every published product online, in a new epoch.
LEMMA SwitchShape ==
  ASSUME TypeOK, SwitchInv, ActivateSwitch
  PROVE  /\ site'.epoch = site.epoch + 1
         /\ UNCHANGED <<product, facts>>
         /\ \A p \in Products :
              IF Published(p)
              THEN /\ act'[p] \in Unit
                   /\ act'[p].rev = product[p].rev /\ act'[p].facts = facts[p]
                   /\ act'[p].route = CurrentRoute(p)'
                   /\ act'[p].epoch = site'.epoch
                   /\ act'[p].gen = vis'[p].gen /\ vis'[p].visible
                   /\ vis'[p].gen = vis[p].gen + 1
              ELSE act'[p] = NoUnit /\ vis'[p] = vis[p]
         /\ index' = FullIndex' \/ InstallFails
<1> DEFINE S == {p \in Products : Published(p)}
           unit == [p \in Products |-> IF p \in S
                      THEN [switch.units[p] EXCEPT !.gen = vis[p].gen + 1] ELSE NoUnit]
<1>1. /\ site.epoch = switch.epoch
      /\ S = {p \in Products : switch.units[p] # NoUnit}
      /\ site' = [epoch |-> site.epoch + 1, config |-> switch.config]
      /\ vis' = [p \in Products |-> IF p \in S THEN [gen |-> vis[p].gen + 1, visible |-> TRUE]
                                    ELSE vis[p]]
      /\ act' = unit
      /\ UNCHANGED <<product, facts>>
      /\ index' = FullIndex' \/ InstallFails
  BY DEF ActivateSwitch
<1>2. \A p \in S : /\ unit[p].rev = product[p].rev
                   /\ unit[p].facts = facts[p]
                   /\ unit[p].route = RouteOf(switch.config, p)
  BY DEF ActivateSwitch
<1>3. ASSUME NEW p \in Products, Published(p)
      PROVE  /\ act'[p] \in Unit
             /\ act'[p].rev = product[p].rev /\ act'[p].facts = facts[p]
             /\ act'[p].route = CurrentRoute(p)'
             /\ act'[p].epoch = site'.epoch
             /\ act'[p].gen = vis'[p].gen /\ vis'[p].visible
             /\ vis'[p].gen = vis[p].gen + 1
  <2> DEFINE u == [switch.units[p] EXCEPT !.gen = vis[p].gen + 1]
  <2>1. act'[p] = u /\ p \in S
    BY <1>1, <1>3
  <2>2. switch.units[p] \in Unit /\ vis[p].gen + 1 \in Nat
    BY DEF TypeOK, Candidate, Visibility
  <2>3. switch.units[p].epoch = site.epoch + 1
    BY <1>1, <2>1 DEF SwitchInv
  <2>4. u \in Unit /\ u.epoch = site.epoch + 1 /\ u.gen = vis[p].gen + 1
    BY <2>2, <2>3 DEF Unit
  <2>5. unit[p] = u
    BY <1>3
  <2>6. vis'[p] = [gen |-> vis[p].gen + 1, visible |-> TRUE] /\ site'.epoch = site.epoch + 1
    BY <1>1, <2>1
  <2>7. RouteOf(switch.config, p) = CurrentRoute(p)'
    BY <1>1 DEF RouteOf, CurrentRoute
  <2> HIDE DEF u, unit, S
  <2> QED BY <1>2, <2>1, <2>4, <2>5, <2>6, <2>7
<1>4. ASSUME NEW p \in Products, ~Published(p) PROVE act'[p] = NoUnit /\ vis'[p] = vis[p]
  BY <1>1, <1>4
<1> HIDE DEF S, unit
<1> QED BY <1>1, <1>3, <1>4

\* Whatever is active stays entitled to be.
LEMMA ActiveStep ==
  ASSUME IndInv, [Next]_vars
  PROVE  ActiveInv'
<1> USE DEF IndInv
<1>0. TypeOK'
  BY NextType
<1>1. \A p \in Products : product[p].rev \in Nat /\ product[p].rev > 0
                          /\ product'[p].rev \in Nat /\ product'[p].rev >= product[p].rev
  <2>1. \A p \in Products : product[p].rev \in Nat /\ product'[p].rev \in Nat
    BY <1>0 DEF TypeOK, Product
  <2>2. \A p \in Products : product[p].rev > 0
    BY DEF ActiveInv
  <2>3. \A p \in Products : product'[p].rev >= product[p].rev
    BY <2>1, ProductsShape DEF ProductsGrow
  <2> QED BY <2>1, <2>2, <2>3
<1> SUFFICES ASSUME NEW p \in Products, act'[p] # NoUnit
             PROVE  /\ Visible(p)'
                    /\ act'[p].rev <= product'[p].rev
                    /\ act'[p].epoch = site'.epoch
  BY <1>1 DEF ActiveInv
<1>2. ASSUME UNCHANGED site, act'[p] = act[p], vis'[p] = vis[p], Published(p) => Published(p)'
      PROVE  /\ Visible(p)'
             /\ act'[p].rev <= product'[p].rev
             /\ act'[p].epoch = site'.epoch
  <2>1. Visible(p) /\ act[p].rev <= product[p].rev /\ act[p].epoch = site.epoch
    BY <1>2 DEF ActiveInv
  <2>2. act[p].rev \in Nat
    BY DEF TypeOK, Unit
  <2> QED BY <1>1, <1>2, <2>1, <2>2 DEF Visible
<1>3. CASE RowsKept
  BY <1>2, <1>3 DEF RowsKept
<1>4. ASSUME NEW q \in Products, NEW archive, Revoke(q, archive)
      PROVE  /\ Visible(p)'
             /\ act'[p].rev <= product'[p].rev
             /\ act'[p].epoch = site'.epoch
  <2>1. p # q
    BY <1>4, RevokeShape
  <2>2. /\ act'[p] = act[p] /\ vis'[p] = vis[p] /\ product'[p] = product[p] /\ site' = site
    BY <1>4, <2>1, RevokeShape
  <2> QED BY <1>2, <2>2 DEF Published
<1>5. ASSUME NEW q \in Products, Activate(q)
      PROVE  /\ Visible(p)'
             /\ act'[p].rev <= product'[p].rev
             /\ act'[p].epoch = site'.epoch
  <2>1. CASE p = q
    <3>1. /\ act'[p].rev = product[p].rev /\ act'[p].epoch = site.epoch
          /\ act'[p].gen = vis'[p].gen /\ vis'[p].visible
          /\ Published(p) /\ UNCHANGED <<product, site, facts>>
      BY <1>5, <2>1, ActivateShape
    <3> QED BY <1>1, <3>1 DEF Visible, Published
  <2>2. CASE p # q
    <3>1. act'[p] = act[p] /\ vis'[p] = vis[p] /\ UNCHANGED <<product, site, facts>>
      BY <1>5, <2>2, ActivateShape
    <3> QED BY <1>2, <3>1 DEF Published
  <2> QED BY <2>1, <2>2
<1>6. CASE ActivateSwitch
  <2>1. Published(p) /\ UNCHANGED <<product, facts>>
    BY <1>6, SwitchShape
  <2>2. /\ act'[p].rev = product[p].rev /\ act'[p].epoch = site'.epoch
        /\ act'[p].gen = vis'[p].gen /\ vis'[p].visible
    BY <1>6, <2>1, SwitchShape
  <2> QED BY <1>1, <2>1, <2>2 DEF Visible, Published
<1> QED BY <1>3, <1>4, <1>5, <1>6, RowsKeptSteps

LEMMA AuthorityKept ==
  ASSUME ActiveInv, RowsKept
  PROVE  Authority' = Authority
<1>1. \A q \in Products : Visible(q) => Visible(q)'
  BY DEF RowsKept, Visible
<1>2. \A q \in Products : ~Visible(q) => act[q] = NoUnit
  BY DEF ActiveInv
<1> QED BY <1>1, <1>2 DEF RowsKept, Authority

\* The index follows the rows through every way of installing it.
LEMMA IndexStep ==
  ASSUME IndInv, [Next]_vars
  PROVE  IndexFollowsStore' /\ OutageInv'
<1> USE DEF IndInv
<1>0. TypeOK'
  BY NextType
<1>2. ASSUME RowsKept PROVE Authority' = Authority
  BY <1>2, AuthorityKept
<1>3. CASE RowsKept /\ index' = index
  <2>1. UNCHANGED <<site, hist>>
    BY <1>3 DEF RowsKept
  <2> QED BY <1>2, <1>3, <2>1 DEF IndexFollowsStore, OutageInv
<1>4. ASSUME NEW p \in Products, InstallProduct(p) \/ InstallFails PROVE OutageInv'
  <2>1. CASE index' = FullIndex'
    BY <2>1 DEF FullIndex, OutageInv
  <2>2. CASE index' = DownIndex
    BY <2>2 DEF DownIndex, OutageInv
  <2>3. CASE index.up /\ index'.up = index.up
    BY <2>3 DEF OutageInv
  <2> QED BY <1>4, <2>1, <2>2, <2>3 DEF InstallProduct, InstallFails, TypeOK, Index
<1>5. ASSUME NEW p \in Products, InstallProduct(p) \/ InstallFails,
             \A q \in Products \ {p} : Authority'[q] = Authority[q],
             \A x \in Paths : hist'[x] = hist[x] \/ hist'[x].product = p
      PROVE  IndexFollowsStore' /\ OutageInv'
  <2>1. act' \in [Products -> Unit] /\ hist' \in [Paths -> History]
    BY <1>0 DEF TypeOK
  <2> QED BY <1>4, <1>5, <2>1, InstallFollows
<1>6. CASE RowsKept /\ ((\E p \in Products : InstallProduct(p)) \/ InstallFails)
  <2>1. CASE InstallFails
    BY <2>1 DEF InstallFails, DownIndex, IndexFollowsStore, OutageInv
  <2>2. ASSUME NEW p \in Products, InstallProduct(p) PROVE IndexFollowsStore' /\ OutageInv'
    <3>1. Authority' = Authority /\ hist' = hist
      BY <1>2, <1>6 DEF RowsKept
    <3> QED BY <1>5, <2>2, <3>1
  <2> QED BY <1>6, <2>1, <2>2
<1>7. CASE index' = DownIndex
  BY <1>7 DEF DownIndex, IndexFollowsStore, OutageInv
<1>8. CASE index' = FullIndex'
  BY <1>8, FullIndexFollows DEF FullIndex, OutageInv
<1>9. CASE RowsKept /\ index' = FullIndex /\ UNCHANGED <<product, damaged>>
  <2>1. FullIndex' = FullIndex
    BY <1>9 DEF FullIndex, RowsKept, Visible, Published, PathsOf
  <2> QED BY <1>8, <1>9, <2>1
<1>10. ASSUME NEW p \in Products, NEW archive, Revoke(p, archive)
       PROVE  IndexFollowsStore' /\ OutageInv'
  <2>1. \A q \in Products \ {p} : act'[q] = act[q] /\ vis'[q] = vis[q] /\ product'[q] = product[q]
    BY <1>10, RevokeShape
  <2>2. \A q \in Products \ {p} : Authority'[q] = Authority[q]
    BY <2>1 DEF Authority, Visible, Published
  <2>3. \A x \in Paths : hist'[x] = hist[x] \/ hist'[x].product = p
    BY <1>10, RevokeShape
  <2>4. InstallProduct(p) \/ InstallFails
    BY <1>10, RevokeShape
  <2> QED BY <1>5, <2>2, <2>3, <2>4
<1>11. ASSUME NEW p \in Products, Activate(p) PROVE IndexFollowsStore' /\ OutageInv'
  <2>1. /\ \A q \in Products \ {p} : act'[q] = act[q] /\ vis'[q] = vis[q]
        /\ UNCHANGED <<product, site, facts>>
    BY <1>11, ActivateShape
  <2>2. \A q \in Products \ {p} : Authority'[q] = Authority[q]
    BY <2>1 DEF Authority, Visible, Published
  <2>3. \A x \in Paths : hist'[x] = hist[x] \/ hist'[x].product = p
    BY <1>11, ActivateShape
  <2>4. InstallProduct(p) \/ InstallFails
    BY <1>11, ActivateShape
  <2> QED BY <1>5, <2>2, <2>3, <2>4
<1>12. CASE ActivateSwitch
  BY <1>7, <1>8, <1>12, SwitchShape DEF InstallFails
<1> QED BY <1>3, <1>6, <1>7, <1>9, <1>10, <1>11, <1>12, RowsKeptSteps

-----------------------------------------------------------------------------
(* Theorems *)

LEMMA InitInv == Init => IndInv
<1> SUFFICES ASSUME Init PROVE IndInv
  OBVIOUS
<1>1. TypeOK
  BY InitType
<1>2. QueueInv
  BY DEF Init, QueueInv, NoIntent
<1>3. ClaimInv /\ StagedInv
  BY DEF Init, ClaimInv, StagedInv, Idle
<1>4. ActiveInv /\ SwitchInv
  BY DEF Init, ActiveInv, SwitchInv, NoSwitch, NoUnits
<1>5. OutageInv /\ IndexFollowsStore
  BY DEF Init, OutageInv, IndexFollowsStore, FullIndex, Authority
<1> QED BY <1>1, <1>2, <1>3, <1>4, <1>5 DEF IndInv

LEMMA StepInv ==
  ASSUME IndInv, [Next]_vars
  PROVE  IndInv'
<1>1. /\ TypeOK /\ QueueInv /\ ClaimInv /\ StagedInv /\ ActiveInv /\ SwitchInv /\ OutageInv
      /\ IndexFollowsStore
  BY DEF IndInv
<1>2. TypeOK' /\ QueueInv' /\ ClaimInv' /\ StagedInv' /\ SwitchInv'
  BY <1>1, NextType, QueueStep, ClaimStep, StagedStep, SwitchStep
<1>3. ActiveInv' /\ IndexFollowsStore' /\ OutageInv'
  BY ActiveStep, IndexStep
<1> QED BY <1>2, <1>3 DEF IndInv

\* The inductive invariant holds in every reachable state: the queue, the worker's
\* claim, the active rows, the candidate of a switch and the installed index agree
\* as publication_store.go and protocol.go keep them, whatever faults happen.
THEOREM InvariantHolds == Spec => []IndInv
BY InitInv, StepInv, PTL DEF Spec

\* Type correctness of the store and the engine.
THEOREM TypeCorrect == Spec => []TypeOK
<1>1. IndInv => TypeOK
  BY DEF IndInv
<1> QED BY <1>1, InvariantHolds, PTL

\* The installed index shows nothing but committed, visible rows of the current
\* site, for any number of products and whatever install path was taken.
THEOREM IndexIsFaithful == Spec => []IndexFollowsStore
<1>1. IndInv => IndexFollowsStore
  BY DEF IndInv
<1> QED BY <1>1, InvariantHolds, PTL

\* The site never mixes units of two URL configurations, although
\* ActivatePublication never compares epochs.
THEOREM EpochsNeverMix == Spec => []OneEpoch
<1>1. IndInv => OneEpoch
  BY DEF IndInv, ActiveInv, OneEpoch
<1> QED BY <1>1, InvariantHolds, PTL

\* What goes online is the product as it stands, although its unit was read in an
\* earlier transaction and ActivatePublication compares only revision and facts.
THEOREM OnlyCurrentGoesOnline == Spec => ActivatesCurrent
<1>1. ASSUME IndInv, [Next]_vars, NEW p \in Products, act'[p] # act[p], act'[p] # NoUnit
      PROVE  /\ Published(p)'
             /\ act'[p].rev = product'[p].rev
             /\ act'[p].facts = facts'[p]
             /\ act'[p].route = CurrentRoute(p)'
  <2> USE <1>1 DEF IndInv
  <2>1. ~RowsKept
    BY DEF RowsKept
  <2>2. ASSUME NEW q \in Products, NEW archive, Revoke(q, archive) PROVE FALSE
    BY <2>2, RevokeShape
  <2>3. ASSUME NEW q \in Products, Activate(q)
        PROVE  /\ Published(p)'
               /\ act'[p].rev = product'[p].rev
               /\ act'[p].facts = facts'[p]
               /\ act'[p].route = CurrentRoute(p)'
    <3>1. p = q
      BY <2>3, ActivateShape
    <3>2. /\ act'[p].rev = product[p].rev /\ act'[p].facts = facts[p]
          /\ act'[p].route = CurrentRoute(p)
          /\ Published(p) /\ UNCHANGED <<product, site, facts>>
      BY <2>3, <3>1, ActivateShape
    <3> QED BY <3>2 DEF Published, CurrentRoute, RouteOf
  <2>4. CASE ActivateSwitch
    <3>1. Published(p) /\ UNCHANGED <<product, facts>>
      BY <2>4, SwitchShape
    <3>2. /\ act'[p].rev = product[p].rev /\ act'[p].facts = facts[p]
          /\ act'[p].route = CurrentRoute(p)'
      BY <2>4, <3>1, SwitchShape
    <3> QED BY <3>1, <3>2 DEF Published
  <2> QED BY <2>1, <2>2, <2>3, <2>4, RowsKeptSteps
<1>2. IndInv /\ [Next]_vars =>
        [\A p \in Products : act'[p] # act[p] /\ act'[p] # NoUnit =>
           /\ Published(p)'
           /\ act'[p].rev = product'[p].rev
           /\ act'[p].facts = facts'[p]
           /\ act'[p].route = CurrentRoute(p)']_vars
  BY <1>1
<1> QED BY <1>2, InvariantHolds, PTL DEF Spec, ActivatesCurrent

\* Visibility generations, and the units put online one after another, never go back.
THEOREM NothingGoesBackwards == Spec => NeverBackwards
<1>1. ASSUME IndInv, [Next]_vars, NEW p \in Products
      PROVE  /\ vis'[p].gen >= vis[p].gen
             /\ vis'[p].visible /\ ~vis[p].visible => vis'[p].gen > vis[p].gen
             /\ act[p] # NoUnit /\ act'[p] # NoUnit =>
                  /\ act'[p].rev >= act[p].rev
                  /\ act'[p].gen >= act[p].gen
                  /\ act'[p].epoch >= act[p].epoch
  <2> USE <1>1 DEF IndInv
  <2>0. TypeOK'
    BY NextType
  <2>1. /\ vis[p].gen \in Nat /\ act[p].rev \in Nat /\ act[p].gen \in Nat
        /\ act[p].epoch \in Nat /\ site.epoch \in Nat
        /\ product[p].rev \in Nat
    BY DEF TypeOK, Visibility, Unit, Site, Product
  <2>2. act[p] # NoUnit => /\ act[p].gen = vis[p].gen /\ vis[p].visible
                           /\ act[p].rev <= product[p].rev /\ act[p].epoch = site.epoch
    BY DEF ActiveInv, Visible
  <2>3. CASE act'[p] = act[p] /\ vis'[p] = vis[p]
    BY <2>1, <2>3
  <2>4. CASE RowsKept
    BY <2>3, <2>4 DEF RowsKept
  <2>5. ASSUME NEW q \in Products, NEW archive, Revoke(q, archive)
        PROVE  \/ act'[p] = act[p] /\ vis'[p] = vis[p]
               \/ /\ act'[p] = NoUnit /\ vis'[p].gen = vis[p].gen + 1
                  /\ ~vis'[p].visible
    <3>1. CASE p = q
      <4>1. vis' = [vis EXCEPT ![p] = [gen |-> @.gen + 1, visible |-> FALSE]]
        BY <2>5, <3>1 DEF Revoke
      <4>2. act'[p] = NoUnit
        BY <2>5, <3>1, RevokeShape
      <4> QED BY <4>1, <4>2 DEF TypeOK
    <3>2. CASE p # q
      BY <2>5, <3>2, RevokeShape
    <3> QED BY <3>1, <3>2
  <2>6. ASSUME NEW q \in Products, Activate(q)
        PROVE  \/ act'[p] = act[p] /\ vis'[p] = vis[p]
               \/ /\ act'[p].rev = product[p].rev /\ act'[p].epoch = site.epoch
                  /\ act'[p].gen = vis'[p].gen /\ vis'[p].visible
                  /\ vis'[p].gen = IF vis[p].visible THEN vis[p].gen ELSE vis[p].gen + 1
    BY <2>6, ActivateShape
  <2>7. ASSUME ActivateSwitch
        PROVE  IF Published(p)
               THEN /\ act'[p].rev = product[p].rev /\ act'[p].epoch = site.epoch + 1
                    /\ act'[p].gen = vis'[p].gen /\ vis'[p].gen = vis[p].gen + 1
               ELSE act'[p] = NoUnit /\ vis'[p] = vis[p]
    BY <2>7, SwitchShape
  <2>8. ASSUME NEW q \in Products, NEW archive, Revoke(q, archive)
        PROVE  /\ vis'[p].gen >= vis[p].gen
               /\ vis'[p].visible /\ ~vis[p].visible => vis'[p].gen > vis[p].gen
               /\ act[p] # NoUnit /\ act'[p] # NoUnit =>
                    /\ act'[p].rev >= act[p].rev
                    /\ act'[p].gen >= act[p].gen
                    /\ act'[p].epoch >= act[p].epoch
    BY <2>1, <2>3, <2>5, <2>8
  <2>9. ASSUME NEW q \in Products, Activate(q)
        PROVE  /\ vis'[p].gen >= vis[p].gen
               /\ vis'[p].visible /\ ~vis[p].visible => vis'[p].gen > vis[p].gen
               /\ act[p] # NoUnit /\ act'[p] # NoUnit =>
                    /\ act'[p].rev >= act[p].rev
                    /\ act'[p].gen >= act[p].gen
                    /\ act'[p].epoch >= act[p].epoch
    BY <2>1, <2>2, <2>3, <2>6, <2>9
  <2>10. CASE ActivateSwitch
    BY <2>1, <2>2, <2>3, <2>7, <2>10
  <2> QED BY <2>4, <2>8, <2>9, <2>10, RowsKeptSteps
<1>2. IndInv /\ [Next]_vars =>
        [\A p \in Products :
           /\ vis'[p].gen >= vis[p].gen
           /\ vis'[p].visible /\ ~vis[p].visible => vis'[p].gen > vis[p].gen
           /\ act[p] # NoUnit /\ act'[p] # NoUnit =>
                /\ act'[p].rev >= act[p].rev
                /\ act'[p].gen >= act[p].gen
                /\ act'[p].epoch >= act[p].epoch]_vars
  BY <1>1
<1> QED BY <1>2, InvariantHolds, PTL DEF Spec, NeverBackwards

-----------------------------------------------------------------------------
(* Publication implements PublicAdmission *)

\* What a visitor is shown is online, or nothing.
LEMMA ShownIsOnline ==
  ASSUME IndInv'
  PROVE  Shown' \in [Products -> Nat] /\ \A p \in Products : Shown'[p] \in {0, Online'[p]}
<1> USE DEF IndInv
<1>1. ASSUME NEW p \in Products PROVE Shown'[p] \in {0, Online'[p]}
  <2>1. CASE index'.up
    BY <2>1 DEF IndexFollowsStore, Shown, Online, NoUnit
  <2>2. CASE ~index'.up
    BY <2>2 DEF OutageInv, Shown, NoUnits, NoUnit
  <2> QED BY <2>1, <2>2
<1>2. Shown' \in [Products -> Nat]
  BY DEF Shown, TypeOK, Index, Unit
<1> QED BY <1>1, <1>2

\* Outside a revocation a product's record changes only to the next revision.
LEMMA ChangeShape ==
  ASSUME TypeOK, [Next]_vars
  PROVE  \/ UNCHANGED product
         \/ \E p \in Products : Revoke(p, TRUE) \/ Revoke(p, FALSE)
         \/ index' = index /\ \E S \in SUBSET Products : \A p \in Products :
              IF p \in S THEN product'[p].rev = product[p].rev + 1 ELSE product'[p] = product[p]
<1>1. ASSUME NEW p \in Products, Edit(p) \/ Import(p)
      PROVE  index' = index /\ \A q \in Products :
               IF q \in {p} THEN product'[q].rev = product[q].rev + 1 ELSE product'[q] = product[q]
  <2>1. CASE Edit(p)
    BY <2>1 DEF Edit, TypeOK, Product
  <2>2. CASE Import(p)
    BY <2>2 DEF Import, TypeOK, Product
  <2> QED BY <1>1, <2>1, <2>2
<1>2. ASSUME NEW chunk \in SUBSET Products, Fanout(chunk)
      PROVE  index' = index /\ \E S \in SUBSET Products : \A q \in Products :
               IF q \in S THEN product'[q].rev = product[q].rev + 1 ELSE product'[q] = product[q]
  <2> DEFINE S == {q \in chunk : product[q].current}
  <2>1. \A q \in Products :
          IF q \in S THEN product'[q].rev = product[q].rev + 1 ELSE product'[q] = product[q]
    BY <1>2 DEF Fanout, TypeOK, Product
  <2>2. index' = index
    BY <1>2 DEF Fanout
  <2> QED BY <2>1, <2>2
<1>3. CASE Worker
  <2>1. (\E S \in SUBSET Products : Fanout(S)) \/ UNCHANGED product
    BY <1>3 DEF Worker, Claim, Discard, FailIntent, CloseClaim, Stage, ActivateOvertaken,
                ActivateStale, ActivateFails, Activate, durable
  <2> QED BY <1>2, <2>1
<1>4. \/ \E p \in Products : Edit(p) \/ Import(p) \/ Revoke(p, TRUE) \/ Revoke(p, FALSE)
      \/ Worker \/ UNCHANGED product
  BY DEF Next, vars, durable, Relocalize, ChangeProfile, Retry, BeginSwitch, ReadForSwitch,
         AbortSwitch, ActivateSwitch, Damage, Crash, Restart
<1>5. ASSUME NEW p \in Products, Edit(p) \/ Import(p)
      PROVE  index' = index /\ \E S \in SUBSET Products : \A q \in Products :
               IF q \in S THEN product'[q].rev = product[q].rev + 1 ELSE product'[q] = product[q]
  <2>1. {p} \in SUBSET Products
    OBVIOUS
  <2> QED BY <1>1, <1>5, <2>1
<1> QED BY <1>3, <1>4, <1>5

LEMMA AdmissionStep ==
  ASSUME IndInv, IndInv', [Next]_vars
  PROVE  Admission!Next \/ UNCHANGED <<Working, Online, Shown>>
<1> USE DEF IndInv
<1>1. Admission!Serve
  BY ShownIsOnline DEF Admission!Serve
<1>2. CASE RowsKept /\ UNCHANGED product
  <2>1. Online' = Online
    BY <1>2, AuthorityKept DEF Online
  <2>2. Working' = Working
    BY <1>2 DEF Working, Published
  <2> QED BY <1>1, <2>1, <2>2 DEF Admission!Next, Admission!Refresh
<1>3. ASSUME RowsKept, index' = index, NEW S \in SUBSET Products,
             \A p \in Products :
               IF p \in S THEN product'[p].rev = product[p].rev + 1 ELSE product'[p] = product[p]
      PROVE  Admission!Change(S)
  <2>1. Online' = Online /\ Shown' = Shown
    BY <1>3, AuthorityKept DEF Online, Shown
  <2>2. \A p \in Products \ S : Working'[p] = Working[p]
    BY <1>3 DEF Working, Published
  <2>3. \A p \in S : /\ Working'[p].rev = Working[p].rev + 1
                     /\ Working[p].published => Working'[p].published
    BY <1>3 DEF Working, RowsKept
  <2> QED BY <2>1, <2>2, <2>3 DEF Admission!Change
<1>4. ASSUME NEW p \in Products, NEW archive, Revoke(p, archive)
      PROVE  Admission!Hide(p)
  <2>1. /\ ~Published(p)'
        /\ \A q \in Products \ {p} : /\ act'[q] = act[q] /\ vis'[q] = vis[q]
                                     /\ product'[q] = product[q]
        /\ act'[p] = NoUnit
    BY <1>4, RevokeShape
  <2>2. \A q \in Products \ {p} : Working'[q] = Working[q]
    BY <2>1 DEF Working, Published
  <2>3. Online' = [Online EXCEPT ![p] = 0]
    <3>1. Authority'[p] = NoUnit
      BY <2>1 DEF Authority
    <3>2. \A q \in Products \ {p} : Authority'[q] = Authority[q]
      BY <2>1 DEF Authority, Visible, Published
    <3>3. Authority'[p].rev = 0
      BY <3>1 DEF NoUnit
    <3> QED BY <3>2, <3>3 DEF Online
  <2>4. Working'[p].rev \in {Working[p].rev, Working[p].rev + 1} /\ ~Working'[p].published
    <3>1. product'[p].rev \in {product[p].rev, product[p].rev + 1}
      BY <1>4 DEF Revoke, TypeOK, Product
    <3> QED BY <2>1, <3>1 DEF Working
  <2> QED BY <1>1, <2>2, <2>3, <2>4 DEF Admission!Hide
<1>5. ASSUME NEW S \in SUBSET Products, UNCHANGED product, \A p \in S : Published(p),
             \A p \in Products :
               Authority'[p].rev = IF p \in S THEN product[p].rev ELSE Authority[p].rev
      PROVE  Admission!Admit(S)
  <2>1. Working' = Working
    BY <1>5 DEF Working, Published
  <2>2. \A p \in S : Working[p].published
    BY <1>5 DEF Working
  <2>3. Online' = [p \in Products |-> IF p \in S THEN Working[p].rev ELSE Online[p]]
    BY <1>5 DEF Online, Working
  <2> QED BY <1>1, <2>1, <2>2, <2>3 DEF Admission!Admit
<1>6. ASSUME NEW q \in Products, Activate(q)
      PROVE  Admission!Admit({q})
  <2>1. /\ act'[q].rev = product[q].rev /\ act'[q].gen = vis'[q].gen /\ vis'[q].visible
        /\ Published(q) /\ UNCHANGED <<product, site, facts>>
        /\ \A p \in Products \ {q} : act'[p] = act[p] /\ vis'[p] = vis[p]
    BY <1>6, ActivateShape
  <2>2. product[q].rev > 0
    BY DEF ActiveInv
  <2>3. Visible(q)'
    BY <2>1, <2>2 DEF Visible, Published, TypeOK, Product
  <2>4. \A p \in Products :
          Authority'[p].rev = IF p \in {q} THEN product[p].rev ELSE Authority[p].rev
    BY <2>1, <2>3 DEF Authority, Visible, Published
  <2> QED BY <1>5, <2>1, <2>4
<1>7. ASSUME ActivateSwitch
      PROVE  Admission!Admit({p \in Products : Published(p)})
  <2>1. UNCHANGED <<product, facts>>
    BY <1>7, SwitchShape
  <2>2. ASSUME NEW p \in Products, Published(p) PROVE Authority'[p].rev = product[p].rev
    <3>1. act'[p].rev = product[p].rev /\ act'[p].gen = vis'[p].gen /\ vis'[p].visible
      BY <1>7, <2>2, SwitchShape
    <3>2. product[p].rev > 0 /\ Published(p)'
      BY <2>1, <2>2 DEF ActiveInv, Published
    <3> QED BY <3>1, <3>2 DEF Authority, Visible, TypeOK, Product
  <2>3. ASSUME NEW p \in Products, ~Published(p) PROVE Authority'[p].rev = Authority[p].rev
    <3>1. act'[p] = NoUnit
      BY <1>7, <2>3, SwitchShape
    <3> QED BY <2>3, <3>1 DEF Authority, Visible
  <2> QED BY <1>5, <2>1, <2>2, <2>3
<1>8. RowsKept \/ (\E p \in Products : Activate(p) \/ Revoke(p, TRUE) \/ Revoke(p, FALSE))
      \/ ActivateSwitch
  BY RowsKeptSteps
<1>9. CASE RowsKept
  <2>1. ASSUME NEW p \in Products, Revoke(p, TRUE) \/ Revoke(p, FALSE) PROVE Admission!Hide(p)
    BY <1>4, <2>1
  <2> QED BY <1>2, <1>3, <1>9, <2>1, ChangeShape DEF Admission!Next
<1>10. CASE \E p \in Products : Activate(p) \/ Revoke(p, TRUE) \/ Revoke(p, FALSE)
  <2>1. PICK p \in Products : Activate(p) \/ Revoke(p, TRUE) \/ Revoke(p, FALSE)
    BY <1>10
  <2>2. {p} \in SUBSET Products
    OBVIOUS
  <2> QED BY <1>4, <1>6, <2>1, <2>2 DEF Admission!Next
<1>11. CASE ActivateSwitch
  <2>1. {p \in Products : Published(p)} \in SUBSET Products
    OBVIOUS
  <2> QED BY <1>7, <1>11, <2>1 DEF Admission!Next
<1> QED BY <1>8, <1>9, <1>10, <1>11

\* Publication keeps every promise of PublicAdmission: hiding is immediate, what
\* goes online is the working revision, and a visitor is shown that or nothing,
\* through all faults.
THEOREM Refinement == Spec => KeepsAdmission
<1>1. Init => Admission!Init
  <2> SUFFICES ASSUME Init PROVE Admission!Init
    OBVIOUS
  <2>1. Working \in [Products -> [rev : {1}, published : {FALSE}]]
    BY DEF Init, Working, Published
  <2>2. Online = [p \in Products |-> 0]
    BY DEF Init, Online, Authority, NoUnit, NoUnits
  <2>3. Shown = [p \in Products |-> 0]
    BY DEF Init, Shown, FullIndex, NoUnit, NoUnits
  <2> QED BY <2>1, <2>2, <2>3 DEF Admission!Init
<1>2. IndInv /\ IndInv' /\ [Next]_vars => [Admission!Next]_(Admission!vars)
  BY AdmissionStep DEF Admission!vars
<1> QED BY <1>1, <1>2, InvariantHolds, PTL DEF Spec, KeepsAdmission, Admission!Spec

-----------------------------------------------------------------------------
(* Nothing is forgotten, and what is finished is finished.  The difficult     *)
(* steps are those that close an intent without publishing anything: each     *)
(* needs a reason to know that somebody else will.                            *)

\* The unit the worker holds was made under the present profiles, or the change
\* of profiles is still to reach its product; when it is discarded, that is so or
\* the product has moved on.
StaleInv ==
  /\ worker.pc = "staged" =>
       worker.unit.facts = facts[worker.product] \/ worker.product \in fanout
  /\ worker.pc = "discard" =>
       \/ worker.product \in fanout
       \/ ~(Published(worker.product) /\ product[worker.product].rev = worker.rev)

UpToDate(p) == act[p].rev = product[p].rev /\ act[p].facts = facts[p]

AskedBy(i, p) ==
  /\ intents[i].product = p /\ intents[i].rev = product[p].rev
  /\ intents[i].status \in LiveStatus \cup {"failed"}

\* Profiles change by ChangeProfile alone, which leaves their products to Fanout,
\* and only Fanout takes them, when the worker is idle.
LEMMA FactsShape ==
  ASSUME TypeOK, [Next]_vars
  PROVE  /\ \A p \in Products : facts'[p] = facts[p] \/ p \in fanout'
         /\ fanout \subseteq fanout' \/ (worker.pc = "idle" /\ worker' = worker)
<1>1. CASE UNCHANGED <<facts, fanout>>
  BY <1>1
<1>2. ASSUME NEW S \in SUBSET Products, ChangeProfile(S)
      PROVE  fanout \subseteq fanout' /\ \A p \in Products : facts'[p] = facts[p] \/ p \in fanout'
  BY <1>2 DEF ChangeProfile
<1>3. ASSUME NEW S \in SUBSET Products, Fanout(S)
      PROVE  worker.pc = "idle" /\ worker' = worker /\ UNCHANGED facts
  BY <1>3 DEF Fanout
<1>4. \/ UNCHANGED <<facts, fanout>> \/ (\E S \in SUBSET Products : ChangeProfile(S))
      \/ \E S \in SUBSET Products : Fanout(S)
  BY DEF Next, vars, durable, Edit, Import, Revoke, Relocalize, Retry, BeginSwitch, ReadForSwitch,
         AbortSwitch, ActivateSwitch, Damage, Worker, Claim, Stage, ActivateOvertaken,
         ActivateStale, Discard, FailIntent, CloseClaim, ActivateFails, Activate, Crash, Restart
<1> QED BY <1>1, <1>2, <1>3, <1>4

LEMMA StaleStep ==
  ASSUME TypeOK, QueueInv, ClaimInv, StaleInv, [Next]_vars
  PROVE  StaleInv'
<1>1. CASE worker' = worker /\ worker.pc \in {"staged", "discard"}
  <2>1. worker.product \in Products
    BY <1>1 DEF ClaimInv
  <2>2. fanout \subseteq fanout'
        /\ (facts'[worker.product] = facts[worker.product] \/ worker.product \in fanout')
    BY <1>1, <2>1, FactsShape
  <2>3. ASSUME Published(worker.product)', product'[worker.product].rev = worker.rev
        PROVE  product'[worker.product] = product[worker.product]
    <3>1. /\ worker.rev <= product[worker.product].rev
          /\ worker.rev \in Nat /\ product[worker.product].rev \in Nat
      BY <1>1 DEF ClaimInv, QueueInv, TypeOK, Claimed, Product
    <3> QED BY <1>1, <2>1, <2>3, <3>1, ProductsShape DEF ProductsGrow
  <2> QED BY <1>1, <2>2, <2>3 DEF StaleInv, Published
<1>2. CASE worker'.pc \notin {"staged", "discard"}
  BY <1>2 DEF StaleInv
<1>3. CASE Claim
  <2>1. worker'.pc = "claimed"
    BY <1>3 DEF Claim
  <2> QED BY <2>1, <1>2
<1>4. ASSUME NEW p \in Products, Stage(p) PROVE StaleInv'
  <2>0. worker.product = p /\ UNCHANGED <<facts, fanout, product>>
    BY <1>4 DEF Stage, durable
  <2>1. CASE worker' = [worker EXCEPT !.pc = "staged",
                                      !.unit = UnitFor(p, site.config, site.epoch)]
    <3>1. worker'.pc = "staged" /\ worker'.product = p
          /\ worker'.unit = UnitFor(p, site.config, site.epoch)
      BY <2>0, <2>1 DEF TypeOK, Claimed
    <3> QED BY <2>0, <3>1 DEF StaleInv, UnitFor
  <2>2. CASE /\ ~(Published(p) /\ product[p].rev = worker.rev)
             /\ worker' = [worker EXCEPT !.pc = "discard"]
    <3>1. worker'.pc = "discard" /\ worker'.product = p /\ worker'.rev = worker.rev
      BY <2>0, <2>2 DEF TypeOK, Claimed
    <3> QED BY <2>0, <2>2, <3>1 DEF StaleInv, Published
  <2>3. CASE worker' = [worker EXCEPT !.pc = "failing"]
    <3>1. worker'.pc = "failing"
      BY <2>3 DEF TypeOK, Claimed
    <3> QED BY <1>2, <3>1
  <2> QED BY <1>4, <2>1, <2>2, <2>3 DEF Stage
<1>5. ASSUME NEW p \in Products, ActivateStale(p) PROVE StaleInv'
  <2>1. CASE worker' = Idle
    BY <2>1, <1>2 DEF Idle
  <2>2. CASE worker' # Idle
    <3>1. /\ worker' = [worker EXCEPT !.pc = "discard"] /\ UNCHANGED fanout
          /\ worker.pc = "staged" /\ worker.unit.facts # facts[worker.product]
      BY <1>5, <2>2 DEF ActivateStale, durable
    <3>2. worker'.pc = "discard" /\ worker'.product = worker.product
      BY <3>1 DEF TypeOK, Claimed
    <3> QED BY <3>1, <3>2 DEF StaleInv
  <2> QED BY <2>1, <2>2
<1> QED BY <1>1, <1>2, <1>3, <1>4, <1>5, ClaimShape

\* What Queue adds leaves the older intents alone, and asks for every product of S.
LEMMA QueueKeeps ==
  ASSUME TypeOK, NEW base, base \in [Ids -> Intent], NEW S, S \subseteq Products,
         NEW rev, rev \in [Products -> Nat], Queue(base, S, rev)
  PROVE  /\ \A i \in Ids : i < nextIntent => intents'[i] = base[i]
         /\ \A p \in S : \E i \in Ids :
              intents'[i] = [product |-> p, rev |-> rev[p], status |-> "pending"]
<1> USE ConstantsAssumption
<1>0. nextIntent \in 1..(MaxIntents + 1)
  BY DEF TypeOK
<1>1. PICK n \in nextIntent..(MaxIntents + 1) : \E owner \in [nextIntent..(n - 1) -> S] :
        /\ \A i, j \in DOMAIN owner : owner[i] = owner[j] => i = j
        /\ \A p \in S : \E i \in DOMAIN owner : owner[i] = p
        /\ intents' = [i \in Ids |->
             IF i \in DOMAIN owner
             THEN [product |-> owner[i], rev |-> rev[owner[i]], status |-> "pending"]
             ELSE base[i]]
        /\ nextIntent' = n
  BY Zenon DEF Queue
<1>2. PICK owner \in [nextIntent..(n - 1) -> S] :
        /\ \A p \in S : \E i \in DOMAIN owner : owner[i] = p
        /\ intents' = [i \in Ids |->
             IF i \in DOMAIN owner
             THEN [product |-> owner[i], rev |-> rev[owner[i]], status |-> "pending"]
             ELSE base[i]]
  BY ZenonT(60), <1>1
<1>3. ASSUME NEW i \in Ids, i < nextIntent PROVE intents'[i] = base[i]
  <2>1. i \notin nextIntent..(n - 1) /\ DOMAIN owner = nextIntent..(n - 1)
    BY <1>0, <1>1, <1>3 DEF Ids
  <2> QED BY <1>2, <2>1
<1>4. ASSUME NEW p \in S
      PROVE  \E i \in Ids : intents'[i] = [product |-> p, rev |-> rev[p], status |-> "pending"]
  <2>1. PICK i \in DOMAIN owner : owner[i] = p
    BY <1>2
  <2>2. i \in Ids /\ i \in nextIntent..(n - 1)
    BY <1>0, <1>1, <2>1 DEF Ids
  <2> QED BY <1>2, <2>1, <2>2
<1> QED BY <1>3, <1>4

\* What a step may do to an intent that is neither queued nor claimed anew.
Fate(i) ==
  \/ intents'[i] = intents[i]
  \/ /\ intents[i].status \in LiveStatus
     /\ \/ intents'[i].status \in LiveStatus \cup {"failed"}
        \/ /\ i = worker.id /\ intents[i].status = "processing"
           /\ \E p \in Products : ActivateOvertaken(p)
        \/ i = worker.id /\ Discard
        \/ \E p \in Products : Activate(p) /\ (i = worker.id \/ intents[i].product = p)
        \/ ActivateSwitch /\ \E p \in Products : Published(p) /\ intents[i].product = p

\* Closing an intent touches that intent, from the states it may be closed in.
LEMMA CloseOnly ==
  ASSUME TypeOK, NEW id, NEW from, NEW status, Close(id, from, status),
         NEW i \in Ids, intents'[i] # intents[i]
  PROVE  i = id /\ intents[i].status \in from /\ intents'[i].status = status
<1>1. intents[i] \in Intent
  BY DEF TypeOK
<1>2. i = id
  BY DEF Close, TypeOK
<1>3. intents'[i] = [intents[i] EXCEPT !.status =
                       IF intents[i].status \in from THEN status ELSE intents[i].status]
  BY <1>2 DEF Close, TypeOK
<1> QED BY <1>1, <1>2, <1>3 DEF Intent

\* The queued intents of a step that queues are not touched by it.
LEMMA QueueFate ==
  ASSUME TypeOK, QueueInv, [Next]_vars, NEW i \in Ids, intents[i].status # "none",
         NEW S, S \subseteq Products,
         Queue(intents, S, Revs) \/ Queue(intents, S, Revs')
  PROVE  intents'[i] = intents[i]
<1>1. i < nextIntent
  BY DEF QueueInv
<1>2. intents \in [Ids -> Intent] /\ Revs \in [Products -> Nat]
  BY DEF TypeOK, Revs, Product
<1>3. Revs' \in [Products -> Nat]
  BY NextType, RevsType DEF TypeOK
<1> QED BY <1>1, <1>2, <1>3, QueueKeeps

LEMMA WorkerFate ==
  ASSUME TypeOK, QueueInv, ClaimInv, [Next]_vars, Worker,
         NEW i \in Ids, intents[i].status # "none"
  PROVE  Fate(i)
<1> SUFFICES ASSUME intents'[i] # intents[i] PROVE Fate(i)
  BY DEF Fate
<1>1. ASSUME NEW chunk \in SUBSET Products, Fanout(chunk) PROVE FALSE
  <2>1. Queue(intents, {q \in chunk : product[q].current}, Revs')
    BY <1>1 DEF Fanout
  <2> QED BY <2>1, QueueFate
<1>2. CASE Claim
  <2>1. PICK id \in Ids : intents' = [intents EXCEPT ![id].status = "processing"]
                          /\ intents[id].status = "pending"
    BY <1>2 DEF Claim
  <2>2. i = id
    BY <2>1 DEF TypeOK
  <2>3. intents'[i].status = "processing" /\ intents[i].status = "pending"
    BY <2>1, <2>2 DEF TypeOK, Intent
  <2> QED BY <2>3 DEF Fate, LiveStatus
<1>3. CASE FailIntent
  <2>1. Close(worker.id, {"processing"}, "failed")
    BY <1>3 DEF FailIntent, CloseClaim
  <2>2. intents[i].status \in LiveStatus /\ intents'[i].status = "failed"
    BY <2>1, CloseOnly DEF LiveStatus
  <2> QED BY <2>2 DEF Fate
<1>4. ASSUME NEW p \in Products, ActivateOvertaken(p) PROVE Fate(i)
  <2>1. Close(worker.id, {"processing"}, "superseded")
    BY <1>4 DEF ActivateOvertaken
  <2>2. i = worker.id /\ intents[i].status = "processing"
    BY <2>1, CloseOnly
  <2> QED BY <1>4, <2>2 DEF Fate, LiveStatus
<1>5. CASE Discard
  <2>1. Close(worker.id, LiveStatus, "superseded")
    BY <1>5 DEF Discard, CloseClaim
  <2>2. i = worker.id /\ intents[i].status \in LiveStatus
    BY <2>1, CloseOnly
  <2> QED BY <1>5, <2>2 DEF Fate
<1>6. ASSUME NEW p \in Products, Activate(p) PROVE Fate(i)
  <2>1. intents[worker.id].status = "processing"
    BY <1>6 DEF Activate, ClaimCurrent
  <2>2. \/ i = worker.id
        \/ intents[i].status \in LiveStatus /\ intents[i].product = p
    BY <1>6 DEF Activate, Overtaken
  <2> QED BY <1>6, <2>1, <2>2 DEF Fate, LiveStatus
<1>7. (\E p \in Products : Stage(p) \/ ActivateStale(p) \/ ActivateFails(p)) => intents' = intents
  BY DEF Stage, ActivateStale, ActivateFails, durable
<1> QED BY <1>1, <1>2, <1>3, <1>4, <1>5, <1>6, <1>7 DEF Worker

LEMMA IntentFate ==
  ASSUME TypeOK, QueueInv, ClaimInv, [Next]_vars, NEW i \in Ids, intents[i].status # "none"
  PROVE  Fate(i)
<1> SUFFICES ASSUME intents'[i] # intents[i] PROVE Fate(i)
  BY DEF Fate
<1>1. ASSUME NEW p \in Products, Edit(p) \/ Import(p) PROVE FALSE
  <2>1. Queue(intents, {p}, Revs')
    BY <1>1 DEF Edit, Import
  <2> QED BY <2>1, QueueFate
<1>2. ASSUME NEW p \in Products, NEW archive, Revoke(p, archive) PROVE FALSE
  <2> DEFINE S == IF ~archive /\ product[p].status = "hidden" THEN {} ELSE {p}
  <2>1. Queue(intents, S, Revs') /\ S \subseteq Products
    BY <1>2 DEF Revoke
  <2> HIDE DEF S
  <2> QED BY <2>1, QueueFate
<1>3. CASE Relocalize
  <2>1. Queue(intents, {p \in Products : Published(p)}, Revs)
    BY <1>3 DEF Relocalize
  <2> QED BY <2>1, QueueFate
<1>4. ASSUME NEW id \in Ids, Retry(id) PROVE FALSE
  <2>1. Queue(intents, {intents[id].product}, Revs) /\ intents[id].product \in Products
    BY <1>4 DEF Retry
  <2> QED BY <2>1, QueueFate
<1>5. CASE Worker
  BY <1>5, WorkerFate
<1>6. CASE ActivateSwitch
  <2>1. /\ intents[i].status \in LiveStatus
        /\ \E p \in Products : Published(p) /\ intents[i].product = p
    BY <1>6 DEF ActivateSwitch, Overtaken
  <2> QED BY <1>6, <2>1 DEF Fate
<1>7. CASE Restart
  <2> DEFINE reset == ClaimsReset
             repair == {p \in damaged : /\ Visible(p) /\ act[p].rev = product[p].rev
                                 /\ \A j \in Ids : ~ /\ reset[j].product = p
                                                     /\ reset[j].rev = act[p].rev
                                                     /\ reset[j].status \in LiveStatus}
  <2>1. Queue(reset, repair, Revs) /\ repair \subseteq Products
    BY <1>7 DEF Restart, TypeOK
  <2>2. reset \in [Ids -> Intent] /\ Revs \in [Products -> Nat]
    BY DEF TypeOK, Intent, IntentStatus, LiveStatus, ClaimsReset, Revs, Product
  <2>3. \/ reset[i] = intents[i]
        \/ intents[i].status = "processing" /\ reset[i].status = "pending"
    BY DEF TypeOK, Intent, ClaimsReset
  <2> HIDE DEF reset, repair
  <2>4. i < nextIntent
    BY DEF QueueInv
  <2>5. intents'[i] = reset[i]
    BY <2>1, <2>2, <2>4, QueueKeeps
  <2> QED BY <2>3, <2>5 DEF Fate, LiveStatus
<1>8. \/ \E p \in Products : Edit(p) \/ Import(p) \/ Revoke(p, TRUE) \/ Revoke(p, FALSE)
      \/ Relocalize \/ (\E id \in Ids : Retry(id)) \/ Worker \/ ActivateSwitch \/ Restart
      \/ UNCHANGED <<intents, nextIntent>>
  BY DEF Next, vars, durable, ChangeProfile, BeginSwitch, ReadForSwitch, AbortSwitch, Damage, Crash
<1> QED BY <1>1, <1>2, <1>3, <1>4, <1>5, <1>6, <1>7, <1>8

\* An intent that completed, was superseded or failed never changes again, for any
\* number of intents: the conditional updates of publication_store.go close only
\* what is pending or processing, and a retry queues a new one.
THEOREM FinishedForGood == Spec => ClosedStaysClosed
<1>1. ASSUME IndInv, [Next]_vars, NEW i \in Ids,
             intents[i].status \in {"completed", "superseded", "failed"}
      PROVE  intents'[i] = intents[i]
  <2>1. TypeOK /\ QueueInv /\ ClaimInv
    BY <1>1 DEF IndInv
  <2>2. Fate(i)
    BY <1>1, <2>1, IntentFate
  <2>3. intents[i].status \notin LiveStatus
    BY <1>1 DEF LiveStatus
  <2> QED BY <2>2, <2>3 DEF Fate
<1>2. IndInv /\ [Next]_vars =>
        [\A i \in Ids : intents[i].status \in {"completed", "superseded", "failed"} =>
           intents'[i] = intents[i]]_vars
  BY <1>1
<1> QED BY <1>2, InvariantHolds, PTL DEF Spec, ClosedStaysClosed

\* A product that changes and stays published is asked for at its new revision.
LEMMA ChangeIsQueued ==
  ASSUME TypeOK, QueueInv, [Next]_vars, NEW p \in Products,
         Published(p)', product'[p] # product[p]
  PROVE  \E i \in Ids : AskedBy(i, p)'
<1>1. Revs' \in [Products -> Nat] /\ Revs'[p] = product'[p].rev
  <2>1. product' \in [Products -> Product]
    BY NextType DEF TypeOK
  <2>2. Revs'[p] = product'[p].rev
    BY DEF Revs
  <2> QED BY <2>1, <2>2, RevsType
<1>2. ASSUME NEW S, S \subseteq Products, p \in S, Queue(intents, S, Revs')
      PROVE  \E i \in Ids : AskedBy(i, p)'
  <2>1. PICK i \in Ids : intents'[i] = [product |-> p, rev |-> Revs'[p], status |-> "pending"]
    BY <1>1, <1>2, QueueKeeps DEF TypeOK
  <2> QED BY <1>1, <2>1 DEF AskedBy, LiveStatus
<1>3. ASSUME NEW q \in Products, Edit(q) \/ Import(q) PROVE \E i \in Ids : AskedBy(i, p)'
  <2>1. Queue(intents, {q}, Revs')
    BY <1>3 DEF Edit, Import
  <2>2. \A r \in Products \ {q} : product'[r] = product[r]
    BY <1>3 DEF Edit, Import, TypeOK
  <2>3. q = p
    BY <2>2
  <2> QED BY <1>2, <2>1, <2>3
<1>4. ASSUME NEW q \in Products, NEW archive, Revoke(q, archive) PROVE FALSE
  BY <1>4, RevokeShape
<1>5. ASSUME NEW chunk \in SUBSET Products, Fanout(chunk) PROVE \E i \in Ids : AskedBy(i, p)'
  <2> DEFINE S == {q \in chunk : product[q].current}
  <2>1. /\ product' = [q \in Products |->
              IF q \in S THEN [product[q] EXCEPT !.rev = @ + 1] ELSE product[q]]
        /\ Queue(intents, S, Revs') /\ S \subseteq Products
    BY <1>5 DEF Fanout
  <2>2. p \in S
    BY <2>1
  <2> HIDE DEF S
  <2> QED BY <1>2, <2>1, <2>2
<1>6. \/ \E q \in Products : Edit(q) \/ Import(q) \/ Revoke(q, TRUE) \/ Revoke(q, FALSE)
      \/ (\E S \in SUBSET Products : Fanout(S))
      \/ UNCHANGED product
  BY DEF Next, vars, durable, Relocalize, ChangeProfile, Retry, BeginSwitch, ReadForSwitch,
         AbortSwitch, ActivateSwitch, Damage, Worker, Claim, Stage, ActivateOvertaken,
         ActivateStale, Discard, FailIntent, CloseClaim, ActivateFails, Activate, Crash, Restart
<1> QED BY <1>3, <1>4, <1>5, <1>6

\* What an activation or a switch puts online is up to date.
LEMMA PublishedUpToDate ==
  ASSUME IndInv, NEW p \in Products
  PROVE  /\ Activate(p) => UpToDate(p)'
         /\ ActivateSwitch /\ Published(p) => UpToDate(p)'
<1> USE DEF IndInv
<1>1. ASSUME Activate(p) PROVE UpToDate(p)'
  <2>1. /\ act'[p].rev = product[p].rev /\ act'[p].facts = facts[p]
        /\ UNCHANGED <<product, site, facts>>
    BY <1>1, ActivateShape
  <2> QED BY <2>1 DEF UpToDate
<1>2. ASSUME ActivateSwitch, Published(p) PROVE UpToDate(p)'
  <2>1. /\ act'[p].rev = product[p].rev /\ act'[p].facts = facts[p]
        /\ UNCHANGED <<product, facts>>
    BY <1>2, SwitchShape
  <2> QED BY <2>1 DEF UpToDate
<1> QED BY <1>1, <1>2

\* A product that is up to date stays so, or its profiles changed.
LEMMA UpToDateStep ==
  ASSUME IndInv, [Next]_vars, NEW p \in Products,
         Published(p), Published(p)', product'[p] = product[p], UpToDate(p)
  PROVE  UpToDate(p)' \/ p \in fanout'
<1>1. facts'[p] = facts[p] \/ p \in fanout'
  BY FactsShape DEF IndInv
<1>2. CASE act'[p] = act[p]
  BY <1>1, <1>2 DEF UpToDate
<1>3. ASSUME NEW q \in Products, NEW archive, Revoke(q, archive) PROVE act'[p] = act[p]
  BY <1>3, RevokeShape DEF IndInv
<1>4. ASSUME NEW q \in Products, Activate(q) PROVE act'[p] = act[p] \/ UpToDate(p)'
  <2>1. CASE q = p
    BY <1>4, <2>1, PublishedUpToDate
  <2>2. CASE q # p
    BY <1>4, <2>2, ActivateShape DEF IndInv
  <2> QED BY <2>1, <2>2
<1>5. ActivateSwitch => UpToDate(p)'
  BY PublishedUpToDate
<1>6. TypeOK
  BY DEF IndInv
<1>7. RowsKept \/ (\E q \in Products : Activate(q) \/ Revoke(q, TRUE) \/ Revoke(q, FALSE))
      \/ ActivateSwitch
  BY <1>6, RowsKeptSteps
<1> QED BY <1>2, <1>3, <1>4, <1>5, <1>7 DEF RowsKept

\* A product a changed profile has not reached is still waited for, as only Fanout
\* takes it, and then under a new revision.
LEMMA FanoutStep ==
  ASSUME TypeOK, [Next]_vars, NEW p \in Products, Published(p), product'[p] = product[p],
         p \in fanout
  PROVE  p \in fanout'
<1>1. ASSUME NEW chunk \in SUBSET Products, Fanout(chunk) PROVE p \in fanout'
  <2> DEFINE S == {q \in chunk : product[q].current}
  <2>1. /\ product' = [q \in Products |->
              IF q \in S THEN [product[q] EXCEPT !.rev = @ + 1] ELSE product[q]]
        /\ fanout' = fanout \ chunk
    BY <1>1 DEF Fanout
  <2>2. p \notin S
    <3>1. SUFFICES ASSUME p \in S PROVE FALSE
      OBVIOUS
    <3>2. product'[p] = [product[p] EXCEPT !.rev = @ + 1]
      BY <2>1, <3>1
    <3>3. product'[p].rev = product[p].rev + 1 /\ product[p].rev \in Nat
      BY <3>2 DEF TypeOK, Product
    <3> QED BY <3>3
  <2> QED BY <2>1, <2>2 DEF Published
<1>2. (\E S \in SUBSET Products : Fanout(S)) \/ fanout \subseteq fanout'
  BY DEF Next, vars, durable, Edit, Import, Revoke, Relocalize, ChangeProfile, Retry, BeginSwitch,
         ReadForSwitch, AbortSwitch, ActivateSwitch, Damage, Worker, Claim, Stage,
         ActivateOvertaken, ActivateStale, Discard, FailIntent, CloseClaim, ActivateFails, Activate,
         Crash, Restart
<1> QED BY <1>1, <1>2

\* An intent that asks for a product is closed only when the product is online as
\* it stands, or a profile change is still to queue it again.
LEMMA AskedStep ==
  ASSUME IndInv, StaleInv, [Next]_vars, NEW p \in Products,
         Published(p), product'[p] = product[p], NEW i \in Ids, AskedBy(i, p)
  PROVE  AskedBy(i, p)' \/ UpToDate(p)' \/ p \in fanout'
<1>1. TypeOK /\ QueueInv /\ ClaimInv
  BY DEF IndInv
<1>2. /\ intents[i].product = p /\ intents[i].rev = product[p].rev
      /\ intents[i].status \in LiveStatus \cup {"failed"} /\ intents[i].status # "none"
  BY DEF AskedBy, LiveStatus
<1>3. intents'[i].product = p /\ intents'[i].rev = product'[p].rev
  BY <1>1, <1>2, ClaimKept
<1>4. CASE intents'[i].status \in LiveStatus \cup {"failed"}
  BY <1>3, <1>4 DEF AskedBy
<1>5. CASE i = worker.id /\ worker.pc \in {"claimed", "staged", "discard"}
  <2>1. worker.product = p /\ worker.rev = product[p].rev
    BY <1>1, <1>2, <1>5 DEF ClaimInv
  <2>3. ASSUME intents[i].status = "processing", NEW q \in Products, ActivateOvertaken(q)
        PROVE  FALSE
    BY <1>5, <2>1, <2>3 DEF ActivateOvertaken, ClaimCurrent
  <2>4. CASE Discard
    BY <1>1, <2>1, <2>4 DEF Discard, CloseClaim, StaleInv
  <2>5. ASSUME NEW q \in Products, Activate(q) PROVE UpToDate(p)'
    <3>1. q = p
      BY <2>1, <2>5 DEF Activate
    <3> QED BY <2>5, <3>1, PublishedUpToDate
  <2>6. CASE ActivateSwitch
    BY <2>6, PublishedUpToDate
  <2>7. Fate(i)
    BY <1>1, <1>2, IntentFate
  <2> QED BY <1>2, <1>4, <2>3, <2>4, <2>5, <2>6, <2>7 DEF Fate
<1>6. CASE ~(i = worker.id /\ worker.pc \in {"claimed", "staged", "discard"})
  <2>1. ASSUME NEW q \in Products, Activate(q) PROVE i # worker.id
    BY <1>6, <2>1 DEF Activate
  <2>2. ASSUME NEW q \in Products, ActivateOvertaken(q) PROVE i # worker.id
    BY <1>6, <2>2 DEF ActivateOvertaken
  <2>3. Discard => i # worker.id
    BY <1>6 DEF Discard
  <2>4. Fate(i)
    BY <1>1, <1>2, IntentFate
  <2>5. \/ intents'[i].status \in LiveStatus \cup {"failed"}
        \/ Activate(p) \/ ActivateSwitch
    BY <1>2, <1>6, <2>1, <2>2, <2>3, <2>4 DEF Fate
  <2> QED BY <1>4, <2>5, PublishedUpToDate
<1> QED BY <1>5, <1>6

LEMMA ForgottenStep ==
  ASSUME IndInv, StaleInv, NothingForgotten, [Next]_vars
  PROVE  NothingForgotten'
<1> SUFFICES ASSUME NEW p \in Products, Published(p)'
             PROVE  UpToDate(p)' \/ p \in fanout' \/ \E i \in Ids : AskedBy(i, p)'
  BY DEF NothingForgotten, UpToDate, AskedBy
<1>1. TypeOK /\ QueueInv
  BY DEF IndInv
<1>2. CASE product'[p] # product[p]
  BY <1>1, <1>2, ChangeIsQueued
<1>3. CASE product'[p] = product[p]
  <2>1. Published(p)
    BY <1>3 DEF Published
  <2>2. UpToDate(p) \/ p \in fanout \/ \E i \in Ids : AskedBy(i, p)
    BY <2>1 DEF NothingForgotten, UpToDate, AskedBy
  <2> QED BY <1>1, <1>3, <2>1, <2>2, UpToDateStep, FanoutStep, AskedStep
<1> QED BY <1>2, <1>3

\* A published product that is not online as it stands is never forgotten, however
\* claims, edits, profile changes, switches, failures and restarts interleave: an
\* intent for its present revision is queued, in work or failed, or a profile
\* change is still to reach it.
THEOREM NobodyForgotten == Spec => []NothingForgotten
<1>1. Init => StaleInv /\ NothingForgotten
  BY DEF Init, StaleInv, NothingForgotten, Idle, Published
<1>2. IndInv /\ StaleInv /\ NothingForgotten /\ [Next]_vars => StaleInv' /\ NothingForgotten'
  <2>1. IndInv => TypeOK /\ QueueInv /\ ClaimInv
    BY DEF IndInv
  <2> QED BY <2>1, StaleStep, ForgottenStep
<1> QED BY <1>1, <1>2, InvariantHolds, PTL DEF Spec

=============================================================================
