---------------------------- MODULE Publication ----------------------------
(***************************************************************************)
(* Publication of products: the durable half kept by the SQLite store      *)
(* (internal/storage/sqlite/publication_store.go) and the in-memory half    *)
(* kept by the publication engine (internal/publishing/protocol.go and      *)
(* product_visibility.go).                                                 *)
(*                                                                         *)
(* Durable: the working products, the queue of publication intents, the    *)
(* visibility generation and the active public unit of every product, the  *)
(* route history and the site state (epoch and URL configuration).         *)
(* Volatile: the public index the site is served from, the worker's claim  *)
(* and the candidate of a website-wide route switch.                       *)
(*                                                                         *)
(* Every action is one write transaction, or one read, of the code.  The   *)
(* store admits one writer at a time (a channel of capacity one) and a     *)
(* transaction that changes visibility also holds the engine's gate until  *)
(* the index is installed, so it is a single step for everybody else.      *)
(***************************************************************************)
EXTENDS Integers, FiniteSets

CONSTANTS
  Products,        \* product identifiers
  Addrs,           \* what a pattern builds a route from: namespace and slug
  CustomRoutes,    \* routes an editor may set as a product's custom path
  Configs,         \* product prefix and URL pattern of the site
  Routes,          \* canonical routes
  Paths,           \* request paths
  NoRoute,         \* "" in the code: no route, no custom path
  NoProduct,       \* owner of a history row that does not exist
  Resolve,         \* [Configs -> [Addrs -> route]], NoRoute: the namespace is missing
  Suffixes,        \* the representations of a unit: HTML, .json, .md
  Html,            \* the one without a suffix: the canonical page
  PathOf,          \* [Routes -> [Suffixes -> Paths]]
  InitAddr,        \* [Products -> Addrs]
  InitConfig,
  Faults,          \* which faults may happen, a subset of FaultKinds
  MaxRev,          \* bound on product revisions
  MaxIntents,      \* bound on intents ever queued
  MaxEpoch,        \* bound on site epochs
  MaxFacts,        \* bound on changes of specification profiles
  MaxGen           \* bound on the generations revocations make

FaultKinds == {"source", "record", "activate", "install", "damage", "crash"}

ASSUME ConstantsAssumption ==
  /\ CustomRoutes \subseteq Routes
  /\ NoRoute \notin Routes
  /\ NoProduct \notin Products
  /\ Resolve \in [Configs -> [Addrs -> Routes \cup {NoRoute}]]
  /\ Html \in Suffixes
  /\ PathOf \in [Routes -> [Suffixes -> Paths]]
  /\ InitAddr \in [Products -> Addrs]
  /\ InitConfig \in Configs
  /\ Faults \subseteq FaultKinds
  /\ MaxRev \in Nat /\ MaxIntents \in Nat /\ MaxEpoch \in Nat /\ MaxFacts \in Nat
  /\ MaxGen \in Nat

\* What a representation appends to its route: the paths of a route differ, a
\* path two routes share is the page of one of them, and the page of a route can
\* only be another representation of a shorter one.
ASSUME PathAssumption ==
  /\ IsFiniteSet(Routes)
  /\ \A r \in Routes : \A s, t \in Suffixes : s # t => PathOf[r][s] # PathOf[r][t]
  /\ \A r, q \in Routes : r # q =>
       \A s, t \in Suffixes : PathOf[r][s] = PathOf[q][t] => (s = Html) # (t = Html)
  /\ \E length \in [Routes -> 0..Cardinality(Routes)] :
       \A r, q \in Routes : \A s \in Suffixes \ {Html} :
         PathOf[q][s] = PathOf[r][Html] => length[q] < length[r]

VARIABLES
  product,     \* products: working record of every product
  intents,     \* publication_intents, by creation order
  nextIntent,  \* the next intent identifier
  vis,         \* public_visibility: generation (0: no row) and flag
  act,         \* public_activations: the active unit of every product
  hist,        \* public_route_history
  site,        \* public_site_state: epoch and URL configuration
  facts,       \* version of the specification profiles each product is under
  fanout,      \* products a pending profile change has not reached yet
  damaged,     \* products whose active unit no longer verifies on disk
  index,       \* engine: the installed public index
  worker,      \* engine: the worker's claim and staged unit
  switch       \* PublishSiteRoutes in progress

durable == <<product, intents, nextIntent, vis, act, hist, site, facts, fanout, damaged>>
vars == <<durable, index, worker, switch>>

-----------------------------------------------------------------------------
(* Records *)

Ids == 1..MaxIntents
Status == {"hidden", "published"}
LiveStatus == {"pending", "processing"}
IntentStatus == LiveStatus \cup {"none", "completed", "superseded", "failed"}

Product == [current: BOOLEAN, status: Status, rev: Nat, addr: Addrs,
            custom: CustomRoutes \cup {NoRoute}]
Intent == [product: Products \cup {NoProduct}, rev: Nat, status: IntentStatus]
Unit == [rev: Nat, epoch: Nat, route: Routes \cup {NoRoute}, gen: Nat, facts: Nat]
History == [product: Products \cup {NoProduct}, state: {"none", "redirect", "gone"},
            target: Paths \cup {NoRoute}]
Visibility == [gen: Nat, visible: BOOLEAN]
Site == [epoch: Nat, config: Configs]
Index == [up: BOOLEAN, epoch: Nat, units: [Products -> Unit], hist: [Paths -> History]]
Claimed == [pc: {"down", "idle", "claimed", "staged", "discard", "failing"},
            id: Nat, product: Products \cup {NoProduct}, rev: Nat, unit: Unit]
Candidate == [pc: {"idle", "reading"}, config: Configs, epoch: Nat,
              todo: SUBSET Products, units: [Products -> Unit]]

\* A unit with revision 0 stands for a missing row or a missing index entry.
NoUnit == [rev |-> 0, epoch |-> 0, route |-> NoRoute, gen |-> 0, facts |-> 0]
NoIntent == [product |-> NoProduct, rev |-> 0, status |-> "none"]
NoHistory == [product |-> NoProduct, state |-> "none", target |-> NoRoute]

NoUnits == [p \in Products |-> NoUnit]
NoHistories == [x \in Paths |-> NoHistory]
DownIndex == [up |-> FALSE, epoch |-> 0, units |-> NoUnits, hist |-> NoHistories]
Idle == [pc |-> "idle", id |-> 0, product |-> NoProduct, rev |-> 0, unit |-> NoUnit]
NoSwitch == [pc |-> "idle", config |-> InitConfig, epoch |-> 0, todo |-> {}, units |-> NoUnits]

TypeOK ==
  /\ product \in [Products -> Product]
  /\ intents \in [Ids -> Intent]
  /\ nextIntent \in 1..(MaxIntents + 1)
  /\ vis \in [Products -> Visibility]
  /\ act \in [Products -> Unit]
  /\ hist \in [Paths -> History]
  /\ site \in Site
  /\ facts \in [Products -> Nat]
  /\ fanout \subseteq Products
  /\ damaged \subseteq Products
  /\ index \in Index
  /\ worker \in Claimed
  /\ switch \in Candidate

-----------------------------------------------------------------------------
(* Helpers *)

Published(p) == product[p].current /\ product[p].status = "published"

\* resolvedProductRoute: a custom path wins over the site's URL pattern.
RouteUnder(config, addr, custom) ==
  IF custom # NoRoute THEN custom ELSE Resolve[config][addr]
RouteOf(config, p) == RouteUnder(config, product[p].addr, product[p].custom)
CurrentRoute(p) == RouteOf(site.config, p)

\* The paths a unit answers on; a missing unit answers on none.
PathsOf(unit) ==
  IF unit.route \in Routes THEN {PathOf[unit.route][s] : s \in Suffixes} ELSE {}

\* ensureActiveRouteAvailable.  A custom path is compared with the active
\* routes and the other custom paths, never with the route the pattern gives a
\* product that is published but not active yet.
RouteAvailable(p, addr, custom) ==
  LET route == RouteUnder(site.config, addr, custom)
      others == {q \in Products \ {p} : Published(q)}
  IN /\ route # NoRoute
     /\ \A q \in Products \ {p} : act[q].route # route
     /\ \A q \in others : product[q].custom # route
     /\ custom = NoRoute =>
          \A q \in others : Resolve[site.config][product[q].addr] # route

\* appendPublicationIntent for every product of S, in any order: the rows of one
\* transaction share their creation time and are then ordered by random ids.
Queue(base, S, rev) ==
  \E n \in nextIntent..(MaxIntents + 1) : \E owner \in [nextIntent..(n - 1) -> S] :
    /\ \A i, j \in DOMAIN owner : owner[i] = owner[j] => i = j
    /\ \A p \in S : \E i \in DOMAIN owner : owner[i] = p
    /\ intents' = [i \in Ids |->
         IF i \in DOMAIN owner
         THEN [product |-> owner[i], rev |-> rev[owner[i]], status |-> "pending"]
         ELSE base[i]]
    /\ nextIntent' = n

Revs == [p \in Products |-> product[p].rev]

\* CompletePublicationIntent and FailPublicationIntent leave other states alone.
Close(id, from, status) ==
  intents' = [intents EXCEPT ![id].status = IF @ \in from THEN status ELSE @]

\* An activation of revision rev of product p supersedes its intents up to there.
\* Mutant: only those that are not claimed.
OvertakenUnclaimed(i, p, rev) ==
  intents[i].product = p /\ intents[i].status = "pending" /\ intents[i].rev <= rev
Overtaken(i, p, rev) ==
  intents[i].product = p /\ intents[i].status \in LiveStatus /\ intents[i].rev <= rev

\* Mutant: only the canonical path is remembered.
RememberHtml(moves, state) ==
  [x \in Paths |->
     IF \E m \in moves : PathOf[m.old][Html] = x
     THEN LET m == CHOOSE m \in moves : PathOf[m.old][Html] = x
          IN [product |-> m.product, state |-> state,
              target |-> IF m.new = NoRoute THEN NoRoute ELSE PathOf[m.new][Html]]
     ELSE hist[x]]

\* saveRouteHistory, one row for every representation of every route left.
Remember(moves, state) ==
  [x \in Paths |->
     IF \E m \in moves, s \in Suffixes : PathOf[m.old][s] = x
     THEN LET m == CHOOSE m \in moves : \E s \in Suffixes : PathOf[m.old][s] = x
              s == CHOOSE s \in Suffixes : PathOf[m.old][s] = x
          IN [product |-> m.product, state |-> state,
              target |-> IF m.new = NoRoute THEN NoRoute ELSE PathOf[m.new][s]]
     ELSE hist[x]]

-----------------------------------------------------------------------------
(* Installing the public index *)

\* The predicate activePublications selects rows with.
Visible(p) ==
  /\ act[p].rev # 0
  /\ vis[p].visible
  /\ vis[p].gen = act[p].gen
  /\ Published(p)

\* installLocked: a unit that does not verify is left out, and so is one whose
\* canonical path is already taken by a unit kept before it.  Units come in the
\* order of their routes, so of "/x" and "/x.json" it is "/x" that is kept.
FullIndex ==
  LET valid == {p \in Products : Visible(p) /\ p \notin damaged}
      taken(p, K) == \E q \in K \ {p} : PathOf[act[p].route][Html] \in PathsOf(act[q])
      kept == CHOOSE K \in SUBSET valid : \A p \in valid : p \in K <=> ~taken(p, K)
  IN [up |-> TRUE, epoch |-> site.epoch, hist |-> hist,
      units |-> [p \in Products |-> IF p \in valid \cap kept THEN act[p] ELSE NoUnit]]

\* The unit of product p would answer a path of another product's.
\* Mutant: canonical routes are compared, not the paths of the representations.
ClashesOnRoute(p, unit) == \E q \in Products \ {p} : index.units[q].route = unit.route
Clashes(p, unit) ==
  \E q \in Products \ {p} : PathsOf(unit) \cap PathsOf(index.units[q]) # {}

\* The history of product p is replaced by its committed rows.
\* Mutant: it is not.
HistoryUntouched(p) == index.hist
HistoryWith(p) ==
  [x \in Paths |-> IF hist'[x].product = p THEN hist'[x]
                   ELSE IF index.hist[x].product = p THEN NoHistory ELSE index.hist[x]]

\* InstallProductVisibility, after the transaction of product p committed.
InstallProduct(p) ==
  LET unit == IF Visible(p)' THEN act'[p] ELSE NoUnit
  IN IF \/ ~index.up
        \/ index.epoch # site'.epoch
        \/ unit # NoUnit /\ unit.epoch # site'.epoch
     THEN index' = FullIndex'
     ELSE IF unit # NoUnit /\ (p \in damaged' \/ Clashes(p, unit))
     THEN index' = DownIndex
     ELSE index' = [index EXCEPT !.units[p] = unit, !.hist = HistoryWith(p)]

\* The index is installed after the commit: a failed read takes the whole
\* index down and leaves the committed rows in place.
\* Mutant: the old index stays in service.
InstallFailsOpen == "install" \in Faults /\ index' = index
InstallFails == "install" \in Faults /\ index' = DownIndex

-----------------------------------------------------------------------------
(* Admin commands *)

Up == worker.pc # "down"

\* UpdateProduct, UpdateProductURL and the publishing bulk edits.  A published
\* product is never hidden this way: the handler asks for Hide.
Edit(p) ==
  /\ Up /\ product[p].current /\ product[p].rev < MaxRev
  /\ \E status \in Status, addr \in Addrs, custom \in CustomRoutes \cup {NoRoute} :
       /\ Published(p) => status = "published"
       /\ status = "published" => RouteAvailable(p, addr, custom)
       /\ product' = [product EXCEPT ![p] = [current |-> TRUE, status |-> status,
                        rev |-> @.rev + 1, addr |-> addr, custom |-> custom]]
  /\ Queue(intents, {p}, Revs')
  /\ UNCHANGED <<vis, act, hist, site, facts, fanout, damaged, index, worker, switch>>

\* An import commits new field values without asking whether the route they
\* lead to is free.
Import(p) ==
  /\ Up /\ product[p].current /\ product[p].rev < MaxRev
  /\ \E addr \in Addrs :
       product' = [product EXCEPT ![p].addr = addr, ![p].rev = @ + 1]
  /\ Queue(intents, {p}, Revs')
  /\ UNCHANGED <<vis, act, hist, site, facts, fanout, damaged, index, worker, switch>>

\* UpdateContentLocalization queues every published product at its revision.
Relocalize ==
  /\ Up
  /\ Queue(intents, {p \in Products : Published(p)}, Revs)
  /\ UNCHANGED <<product, vis, act, hist, site, facts, fanout, damaged, index, worker, switch>>

\* A specification profile changes; the products are reached by Fanout.
ChangeProfile(S) ==
  /\ Up /\ \A p \in S : facts[p] < MaxFacts
  /\ facts' = [p \in Products |-> IF p \in S THEN facts[p] + 1 ELSE facts[p]]
  /\ fanout' = fanout \cup S
  /\ UNCHANGED <<product, intents, nextIntent, vis, act, hist, site, damaged, index, worker,
                 switch>>

\* RevokeProduct: Hide (archive = FALSE) and Archive.
Revoke(p, archive) ==
  LET same == ~archive /\ product[p].status = "hidden"
  IN /\ Up /\ product[p].current /\ product[p].rev < MaxRev /\ vis[p].gen < MaxGen
     /\ product' = [product EXCEPT ![p].current = ~archive, ![p].status = "hidden",
                                   ![p].rev = IF same THEN @ ELSE @ + 1]
     /\ vis' = [vis EXCEPT ![p] = [gen |-> @.gen + 1, visible |-> FALSE]]
     /\ act' = [act EXCEPT ![p] = NoUnit]
     /\ hist' = IF archive /\ act[p] # NoUnit
                THEN Remember({[product |-> p, old |-> act[p].route, new |-> NoRoute]}, "gone")
                ELSE hist
     /\ Queue(intents, IF same THEN {} ELSE {p}, Revs')
     /\ UNCHANGED <<site, facts, fanout, damaged, worker, switch>>
     /\ InstallProduct(p) \/ InstallFails

\* RetryPublicationJob
Retry(id) ==
  LET p == intents[id].product
  IN /\ Up /\ intents[id].status = "failed"
     /\ p \in Products /\ Published(p) /\ product[p].rev = intents[id].rev
     /\ \A i \in Ids \ {id} : ~ /\ intents[i].product = p
                                /\ intents[i].status \in LiveStatus
                                /\ intents[i].rev >= intents[id].rev
     /\ act[p].rev # intents[id].rev
     /\ Queue(intents, {p}, Revs)
     /\ UNCHANGED <<product, vis, act, hist, site, facts, fanout, damaged, index, worker, switch>>

-----------------------------------------------------------------------------
(* The publication worker *)

\* ProcessSpecNumericProfileWork and ProcessSpecSearchProfileWork: one chunk of
\* the products a changed profile concerns.
Fanout(chunk) ==
  LET S == {p \in chunk : product[p].current}
  IN /\ worker.pc = "idle" /\ chunk # {} /\ chunk \subseteq fanout
     /\ \A p \in S : product[p].rev < MaxRev
     /\ product' = [p \in Products |->
                      IF p \in S THEN [product[p] EXCEPT !.rev = @ + 1] ELSE product[p]]
     /\ fanout' = fanout \ chunk
     /\ Queue(intents, S, Revs')
     /\ UNCHANGED <<vis, act, hist, site, facts, damaged, index, worker, switch>>

\* ClaimPublicationIntent: the oldest pending intent.
Claim ==
  /\ worker.pc = "idle"
  /\ \E id \in Ids :
       /\ intents[id].status = "pending"
       /\ \A i \in Ids : intents[i].status = "pending" => id <= i
       /\ intents' = [intents EXCEPT ![id].status = "processing"]
       /\ worker' = [pc |-> "claimed", id |-> id, product |-> intents[id].product,
                     rev |-> intents[id].rev, unit |-> NoUnit]
  /\ UNCHANGED <<product, nextIntent, vis, act, hist, site, facts, fanout, damaged, index, switch>>

\* Mutants: the facts come from a cache; the epoch is always the active one.
UnitForOldFacts(p, config, epoch) ==
  [rev |-> product[p].rev, epoch |-> epoch, route |-> RouteOf(config, p), gen |-> 0, facts |-> 0]
UnitForActiveEpoch(p, config, epoch) ==
  [rev |-> product[p].rev, epoch |-> site.epoch, route |-> RouteOf(config, p),
   gen |-> 0, facts |-> facts[p]]

\* What PublicationSource and stage make of product p under a configuration.
UnitFor(p, config, epoch) ==
  [rev |-> product[p].rev, epoch |-> epoch, route |-> RouteOf(config, p),
   gen |-> 0, facts |-> facts[p]]

\* PublicationSource, one read transaction, then the private staging of the
\* unit.  A claim that was overtaken is discarded; a product without a route or
\* a failing read or file fails the intent.
Stage(p) ==
  /\ worker.pc = "claimed" /\ worker.product = p
  /\ \/ /\ CurrentRoute(p) # NoRoute
        /\ Published(p) /\ product[p].rev = worker.rev
        /\ worker' = [worker EXCEPT !.pc = "staged",
                                    !.unit = UnitFor(p, site.config, site.epoch)]
     \/ /\ CurrentRoute(p) # NoRoute
        /\ ~(Published(p) /\ product[p].rev = worker.rev)
        /\ worker' = [worker EXCEPT !.pc = "discard"]
     \/ /\ CurrentRoute(p) = NoRoute \/ "source" \in Faults
        /\ worker' = [worker EXCEPT !.pc = "failing"]
  /\ UNCHANGED <<durable, index, switch>>

\* The worker closes its claim in a transaction of its own.  Whether it goes
\* through or not, the worker is done: an error leaves the intent "processing".
CloseClaim(from, status) ==
  /\ Close(worker.id, from, status) \/ ("record" \in Faults /\ UNCHANGED intents)
  /\ worker' = Idle
  /\ UNCHANGED <<product, nextIntent, vis, act, hist, site, facts, fanout, damaged, index,
                 switch>>

\* CompletePublicationIntent, for a claim overtaken before staging or before the
\* activation.
Discard == worker.pc = "discard" /\ CloseClaim(LiveStatus, "superseded")

\* FailPublicationIntent
FailIntent == worker.pc = "failing" /\ CloseClaim({"processing"}, "failed")

\* Mutants: the revision, or the claim, is not looked at again.
ClaimCurrentAnyRev == intents[worker.id].status = "processing" /\ Published(worker.product)
ClaimCurrentUnclaimed ==
  LET p == worker.product IN product[p].rev = worker.rev /\ Published(p)

\* The claim still stands and the product is still at the claimed revision.
ClaimCurrent ==
  LET p == worker.product
  IN intents[worker.id].status = "processing" /\ product[p].rev = worker.rev /\ Published(p)

\* ActivatePublication, first return: the claim was overtaken.
ActivateOvertaken(p) ==
  /\ worker.pc = "staged" /\ worker.product = p /\ ~ClaimCurrent
  /\ Close(worker.id, {"processing"}, "superseded")
  /\ worker' = Idle
  /\ UNCHANGED <<product, nextIntent, vis, act, hist, site, facts, fanout, damaged, switch>>
  /\ InstallProduct(p) \/ InstallFails

\* Second return: the profiles changed after staging.  The transaction commits
\* nothing; the engine then supersedes the intent, unless the install failed.
ActivateStale(p) ==
  /\ worker.pc = "staged" /\ worker.product = p /\ ClaimCurrent
  /\ worker.unit.facts # facts[p]
  /\ UNCHANGED <<durable, switch>>
  /\ \/ InstallProduct(p) /\ worker' = [worker EXCEPT !.pc = "discard"]
     \/ InstallFails /\ worker' = Idle

\* Mutant: the active route is not unique.
RouteNeverTaken(p, route) == FALSE
RouteTaken(p, route) == \E q \in Products \ {p} : act[q] # NoUnit /\ act[q].route = route

\* The visibility generation of an activation: a new one after a revocation.
\* Mutant: the old one.
SameGen(p) == vis[p].gen
NextGen(p) == IF vis[p].visible THEN vis[p].gen ELSE vis[p].gen + 1

\* An error rolls the transaction back and leaves the intent "processing"; the
\* UNIQUE constraint on the active route is one such error.
ActivateFails(p) ==
  /\ worker.pc = "staged" /\ worker.product = p /\ ClaimCurrent
  /\ worker.unit.facts = facts[p]
  /\ RouteTaken(p, worker.unit.route) \/ "activate" \in Faults
  /\ worker' = Idle
  /\ UNCHANGED <<durable, index, switch>>

Activate(p) ==
  LET gen == NextGen(p)
      unit == [worker.unit EXCEPT !.gen = gen]
  IN /\ worker.pc = "staged" /\ worker.product = p /\ ClaimCurrent
     /\ worker.unit.facts = facts[p]
     /\ ~RouteTaken(p, unit.route)
     /\ vis' = [vis EXCEPT ![p] = [gen |-> gen, visible |-> TRUE]]
     /\ act' = [act EXCEPT ![p] = unit]
     /\ hist' = IF act[p] # NoUnit /\ act[p].route # unit.route
                THEN Remember({[product |-> p, old |-> act[p].route, new |-> unit.route]},
                              "redirect")
                ELSE hist
     /\ intents' = [i \in Ids |->
          IF i = worker.id THEN [intents[i] EXCEPT !.status = "completed"]
          ELSE IF Overtaken(i, p, unit.rev) THEN [intents[i] EXCEPT !.status = "superseded"]
          ELSE intents[i]]
     /\ damaged' = damaged \ {p}
     /\ worker' = Idle
     /\ UNCHANGED <<product, nextIntent, site, facts, fanout, switch>>
     /\ InstallProduct(p) \/ InstallFails

-----------------------------------------------------------------------------
(* The website-wide route switch, PublishSiteRoutes *)

BeginSwitch(config) ==
  /\ Up /\ switch.pc = "idle" /\ site.epoch < MaxEpoch
  /\ switch' = [pc |-> "reading", config |-> config, epoch |-> site.epoch,
                todo |-> {p \in Products : Published(p)}, units |-> NoUnits]
  /\ UNCHANGED <<durable, index, worker>>

\* PublicationSource of one product, under the candidate configuration.
ReadForSwitch(p) ==
  /\ switch.pc = "reading" /\ p \in switch.todo
  /\ CurrentRoute(p) # NoRoute /\ RouteOf(switch.config, p) # NoRoute
  /\ switch' = [switch EXCEPT !.todo = @ \ {p},
                  !.units[p] = UnitFor(p, switch.config, switch.epoch + 1)]
  /\ UNCHANGED <<durable, index, worker>>

\* A missing namespace, a conflict, a changed draft or any error ends it.
AbortSwitch ==
  /\ switch.pc = "reading"
  /\ switch' = NoSwitch
  /\ UNCHANGED <<durable, index, worker>>

\* ActivateSiteRoutes
ActivateSwitch ==
  LET S == {p \in Products : Published(p)}
      unit == [p \in Products |-> IF p \in S
                 THEN [switch.units[p] EXCEPT !.gen = vis[p].gen + 1] ELSE NoUnit]
      moved == {p \in S : act[p] # NoUnit /\ act[p].route # unit[p].route}
  IN /\ switch.pc = "reading" /\ switch.todo = {}
     /\ site.epoch = switch.epoch
     /\ S = {p \in Products : switch.units[p] # NoUnit}
     /\ \A p \in S : /\ unit[p].rev = product[p].rev
                     /\ unit[p].facts = facts[p]
                     /\ unit[p].route = RouteOf(switch.config, p)
                     /\ \A q \in S \ {p} : unit[q].route # unit[p].route
     /\ site' = [epoch |-> site.epoch + 1, config |-> switch.config]
     /\ vis' = [p \in Products |-> IF p \in S THEN [gen |-> vis[p].gen + 1, visible |-> TRUE]
                                   ELSE vis[p]]
     /\ act' = unit
     /\ hist' = Remember({[product |-> p, old |-> act[p].route, new |-> unit[p].route]
                            : p \in moved}, "redirect")
     /\ intents' = [i \in Ids |->
          IF \E p \in S : Overtaken(i, p, unit[p].rev)
          THEN [intents[i] EXCEPT !.status = "superseded"]
          ELSE intents[i]]
     /\ damaged' = damaged \ S
     /\ switch' = NoSwitch
     /\ UNCHANGED <<product, nextIntent, facts, fanout, worker>>
     /\ index' = FullIndex' \/ InstallFails

-----------------------------------------------------------------------------
(* Faults and restart *)

\* A file of an active unit is lost or altered on disk.
Damage(p) ==
  /\ "damage" \in Faults /\ act[p] # NoUnit
  /\ damaged' = damaged \cup {p}
  /\ UNCHANGED <<product, intents, nextIntent, vis, act, hist, site, facts, fanout,
                 index, worker, switch>>

Crash ==
  /\ "crash" \in Faults /\ Up
  /\ worker' = [Idle EXCEPT !.pc = "down"]
  /\ index' = DownIndex
  /\ switch' = NoSwitch
  /\ UNCHANGED durable

\* ResetPublicationClaims.  Mutant: claims are left as they are.
ClaimsKept == intents
ClaimsReset ==
  [i \in Ids |-> IF intents[i].status = "processing"
                 THEN [intents[i] EXCEPT !.status = "pending"] ELSE intents[i]]

\* NewEngine: ResetPublicationClaims, then Reconcile installs the index and
\* queues a repair for every visible unit that does not verify.
Restart ==
  LET reset == ClaimsReset
      repair == {p \in damaged : /\ Visible(p) /\ act[p].rev = product[p].rev
                                 /\ \A i \in Ids : ~ /\ reset[i].product = p
                                                     /\ reset[i].rev = act[p].rev
                                                     /\ reset[i].status \in LiveStatus}
  IN /\ worker.pc = "down"
     /\ Queue(reset, repair, Revs)
     /\ worker' = Idle
     /\ index' = FullIndex
     /\ UNCHANGED <<product, vis, act, hist, site, facts, fanout, damaged, switch>>

-----------------------------------------------------------------------------

Init ==
  /\ product = [p \in Products |-> [current |-> TRUE, status |-> "hidden", rev |-> 1,
                                    addr |-> InitAddr[p], custom |-> NoRoute]]
  /\ intents = [i \in Ids |-> NoIntent]
  /\ nextIntent = 1
  /\ vis = [p \in Products |-> [gen |-> 0, visible |-> FALSE]]
  /\ act = NoUnits
  /\ hist = NoHistories
  /\ site = [epoch |-> 1, config |-> InitConfig]
  /\ facts = [p \in Products |-> 0]
  /\ fanout = {}
  /\ damaged = {}
  /\ index = FullIndex
  /\ worker = Idle
  /\ switch = NoSwitch

Worker ==
  \/ \E S \in SUBSET Products : Fanout(S)
  \/ Claim \/ Discard \/ FailIntent
  \/ \E p \in Products : Stage(p) \/ ActivateOvertaken(p) \/ ActivateStale(p)
                           \/ ActivateFails(p) \/ Activate(p)

Next ==
  \/ \E p \in Products : Edit(p) \/ Import(p) \/ Revoke(p, TRUE) \/ Revoke(p, FALSE)
  \/ Relocalize
  \/ \E S \in SUBSET Products : ChangeProfile(S)
  \/ \E id \in Ids : Retry(id)
  \/ Worker
  \/ \E c \in Configs : BeginSwitch(c)
  \/ \E p \in Products : ReadForSwitch(p)
  \/ AbortSwitch
  \/ ActivateSwitch
  \/ \E p \in Products : Damage(p)
  \/ Crash
  \/ Restart

Spec == Init /\ [][Next]_vars

\* The worker wakes on every change and every five seconds and drains the
\* queue, so a step it can take is eventually taken.
FairSpec == Spec /\ WF_vars(Worker) /\ WF_vars(Restart)

-----------------------------------------------------------------------------
(* What a visitor gets *)

Page(p, unit) == [kind |-> "page", product |-> p, rev |-> unit.rev, to |-> NoRoute]
Redirect(p, x) == [kind |-> "redirect", product |-> p, rev |-> 0, to |-> x]
Gone(p) == [kind |-> "gone", product |-> p, rev |-> 0, to |-> NoRoute]
NotFound == [kind |-> "missing", product |-> NoProduct, rev |-> 0, to |-> NoRoute]

\* ServePath over a set of units and a history: a page, else the history row of
\* the path, a redirect only while its target is a page of the same product.
Answers(units, history, x) ==
  LET pages == {Page(p, units[p]) : p \in {q \in Products : x \in PathsOf(units[q])}}
      row == history[x]
  IN IF pages # {} THEN pages
     ELSE IF row.state = "gone" THEN {Gone(row.product)}
     ELSE IF /\ row.state = "redirect"
             /\ row.target \in PathsOf(units[row.product])
     THEN {Redirect(row.product, row.target)}
     ELSE {NotFound}

-----------------------------------------------------------------------------
(* Safety *)

\* The committed rows a visitor is entitled to.
Authority == [p \in Products |-> IF Visible(p) THEN act[p] ELSE NoUnit]

\* The installed index shows nothing but committed, visible rows of the current
\* site: after a hide, an archive or a switch no visitor reaches what was there
\* before, whatever install path was taken (InstallProductVisibility updates one
\* product of the index in place, installLocked rebuilds it).
IndexFollowsStore ==
  index.up =>
    /\ index.epoch = site.epoch
    /\ index.hist = hist
    /\ \A p \in Products : index.units[p] \in {NoUnit, Authority[p]}

\* On a healthy disk, and as long as no two routes collide through a suffix, a
\* visitor gets from the index exactly what the rows say, at every path.
VisitorsSeeAuthority ==
  index.up /\ damaged = {} =>
    \A x \in Paths : Answers(index.units, index.hist, x) = Answers(Authority, hist, x)

\* No path is answered by two products.
OneAnswerPerPath ==
  \A p, q \in Products : p # q => PathsOf(index.units[p]) \cap PathsOf(index.units[q]) = {}

\* Every active unit was staged for the active site epoch: the site never mixes
\* pages of two URL configurations, although a unit staged before a switch is
\* activated after it without ActivatePublication looking at the epoch.
OneEpoch == \A p \in Products : act[p] # NoUnit => act[p].epoch = site.epoch

\* A published product whose active unit is not its current revision under its
\* current profiles is never forgotten: an intent is queued, in work or failed
\* (an administrator may retry it), or a profile change is still to reach it.
NothingForgotten ==
  \A p \in Products :
    Published(p) =>
      \/ act[p].rev = product[p].rev /\ act[p].facts = facts[p]
      \/ p \in fanout
      \/ \E i \in Ids : /\ intents[i].product = p /\ intents[i].rev = product[p].rev
                        /\ intents[i].status \in LiveStatus \cup {"failed"}

-----------------------------------------------------------------------------
(* Action properties *)

\* What is activated is the product as it stands: its current revision, facts
\* and route under the active configuration, and never for a hidden product,
\* although the unit was read in an earlier transaction.
ActivatesCurrent ==
  [][\A p \in Products : act'[p] # act[p] /\ act'[p] # NoUnit =>
       /\ Published(p)'
       /\ act'[p].rev = product'[p].rev
       /\ act'[p].facts = facts'[p]
       /\ act'[p].route = CurrentRoute(p)']_vars

\* The public side never goes back: a later unit of a product has a revision, a
\* generation and an epoch at least those of an earlier one, and after a
\* revocation a new generation.
NeverBackwards ==
  [][\A p \in Products :
       /\ vis'[p].gen >= vis[p].gen
       /\ vis'[p].visible /\ ~vis[p].visible => vis'[p].gen > vis[p].gen
       /\ act[p] # NoUnit /\ act'[p] # NoUnit =>
            /\ act'[p].rev >= act[p].rev
            /\ act'[p].gen >= act[p].gen
            /\ act'[p].epoch >= act[p].epoch]_vars

\* A visitor's link survives a move: in the step that moves a product to another
\* route, every representation of the old one becomes a redirect to the new one.
LinksSurviveMoves ==
  [][\A p \in Products :
       act[p] # NoUnit /\ act'[p] # NoUnit /\ act[p].route # act'[p].route =>
         \A s \in Suffixes :
           Redirect(p, PathOf[act'[p].route][s]) \in
             Answers(Authority', hist', PathOf[act[p].route][s])
           \/ \E q \in Products : PathOf[act[p].route][s] \in PathsOf(Authority'[q])]_vars

\* Updating a published product keeps the previous revision online: only a
\* revocation, or the product losing its route in a switch, takes a page away.
OnlineUntilReplaced ==
  [][\A p \in Products : index.units[p] # NoUnit /\ Published(p)'
       => index'.units[p] # NoUnit]_vars

\* A finished intent is finished for good.
ClosedStaysClosed ==
  [][\A i \in Ids : intents[i].status \in {"completed", "superseded", "failed"} =>
       intents'[i] = intents[i]]_vars

-----------------------------------------------------------------------------
(* Liveness *)

\* The intent for p's current revision failed, or its activation (on the route of
\* another product, say) or its closing erred and left it "processing" without a
\* worker.
Stuck(p) ==
  \E i \in Ids : /\ intents[i].product = p /\ intents[i].rev = product[p].rev
                /\ \/ intents[i].status = "failed"
                   \/ /\ intents[i].status = "processing" /\ worker.id # i
                      /\ {"activate", "record"} \cap Faults # {} \/ RouteTaken(p, CurrentRoute(p))

\* As long as the program does not crash for ever, every publication is
\* eventually online or overtaken, or stuck where the job list shows it; a
\* changed profile overtakes it, too, unless a bound of the model is reached.
EventuallyOnline ==
  <>[]Up =>
    \A p \in Products, r \in 1..MaxRev :
      Published(p) /\ product[p].rev = r ~>
        index.units[p].rev = r \/ ~(Published(p) /\ product[p].rev = r) \/ Stuck(p)
        \/ (p \in fanout /\ (r = MaxRev \/ nextIntent > MaxIntents))

-----------------------------------------------------------------------------
(* The inductive invariant: why the properties above hold.  TLC checks it on *)
(* the small instances; PublicationProofs proves it for all of them.         *)

\* Every queued intent belongs to a product and asks for a revision it has had.
QueueInv ==
  \A i \in Ids : intents[i].status # "none" =>
    /\ i < nextIntent
    /\ intents[i].product \in Products
    /\ intents[i].rev <= product[intents[i].product].rev

\* A busy worker works for the intent it claimed.
ClaimInv ==
  worker.pc \in {"claimed", "staged", "discard", "failing"} =>
    /\ worker.id \in Ids /\ worker.product \in Products
    /\ intents[worker.id].status # "none"
    /\ intents[worker.id].product = worker.product
    /\ intents[worker.id].rev = worker.rev

\* As long as the claim stands, the staged unit is what would be staged now: a
\* route switch supersedes the claim and an edit outdates it.
StagedInv ==
  worker.pc = "staged" /\ ClaimCurrent =>
    /\ worker.unit.rev = worker.rev
    /\ worker.unit.epoch = site.epoch
    /\ worker.unit.route = CurrentRoute(worker.product)

\* Whatever is active is visible, of the active site, and of a revision the
\* product has had.
ActiveInv ==
  \A p \in Products :
    /\ product[p].rev > 0
    /\ act[p] # NoUnit =>
         /\ Visible(p)
         /\ act[p].rev <= product[p].rev
         /\ act[p].epoch = site.epoch

\* The candidate units of a route switch are of the epoch it will begin.
SwitchInv ==
  \A p \in Products : switch.units[p] # NoUnit => switch.units[p].epoch = switch.epoch + 1

\* During an outage nothing is shown.
OutageInv == ~index.up => index.units = NoUnits

\* Active routes are routes, and unique; what is staged or read for a switch has
\* a route, too.
ActiveRoutes ==
  \A p \in Products : act[p] # NoUnit =>
    /\ act[p].route \in Routes
    /\ \A q \in Products \ {p} : act[q].route # act[p].route
StagedRoute == worker.pc = "staged" => worker.unit.route \in Routes
SwitchRoutes == \A p \in Products : switch.units[p] # NoUnit => switch.units[p].route \in Routes
RouteInv == ActiveRoutes /\ StagedRoute /\ SwitchRoutes

\* No two routes share a path: no slug ends like a representation.
PathsApart ==
  \A r, q \in Routes : r # q => \A s, t \in Suffixes : PathOf[r][s] # PathOf[q][t]

\* Where paths do not clash, the index lacks no unit that verifies.
Complete == index.up => \A p \in Products \ damaged : index.units[p] = act[p]

IndInv ==
  /\ TypeOK /\ QueueInv /\ ClaimInv /\ StagedInv /\ ActiveInv /\ SwitchInv /\ OutageInv
  /\ IndexFollowsStore

-----------------------------------------------------------------------------
(* Refinement *)

Working == [p \in Products |-> [rev |-> product[p].rev, published |-> Published(p)]]
Online == [p \in Products |-> Authority[p].rev]
Shown == [p \in Products |-> index.units[p].rev]

Admission == INSTANCE PublicAdmission WITH
  working <- Working, online <- Online, shown <- Shown

\* Publication keeps the promises of PublicAdmission, faults included.
KeepsAdmission == Admission!Spec

=============================================================================
