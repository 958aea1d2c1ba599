--------------------------- MODULE VisitorProofs ---------------------------
(***************************************************************************)
(* Theorems about what visitors of a published site get (Publication), for *)
(* any number of products, routes and representations: one answer on every *)
(* path, the page the rows say, and a page as long as there is one to      *)
(* show.  What is taken from PublicationProofs is cited by name.           *)
(***************************************************************************)
EXTENDS PublicationProofs, FiniteSetTheorems, WellFoundedInduction

-----------------------------------------------------------------------------
(* Which units a full index keeps *)

\* Every set of numbers has a least element: induction, stated about a set.
LEMMA Least ==
  ASSUME NEW T \in SUBSET Nat, T # {}
  PROVE  \E n \in T : \A m \in T : n <= m
<1> DEFINE R == {ss \in Nat \X Nat : ss[1] < ss[2]}
<1>1. OpToRel(<, Nat) = R
  BY Zenon DEF OpToRel
<1>2. IsWellFoundedOn(R, Nat)
  BY <1>1, NatLessThanWellFounded, Zenon
<1> HIDE DEF R
<1>3. PICK x \in T : \A y \in T : ~(<<y, x>> \in R)
  BY <1>2, WFMin
<1>4. ASSUME NEW y \in T PROVE x <= y
  <2>1. x \in Nat /\ y \in Nat /\ <<y, x>> \notin R
    BY <1>3
  <2>2. y < x => <<y, x>> \in R
    BY <2>1 DEF R
  <2> QED BY <2>1, <2>2
<1> QED BY <1>4

\* The canonical path of product p is a path of product q.
Takes(u, q, p) == PathOf[u[p].route][Html] \in PathsOf(u[q])

\* K is what is left of V when every unit is dropped whose canonical path is one
\* of a unit kept.
Keeping(u, V, K) == \A p \in V : p \in K <=> ~\E q \in K \ {p} : Takes(u, q, p)

\* One unit can take the path of another only if its route is shorter.
LEMMA TakenByShorter ==
  ASSUME NEW u, NEW V, NEW length \in [Routes -> Nat],
         \A p \in V : u[p].route \in Routes,
         \A p, q \in V : p # q => u[p].route # u[q].route,
         \A r, q \in Routes : \A s \in Suffixes \ {Html} :
           PathOf[q][s] = PathOf[r][Html] => length[q] < length[r],
         NEW p \in V, NEW q \in V, p # q, Takes(u, q, p)
  PROVE  length[u[q].route] < length[u[p].route]
<1>1. PICK s \in Suffixes : PathOf[u[q].route][s] = PathOf[u[p].route][Html]
  BY DEF Takes, PathsOf
<1>2. u[p].route \in Routes /\ u[q].route \in Routes /\ u[p].route # u[q].route
  OBVIOUS
<1>3. s # Html
  BY <1>1, <1>2, PathAssumption, ConstantsAssumption
<1> QED BY <1>1, <1>2, <1>3

\* The units installLocked keeps are determined by the routes: going through
\* them from the shortest to the longest leaves no choice.
LEMMA KeepingExists ==
  ASSUME NEW u, NEW V, \A p \in V : u[p].route \in Routes,
         \A p, q \in V : p # q => u[p].route # u[q].route
  PROVE  \E K \in SUBSET V : Keeping(u, V, K)
<1>1. PICK length \in [Routes -> 0..Cardinality(Routes)] :
        \A r, q \in Routes : \A s \in Suffixes \ {Html} :
          PathOf[q][s] = PathOf[r][Html] => length[q] < length[r]
  BY PathAssumption
<1>2. Cardinality(Routes) \in Nat
  BY PathAssumption, FS_CardinalityType
<1>3. length \in [Routes -> Nat]
  BY <1>1, <1>2
<1> DEFINE Upto(n) == {p \in V : length[u[p].route] < n}
           Works == {n \in Nat : \E K \in SUBSET Upto(n) : Keeping(u, Upto(n), K)}
<1>4. ASSUME NEW p \in V, NEW q \in V, p # q, Takes(u, q, p)
      PROVE  length[u[q].route] < length[u[p].route]
  BY <1>1, <1>3, <1>4, TakenByShorter
<1>5. 0 \in Works
  <2>1. Upto(0) = {}
    BY <1>3
  <2> QED BY <2>1 DEF Keeping
<1>6. ASSUME NEW n \in Works PROVE n + 1 \in Works
  <2>1. PICK K \in SUBSET Upto(n) : Keeping(u, Upto(n), K)
    OBVIOUS
  <2> DEFINE L == {p \in Upto(n + 1) : length[u[p].route] = n /\ ~\E q \in K : Takes(u, q, p)}
  <2>2. \A p \in Upto(n + 1) : p \in Upto(n) \/ length[u[p].route] = n
    BY <1>3
  <2>3. ASSUME NEW p \in Upto(n + 1), NEW q \in (K \cup L) \ {p}, Takes(u, q, p)
        PROVE  q \in K
    <3>1. length[u[q].route] < length[u[p].route]
      BY <1>4, <2>3
    <3>2. length[u[p].route] < n + 1 /\ length[u[q].route] \in Nat /\ length[u[p].route] \in Nat
      BY <1>3
    <3> QED BY <3>1, <3>2
  <2>4. \A p \in Upto(n + 1) :
          (\E q \in (K \cup L) \ {p} : Takes(u, q, p)) <=> (\E q \in K \ {p} : Takes(u, q, p))
    BY <2>3
  <2>5. ASSUME NEW p \in Upto(n + 1)
        PROVE  p \in K \cup L <=> ~\E q \in K \ {p} : Takes(u, q, p)
    <3>1. CASE p \in Upto(n)
      <4>1. p \notin L
        BY <1>3, <3>1
      <4> QED BY <2>1, <3>1, <4>1 DEF Keeping
    <3>2. CASE p \notin Upto(n)
      <4>1. p \notin K /\ length[u[p].route] = n
        BY <2>2, <3>2
      <4> QED BY <4>1
    <3> QED BY <3>1, <3>2
  <2>6. Keeping(u, Upto(n + 1), K \cup L)
    BY <2>4, <2>5 DEF Keeping
  <2>7. K \cup L \in SUBSET Upto(n + 1)
    BY <1>3
  <2>8. n + 1 \in Nat
    OBVIOUS
  <2> HIDE DEF L, Upto
  <2> QED BY <2>6, <2>7, <2>8
<1>7. Works = Nat
  <2> SUFFICES ASSUME Nat \ Works # {} PROVE FALSE
    OBVIOUS
  <2>1. PICK n \in Nat \ Works : \A m \in Nat \ Works : n <= m
    <3> HIDE DEF Works
    <3> QED BY Least
  <2> HIDE DEF Works
  <2>2. n # 0 /\ n - 1 \in Nat
    BY <1>5, <2>1
  <2>3. n - 1 \in Works
    BY <2>1, <2>2
  <2>4. (n - 1) + 1 = n
    BY <2>1
  <2> QED BY <1>6, <2>1, <2>3, <2>4
<1>8. Upto(Cardinality(Routes) + 1) = V
  BY <1>1, <1>2
<1>9. Cardinality(Routes) + 1 \in Works
  <2> HIDE DEF Works
  <2> QED BY <1>2, <1>7
<1>10. PICK K \in SUBSET Upto(Cardinality(Routes) + 1) :
         Keeping(u, Upto(Cardinality(Routes) + 1), K)
  BY <1>9
<1> QED BY <1>8, <1>10, Zenon

-----------------------------------------------------------------------------
(* The index after each step *)

LEMMA RoutePaths ==
  ASSUME NEW unit
  PROVE  /\ unit.route \in Routes => PathsOf(unit) = {PathOf[unit.route][s] : s \in Suffixes}
         /\ unit = NoUnit => PathsOf(unit) = {}
BY ConstantsAssumption DEF PathsOf, NoUnit

\* A full index keeps units that share no path, and where no routes share one,
\* every unit that verifies.
LEMMA FullUnits ==
  ASSUME ActiveRoutes', index' = FullIndex'
  PROVE  /\ \A p, q \in Products : p # q =>
              PathsOf(index'.units[p]) \cap PathsOf(index'.units[q]) = {}
         /\ PathsApart => \A p \in Products : Visible(p)' /\ p \notin damaged' =>
                            index'.units[p] = act'[p]
<1> DEFINE V == {p \in Products : Visible(p)' /\ p \notin damaged'}
           kept == CHOOSE K \in SUBSET V : Keeping(act', V, K)
<1>1. \A p \in V : act'[p] # NoUnit
  BY DEF Visible, NoUnit
<1>2. /\ \A p \in V : act'[p].route \in Routes
      /\ \A p, q \in V : p # q => act'[p].route # act'[q].route
  BY <1>1 DEF ActiveRoutes
<1>3. index'.units = [p \in Products |-> IF p \in V \cap kept THEN act'[p] ELSE NoUnit]
  BY DEF FullIndex, Keeping, Takes, PathsOf
<1>4. \E K \in SUBSET V : Keeping(act', V, K)
  <2> HIDE DEF V
  <2> QED BY <1>2, KeepingExists
<1>5. kept \in SUBSET V /\ Keeping(act', V, kept)
  <2> HIDE DEF V
  <2> QED BY <1>4
<1> HIDE DEF kept
<1>6. ASSUME NEW p \in Products, NEW q \in Products, p # q
      PROVE  PathsOf(index'.units[p]) \cap PathsOf(index'.units[q]) = {}
  <2>1. CASE p \in kept /\ q \in kept
    <3>1. /\ p \in V /\ q \in V
          /\ index'.units[p] = act'[p] /\ index'.units[q] = act'[q]
      BY <1>3, <1>5, <2>1
    <3>2. /\ PathsOf(act'[p]) = {PathOf[act'[p].route][s] : s \in Suffixes}
          /\ PathsOf(act'[q]) = {PathOf[act'[q].route][s] : s \in Suffixes}
      BY <1>2, <3>1, RoutePaths
    <3>3. ~Takes(act', q, p) /\ ~Takes(act', p, q)
      <4> HIDE DEF V
      <4> QED BY <1>5, <1>6, <2>1, <3>1 DEF Keeping
    <3>4. ASSUME NEW s \in Suffixes, NEW t \in Suffixes,
                 PathOf[act'[p].route][s] = PathOf[act'[q].route][t]
          PROVE  FALSE
      <4>1. (s = Html) # (t = Html)
        BY <1>2, <1>6, <3>1, <3>4, PathAssumption
      <4> QED BY <3>2, <3>3, <3>4, <4>1 DEF Takes
    <3> QED BY <3>1, <3>2, <3>4
  <2>2. CASE p \notin kept \/ q \notin kept
    <3>1. index'.units[p] = NoUnit \/ index'.units[q] = NoUnit
      BY <1>3, <2>2
    <3> QED BY <3>1, RoutePaths
  <2> QED BY <2>1, <2>2
<1>7. ASSUME PathsApart, NEW p \in Products, Visible(p)', p \notin damaged'
      PROVE  index'.units[p] = act'[p]
  <2>1. p \in V
    BY <1>7
  <2>2. ASSUME NEW q \in V, q # p PROVE ~Takes(act', q, p)
    <3>1. PathsOf(act'[q]) = {PathOf[act'[q].route][s] : s \in Suffixes}
      BY <1>2, <2>2, RoutePaths
    <3> QED BY <1>2, <1>7, <2>1, <2>2, <3>1, ConstantsAssumption DEF Takes, PathsApart
  <2>3. p \in kept
    <3> HIDE DEF V
    <3> QED BY <1>5, <2>1, <2>2 DEF Keeping
  <2> QED BY <1>3, <2>1, <2>3
<1> QED BY <1>6, <1>7

\* Only product p has a new row, and its entry is installed.
InstallsRow(p) ==
  /\ InstallProduct(p)
  /\ \A q \in Products \ {p} : act'[q] = act[q] /\ (q \in damaged => q \in damaged')

\* The index is kept, lost, rebuilt from the new rows, or brought up to date for
\* one product.
LEMMA IndexShape ==
  ASSUME IndInv, [Next]_vars
  PROVE  \/ RowsKept /\ index' = index /\ damaged \subseteq damaged'
         \/ index' = DownIndex /\ (Crash \/ InstallFails)
         \/ index' = FullIndex'
         \/ \E p \in Products : InstallsRow(p)
<1> USE DEF IndInv
<1>1. ASSUME NEW p \in Products, NEW archive, Revoke(p, archive)
      PROVE  InstallFails \/ InstallsRow(p)
  <2>1. /\ \A q \in Products \ {p} : act'[q] = act[q]
        /\ InstallProduct(p) \/ InstallFails
    BY <1>1, RevokeShape
  <2>2. damaged' = damaged
    BY <1>1 DEF Revoke
  <2> QED BY <2>1, <2>2 DEF InstallsRow
<1>2. ASSUME NEW p \in Products, Activate(p) PROVE InstallFails \/ InstallsRow(p)
  <2>1. /\ \A q \in Products \ {p} : act'[q] = act[q]
        /\ InstallProduct(p) \/ InstallFails
    BY <1>2, ActivateShape
  <2>2. damaged' = damaged \ {p}
    BY <1>2 DEF Activate
  <2> QED BY <2>1, <2>2 DEF InstallsRow
<1>3. CASE ActivateSwitch
  BY <1>3, SwitchShape DEF InstallFails
<1>4. ASSUME NEW p \in Products, ActivateOvertaken(p) \/ ActivateStale(p)
      PROVE  InstallFails \/ InstallsRow(p)
  BY <1>4 DEF ActivateOvertaken, ActivateStale, durable, InstallsRow
<1>5. CASE Crash
  BY <1>5 DEF Crash
<1>6. CASE Restart
  <2>1. index' = FullIndex /\ UNCHANGED <<product, vis, act, hist, site, damaged>>
    BY <1>6 DEF Restart
  <2>2. FullIndex' = FullIndex
    BY <2>1 DEF FullIndex, Visible, Published, PathsOf
  <2> QED BY <2>1, <2>2
<1>7. CASE \/ \E p \in Products : Edit(p) \/ Import(p)
           \/ \E S \in SUBSET Products : Fanout(S)
           \/ Claim \/ Discard \/ FailIntent
           \/ \E p \in Products : Stage(p) \/ ActivateFails(p)
           \/ Relocalize \/ (\E S \in SUBSET Products : ChangeProfile(S))
           \/ (\E id \in Ids : Retry(id)) \/ (\E c \in Configs : BeginSwitch(c))
           \/ (\E p \in Products : ReadForSwitch(p)) \/ AbortSwitch
           \/ (\E p \in Products : Damage(p)) \/ UNCHANGED vars
  <2>1. index' = index /\ damaged \subseteq damaged' /\ UNCHANGED <<act, vis, hist, site>>
    BY <1>7 DEF Edit, Import, Fanout, Claim, Discard, FailIntent, CloseClaim, Stage,
                ActivateFails, Relocalize, ChangeProfile, Retry, BeginSwitch, ReadForSwitch,
                AbortSwitch, Damage, vars, durable
  <2>2. \A p \in Products : Published(p) => Published(p)'
    <3>1. ASSUME NEW p \in Products, Edit(p) \/ Import(p)
          PROVE  \A q \in Products : Published(q) => Published(q)'
      <4>1. CASE Edit(p)
        BY <4>1 DEF Edit, TypeOK, Product, Published
      <4>2. CASE Import(p)
        BY <4>2 DEF Import, TypeOK, Product, Published
      <4> QED BY <3>1, <4>1, <4>2
    <3>2. ASSUME NEW S \in SUBSET Products, Fanout(S)
          PROVE  \A q \in Products : Published(q) => Published(q)'
      BY <3>2 DEF Fanout, TypeOK, Product, Published
    <3>3. UNCHANGED product => \A q \in Products : Published(q) => Published(q)'
      BY DEF Published
    <3>4. \/ UNCHANGED product
          \/ \E p \in Products : Edit(p) \/ Import(p)
          \/ \E S \in SUBSET Products : Fanout(S)
      BY <1>7 DEF Claim, Discard, FailIntent, CloseClaim, Stage, ActivateFails, Relocalize,
                  ChangeProfile, Retry, BeginSwitch, ReadForSwitch, AbortSwitch, Damage, vars,
                  durable
    <3> QED BY <3>1, <3>2, <3>3, <3>4
  <2> QED BY <2>1, <2>2 DEF RowsKept
<1>8. InstallFails => index' = DownIndex
  BY DEF InstallFails
<1>9. CASE \E p \in Products : \/ Revoke(p, TRUE) \/ Revoke(p, FALSE) \/ Activate(p)
                              \/ ActivateOvertaken(p) \/ ActivateStale(p)
  BY <1>1, <1>2, <1>4, <1>8, <1>9
<1> QED BY <1>3, <1>5, <1>6, <1>7, <1>9 DEF Next, Worker

\* What InstallProductVisibility makes of the index: all of it anew, nothing if
\* the unit does not verify or clashes, or the entry of one product.
LEMMA InstallShape ==
  ASSUME TypeOK, TypeOK', NEW p \in Products, InstallProduct(p)
  PROVE  \/ index' = FullIndex'
         \/ /\ index' = DownIndex /\ Visible(p)'
            /\ p \in damaged' \/ Clashes(p, act'[p])
         \/ /\ index.up /\ index'.up
            /\ \A q \in Products \ {p} : index'.units[q] = index.units[q]
            /\ \/ index'.units[p] = NoUnit /\ ~Visible(p)'
               \/ index'.units[p] = act'[p] /\ ~Clashes(p, act'[p])
<1> DEFINE unit == IF Visible(p)' THEN act'[p] ELSE NoUnit
           rows == HistoryWith(p)
<1>1. CASE \/ index' = FullIndex'
           \/ /\ index' = DownIndex /\ unit # NoUnit
              /\ p \in damaged' \/ Clashes(p, unit)
  BY <1>1
<1>2. CASE /\ index.up /\ (unit # NoUnit => ~Clashes(p, unit))
           /\ index' = [index EXCEPT !.units[p] = unit, !.hist = rows]
  <2>1. Visible(p)' => unit = act'[p] /\ unit # NoUnit
    BY DEF Visible, NoUnit
  <2> HIDE DEF unit, rows
  <2>2. index'.up /\ index'.units = [index.units EXCEPT ![p] = unit]
    BY <1>2 DEF TypeOK, Index
  <2>3. /\ index'.units[p] = unit
        /\ \A q \in Products \ {p} : index'.units[q] = index.units[q]
    BY <2>2 DEF TypeOK, Index
  <2>4. unit = IF Visible(p)' THEN act'[p] ELSE NoUnit
    BY DEF unit
  <2> QED BY <1>2, <2>1, <2>2, <2>3, <2>4
<1> QED BY <1>1, <1>2 DEF InstallProduct

-----------------------------------------------------------------------------
(* Routes *)

\* Active routes are unique through every step: an activation looks at the other
\* rows in its own transaction, a switch at the other candidates.
LEMMA RouteStep ==
  ASSUME IndInv, RouteInv, [Next]_vars
  PROVE  RouteInv'
<1> USE DEF IndInv, RouteInv
<1>0. TypeOK'
  BY NextType
<1>1. StagedRoute'
  <2>1. ASSUME NEW p \in Products, Stage(p) PROVE StagedRoute'
    <3>1. CASE worker' = [worker EXCEPT !.pc = "staged",
                                        !.unit = UnitFor(p, site.config, site.epoch)]
               /\ CurrentRoute(p) # NoRoute
      <4>1. worker'.unit = UnitFor(p, site.config, site.epoch)
        BY <3>1 DEF TypeOK, Claimed
      <4>2. RouteOf(site.config, p) \in Routes \cup {NoRoute}
        BY UnitForType DEF TypeOK, Site
      <4> QED BY <3>1, <4>1, <4>2 DEF StagedRoute, UnitFor, CurrentRoute
    <3>2. CASE \E pc \in {"discard", "failing"} : worker' = [worker EXCEPT !.pc = pc]
      BY <3>2 DEF StagedRoute, TypeOK, Claimed
    <3> QED BY <2>1, <3>1, <3>2 DEF Stage
  <2>2. Claim => worker'.pc = "claimed"
    BY DEF Claim
  <2>3. ASSUME NEW p \in Products, ActivateStale(p) PROVE worker'.pc \in {"idle", "discard"}
    BY <2>3 DEF ActivateStale, TypeOK, Claimed, Idle
  <2> QED BY <2>1, <2>2, <2>3, ClaimShape DEF StagedRoute
<1>2. SwitchRoutes'
  <2>1. ASSUME NEW p \in Products, ReadForSwitch(p) PROVE SwitchRoutes'
    <3> DEFINE unit == UnitFor(p, switch.config, switch.epoch + 1)
    <3>1. unit.route \in Routes
      <4>1. RouteOf(switch.config, p) \in Routes \cup {NoRoute}
        BY UnitForType DEF TypeOK, Candidate
      <4> QED BY <2>1, <4>1 DEF ReadForSwitch, UnitFor
    <3>2. switch' = [switch EXCEPT !.todo = @ \ {p}, !.units[p] = unit]
      BY <2>1 DEF ReadForSwitch
    <3> HIDE DEF unit
    <3>3. switch'.units = [switch.units EXCEPT ![p] = unit]
      BY <3>2 DEF TypeOK, Candidate
    <3> QED BY <3>1, <3>3 DEF SwitchRoutes, TypeOK, Candidate
  <2>2. ASSUME NEW c \in Configs, BeginSwitch(c) PROVE SwitchRoutes'
    BY <2>2 DEF BeginSwitch, SwitchRoutes, NoUnits
  <2>3. switch' = NoSwitch => SwitchRoutes'
    BY DEF SwitchRoutes, NoSwitch, NoUnits
  <2>4. \/ switch' = switch \/ switch' = NoSwitch \/ \E c \in Configs : BeginSwitch(c)
        \/ \E p \in Products : ReadForSwitch(p)
    BY DEF Next, vars, durable, Edit, Import, Revoke, Relocalize, ChangeProfile, Retry,
           AbortSwitch, ActivateSwitch, Damage, Worker, Fanout, Claim, Stage, ActivateOvertaken,
           ActivateStale, Discard, FailIntent, CloseClaim, ActivateFails, Activate, Crash, Restart
  <2> QED BY <2>1, <2>2, <2>3, <2>4 DEF SwitchRoutes
<1>3. ActiveRoutes'
  <2>1. NoUnit.route \notin Routes
    BY ConstantsAssumption DEF NoUnit
  <2>2. CASE RowsKept
    BY <2>2 DEF RowsKept, ActiveRoutes
  <2>3. ASSUME NEW p \in Products, NEW archive, Revoke(p, archive) PROVE ActiveRoutes'
    <3>1. act'[p] = NoUnit /\ \A q \in Products \ {p} : act'[q] = act[q]
      BY <2>3, RevokeShape
    <3> QED BY <2>1, <3>1 DEF ActiveRoutes
  <2>4. ASSUME NEW p \in Products, Activate(p) PROVE ActiveRoutes'
    <3>1. /\ act'[p].route = CurrentRoute(p)
          /\ \A q \in Products \ {p} : act'[q] = act[q]
      BY <2>4, ActivateShape
    <3>2. worker.unit.route = CurrentRoute(p) /\ worker.unit.route \in Routes
      BY <2>4 DEF Activate, StagedInv, StagedRoute
    <3>3. ~RouteTaken(p, CurrentRoute(p))
      <4>1. ~RouteTaken(p, [worker.unit EXCEPT !.gen = NextGen(p)].route)
        BY <2>4 DEF Activate
      <4>2. [worker.unit EXCEPT !.gen = NextGen(p)].route = worker.unit.route
        BY DEF TypeOK, Claimed, Unit
      <4> QED BY <3>2, <4>1, <4>2
    <3>4. \A q \in Products \ {p} : act[q].route # act'[p].route
      BY <2>1, <3>1, <3>2, <3>3 DEF RouteTaken
    <3> QED BY <3>1, <3>2, <3>4 DEF ActiveRoutes
  <2>5. CASE ActivateSwitch
    <3> DEFINE S == {p \in Products : Published(p)}
               unit == [p \in Products |-> IF p \in S
                          THEN [switch.units[p] EXCEPT !.gen = vis[p].gen + 1] ELSE NoUnit]
    <3>1. /\ act' = unit
          /\ S = {p \in Products : switch.units[p] # NoUnit}
          /\ \A p \in S : \A q \in S \ {p} : unit[q].route # unit[p].route
      BY <2>5 DEF ActivateSwitch
    <3>2. \A p \in S : unit[p].route = switch.units[p].route
      BY DEF TypeOK, Candidate, Unit
    <3>3. \A p \in Products \ S : unit[p] = NoUnit
      OBVIOUS
    <3>4. \A p \in S : switch.units[p].route \in Routes
      BY <3>1 DEF SwitchRoutes
    <3> HIDE DEF unit, S
    <3> QED BY <2>1, <3>1, <3>2, <3>3, <3>4 DEF ActiveRoutes
  <2>6. RowsKept \/ ActivateSwitch
        \/ \E p \in Products : Activate(p) \/ Revoke(p, TRUE) \/ Revoke(p, FALSE)
    BY RowsKeptSteps
  <2> QED BY <2>2, <2>3, <2>4, <2>5, <2>6
<1> QED BY <1>1, <1>2, <1>3

LEMMA InitRoutes == Init => RouteInv
BY DEF Init, RouteInv, ActiveRoutes, StagedRoute, SwitchRoutes, NoUnits, Idle, NoSwitch

LEMMA InvAlways == Spec => [](IndInv /\ RouteInv)
<1>1. IndInv /\ RouteInv /\ [Next]_vars => (IndInv /\ RouteInv)'
  BY StepInv, RouteStep
<1> QED BY <1>1, InitInv, InitRoutes, PTL DEF Spec

-----------------------------------------------------------------------------
(* One answer on every path *)

LEMMA OneAnswerStep ==
  ASSUME IndInv, RouteInv, OneAnswerPerPath, [Next]_vars
  PROVE  OneAnswerPerPath'
<1>1. /\ TypeOK /\ TypeOK' /\ ActiveRoutes'
  BY StepInv, RouteStep DEF IndInv, RouteInv
<1>2. CASE index' = index
  BY <1>2 DEF OneAnswerPerPath
<1>3. CASE index' = DownIndex
  BY <1>3, RoutePaths DEF OneAnswerPerPath, DownIndex, NoUnits
<1>4. CASE index' = FullIndex'
  BY <1>1, <1>4, FullUnits DEF OneAnswerPerPath
<1>5. ASSUME NEW p \in Products, InstallsRow(p) PROVE OneAnswerPerPath'
  <2>1. CASE /\ \A q \in Products \ {p} : index'.units[q] = index.units[q]
             /\ \/ index'.units[p] = NoUnit
                \/ index'.units[p] = act'[p] /\ ~Clashes(p, act'[p])
    <3>1. ASSUME NEW q \in Products \ {p}
          PROVE  PathsOf(index'.units[p]) \cap PathsOf(index'.units[q]) = {}
      BY <2>1, RoutePaths DEF Clashes
    <3>2. ASSUME NEW q \in Products \ {p}, NEW r \in Products \ {p}, q # r
          PROVE  PathsOf(index'.units[q]) \cap PathsOf(index'.units[r]) = {}
      BY <2>1, <3>2 DEF OneAnswerPerPath
    <3> QED BY <3>1, <3>2 DEF OneAnswerPerPath
  <2> QED BY <1>1, <1>3, <1>4, <1>5, <2>1, InstallShape DEF InstallsRow
<1> QED BY <1>2, <1>3, <1>4, <1>5, IndexShape

\* No two products are served on one path, whatever the routes of the products
\* are: installLocked and InstallProductVisibility compare the canonical path of
\* a unit, the one or the other way round, and that is enough.
THEOREM OneAnswer == Spec => []OneAnswerPerPath
<1>1. Init => OneAnswerPerPath
  <2> SUFFICES ASSUME Init PROVE OneAnswerPerPath
    OBVIOUS
  <2>1. \A p \in Products : index.units[p] = NoUnit
    BY DEF Init, FullIndex, Visible, NoUnits, NoUnit
  <2> QED BY <2>1, RoutePaths DEF OneAnswerPerPath
<1>2. IndInv /\ RouteInv /\ OneAnswerPerPath /\ [Next]_vars => OneAnswerPerPath'
  BY OneAnswerStep
<1> QED BY <1>1, <1>2, InvAlways, PTL DEF Spec

-----------------------------------------------------------------------------
(* The index is complete *)

\* Active units share no path if routes do not.
LEMMA ActiveApart ==
  ASSUME PathsApart, ActiveRoutes',
         NEW p \in Products, NEW q \in Products, p # q, act'[p] # NoUnit, act'[q] # NoUnit
  PROVE  PathsOf(act'[p]) \cap PathsOf(act'[q]) = {}
<1>1. act'[p].route \in Routes /\ act'[q].route \in Routes /\ act'[p].route # act'[q].route
  BY DEF ActiveRoutes
<1> QED BY <1>1, RoutePaths DEF PathsApart

\* What is active is what visitors are entitled to.
LEMMA ActiveIsAuthority ==
  ASSUME ActiveInv
  PROVE  /\ \A p \in Products : Authority[p] = act[p]
         /\ \A p \in Products : ~Visible(p) => act[p] = NoUnit
BY DEF ActiveInv, Authority

LEMMA CompleteStep ==
  ASSUME PathsApart, IndInv, RouteInv, Complete, [Next]_vars
  PROVE  Complete'
<1>1. /\ TypeOK /\ TypeOK' /\ ActiveRoutes' /\ ActiveInv' /\ IndexFollowsStore'
  BY StepInv, RouteStep DEF IndInv, RouteInv
<1>2. \A p \in Products : ~Visible(p)' => act'[p] = NoUnit
  BY <1>1 DEF ActiveInv
<1>3. CASE RowsKept /\ index' = index /\ damaged \subseteq damaged'
  BY <1>3 DEF RowsKept, Complete
<1>4. CASE index' = DownIndex
  BY <1>4 DEF DownIndex, Complete
<1>5. CASE index' = FullIndex'
  <2>1. \A p \in Products : Visible(p)' /\ p \notin damaged' => index'.units[p] = act'[p]
    BY <1>1, <1>5, FullUnits
  <2>2. \A p \in Products : index'.up /\ ~Visible(p)' => index'.units[p] = NoUnit
    BY <1>1 DEF IndexFollowsStore, Authority
  <2> QED BY <1>2, <2>1, <2>2 DEF Complete
<1>6. ASSUME NEW p \in Products, InstallsRow(p) PROVE Complete'
  <2>1. CASE /\ index.up
             /\ \A q \in Products \ {p} : index'.units[q] = index.units[q]
             /\ \/ index'.units[p] = NoUnit /\ ~Visible(p)'
                \/ index'.units[p] = act'[p]
    BY <1>2, <1>6, <2>1 DEF InstallsRow, Complete
  <2> QED BY <1>1, <1>4, <1>5, <1>6, <2>1, InstallShape DEF InstallsRow
<1> QED BY <1>3, <1>4, <1>5, <1>6, IndexShape

LEMMA CompleteAlways == ASSUME PathsApart PROVE Spec => []Complete
<1>1. Init => Complete
  BY DEF Init, Complete, FullIndex, Visible, NoUnits, NoUnit
<1>2. IndInv /\ RouteInv /\ Complete /\ [Next]_vars => Complete'
  BY CompleteStep
<1> QED BY <1>1, <1>2, InvAlways, PTL DEF Spec

\* On a healthy disk the visitors of a site that is up get exactly what the rows
\* say, at every path: page, redirect, "gone" or nothing.  It takes no more than
\* that no slug ends like a representation.
THEOREM VisitorsGetTheRows ==
  ASSUME PathsApart
  PROVE  Spec => []VisitorsSeeAuthority
<1>1. ASSUME IndInv, Complete PROVE VisitorsSeeAuthority
  <2> SUFFICES ASSUME index.up, damaged = {}, NEW x \in Paths
               PROVE  Answers(index.units, index.hist, x) = Answers(Authority, hist, x)
    BY DEF VisitorsSeeAuthority
  <2>1. index.hist = hist
    BY <1>1 DEF IndInv, IndexFollowsStore
  <2>2. \A p \in Products : index.units[p] = Authority[p]
    BY <1>1, ActiveIsAuthority DEF IndInv, Complete
  <2>3. index.units = Authority
    BY <1>1, <2>2 DEF IndInv, TypeOK, Index, Authority
  <2> QED BY <2>1, <2>3
<1> QED BY <1>1, InvAlways, CompleteAlways, PTL

-----------------------------------------------------------------------------
(* Pages stay online *)

\* Only a revocation or the loss of its status takes the row of a product away.
LEMMA RowsStay ==
  ASSUME IndInv, [Next]_vars, NEW p \in Products, act[p] # NoUnit, Published(p)'
  PROVE  Visible(p)' /\ act'[p] # NoUnit
<1> USE DEF IndInv
<1>1. \A q \in Products : product[q].rev > 0
  BY DEF ActiveInv
<1>2. act'[p] # NoUnit
  <2>1. CASE RowsKept
    BY <2>1 DEF RowsKept
  <2>2. ASSUME NEW q \in Products, NEW archive, Revoke(q, archive) PROVE act'[p] # NoUnit
    BY <2>2, RevokeShape
  <2>3. ASSUME NEW q \in Products, Activate(q) PROVE act'[p] # NoUnit
    <3>1. CASE q = p
      <4>1. act'[p].rev = product[p].rev
        BY <2>3, <3>1, ActivateShape
      <4> QED BY <1>1, <4>1 DEF NoUnit, TypeOK, Product
    <3>2. CASE q # p
      BY <2>3, <3>2, ActivateShape
    <3> QED BY <3>1, <3>2
  <2>4. CASE ActivateSwitch
    <3>1. UNCHANGED product
      BY <2>4, SwitchShape
    <3>2. act'[p].rev = product[p].rev
      BY <2>4, <3>1, SwitchShape DEF Published
    <3> QED BY <1>1, <3>2 DEF NoUnit, TypeOK, Product
  <2> QED BY <2>1, <2>2, <2>3, <2>4, RowsKeptSteps
<1>3. ActiveInv'
  BY StepInv
<1> QED BY <1>2, <1>3 DEF ActiveInv

LEMMA Undamaged == ASSUME "damage" \notin Faults PROVE Spec => [](damaged = {})
<1>1. Init => damaged = {}
  BY DEF Init
<1>2. damaged = {} /\ [Next]_vars => (damaged = {})'
  BY DEF Next, vars, durable, Edit, Import, Revoke, Relocalize, ChangeProfile, Retry,
         BeginSwitch, ReadForSwitch, AbortSwitch, ActivateSwitch, Damage, Worker, Fanout, Claim,
         Stage, ActivateOvertaken, ActivateStale, Discard, FailIntent, CloseClaim,
         ActivateFails, Activate, Crash, Restart
<1> QED BY <1>1, <1>2, PTL DEF Spec

\* Without faults of the disk, the index or the process, a page that is online
\* stays online until its product is taken away: neither the one-product update
\* nor a rebuild in the middle of a switch leaves it out.
THEOREM PagesStayOnline ==
  ASSUME PathsApart, Faults \cap {"install", "damage", "crash"} = {}
  PROVE  Spec => OnlineUntilReplaced
<1>1. ASSUME IndInv, RouteInv, damaged = {}, (damaged = {})', [Next]_vars,
             NEW p \in Products, index.units[p] # NoUnit, Published(p)'
      PROVE  index'.units[p] # NoUnit
  <2> USE <1>1
  <2>1. /\ TypeOK /\ TypeOK' /\ ActiveRoutes' /\ ActiveInv /\ IndexFollowsStore /\ OutageInv
        /\ ActiveInv'
    BY StepInv, RouteStep DEF IndInv, RouteInv
  <2>2. \A q \in Products : index.units[q] \in {NoUnit, act[q]}
    BY <2>1, ActiveIsAuthority DEF OutageInv, NoUnits, IndexFollowsStore
  <2>3. Visible(p)' /\ act'[p] # NoUnit
    BY <2>2, RowsStay
  <2>4. CASE index' = FullIndex'
    BY <2>1, <2>3, <2>4, FullUnits
  <2>5. ~(Crash \/ InstallFails)
    BY DEF Crash, InstallFails
  <2>6. ASSUME NEW q \in Products, InstallsRow(q) PROVE index'.units[p] # NoUnit
    <3>0. \A r \in Products \ {q} : act'[r] = act[r]
      BY <2>6 DEF InstallsRow
    <3>1. ASSUME Visible(q)' PROVE ~Clashes(q, act'[q])
      <4>1. act'[q] # NoUnit
        BY <3>1 DEF Visible, NoUnit
      <4>2. ASSUME NEW r \in Products \ {q}
            PROVE  PathsOf(act'[q]) \cap PathsOf(index.units[r]) = {}
        <5>1. index.units[r] = NoUnit \/ index.units[r] = act[r]
          BY <2>2
        <5>2. act'[r] = act[r]
          BY <3>0
        <5>3. CASE index.units[r] = NoUnit
          BY <5>3, RoutePaths
        <5>4. CASE index.units[r] = act'[r] /\ act'[r] # NoUnit
          BY <2>1, <4>1, <5>4, ActiveApart
        <5> QED BY <5>1, <5>2, <5>3, <5>4
      <4> QED BY <4>2 DEF Clashes
    <3>2. CASE /\ \A r \in Products \ {q} : index'.units[r] = index.units[r]
               /\ \/ index'.units[q] = NoUnit /\ ~Visible(q)'
                  \/ index'.units[q] = act'[q]
      BY <2>3, <3>2
    <3> QED BY <2>1, <2>4, <2>6, <3>1, <3>2, InstallShape DEF InstallsRow
  <2> QED BY <2>4, <2>5, <2>6, IndexShape
<1>2. IndInv /\ RouteInv /\ damaged = {} /\ (damaged = {})' /\ [Next]_vars =>
        [\A p \in Products : index.units[p] # NoUnit /\ Published(p)'
           => index'.units[p] # NoUnit]_vars
  BY <1>1
<1>3. "damage" \notin Faults
  OBVIOUS
<1> QED BY <1>2, <1>3, InvAlways, Undamaged, PTL DEF Spec, OnlineUntilReplaced

-----------------------------------------------------------------------------
(* Links survive moves *)

\* The row remembered for a representation of a route that is left leads to the
\* same representation of the new one, unless another move left the same path.
LEMMA RememberRow ==
  ASSUME NEW moves, NEW state, NEW m \in moves, m.old \in Routes, m.new \in Routes,
         NEW s \in Suffixes, PathOf[m.old][s] \in Paths,
         \A n \in moves : n # m => \A t \in Suffixes : PathOf[n.old][t] # PathOf[m.old][s]
  PROVE  Remember(moves, state)[PathOf[m.old][s]] =
           [product |-> m.product, state |-> state, target |-> PathOf[m.new][s]]
<1> DEFINE x == PathOf[m.old][s]
           n == CHOOSE n \in moves : \E t \in Suffixes : PathOf[n.old][t] = x
           t == CHOOSE t \in Suffixes : PathOf[n.old][t] = x
<1>1. \E k \in moves, u \in Suffixes : PathOf[k.old][u] = x
  OBVIOUS
<1>2. Remember(moves, state)[x] =
        [product |-> n.product, state |-> state,
         target |-> IF n.new = NoRoute THEN NoRoute ELSE PathOf[n.new][t]]
  BY <1>1 DEF Remember
<1>3. n \in moves /\ t \in Suffixes /\ PathOf[n.old][t] = x
  BY <1>1
<1> HIDE DEF n, t
<1>4. n = m
  BY <1>3
<1>5. t = s
  BY <1>3, <1>4, PathAssumption
<1> QED BY <1>2, <1>4, <1>5, ConstantsAssumption

\* Such a row is what a visitor of the old path gets.
LEMMA RedirectAnswers ==
  ASSUME ActiveInv', ActiveRoutes', NEW p \in Products, act'[p] # NoUnit,
         NEW s \in Suffixes, NEW x \in Paths,
         hist'[x] = [product |-> p, state |-> "redirect", target |-> PathOf[act'[p].route][s]]
  PROVE  \/ Redirect(p, PathOf[act'[p].route][s]) \in Answers(Authority', hist', x)
         \/ \E q \in Products : x \in PathsOf(Authority'[q])
<1> SUFFICES ASSUME \A q \in Products : x \notin PathsOf(Authority'[q])
             PROVE  Redirect(p, PathOf[act'[p].route][s]) \in Answers(Authority', hist', x)
  OBVIOUS
<1>1. Authority'[p] = act'[p] /\ act'[p].route \in Routes
  BY DEF ActiveInv, Authority, ActiveRoutes
<1>2. PathOf[act'[p].route][s] \in PathsOf(Authority'[p])
  BY <1>1, RoutePaths
<1>3. {Page(q, Authority'[q]) : q \in {r \in Products : x \in PathsOf(Authority'[r])}} = {}
  OBVIOUS
<1> QED BY <1>2, <1>3 DEF Answers

\* In the step that moves a product every link to the old address, in every
\* representation, becomes a redirect to the same representation of the new one,
\* also when many products move at once.
THEOREM LinksFollowMoves ==
  ASSUME PathsApart
  PROVE  Spec => LinksSurviveMoves
<1>1. ASSUME IndInv, RouteInv, [Next]_vars,
             NEW p \in Products, act[p] # NoUnit, act'[p] # NoUnit, act[p].route # act'[p].route,
             NEW s \in Suffixes
      PROVE  \/ Redirect(p, PathOf[act'[p].route][s]) \in
                  Answers(Authority', hist', PathOf[act[p].route][s])
             \/ \E q \in Products : PathOf[act[p].route][s] \in PathsOf(Authority'[q])
  <2> USE <1>1
  <2> DEFINE x == PathOf[act[p].route][s]
             row == [product |-> p, state |-> "redirect", target |-> PathOf[act'[p].route][s]]
  <2>1. /\ TypeOK /\ TypeOK' /\ ActiveRoutes /\ ActiveRoutes' /\ ActiveInv' /\ SwitchInv
        /\ ClaimInv /\ StagedInv
    BY StepInv, RouteStep DEF IndInv, RouteInv
  <2>2. act[p].route \in Routes /\ act'[p].route \in Routes
    BY <2>1 DEF ActiveRoutes
  <2>3. x \in Paths
    BY <2>2, ConstantsAssumption
  <2>4. ASSUME NEW q \in Products, Activate(q) PROVE hist'[x] = row
    <3>1. p = q
      BY <2>1, <2>4, ActivateShape
    <3> DEFINE unit == [worker.unit EXCEPT !.gen = NextGen(p)]
               m == [product |-> p, old |-> act[p].route, new |-> unit.route]
    <3>2. act'[p] = unit
      BY <2>1, <2>4, <3>1 DEF Activate, TypeOK
    <3>3. hist' = Remember({m}, "redirect")
      BY <2>4, <3>1, <3>2 DEF Activate
    <3>4. m.old = act[p].route /\ m.new = act'[p].route /\ m.product = p
      BY <3>2
    <3> HIDE DEF m, unit
    <3> QED BY <2>2, <2>3, <3>3, <3>4, RememberRow
  <2>5. ASSUME ActivateSwitch PROVE hist'[x] = row
    <3> DEFINE S == {q \in Products : Published(q)}
               unit == [q \in Products |-> IF q \in S
                          THEN [switch.units[q] EXCEPT !.gen = vis[q].gen + 1] ELSE NoUnit]
               moved == {q \in S : act[q] # NoUnit /\ act[q].route # unit[q].route}
               move(q) == [product |-> q, old |-> act[q].route, new |-> unit[q].route]
               moves == {move(q) : q \in moved}
    <3>1. act' = unit /\ hist' = Remember(moves, "redirect")
      BY <2>5 DEF ActivateSwitch
    <3>2. p \in moved
      <4>1. p \in S
        BY <3>1
      <4> QED BY <3>1, <4>1
    <3>3. \A q \in moved : q \in Products /\ act[q] # NoUnit
      OBVIOUS
    <3> HIDE DEF unit, S, moved
    <3>4. /\ move(p) \in moves /\ move(p).product = p
          /\ move(p).old = act[p].route /\ move(p).new = act'[p].route
      BY <3>1, <3>2
    <3>5. ASSUME NEW n \in moves, n # move(p), NEW t \in Suffixes
          PROVE  PathOf[n.old][t] # x
      <4>1. PICK q \in moved : n = move(q)
        OBVIOUS
      <4>2. q # p /\ n.old = act[q].route
        BY <3>5, <4>1
      <4>3. act[q].route \in Routes /\ act[q].route # act[p].route
        BY <2>1, <3>3, <4>2 DEF ActiveRoutes
      <4> QED BY <2>2, <4>2, <4>3 DEF PathsApart
    <3> HIDE DEF moves, move
    <3>6. Remember(moves, "redirect")[PathOf[move(p).old][s]] =
            [product |-> move(p).product, state |-> "redirect", target |-> PathOf[move(p).new][s]]
      BY <2>2, <2>3, <3>4, <3>5, RememberRow
    <3> QED BY <3>1, <3>4, <3>6
  <2>6. ~RowsKept /\ ~\E q \in Products : Revoke(q, TRUE) \/ Revoke(q, FALSE)
    <3>1. ASSUME NEW q \in Products, NEW archive, Revoke(q, archive) PROVE FALSE
      BY <2>1, <3>1, RevokeShape
    <3> QED BY <3>1 DEF RowsKept
  <2>7. hist'[x] = row
    BY <2>1, <2>4, <2>5, <2>6, RowsKeptSteps
  <2> QED BY <2>1, <2>3, <2>7, RedirectAnswers
<1>2. IndInv /\ RouteInv /\ [Next]_vars =>
        [\A p \in Products :
           act[p] # NoUnit /\ act'[p] # NoUnit /\ act[p].route # act'[p].route =>
             \A s \in Suffixes :
               Redirect(p, PathOf[act'[p].route][s]) \in
                 Answers(Authority', hist', PathOf[act[p].route][s])
               \/ \E q \in Products : PathOf[act[p].route][s] \in PathsOf(Authority'[q])]_vars
  BY <1>1
<1> QED BY <1>2, InvAlways, PTL DEF Spec, LinksSurviveMoves
=============================================================================
