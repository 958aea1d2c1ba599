------------------------ MODULE AssetLifecycleProofs ------------------------
(***************************************************************************)
(* What AssetLifecycle guarantees for any number of assets, products and   *)
(* backups, any grace period and any batch.  The inductive invariant       *)
(* AssetInv says where a reference may be while no transaction holds it    *)
(* (a staged unit, a candidate site, a snapshot), and that each of them    *)
(* is either written back before the row can go or not at all.             *)
(***************************************************************************)
EXTENDS AssetLifecycle, FiniteSetTheorems, SequenceTheorems, TLAPS

-----------------------------------------------------------------------------
(* Sequences *)

LEMMA SeqElements ==
  ASSUME NEW S, NEW s \in Seq(S)
  PROVE  Elements(s) \subseteq S
  BY DEF Elements

LEMMA ConcatElements ==
  ASSUME NEW S, NEW s \in Seq(S), NEW t \in Seq(S)
  PROVE  s \o t \in Seq(S) /\ Elements(s \o t) \subseteq Elements(s) \cup Elements(t)
<1>1. s \o t \in Seq(S) /\ Len(s) \in Nat /\ Len(t) \in Nat
  OBVIOUS
<1>2. ASSUME NEW i \in DOMAIN (s \o t)
      PROVE  (s \o t)[i] \in Elements(s) \cup Elements(t)
  <2>1. i \in 1..(Len(s) + Len(t))
    BY <1>1, <1>2
  <2>2. CASE i <= Len(s)
    BY <1>1, <2>1, <2>2 DEF Elements
  <2>3. CASE i > Len(s)
    <3>1. (s \o t)[i] = t[i - Len(s)] /\ i - Len(s) \in 1..Len(t)
      BY <1>1, <2>1, <2>3
    <3>2. i - Len(s) \in DOMAIN t
      BY <3>1
    <3> QED
      BY <3>1, <3>2 DEF Elements
  <2> QED
    BY <1>1, <2>1, <2>2, <2>3
<1> QED
  BY <1>1, <1>2 DEF Elements

LEMMA SubElements ==
  ASSUME NEW S, NEW s \in Seq(S), NEW m \in 1..(Len(s) + 1), NEW n \in 0..Len(s)
  PROVE  /\ SubSeq(s, m, n) \in Seq(S)
         /\ Elements(SubSeq(s, m, n)) \subseteq Elements(s)
         /\ Len(SubSeq(s, m, n)) = IF m <= n THEN n - m + 1 ELSE 0
<1>1. Len(s) \in Nat /\ m \in Nat /\ n \in Nat
  OBVIOUS
<1>2. /\ SubSeq(s, m, n) \in Seq(S)
      /\ Len(SubSeq(s, m, n)) = IF m <= n THEN n - m + 1 ELSE 0
  BY <1>1, SubSeqProperties
<1>3. ASSUME NEW i \in DOMAIN SubSeq(s, m, n) PROVE SubSeq(s, m, n)[i] \in Elements(s)
  <2>1. SubSeq(s, m, n)[i] = s[m + i - 1] /\ m + i - 1 \in DOMAIN s
    BY <1>1, <1>2, <1>3, SubSeqProperties
  <2> QED
    BY <2>1 DEF Elements
<1> QED
  BY <1>2, <1>3 DEF Elements

LEMMA RemoveElements ==
  ASSUME NEW S, NEW s \in Seq(S), NEW i \in DOMAIN s
  PROVE  RemoveAt(s, i) \in Seq(S) /\ Elements(RemoveAt(s, i)) \subseteq Elements(s)
<1>1. i \in 1..Len(s) /\ Len(s) \in Nat
  OBVIOUS
<1> DEFINE a == SubSeq(s, 1, i - 1)
           b == SubSeq(s, i + 1, Len(s))
<1>2. /\ a \in Seq(S) /\ Elements(a) \subseteq Elements(s)
      /\ b \in Seq(S) /\ Elements(b) \subseteq Elements(s)
  BY <1>1, SubElements
<1>3. RemoveAt(s, i) = a \o b
  BY DEF RemoveAt
<1> HIDE DEF a, b
<1> QED
  BY <1>2, <1>3, ConcatElements

LEMMA TailElements ==
  ASSUME NEW S, NEW s \in Seq(S), s # <<>>
  PROVE  /\ Head(s) \in Elements(s) /\ Tail(s) \in Seq(S)
         /\ Elements(Tail(s)) \subseteq Elements(s)
         /\ Len(s) # 1 => Tail(s) # <<>>
<1>1. /\ Head(s) = s[1] /\ Len(s) \in Nat \ {0} /\ DOMAIN s = 1..Len(s)
      /\ Tail(s) \in Seq(S) /\ Len(Tail(s)) = Len(s) - 1
      /\ \A i \in 1..(Len(s) - 1) : Tail(s)[i] = s[i + 1]
  BY HeadTailProperties
<1>2. DOMAIN Tail(s) = 1..(Len(s) - 1)
  BY <1>1
<1>3. 1 \in DOMAIN s /\ \A i \in DOMAIN Tail(s) : i + 1 \in DOMAIN s
  BY <1>1, <1>2
<1>4. Len(<<>>) = 0
  OBVIOUS
<1> QED
  BY <1>1, <1>2, <1>3, <1>4 DEF Elements

LEMMA ListElements ==
  ASSUME NEW S, IsFiniteSet(S), NEW s \in [1..Cardinality(S) -> S]
  PROVE  s \in Seq(S)
<1>1. Cardinality(S) \in Nat
  BY FS_CardinalityType
<1> QED
  BY <1>1, SeqDef

-----------------------------------------------------------------------------
(* The public index *)

\* A product counts once.
LEMMA Counts ==
  ASSUME NEW f, NEW a, NEW p \in Products
  PROVE  /\ Cardinality(Holders(f, a)) \in Nat
         /\ Cardinality(Holders(f, a) \ {p}) \in Nat
         /\ Cardinality(Holders(f, a) \ {p}) = 0 <=> Holders(f, a) \ {p} = {}
         /\ Cardinality(Holders(f, a)) = Cardinality(Holders(f, a) \ {p})
                                          + (IF p \in Holders(f, a) THEN 1 ELSE 0)
<1>1. IsFiniteSet(Holders(f, a)) /\ IsFiniteSet(Holders(f, a) \ {p})
  BY AssetAssumption, FS_Subset DEF Holders
<1>2. /\ Cardinality(Holders(f, a)) \in Nat /\ Cardinality(Holders(f, a) \ {p}) \in Nat
      /\ Cardinality(Holders(f, a) \ {p}) = 0 <=> Holders(f, a) \ {p} = {}
  BY <1>1, FS_CardinalityType, FS_EmptySet
<1>3. Cardinality(Holders(f, a) \ {p})
        = IF p \in Holders(f, a) THEN Cardinality(Holders(f, a)) - 1 ELSE Cardinality(Holders(f, a))
  BY <1>1, FS_RemoveElement
<1> QED
  BY <1>2, <1>3

LEMMA FullIndexTyped ==
  ASSUME NEW act \in [Products -> View], NEW conf \in SUBSET Assets
  PROVE  FullIndex(act, conf) \in Index /\ Down \in Index
<1> DEFINE listed == {p \in Products : act[p] # None /\ Valid(act[p])}
           shown == [p \in Products |-> IF p \in listed THEN act[p] ELSE None]
           refs == [a \in Assets |->
                      Cardinality({p \in listed : a \in act[p]}) + One(a, conf)]
           served == conf \cup UNION {act[p] : p \in listed}
<1>1. Down \in Index
  BY DEF Down, Index, View
<1>2. shown \in [Products -> View]
  BY DEF View
<1>3. refs \in [Assets -> Int]
  <2>1. ASSUME NEW a \in Assets PROVE refs[a] \in Int
    <3>1. IsFiniteSet({p \in listed : a \in act[p]})
      BY AssetAssumption, FS_Subset
    <3>2. Cardinality({p \in listed : a \in act[p]}) \in Nat
      BY <3>1, FS_CardinalityType
    <3> QED
      BY <3>2 DEF One
  <2> QED
    BY <2>1
<1>4. served \subseteq Assets
  BY DEF View
<1>5. FullIndex(act, conf) =
        IF ~Valid(conf) THEN Down
        ELSE [up |-> TRUE, assets |-> shown, refs |-> refs, served |-> served]
  BY DEF FullIndex
<1> HIDE DEF shown, refs, served
<1>6. [up |-> TRUE, assets |-> shown, refs |-> refs, served |-> served] \in Index
  BY <1>2, <1>3, <1>4 DEF Index
<1> QED
  BY <1>1, <1>5, <1>6

LEMMA ProductIndexTyped ==
  ASSUME TypeOK, NEW p \in Products, NEW act \in [Products -> View]
  PROVE  ProductIndex(p, act) \in Index
<1> DEFINE old == IF index.assets[p] = None THEN {} ELSE index.assets[p]
           new == IF act[p] = None THEN {} ELSE act[p]
           left == [a \in Assets |-> index.refs[a] - One(a, old)]
           shown == [index.assets EXCEPT ![p] = act[p]]
           refs == [a \in Assets |-> left[a] + One(a, new)]
           served == StillServed(old, left) \cup new
<1>1. FullIndex(act, site) \in Index /\ Down \in Index
  BY FullIndexTyped DEF TypeOK
<1>2. shown \in [Products -> View]
  BY DEF TypeOK, Index
<1>3. refs \in [Assets -> Int]
  BY DEF TypeOK, Index, One
<1>4. served \subseteq Assets
  BY DEF TypeOK, Index, View, StillServed
<1>5. ProductIndex(p, act) =
        IF ~index.up THEN FullIndex(act, site)
        ELSE IF ~Valid(new) THEN Down
        ELSE [up |-> TRUE, assets |-> shown, refs |-> refs, served |-> served]
  BY DEF ProductIndex
<1> HIDE DEF new, shown, refs, served
<1>6. [up |-> TRUE, assets |-> shown, refs |-> refs, served |-> served] \in Index
  BY <1>2, <1>3, <1>4 DEF Index
<1> QED
  BY <1>1, <1>5, <1>6

-----------------------------------------------------------------------------
(* Uploads *)

LEMMA StoreFileStep ==
  ASSUME AssetInv, NEW a \in Assets, StoreFile(a)
  PROVE  AssetInv'
<1>1. /\ TypeOK /\ file[a] = "unused" /\ file' = [file EXCEPT ![a] = "uploading"]
      /\ UNCHANGED <<row, images, published, unit, active, working, versions, site, switch, index,
                     orphan, queue, gc, pins, backup, ledger, kept, root, up, unseen>>
  BY DEF AssetInv, StoreFile, catalogVars, siteVars, gcVars, backupVars
<1>2. TypeOK'
  BY <1>1 DEF TypeOK
<1>3. FileInv' /\ ReferenceInv' /\ BackupInv' /\ MarkInv'
  BY <1>1 DEF TypeOK, AssetInv, FileInv, ReferenceInv, BackupInv, MarkInv
<1>4. CollectorInv'
  BY <1>1 DEF TypeOK, AssetInv, CollectorInv
<1> QED
  BY <1>2, <1>3, <1>4 DEF AssetInv

LEMMA CreateAssetStep ==
  ASSUME AssetInv, NEW a \in Assets, CreateAsset(a)
  PROVE  AssetInv'
<1>1. /\ TypeOK /\ file[a] = "uploading" /\ a \notin row
      /\ UNCHANGED <<images, published, unit, active, working, versions, site, switch, index,
                     orphan, queue, gc, pins, backup, ledger, kept, root, up>>
  BY DEF AssetInv, FileInv, CreateAsset, catalogVars, siteVars, gcVars, backupVars
<1>2. \/ /\ file' = [file EXCEPT ![a] = "stored"] /\ row' = row \cup {a}
         /\ unseen' = [unseen EXCEPT ![a] = 0]
      \/ file' = [file EXCEPT ![a] = "stray"] /\ UNCHANGED <<row, unseen>>
  BY DEF CreateAsset
<1>3. /\ row \subseteq row' /\ row' \subseteq row \cup {a}
      /\ \A b \in Assets \ {a} : file'[b] = file[b]
      /\ a \in row' => file'[a] = "stored"
  BY <1>1, <1>2 DEF TypeOK
<1>4. TypeOK'
  <2>1. /\ file \in [Assets -> {"unused", "uploading", "stray", "stored", "deleted"}]
        /\ row \subseteq Assets /\ unseen \in [Assets -> 0..Grace]
    BY <1>1 DEF TypeOK
  <2>2. 0 \in 0..Grace
    BY AssetAssumption
  <2>3. file' \in [Assets -> {"unused", "uploading", "stray", "stored", "deleted"}]
    BY <1>2, <2>1
  <2>4. row' \subseteq Assets
    BY <1>3, <2>1
  <2>5. unseen' \in [Assets -> 0..Grace]
    BY <1>2, <2>1, <2>2
  <2> QED
    BY <1>1, <2>3, <2>4, <2>5 DEF TypeOK
<1>5. FileInv'
  BY <1>1, <1>3 DEF TypeOK, AssetInv, FileInv
<1>6. CollectorInv'
  <2>1. CollectorInv
    BY DEF AssetInv
  <2>2. queue \in Seq(Assets) /\ gc.todo \in Seq(Assets)
    BY <1>1 DEF TypeOK
  <2>3. Elements(queue) \subseteq Assets /\ Elements(gc.todo) \subseteq Assets
    BY <2>2, SeqElements
  <2>4. \A b \in Elements(queue) \cup Elements(gc.todo) : b # a
    BY <1>1, <2>1 DEF CollectorInv
  <2> QED
    BY <1>1, <1>3, <2>1, <2>3, <2>4 DEF CollectorInv
<1>7. ReferenceInv' /\ BackupInv'
  BY <1>1, <1>3 DEF AssetInv, ReferenceInv, BackupInv
<1>8. MarkInv'
  <2>1. orphan[a] = None
    BY <1>1 DEF AssetInv, MarkInv
  <2>2. \A b \in Assets \ {a} : unseen'[b] = unseen[b]
    BY <1>1, <1>2 DEF TypeOK
  <2> QED
    BY <1>1, <1>3, <2>1, <2>2 DEF AssetInv, MarkInv
<1> QED
  BY <1>4, <1>5, <1>6, <1>7, <1>8 DEF AssetInv

-----------------------------------------------------------------------------
(* Products and the website *)

\* A step of the catalog or the website leaves files, rows, the collector and the
\* backups alone.
LEMMA PublicStep ==
  ASSUME AssetInv, ReferenceInv', index' \in Index,
         images' \in [Products -> SUBSET Assets], published' \subseteq Products,
         unit' \in [Products -> [assets: View, what: Phase]], active' \in [Products -> View],
         working' \subseteq Assets, site' \subseteq Assets, versions' \subseteq SUBSET Assets,
         switch' \in [site: View, what: Phase, units: [Products -> View]],
         UNCHANGED <<file, row, gcVars, backupVars, root, up, unseen>>
  PROVE  AssetInv'
<1>1. UNCHANGED <<file, row, orphan, queue, gc, pins, backup, ledger, kept, root, up, unseen>>
  BY DEF gcVars, backupVars
<1>2. TypeOK'
  BY <1>1 DEF AssetInv, TypeOK
<1>3. FileInv' /\ BackupInv' /\ MarkInv'
  BY <1>1 DEF AssetInv, FileInv, BackupInv, MarkInv
<1>4. CollectorInv'
  BY <1>1 DEF AssetInv, CollectorInv
<1> QED
  BY <1>2, <1>3, <1>4 DEF AssetInv

LEMMA OutdatedTyped ==
  ASSUME TypeOK
  PROVE  /\ \A u : /\ OutdatedUnit(u) \in [assets: View, what: Phase]
                   /\ OutdatedUnit(u).what # "staged"
         /\ OutdatedSwitch \in [site: View, what: Phase, units: [Products -> View]]
         /\ OutdatedSwitch.what # "staged"
<1>1. /\ NoUnit \in [assets: View, what: Phase] /\ NoUnit.what = "none"
      /\ [NoUnit EXCEPT !.what = "outdated"] \in [assets: View, what: Phase]
      /\ [NoUnit EXCEPT !.what = "outdated"].what = "outdated"
  BY DEF NoUnit, View, Phase
<1>2. /\ NoSwitch \in [site: View, what: Phase, units: [Products -> View]]
      /\ NoSwitch.what = "none"
      /\ [NoSwitch EXCEPT !.what = "outdated"] \in [site: View, what: Phase, units: [Products -> View]]
      /\ [NoSwitch EXCEPT !.what = "outdated"].what = "outdated"
  BY DEF NoSwitch, View, Phase
<1> QED
  BY <1>1, <1>2 DEF OutdatedUnit, OutdatedSwitch

\* A revision leaves nothing staged of the old one.
LEMMA ReviseStep ==
  ASSUME TypeOK, NEW p \in Products, Revise(p)
  PROVE  /\ unit' \in [Products -> [assets: View, what: Phase]]
         /\ switch' \in [site: View, what: Phase, units: [Products -> View]]
         /\ unit'[p].what # "staged" /\ switch'.what # "staged"
         /\ \A q \in Products \ {p} : unit'[q] = unit[q]
<1>1. unit' = [unit EXCEPT ![p] = OutdatedUnit(unit[p])] /\ switch' = OutdatedSwitch
  BY DEF Revise
<1> QED
  BY <1>1, OutdatedTyped DEF TypeOK

LEMMA ImageStep ==
  ASSUME AssetInv, NEW p \in Products, NEW a \in Assets,
         AddProductImage(p, a) \/ DeleteProductImage(p, a)
  PROVE  AssetInv'
<1>1. /\ TypeOK /\ Revise(p) /\ ReferenceInv
      /\ UNCHANGED <<file, row, published, active, working, versions, site, index,
                     gcVars, backupVars, root, up, unseen>>
  BY DEF AssetInv, AddProductImage, DeleteProductImage
<1>2. /\ images' \in [Products -> SUBSET Assets] /\ images'[p] \subseteq row
      /\ \A q \in Products \ {p} : images'[q] = images[q]
  <2>1. /\ images \in [Products -> SUBSET Assets] /\ row \subseteq Assets
        /\ images[p] \subseteq row
    BY <1>1 DEF TypeOK, ReferenceInv
  <2>2. \E S \in SUBSET row : images' = [images EXCEPT ![p] = S]
    <3>1. CASE AddProductImage(p, a)
      BY <2>1, <3>1 DEF AddProductImage
    <3>2. CASE DeleteProductImage(p, a)
      BY <2>1, <3>2 DEF DeleteProductImage
    <3> QED
      BY <3>1, <3>2
  <2> QED
    BY <2>1, <2>2
<1>3. /\ unit' \in [Products -> [assets: View, what: Phase]]
      /\ switch' \in [site: View, what: Phase, units: [Products -> View]]
      /\ unit'[p].what # "staged" /\ switch'.what # "staged"
      /\ \A q \in Products \ {p} : unit'[q] = unit[q]
  BY <1>1, ReviseStep
<1>4. ReferenceInv'
  BY <1>1, <1>2, <1>3 DEF ReferenceInv
<1> QED
  BY <1>1, <1>2, <1>3, <1>4, PublicStep DEF TypeOK

LEMMA VisibilityStep ==
  ASSUME AssetInv, NEW p \in Products, Publish(p) \/ Revoke(p)
  PROVE  AssetInv'
<1>1. /\ TypeOK /\ Revise(p) /\ ReferenceInv
      /\ UNCHANGED <<file, row, images, working, versions, site,
                     gcVars, backupVars, root, up, unseen>>
  BY DEF AssetInv, Publish, Revoke
<1>2. /\ published' \subseteq Products
      /\ active' \in [Products -> View]
      /\ \A q \in Products : active'[q] \in {None, active[q]}
  BY <1>1 DEF Publish, Revoke, TypeOK, View
<1>3. index' \in Index
  BY <1>1, <1>2, ProductIndexTyped DEF Publish, Revoke, TypeOK
<1>4. /\ unit' \in [Products -> [assets: View, what: Phase]]
      /\ switch' \in [site: View, what: Phase, units: [Products -> View]]
      /\ unit'[p].what # "staged" /\ switch'.what # "staged"
      /\ \A q \in Products \ {p} : unit'[q] = unit[q]
  BY <1>1, ReviseStep
<1>5. ReferenceInv'
  BY <1>1, <1>2, <1>4 DEF ReferenceInv
<1> QED
  BY <1>1, <1>2, <1>3, <1>4, <1>5, PublicStep DEF TypeOK

LEMMA StageStep ==
  ASSUME AssetInv, NEW p \in Products, Stage(p)
  PROVE  AssetInv'
<1>1. /\ TypeOK /\ ReferenceInv
      /\ unit' = [unit EXCEPT ![p] = [assets |-> images[p], what |-> "staged"]]
      /\ UNCHANGED <<file, row, images, published, active, working, versions, site, switch, index,
                     gcVars, backupVars, root, up, unseen>>
  BY DEF AssetInv, Stage, siteVars
<1>2. unit' \in [Products -> [assets: View, what: Phase]]
  BY <1>1 DEF TypeOK, View, Phase
<1>3. ReferenceInv'
  BY <1>1 DEF ReferenceInv, TypeOK
<1> QED
  BY <1>1, <1>2, <1>3, PublicStep DEF TypeOK

LEMMA ActivateStep ==
  ASSUME AssetInv, NEW p \in Products, ActivatePublication(p)
  PROVE  AssetInv'
<1>1. /\ TypeOK /\ ReferenceInv /\ unit' = [unit EXCEPT ![p] = NoUnit]
      /\ UNCHANGED <<file, row, images, published, working, versions, site, switch,
                     gcVars, backupVars, root, up, unseen>>
  BY DEF AssetInv, ActivatePublication, siteVars
<1>2. \/ /\ unit[p].what = "staged" /\ active' = [active EXCEPT ![p] = unit[p].assets]
         /\ index' = ProductIndex(p, active')
      \/ UNCHANGED <<active, index>>
  BY DEF ActivatePublication
<1>3. /\ unit' \in [Products -> [assets: View, what: Phase]] /\ unit'[p].what = "none"
      /\ \A q \in Products \ {p} : unit'[q] = unit[q]
  BY <1>1 DEF TypeOK, View, Phase, NoUnit
<1>4. active' \in [Products -> View]
  <2>1. active \in [Products -> View] /\ unit[p].assets \in View
    BY <1>1 DEF TypeOK
  <2> QED
    BY <1>2, <2>1
<1>5. \A q \in Products : active'[q] = active[q] \/ active'[q] = images[q]
  BY <1>1, <1>2 DEF TypeOK, ReferenceInv
<1>6. index' \in Index
  BY <1>1, <1>2, <1>4, ProductIndexTyped DEF TypeOK
<1>7. ReferenceInv'
  BY <1>1, <1>3, <1>5 DEF ReferenceInv
<1> QED
  BY <1>1, <1>3, <1>4, <1>6, <1>7, PublicStep DEF TypeOK

LEMMA WorkingStep ==
  ASSUME AssetInv, NEW S, SetWorking(S)
  PROVE  AssetInv'
<1>1. /\ TypeOK /\ ReferenceInv /\ working' = S /\ S \subseteq row /\ switch' = OutdatedSwitch
      /\ UNCHANGED <<file, row, images, published, unit, active, versions, site, index,
                     gcVars, backupVars, root, up, unseen>>
  BY DEF AssetInv, SetWorking, catalogVars
<1>2. /\ switch' \in [site: View, what: Phase, units: [Products -> View]]
      /\ switch'.what # "staged"
  BY <1>1, OutdatedTyped
<1>3. ReferenceInv'
  BY <1>1, <1>2 DEF ReferenceInv
<1> QED
  BY <1>1, <1>2, <1>3, PublicStep DEF TypeOK

LEMMA BeginSwitchStep ==
  ASSUME AssetInv, BeginSwitch
  PROVE  AssetInv'
<1> DEFINE units == [p \in Products |-> IF p \in published THEN images[p] ELSE None]
<1>1. /\ TypeOK /\ ReferenceInv
      /\ switch' = [site |-> working, what |-> "staged", units |-> units]
      /\ UNCHANGED <<file, row, images, published, unit, active, working, versions, site, index,
                     gcVars, backupVars, root, up, unseen>>
  BY DEF AssetInv, BeginSwitch, catalogVars
<1>2. units \in [Products -> View] /\ \A p \in Products : units[p] \in {None, images[p]}
  BY <1>1 DEF TypeOK, View
<1> HIDE DEF units
<1>3. switch' \in [site: View, what: Phase, units: [Products -> View]]
  BY <1>1, <1>2 DEF TypeOK, View, Phase
<1>4. ReferenceInv'
  BY <1>1, <1>2 DEF ReferenceInv
<1> QED
  BY <1>1, <1>3, <1>4, PublicStep DEF TypeOK

LEMMA ActivateSiteStep ==
  ASSUME AssetInv, ActivateSiteRoutes
  PROVE  AssetInv'
<1>1. /\ TypeOK /\ ReferenceInv /\ switch' = NoSwitch
      /\ UNCHANGED <<file, row, images, published, working, gcVars, backupVars, root, up, unseen>>
  BY DEF AssetInv, ActivateSiteRoutes
<1>2. /\ switch' \in [site: View, what: Phase, units: [Products -> View]]
      /\ switch'.what = "none"
  BY <1>1 DEF NoSwitch, View, Phase
<1>3. CASE UNCHANGED <<versions, site, active, index, unit>>
  <2>1. ReferenceInv'
    BY <1>1, <1>2, <1>3 DEF ReferenceInv
  <2> QED
    BY <1>1, <1>2, <1>3, <2>1, PublicStep DEF TypeOK
<1>4. CASE /\ switch.what = "staged"
           /\ versions' = versions \cup {switch.site} /\ site' = switch.site
           /\ active' = switch.units /\ index' = FullIndex(switch.units, switch.site)
           /\ unit' = [p \in Products |-> OutdatedUnit(unit[p])]
  <2>1. /\ switch.site = working /\ switch.units \in [Products -> View]
        /\ \A p \in Products : switch.units[p] \in {None, images[p]}
    BY <1>1, <1>4 DEF ReferenceInv, TypeOK
  <2>2. working \subseteq Assets
    BY <1>1 DEF TypeOK
  <2>3. \A u : /\ OutdatedUnit(u) \in [assets: View, what: Phase]
               /\ OutdatedUnit(u).what # "staged"
    BY <1>1, OutdatedTyped
  <2>4. /\ unit' \in [Products -> [assets: View, what: Phase]]
        /\ \A p \in Products : unit'[p].what # "staged"
    BY <1>4, <2>3
  <2>5. index' \in Index
    BY <1>4, <2>1, <2>2, FullIndexTyped
  <2>6. ReferenceInv'
    BY <1>1, <1>2, <1>4, <2>1, <2>4 DEF ReferenceInv
  <2> QED
    BY <1>1, <1>2, <1>4, <2>1, <2>2, <2>4, <2>5, <2>6, PublicStep DEF TypeOK
<1> QED
  BY <1>3, <1>4 DEF ActivateSiteRoutes

-----------------------------------------------------------------------------
(* The collector *)

\* What is protected: everything that is referred to, and what a backup has pinned.
LEMMA ProtectedCovers ==
  ASSUME TypeOK
  PROVE  /\ working \subseteq Protected /\ \A S \in versions : S \subseteq Protected
         /\ \A p \in Products : /\ images[p] \subseteq Protected
                                /\ active[p] # None => active[p] \subseteq Protected
         /\ \A b \in Backups : pins[b] \subseteq Protected
<1>1. /\ working \subseteq Assets /\ versions \subseteq SUBSET Assets
      /\ \A p \in Products : images[p] \subseteq Assets
      /\ \A p \in Products : active[p] # None => active[p] \subseteq Assets
      /\ \A b \in Backups : pins[b] \subseteq Assets
  BY DEF TypeOK, View
<1> QED
  BY <1>1 DEF Protected

\* PlanAssetGarbageCollection, seen from the rows it deletes.
LEMMA PlanEffect ==
  ASSUME TypeOK, Plan
  PROVE  \E T \in SUBSET Expired :
           /\ row' = row \ T /\ orphan' = Marks(row \ T)
           /\ queue' \in Seq(Assets) /\ Elements(queue') \subseteq Elements(queue) \cup T
<1>1. PICK T \in SUBSET Expired :
        /\ \E s \in [1..Cardinality(T) -> T] : queue' = queue \o s
        /\ row' = row \ T /\ orphan' = Marks(row \ T)
  BY DEF Plan
<1>2. PICK s \in [1..Cardinality(T) -> T] : queue' = queue \o s
  BY <1>1
<1>3. T \subseteq Assets
  BY <1>1 DEF Expired, TypeOK
<1>4. IsFiniteSet(T)
  BY <1>3, AssetAssumption, FS_Subset
<1>5. s \in Seq(T) /\ Elements(s) \subseteq T
  BY <1>2, <1>4, ListElements, SeqElements
<1>6. s \in Seq(Assets) /\ queue \in Seq(Assets)
  BY <1>3, <1>5 DEF TypeOK
<1> QED
  BY <1>1, <1>2, <1>5, <1>6, ConcatElements

LEMMA PlanStep ==
  ASSUME AssetInv, Plan
  PROVE  AssetInv'
<1>1. /\ TypeOK /\ gc.step = "idle" /\ backup.step # "pin"
      /\ gc' = [gc EXCEPT !.step = "list"]
      /\ unseen' = [a \in Assets |-> IF a \in Protected THEN 0 ELSE unseen[a]]
      /\ UNCHANGED <<file, images, published, unit, active, working, versions, site, switch, index,
                     pins, backup, ledger, kept, root, up>>
  BY DEF AssetInv, Plan, catalogVars, siteVars, backupVars
<1>2. PICK T \in SUBSET Expired :
        /\ row' = row \ T /\ orphan' = Marks(row \ T)
        /\ queue' \in Seq(Assets) /\ Elements(queue') \subseteq Elements(queue) \cup T
  BY <1>1, PlanEffect
<1>3. T \subseteq row /\ T \cap Protected = {} /\ row \subseteq Assets
  BY <1>1, <1>2 DEF Expired, TypeOK
<1>4. /\ orphan \in [Assets -> (0..Grace) \cup {None}] /\ unseen \in [Assets -> 0..Grace]
      /\ 0 \in 0..Grace /\ Grace \in Nat
  BY <1>1, AssetAssumption DEF TypeOK
<1>5. gc' \in [step: {"idle", "list", "remove", "record"}, todo: Seq(Assets), ok: BOOLEAN]
      /\ gc'.step = "list" /\ gc'.todo = gc.todo
  BY <1>1 DEF TypeOK
<1>6. /\ orphan' \in [Assets -> (0..Grace) \cup {None}] /\ unseen' \in [Assets -> 0..Grace]
  BY <1>1, <1>2, <1>4 DEF Marks
<1>7. TypeOK'
  BY <1>1, <1>2, <1>3, <1>5, <1>6 DEF TypeOK
<1>8. FileInv'
  BY <1>1, <1>2, <1>3 DEF AssetInv, FileInv
<1>9. CollectorInv'
  <2>1. CollectorInv /\ \A a \in row : file[a] = "stored"
    BY DEF AssetInv, FileInv
  <2>2. \A a \in Elements(queue') \cup Elements(gc'.todo) :
          a \in T \/ a \in Elements(queue) \cup Elements(gc.todo)
    BY <1>2, <1>5
  <2> QED
    BY <1>1, <1>2, <1>3, <1>5, <2>1, <2>2 DEF CollectorInv
<1>10. ReferenceInv'
  <2>1. ReferenceInv
    BY DEF AssetInv
  <2>2. /\ working \subseteq row' /\ \A S \in versions : S \subseteq row'
        /\ \A p \in Products : /\ images[p] \subseteq row'
                               /\ active[p] # None => active[p] \subseteq row'
    BY <1>1, <1>2, <1>3, <2>1, ProtectedCovers DEF ReferenceInv
  <2> QED
    BY <1>1, <2>1, <2>2 DEF ReferenceInv
<1>11. BackupInv'
  <2>1. BackupInv
    BY DEF AssetInv
  <2>2. \A b \in Backups : pins[b] \subseteq row'
    BY <1>1, <1>2, <1>3, <2>1, ProtectedCovers DEF BackupInv
  <2> QED
    BY <1>1, <2>1, <2>2 DEF BackupInv
<1>12. MarkInv'
  <2>1. ASSUME NEW a \in Assets, orphan'[a] # None
        PROVE  a \in row' /\ orphan'[a] <= unseen'[a]
    <3>1. a \in row' /\ a \notin Protected
      BY <1>2, <2>1 DEF Marks
    <3>2. unseen'[a] = unseen[a] /\ unseen[a] \in 0..Grace
      BY <1>1, <1>4, <3>1
    <3>3. CASE orphan[a] = None
      BY <1>2, <1>4, <3>1, <3>2, <3>3 DEF Marks
    <3>4. CASE orphan[a] # None
      BY <1>2, <3>1, <3>2, <3>4 DEF Marks, AssetInv, MarkInv
    <3> QED
      BY <3>3, <3>4
  <2> QED
    BY <2>1 DEF MarkInv
<1> QED
  BY <1>7, <1>8, <1>9, <1>10, <1>11, <1>12 DEF AssetInv

\* The files of a batch: every step after the plan leaves the rows alone.
LEMMA BatchStep ==
  ASSUME AssetInv, UNCHANGED <<row, catalogVars, siteVars, index, orphan, backupVars, root, up, unseen>>,
         file' \in [Assets -> {"unused", "uploading", "stray", "stored", "deleted"}],
         \A a \in Assets : file'[a] = file[a] \/ (a \notin row /\ file'[a] = "deleted"),
         queue' \in Seq(Assets), Elements(queue') \subseteq Elements(queue),
         gc' \in [step: {"idle", "list", "remove", "record"}, todo: Seq(Assets), ok: BOOLEAN],
         Elements(gc'.todo) \subseteq Elements(queue) \cup Elements(gc.todo),
         gc'.step \in {"remove", "record"} => gc'.todo # <<>>
  PROVE  AssetInv'
<1>1. /\ TypeOK /\ CollectorInv
      /\ UNCHANGED <<row, images, published, unit, active, working, versions, site, switch, index,
                     orphan, pins, backup, ledger, kept, root, up, unseen>>
  BY DEF AssetInv, catalogVars, siteVars, backupVars
<1>2. TypeOK'
  BY <1>1 DEF TypeOK
<1>3. FileInv'
  BY <1>1 DEF AssetInv, FileInv, TypeOK
<1>4. CollectorInv'
  <2>1. queue \in Seq(Assets) /\ gc.todo \in Seq(Assets)
    BY <1>1 DEF TypeOK
  <2>2. Elements(queue) \subseteq Assets /\ Elements(gc.todo) \subseteq Assets
    BY <2>1, SeqElements
  <2> QED
    BY <1>1, <2>2 DEF CollectorInv
<1>5. ReferenceInv' /\ BackupInv' /\ MarkInv'
  BY <1>1 DEF AssetInv, ReferenceInv, BackupInv, MarkInv
<1> QED
  BY <1>2, <1>3, <1>4, <1>5 DEF AssetInv

LEMMA CollectStep ==
  ASSUME AssetInv, Collect
  PROVE  AssetInv'
<1>1. /\ TypeOK /\ queue \in Seq(Assets) /\ gc.todo \in Seq(Assets) /\ CollectorInv
      /\ file \in [Assets -> {"unused", "uploading", "stray", "stored", "deleted"}]
      /\ gc \in [step: {"idle", "list", "remove", "record"}, todo: Seq(Assets), ok: BOOLEAN]
  BY DEF AssetInv, TypeOK
<1>2. /\ Idle \in [step: {"idle", "list", "remove", "record"}, todo: Seq(Assets), ok: BOOLEAN]
      /\ Idle.step = "idle" /\ Elements(Idle.todo) = {}
  BY DEF Idle, Elements
<1>3. CASE ListPending
  <2> DEFINE n == IF Len(queue) < Batch THEN Len(queue) ELSE Batch
             first == SubSeq(queue, 1, n)
  <2>1. /\ UNCHANGED <<file, row, catalogVars, siteVars, index, orphan, queue, backupVars,
                       root, up, unseen>>
        /\ gc' = IF queue = <<>> THEN Idle ELSE [step |-> "remove", ok |-> FALSE, todo |-> first]
    BY <1>3 DEF ListPending
  <2>2. CASE queue = <<>>
    BY <1>1, <1>2, <2>1, <2>2, BatchStep
  <2>3. CASE queue # <<>>
    <3>1. n \in 1..Len(queue) /\ 1 \in 1..(Len(queue) + 1) /\ n \in 0..Len(queue)
      <4>1. Len(queue) \in Nat \ {0} /\ Batch \in Nat \ {0}
        BY <1>1, <2>3, AssetAssumption
      <4> QED
        BY <4>1
    <3> HIDE DEF n
    <3>2. /\ first \in Seq(Assets) /\ Elements(first) \subseteq Elements(queue)
          /\ Len(first) = IF 1 <= n THEN n - 1 + 1 ELSE 0
      BY <1>1, <3>1, SubElements
    <3>3. Len(first) # 0 /\ Len(<<>>) = 0
      BY <3>1, <3>2
    <3> HIDE DEF first
    <3>4. /\ gc' \in [step: {"idle", "list", "remove", "record"}, todo: Seq(Assets), ok: BOOLEAN]
          /\ gc'.todo = first /\ first # <<>>
      BY <2>1, <2>3, <3>2, <3>3
    <3> QED
      BY <1>1, <2>1, <3>2, <3>4, BatchStep
  <2> QED
    BY <2>2, <2>3
<1>4. CASE RemoveFile
  <2> DEFINE a == Head(gc.todo)
  <2>1. gc.todo # <<>>
    BY <1>1, <1>4 DEF RemoveFile, CollectorInv
  <2>2. a \in Elements(gc.todo) /\ a \in Assets
    BY <1>1, <2>1, TailElements, SeqElements
  <2>3. a \notin row
    BY <1>1, <2>2 DEF CollectorInv
  <2>4. /\ UNCHANGED <<row, catalogVars, siteVars, index, orphan, queue, backupVars, root, up, unseen>>
        /\ file' = IF root THEN [file EXCEPT ![a] = "deleted"] ELSE file
        /\ gc' = [gc EXCEPT !.step = "record", !.ok = root] /\ root \in BOOLEAN
    BY <1>1, <1>4 DEF RemoveFile, TypeOK
  <2> HIDE DEF a
  <2>5. /\ file' \in [Assets -> {"unused", "uploading", "stray", "stored", "deleted"}]
        /\ \A b \in Assets : file'[b] = file[b] \/ (b \notin row /\ file'[b] = "deleted")
    BY <1>1, <2>2, <2>3, <2>4
  <2>6. /\ gc' \in [step: {"idle", "list", "remove", "record"}, todo: Seq(Assets), ok: BOOLEAN]
        /\ gc'.todo = gc.todo
    BY <1>1, <2>4
  <2> QED
    BY <1>1, <2>1, <2>4, <2>5, <2>6, BatchStep
<1>5. CASE RecordDeletion
  <2>1. gc.todo # <<>>
    BY <1>1, <1>5 DEF RecordDeletion, CollectorInv
  <2>2. /\ Tail(gc.todo) \in Seq(Assets) /\ Elements(Tail(gc.todo)) \subseteq Elements(gc.todo)
        /\ Len(gc.todo) # 1 => Tail(gc.todo) # <<>>
    BY <1>1, <2>1, TailElements
  <2>3. queue' \in Seq(Assets) /\ Elements(queue') \subseteq Elements(queue)
    <3>1. CASE queue' = queue
      BY <1>1, <3>1
    <3>2. CASE \E i \in DOMAIN queue : queue' = RemoveAt(queue, i)
      BY <1>1, <3>2, RemoveElements
    <3> QED
      BY <1>5, <3>1, <3>2 DEF RecordDeletion
  <2>4. /\ UNCHANGED <<file, row, catalogVars, siteVars, index, orphan, backupVars, root, up, unseen>>
        /\ gc' = IF Len(gc.todo) = 1 THEN Idle
                 ELSE [step |-> "remove", ok |-> FALSE, todo |-> Tail(gc.todo)]
    BY <1>5 DEF RecordDeletion
  <2>5. CASE Len(gc.todo) = 1
    BY <1>1, <1>2, <2>3, <2>4, <2>5, BatchStep
  <2>6. CASE Len(gc.todo) # 1
    BY <1>1, <2>2, <2>3, <2>4, <2>6, BatchStep
  <2> QED
    BY <2>5, <2>6
<1> QED
  BY <1>3, <1>4, <1>5, PlanStep DEF Collect

-----------------------------------------------------------------------------
(* Backups and the process *)

LEMMA BackupStep ==
  ASSUME AssetInv, BackupInv',
         UNCHANGED <<file, row, catalogVars, siteVars, index, gcVars, root, up, unseen>>,
         pins' \in [Backups -> SUBSET Assets], kept' \subseteq Backups,
         backup' \in [run: Backups \cup {None}, todo: SUBSET Assets,
                      step: {"idle", "snapshot", "pin", "copy", "complete", "fail"}],
         ledger' \in [Backups -> {"none", "running", "succeeded", "failed"}]
  PROVE  AssetInv'
<1>1. UNCHANGED <<file, row, images, published, unit, active, working, versions, site, switch,
                  index, orphan, queue, gc, root, up, unseen>>
  BY DEF catalogVars, siteVars, gcVars
<1>2. TypeOK'
  BY <1>1 DEF AssetInv, TypeOK
<1>3. FileInv' /\ ReferenceInv' /\ MarkInv'
  BY <1>1 DEF AssetInv, FileInv, ReferenceInv, MarkInv
<1>4. CollectorInv'
  BY <1>1 DEF AssetInv, CollectorInv
<1> QED
  BY <1>2, <1>3, <1>4 DEF AssetInv

LEMMA BackingStep ==
  ASSUME AssetInv, (\E b \in Backups : ClaimBackupRun(b)) \/ Backing \/ ReconcileRuns
  PROVE  AssetInv'
<1> DEFINE BackupType == [run: Backups \cup {None}, todo: SUBSET Assets,
                          step: {"idle", "snapshot", "pin", "copy", "complete", "fail"}]
           LedgerType == [Backups -> {"none", "running", "succeeded", "failed"}]
<1>1. /\ BackupInv /\ row \subseteq Assets /\ pins \in [Backups -> SUBSET Assets]
      /\ kept \subseteq Backups /\ backup \in BackupType /\ ledger \in LedgerType
  BY DEF AssetInv, TypeOK
<1>2. NoBackup \in BackupType /\ NoBackup.step = "idle" /\ NoBackup.todo = {}
  BY DEF NoBackup
<1>3. ASSUME ReleasePins, backup.run \in Backups
      PROVE  pins' \in [Backups -> SUBSET Assets] /\ \A b \in Backups : pins'[b] \subseteq row
  BY <1>1, <1>3 DEF ReleasePins, BackupInv
<1>4. ASSUME NEW b \in Backups, ClaimBackupRun(b) PROVE AssetInv'
  <2>1. /\ up /\ UNCHANGED <<file, row, catalogVars, siteVars, index, gcVars, pins, kept, root, up, unseen>>
        /\ ledger' = [ledger EXCEPT ![b] = "running"]
        /\ backup' = [run |-> b, step |-> "snapshot", todo |-> {}]
    BY <1>4 DEF ClaimBackupRun
  <2>2. backup' \in BackupType /\ ledger' \in LedgerType
    BY <1>1, <2>1
  <2>3. BackupInv'
    BY <1>1, <2>1 DEF BackupInv
  <2> QED
    BY <1>1, <2>1, <2>2, <2>3, BackupStep
<1>5. CASE Snapshot
  <2>1. /\ up /\ UNCHANGED <<file, row, catalogVars, siteVars, index, gcVars, pins, ledger, kept,
                             root, up, unseen>>
        /\ backup' = [backup EXCEPT !.step = "pin", !.todo = row] /\ backup.step = "snapshot"
    BY <1>5 DEF Snapshot
  <2>2. /\ backup' \in BackupType /\ backup'.step = "pin" /\ backup'.todo = row
        /\ backup'.run = backup.run
    BY <1>1, <2>1
  <2>3. BackupInv'
    BY <1>1, <2>1, <2>2 DEF BackupInv
  <2> QED
    BY <1>1, <2>1, <2>2, <2>3, BackupStep
<1>6. CASE PinAssets
  <2>1. /\ up /\ UNCHANGED <<file, row, catalogVars, siteVars, index, gcVars, ledger, kept, root, up, unseen>>
        /\ pins' = [pins EXCEPT ![backup.run] = backup.todo] /\ backup.todo \subseteq row
        /\ backup' = [backup EXCEPT !.step = "copy"] /\ backup.step = "pin"
    BY <1>6 DEF PinAssets
  <2>2. /\ backup' \in BackupType /\ backup'.step = "copy" /\ backup'.todo = backup.todo
        /\ backup'.run = backup.run /\ backup.run \in Backups
    BY <1>1, <2>1 DEF BackupInv
  <2>3. /\ pins' \in [Backups -> SUBSET Assets] /\ pins'[backup.run] = backup.todo
        /\ \A b \in Backups : pins'[b] \subseteq row
    BY <1>1, <2>1, <2>2 DEF BackupInv
  <2>4. BackupInv'
    BY <1>1, <2>1, <2>2, <2>3 DEF BackupInv
  <2> QED
    BY <1>1, <2>1, <2>2, <2>3, <2>4, BackupStep
<1>7. ASSUME NEW a \in Assets, CopyAsset(a) PROVE AssetInv'
  <2>1. /\ up /\ UNCHANGED <<file, row, catalogVars, siteVars, index, gcVars, pins, ledger, kept,
                             root, up, unseen>>
        /\ backup' = [backup EXCEPT !.todo = backup.todo \ {a}] /\ backup.step = "copy"
    BY <1>7 DEF CopyAsset
  <2>2. /\ backup' \in BackupType /\ backup'.step = "copy" /\ backup'.todo \subseteq backup.todo
        /\ backup'.run = backup.run
    BY <1>1, <2>1
  <2>3. BackupInv'
    BY <1>1, <2>1, <2>2 DEF BackupInv
  <2> QED
    BY <1>1, <2>1, <2>2, <2>3, BackupStep
<1>8. CASE PublishBackup
  <2>1. /\ up /\ UNCHANGED <<file, row, catalogVars, siteVars, index, gcVars, ledger, root, up, unseen>>
        /\ kept' = kept \cup {backup.run} /\ ReleasePins /\ backup.todo = {} /\ backup.step = "copy"
        /\ \E s \in {"complete", "fail"} : backup' = [backup EXCEPT !.step = s]
    BY <1>8 DEF PublishBackup
  <2>2. /\ backup' \in BackupType /\ backup'.step \in {"complete", "fail"} /\ backup'.todo = {}
        /\ backup'.run = backup.run /\ backup.run \in Backups
    BY <1>1, <2>1 DEF BackupInv
  <2>3. pins' \in [Backups -> SUBSET Assets] /\ \A b \in Backups : pins'[b] \subseteq row
    BY <1>3, <2>1, <2>2
  <2>4. BackupInv'
    BY <2>1, <2>2, <2>3 DEF BackupInv
  <2> QED
    BY <1>1, <2>1, <2>2, <2>3, <2>4, BackupStep
<1>9. CASE BackupFails
  <2>1. /\ up /\ UNCHANGED <<file, row, catalogVars, siteVars, index, gcVars, ledger, kept, root, up, unseen>>
        /\ ReleasePins /\ backup.step \in {"snapshot", "pin", "copy"}
        /\ backup' = [backup EXCEPT !.step = "fail", !.todo = {}]
    BY <1>9 DEF BackupFails
  <2>2. /\ backup' \in BackupType /\ backup'.step = "fail" /\ backup'.todo = {}
        /\ backup'.run = backup.run /\ backup.run \in Backups
    BY <1>1, <2>1 DEF BackupInv
  <2>3. pins' \in [Backups -> SUBSET Assets] /\ \A b \in Backups : pins'[b] \subseteq row
    BY <1>3, <2>1, <2>2
  <2>4. BackupInv'
    BY <2>1, <2>2, <2>3 DEF BackupInv
  <2> QED
    BY <1>1, <2>1, <2>2, <2>3, <2>4, BackupStep
<1>10. CASE FinishBackupRun
  <2>1. /\ up /\ UNCHANGED <<file, row, catalogVars, siteVars, index, gcVars, pins, kept, root, up, unseen>>
        /\ backup' = NoBackup /\ backup.step \in {"complete", "fail"}
        /\ \/ ledger' = [ledger EXCEPT ![backup.run] =
                           IF backup.step = "complete" THEN "succeeded" ELSE "failed"]
           \/ ledger' = ledger
    BY <1>10 DEF FinishBackupRun
  <2>2. ledger' \in LedgerType
    BY <1>1, <2>1
  <2>3. BackupInv'
    BY <1>1, <1>2, <2>1 DEF BackupInv
  <2> QED
    BY <1>1, <1>2, <2>1, <2>2, <2>3, BackupStep
<1>11. CASE ReconcileRuns
  <2>1. /\ up /\ UNCHANGED <<file, row, catalogVars, siteVars, index, gcVars, pins, backup, kept,
                             root, up, unseen>>
        /\ \E S \in SUBSET kept : ledger' = Outcomes(S)
    BY <1>11 DEF ReconcileRuns
  <2>2. ledger' \in LedgerType
    BY <1>1, <2>1 DEF Outcomes
  <2>3. BackupInv'
    BY <1>1, <2>1 DEF BackupInv
  <2> QED
    BY <1>1, <2>1, <2>2, <2>3, BackupStep
<1> QED
  BY <1>4, <1>5, <1>6, <1>7, <1>8, <1>9, <1>10, <1>11 DEF Backing

LEMMA CrashStep ==
  ASSUME AssetInv, Crash
  PROVE  AssetInv'
<1>1. /\ TypeOK
      /\ file' = [a \in Assets |-> IF file[a] = "uploading" THEN "stray" ELSE file[a]]
      /\ unit' = [p \in Products |-> NoUnit] /\ switch' = NoSwitch
      /\ index' = Down /\ gc' = Idle /\ backup' = NoBackup /\ up' = FALSE
      /\ UNCHANGED <<row, images, published, active, working, versions, site, orphan, queue,
                     pins, ledger, kept, root, unseen>>
  BY DEF AssetInv, Crash
<1>2. /\ unit' \in [Products -> [assets: View, what: Phase]]
      /\ \A p \in Products : unit'[p].what = "none"
  BY <1>1 DEF NoUnit, View, Phase
<1>3. /\ switch' \in [site: View, what: Phase, units: [Products -> View]]
      /\ switch'.what = "none"
  BY <1>1 DEF NoSwitch, View, Phase
<1>4. index' \in Index
  BY <1>1, FullIndexTyped DEF TypeOK, View
<1>5. /\ gc' \in [step: {"idle", "list", "remove", "record"}, todo: Seq(Assets), ok: BOOLEAN]
      /\ gc'.step = "idle" /\ Elements(gc'.todo) = {}
  BY <1>1 DEF Idle, Elements
<1>6. /\ backup' \in [run: Backups \cup {None}, todo: SUBSET Assets,
                      step: {"idle", "snapshot", "pin", "copy", "complete", "fail"}]
      /\ backup'.step = "idle" /\ backup'.todo = {}
  BY <1>1 DEF NoBackup
<1>7. /\ file' \in [Assets -> {"unused", "uploading", "stray", "stored", "deleted"}]
      /\ \A a \in Assets : file[a] \in {"stored", "deleted"} => file'[a] = file[a]
  BY <1>1 DEF TypeOK
<1>8. TypeOK'
  BY <1>1, <1>2, <1>3, <1>4, <1>5, <1>6, <1>7 DEF TypeOK
<1>9. FileInv'
  BY <1>1, <1>7 DEF AssetInv, FileInv, TypeOK
<1>10. CollectorInv'
  <2>1. Elements(queue) \subseteq Assets
    BY <1>1, SeqElements DEF TypeOK
  <2>2. CollectorInv
    BY DEF AssetInv
  <2> QED
    BY <1>1, <1>5, <1>7, <2>1, <2>2 DEF CollectorInv
<1>11. ReferenceInv'
  BY <1>1, <1>2, <1>3 DEF AssetInv, ReferenceInv
<1>12. BackupInv' /\ MarkInv'
  BY <1>1, <1>6 DEF AssetInv, BackupInv, MarkInv
<1> QED
  BY <1>8, <1>9, <1>10, <1>11, <1>12 DEF AssetInv

LEMMA RestartStep ==
  ASSUME AssetInv, Restart
  PROVE  AssetInv'
<1>1. /\ TypeOK /\ index' = FullIndex(active, site) /\ up' = TRUE
      /\ pins' = [b \in Backups |-> {}] /\ ~up
      /\ UNCHANGED <<file, row, images, published, unit, active, working, versions, site, switch,
                     orphan, queue, gc, backup, ledger, kept, root, unseen>>
  BY DEF AssetInv, Restart, catalogVars, siteVars, gcVars
<1>2. index' \in Index
  BY <1>1, FullIndexTyped DEF TypeOK
<1>3. TypeOK'
  BY <1>1, <1>2 DEF TypeOK
<1>4. FileInv' /\ ReferenceInv' /\ MarkInv' /\ CollectorInv'
  BY <1>1 DEF AssetInv, FileInv, ReferenceInv, MarkInv, CollectorInv
<1>5. BackupInv'
  BY <1>1 DEF AssetInv, BackupInv
<1> QED
  BY <1>3, <1>4, <1>5 DEF AssetInv

LEMMA TickStep ==
  ASSUME AssetInv, Tick
  PROVE  AssetInv'
<1>1. /\ TypeOK /\ MarkInv
      /\ orphan' = [a \in Assets |-> Later(orphan[a])]
      /\ unseen' = [a \in Assets |-> IF a \in row THEN Later(unseen[a]) ELSE unseen[a]]
      /\ UNCHANGED <<file, row, images, published, unit, active, working, versions, site, switch,
                     index, queue, gc, pins, backup, ledger, kept, root, up>>
  BY DEF AssetInv, Tick, catalogVars, siteVars, backupVars
<1>2. /\ orphan \in [Assets -> (0..Grace) \cup {None}] /\ unseen \in [Assets -> 0..Grace]
      /\ Grace \in Nat \ {0} /\ \A n \in 0..Grace : n # None
  BY <1>1, AssetAssumption DEF TypeOK
<1>3. /\ Later(None) = None
      /\ \A n \in 0..Grace : Later(n) \in 0..Grace /\ Later(n) = IF n < Grace THEN n + 1 ELSE n
  BY <1>2 DEF Later
<1>4. \A n, m \in 0..Grace : n <= m => Later(n) <= Later(m)
  BY <1>2, <1>3
<1>5. orphan' \in [Assets -> (0..Grace) \cup {None}] /\ unseen' \in [Assets -> 0..Grace]
  BY <1>1, <1>2, <1>3
<1>6. TypeOK'
  BY <1>1, <1>5 DEF TypeOK
<1>7. MarkInv'
  BY <1>1, <1>2, <1>3, <1>4 DEF MarkInv
<1>8. FileInv' /\ ReferenceInv' /\ BackupInv' /\ CollectorInv'
  BY <1>1 DEF AssetInv, FileInv, ReferenceInv, BackupInv, CollectorInv
<1> QED
  BY <1>6, <1>7, <1>8 DEF AssetInv

-----------------------------------------------------------------------------
(* The theorems *)

LEMMA InitAssets ==
  ASSUME Init
  PROVE  AssetInv
<1>1. NoUnit \in [assets: View, what: Phase] /\ NoUnit.what = "none"
  BY DEF NoUnit, View, Phase
<1>2. /\ NoSwitch \in [site: View, what: Phase, units: [Products -> View]]
      /\ NoSwitch.what = "none"
  BY DEF NoSwitch, View, Phase
<1>3. /\ Idle \in [step: {"idle", "list", "remove", "record"}, todo: Seq(Assets), ok: BOOLEAN]
      /\ Idle.step = "idle" /\ Elements(Idle.todo) = {} /\ Elements(<<>>) = {} /\ <<>> \in Seq(Assets)
  BY DEF Idle, Elements
<1>4. /\ NoBackup \in [run: Backups \cup {None}, todo: SUBSET Assets,
                       step: {"idle", "snapshot", "pin", "copy", "complete", "fail"}]
      /\ NoBackup.step = "idle" /\ NoBackup.todo = {}
  BY DEF NoBackup
<1>5. [Down EXCEPT !.up = TRUE] \in Index
  <2>1. active \in [Products -> View] /\ {} \in SUBSET Assets
    BY DEF Init, View
  <2>2. Down \in Index
    BY <2>1, FullIndexTyped
  <2> QED
    BY <2>2 DEF Index
<1>6. Grace \in Nat /\ 0 \in 0..Grace
  BY AssetAssumption
<1>7. TypeOK
  BY <1>1, <1>2, <1>3, <1>4, <1>5, <1>6 DEF Init, TypeOK, View
<1>8. FileInv /\ CollectorInv
  BY <1>3 DEF Init, FileInv, CollectorInv
<1>9. ReferenceInv
  BY <1>1, <1>2 DEF Init, ReferenceInv
<1>10. BackupInv /\ MarkInv
  BY <1>4 DEF Init, BackupInv, MarkInv
<1> QED
  BY <1>7, <1>8, <1>9, <1>10 DEF AssetInv

LEMMA NextAssets ==
  ASSUME AssetInv, [Next]_vars
  PROVE  AssetInv'
<1>1. CASE ToggleRoot \/ UNCHANGED vars
  <2>1. /\ UNCHANGED <<file, row, images, published, unit, active, working, versions, site, switch,
                       index, orphan, queue, gc, pins, backup, ledger, kept, up, unseen>>
        /\ root' \in BOOLEAN
    BY <1>1 DEF ToggleRoot, vars, catalogVars, siteVars, gcVars, backupVars, AssetInv, TypeOK
  <2>2. TypeOK'
    BY <2>1 DEF AssetInv, TypeOK
  <2>3. FileInv' /\ CollectorInv' /\ ReferenceInv' /\ BackupInv' /\ MarkInv'
    BY <2>1 DEF AssetInv, FileInv, CollectorInv, ReferenceInv, BackupInv, MarkInv
  <2> QED
    BY <2>2, <2>3 DEF AssetInv
<1>2. ASSUME NEW a \in Assets, StoreFile(a) \/ CreateAsset(a) PROVE AssetInv'
  BY <1>2, StoreFileStep, CreateAssetStep
<1>3. ASSUME NEW p \in Products, NEW a \in Assets, AddProductImage(p, a) \/ DeleteProductImage(p, a)
      PROVE  AssetInv'
  BY <1>3, ImageStep
<1>4. ASSUME NEW p \in Products, Publish(p) \/ Revoke(p) \/ Stage(p) \/ ActivatePublication(p)
      PROVE  AssetInv'
  BY <1>4, VisibilityStep, StageStep, ActivateStep
<1>5. CASE SaveWebsiteWorking \/ RestoreWebsiteVersion
  BY <1>5, WorkingStep DEF SaveWebsiteWorking, RestoreWebsiteVersion
<1>6. CASE BeginSwitch \/ ActivateSiteRoutes
  BY <1>6, BeginSwitchStep, ActivateSiteStep
<1>7. CASE Collect
  BY <1>7, CollectStep
<1>8. CASE (\E b \in Backups : ClaimBackupRun(b)) \/ Backing \/ ReconcileRuns
  BY <1>8, BackingStep
<1>9. CASE Crash \/ Restart \/ Tick
  BY <1>9, CrashStep, RestartStep, TickStep
<1> QED
  BY <1>1, <1>2, <1>3, <1>4, <1>5, <1>6, <1>7, <1>8, <1>9 DEF Next

\* The inductive invariant holds of every run, for any number of assets, products and
\* backups: asset_gc_store.go, backup.go and the checks of the places that refer to assets.
THEOREM AssetInvariant == Spec => []AssetInv
<1>1. Init => AssetInv
  BY InitAssets
<1>2. AssetInv /\ [Next]_vars => AssetInv'
  BY NextAssets
<1> QED
  BY <1>1, <1>2, PTL DEF Spec

\* What a product, a configuration or a public page refers to has its row and its file:
\* a reference is made only to a row, and no row is deleted that loadProtectedAssetIDs
\* finds or that a staged unit or a candidate site may still bring back.
THEOREM ReferencesHold == Spec => []UsedAssetsKept
<1>1. AssetInv => UsedAssetsKept
  <2>1. ASSUME AssetInv, NEW a \in Used PROVE a \in row /\ file[a] = "stored"
    <3>1. ReferenceInv /\ FileInv
      BY <2>1 DEF AssetInv
    <3>2. ASSUME a \in Assigned(active) PROVE a \in row
      <4>1. PICK p \in Products : active[p] # None /\ a \in active[p]
        BY <3>2 DEF Assigned
      <4>2. active[p] \subseteq row
        BY <3>1, <4>1 DEF ReferenceInv
      <4> QED
        BY <4>1, <4>2
    <3>3. ASSUME a \in UNION {images[p] : p \in Products} PROVE a \in row
      <4>1. PICK p \in Products : a \in images[p]
        BY <3>3
      <4>2. images[p] \subseteq row
        BY <3>1, <4>1 DEF ReferenceInv
      <4> QED
        BY <4>1, <4>2
    <3>4. ASSUME a \in working \cup (UNION versions) \cup site PROVE a \in row
      BY <3>1, <3>4 DEF ReferenceInv
    <3>5. a \in row
      BY <2>1, <3>2, <3>3, <3>4 DEF Used
    <3> QED
      BY <3>1, <3>5 DEF FileInv
  <2> QED
    BY <2>1 DEF UsedAssetsKept
<1> QED
  BY <1>1, AssetInvariant, PTL

\* From its snapshot until it is done a backup finds every file of its snapshot: the lock
\* of SnapshotWithAssetPins and then the pins keep the collector away.
THEOREM SnapshotsAreCopied == Spec => []BackupFindsFiles
<1>1. AssetInv => BackupFindsFiles
  <2>1. ASSUME AssetInv, NEW a \in backup.todo PROVE file[a] = "stored"
    <3>1. BackupInv /\ FileInv
      BY <2>1 DEF AssetInv
    <3>2. CASE backup.step = "pin"
      BY <2>1, <3>1, <3>2 DEF BackupInv, FileInv
    <3>3. CASE backup.step = "copy"
      BY <2>1, <3>1, <3>3 DEF BackupInv, FileInv
    <3>4. CASE backup.step \notin {"pin", "copy"}
      BY <2>1, <3>1, <3>4 DEF BackupInv
    <3> QED
      BY <3>2, <3>3, <3>4
  <2> QED
    BY <2>1 DEF BackupFindsFiles
<1> QED
  BY <1>1, AssetInvariant, PTL

\* No row is deleted before the grace period is over since a cycle of the collector last
\* found the asset in use: a mark is dropped by the cycle that finds its asset protected.
THEOREM GraceIsKept == Spec => GraceKept
<1>1. ASSUME AssetInv, [Next]_vars, NEW a \in row \ row' PROVE unseen[a] >= Grace
  <2>1. Plan
    BY <1>1 DEF Next, vars, catalogVars, siteVars, gcVars, backupVars, StoreFile, CreateAsset,
       AddProductImage, DeleteProductImage, Publish, Revoke, Stage, ActivatePublication,
       SaveWebsiteWorking, RestoreWebsiteVersion, SetWorking, BeginSwitch, ActivateSiteRoutes,
       Collect, ListPending, RemoveFile, RecordDeletion, ClaimBackupRun, Backing, Snapshot,
       PinAssets, CopyAsset, PublishBackup, BackupFails, FinishBackupRun, ReconcileRuns,
       Crash, Restart, ToggleRoot, Tick
  <2>2. TypeOK /\ MarkInv
    BY <1>1 DEF AssetInv
  <2>3. a \in Expired
    BY <1>1, <2>1, <2>2, PlanEffect
  <2>4. a \in Assets /\ orphan[a] # None /\ orphan[a] >= Grace
    BY <2>2, <2>3 DEF Expired, TypeOK
  <2>5. orphan[a] <= unseen[a] /\ orphan[a] \in 0..Grace /\ unseen[a] \in 0..Grace
    BY <2>2, <2>4 DEF MarkInv, TypeOK
  <2> QED
    BY <2>4, <2>5, AssetAssumption
<1>2. AssetInv /\ [Next]_vars => [\A a \in row \ row' : unseen[a] >= Grace]_vars
  BY <1>1
<1> QED
  BY <1>2, AssetInvariant, PTL DEF Spec, GraceKept

-----------------------------------------------------------------------------
(* What the index serves *)

LEMMA FullIndexServes ==
  ASSUME NEW act, NEW conf
  PROVE  Consistent(FullIndex(act, conf), act, conf)
<1> DEFINE listed == {p \in Products : act[p] # None /\ Valid(act[p])}
           shown == [p \in Products |-> IF p \in listed THEN act[p] ELSE None]
           refs == [a \in Assets |->
                      Cardinality({p \in listed : a \in act[p]}) + One(a, conf)]
           served == conf \cup UNION {act[p] : p \in listed}
           x == [up |-> TRUE, assets |-> shown, refs |-> refs, served |-> served]
<1>1. FullIndex(act, conf) = IF ~Valid(conf) THEN Down ELSE x
  BY DEF FullIndex
<1>2. CASE ~Valid(conf)
  BY <1>1, <1>2 DEF Consistent, Down
<1>3. CASE Valid(conf)
  <2>1. \A p \in Products : /\ p \in listed => shown[p] = act[p] /\ act[p] # None
                            /\ p \notin listed => shown[p] = None
    OBVIOUS
  <2>2. served = conf \cup Assigned(shown)
    <3>1. {p \in Products : shown[p] # None} = listed
      BY <2>1
    <3>2. {shown[p] : p \in listed} = {act[p] : p \in listed}
      BY <2>1
    <3> HIDE DEF shown, listed
    <3> QED
      BY <3>1, <3>2 DEF Assigned
  <2>3. ASSUME NEW a \in Assets
        PROVE  refs[a] = Cardinality(Holders(shown, a)) + One(a, conf)
    <3>1. {p \in listed : a \in act[p]} = Holders(shown, a)
      BY <2>1 DEF Holders
    <3> QED
      BY <3>1
  <2> HIDE DEF shown, refs, served, listed
  <2>4. FullIndex(act, conf) = x
    BY <1>1, <1>3
  <2>5. x.served = served /\ x.assets = shown /\ x.refs = refs
    OBVIOUS
  <2> HIDE DEF x
  <2> QED
    BY <2>1, <2>2, <2>3, <2>4, <2>5 DEF Consistent
<1> QED
  BY <1>2, <1>3

\* InstallProductVisibility: replacing the entries of one product amounts to building the
\* index anew, as far as that product can be shown.
LEMMA ProductIndexServes ==
  ASSUME TypeOK, IndexInv, NEW p \in Products, NEW act \in [Products -> View],
         \A q \in Products \ {p} : act[q] = active[q]
  PROVE  Consistent(ProductIndex(p, act), act, site)
<1> DEFINE old == IF index.assets[p] = None THEN {} ELSE index.assets[p]
           new == IF act[p] = None THEN {} ELSE act[p]
           left == [a \in Assets |-> index.refs[a] - One(a, old)]
           f == index.assets
           g == [f EXCEPT ![p] = act[p]]
           refs == [a \in Assets |-> left[a] + One(a, new)]
           served == StillServed(old, left) \cup new
           x == [up |-> TRUE, assets |-> g, refs |-> refs, served |-> served]
<1>1. ProductIndex(p, act) =
        IF ~index.up THEN FullIndex(act, site) ELSE IF ~Valid(new) THEN Down ELSE x
  BY DEF ProductIndex
<1>2. CASE ~index.up
  BY <1>1, <1>2, FullIndexServes
<1>3. CASE index.up /\ ~Valid(new)
  BY <1>1, <1>3 DEF Consistent, Down
<1>4. CASE index.up /\ Valid(new)
  <2>1. /\ index.served = site \cup Assigned(f) /\ index.served \subseteq Assets
        /\ \A q \in Products : f[q] \in {None, active[q]}
        /\ \A a \in Assets : index.refs[a] = Cardinality(Holders(f, a)) + One(a, site)
        /\ f \in [Products -> View]
    BY <1>4 DEF IndexInv, Consistent, TypeOK, Index
  <2>2. /\ g[p] = act[p] /\ \A q \in Products \ {p} : g[q] = f[q]
    BY <2>1
  <2>3. \A q \in Products : g[q] \in {None, act[q]}
    BY <2>1, <2>2
  <2>4. ASSUME NEW a
        PROVE  /\ Holders(g, a) \ {p} = Holders(f, a) \ {p}
               /\ p \in Holders(f, a) <=> a \in old
               /\ p \in Holders(g, a) <=> a \in new
    BY <2>2 DEF Holders
  <2> HIDE DEF old, new, g, f
  <2>5. ASSUME NEW a \in Assets
        PROVE  /\ left[a] = Cardinality(Holders(f, a) \ {p}) + One(a, site)
               /\ refs[a] = Cardinality(Holders(g, a)) + One(a, site)
               /\ left[a] # 0 <=> a \in site \/ Holders(f, a) \ {p} # {}
    <3>1. One(a, site) \in {0, 1} /\ (One(a, site) = 0 <=> a \notin site)
      BY DEF One
    <3>2. /\ One(a, old) = IF p \in Holders(f, a) THEN 1 ELSE 0
          /\ One(a, new) = IF p \in Holders(g, a) THEN 1 ELSE 0
      BY <2>4 DEF One
    <3>3. /\ Cardinality(Holders(f, a)) \in Nat /\ Cardinality(Holders(g, a)) \in Nat
          /\ Cardinality(Holders(f, a) \ {p}) \in Nat
          /\ Cardinality(Holders(f, a) \ {p}) = 0 <=> Holders(f, a) \ {p} = {}
          /\ Cardinality(Holders(f, a)) = Cardinality(Holders(f, a) \ {p})
                                            + (IF p \in Holders(f, a) THEN 1 ELSE 0)
          /\ Cardinality(Holders(g, a)) = Cardinality(Holders(f, a) \ {p})
                                            + (IF p \in Holders(g, a) THEN 1 ELSE 0)
      <4>1. Holders(g, a) \ {p} = Holders(f, a) \ {p}
        BY <2>4
      <4>2. /\ Cardinality(Holders(f, a)) \in Nat
            /\ Cardinality(Holders(f, a) \ {p}) \in Nat
            /\ Cardinality(Holders(f, a) \ {p}) = 0 <=> Holders(f, a) \ {p} = {}
            /\ Cardinality(Holders(f, a)) = Cardinality(Holders(f, a) \ {p})
                                              + (IF p \in Holders(f, a) THEN 1 ELSE 0)
        BY Counts
      <4>3. /\ Cardinality(Holders(g, a)) \in Nat
            /\ Cardinality(Holders(g, a)) = Cardinality(Holders(g, a) \ {p})
                                              + (IF p \in Holders(g, a) THEN 1 ELSE 0)
        BY Counts
      <4> QED
        BY <4>1, <4>2, <4>3
    <3>4. left[a] = Cardinality(Holders(f, a) \ {p}) + One(a, site)
      BY <2>1, <3>1, <3>2, <3>3
    <3>5. refs[a] = left[a] + One(a, new)
      OBVIOUS
    <3> HIDE DEF left, refs
    <3> QED
      BY <3>1, <3>2, <3>3, <3>4, <3>5
  <2>6. served = site \cup Assigned(g)
    <3>1. \A h, a : a \in Assigned(h) <=> Holders(h, a) # {}
      BY DEF Assigned, Holders
    <3>2. ASSUME NEW a PROVE a \in served <=> a \in site \cup Assigned(g)
      <4>1. /\ a \in site \cup Assigned(f) <=> a \in site \/ a \in old \/ Holders(f, a) \ {p} # {}
            /\ a \in site \cup Assigned(g) <=> a \in site \/ a \in new \/ Holders(f, a) \ {p} # {}
        BY <2>4, <3>1
      <4>2. a \in served <=> a \in new \/ (a \in index.served /\ (a \notin old \/ left[a] # 0))
        BY DEF StillServed
      <4>3. a \in index.served => (left[a] # 0 <=> a \in site \/ Holders(f, a) \ {p} # {})
        BY <2>1, <2>5
      <4> HIDE DEF served, left
      <4> QED
        BY <2>1, <4>1, <4>2, <4>3
    <3> HIDE DEF served
    <3> QED
      BY <3>2
  <2> HIDE DEF served, refs, left
  <2>7. ProductIndex(p, act) = x
    BY <1>1, <1>4
  <2>8. x.served = served /\ x.assets = g /\ x.refs = refs
    OBVIOUS
  <2> HIDE DEF x
  <2> QED
    BY <2>3, <2>5, <2>6, <2>7, <2>8 DEF Consistent
<1> QED
  BY <1>2, <1>3, <1>4

LEMMA IndexStep ==
  ASSUME TypeOK, TypeOK', IndexInv, [Next]_vars
  PROVE  IndexInv'
<1>1. CASE UNCHANGED <<index, active, site>>
  BY <1>1 DEF IndexInv, Consistent, Holders, Assigned, One
<1>2. ASSUME NEW p \in Products, Revoke(p) \/ ActivatePublication(p) PROVE IndexInv'
  <2>1. CASE UNCHANGED <<active, index>>
    BY <1>1, <1>2, <2>1 DEF Revoke, ActivatePublication, siteVars
  <2>2. CASE index' = ProductIndex(p, active') /\ \E v : active' = [active EXCEPT ![p] = v]
    <3>1. /\ active' \in [Products -> View] /\ \A q \in Products \ {p} : active'[q] = active[q]
      BY <2>2 DEF TypeOK
    <3>2. Consistent(index', active', site)
      BY <2>2, <3>1, ProductIndexServes
    <3>3. site' = site
      BY <1>2 DEF Revoke, ActivatePublication, siteVars
    <3> QED
      BY <3>2, <3>3 DEF IndexInv, Consistent, Holders, Assigned, One
  <2> QED
    BY <1>2, <2>1, <2>2 DEF Revoke, ActivatePublication
<1>3. ASSUME index' = FullIndex(active', site') PROVE IndexInv'
  <2>1. Consistent(index', active', site')
    BY <1>3, FullIndexServes
  <2> QED
    BY <2>1 DEF IndexInv, Consistent, Holders, Assigned, One
<1>4. CASE ActivateSiteRoutes
  BY <1>1, <1>3, <1>4 DEF ActivateSiteRoutes
<1>5. CASE Restart
  <2>1. UNCHANGED <<active, site>> /\ index' = FullIndex(active, site)
    BY <1>5 DEF Restart, catalogVars, siteVars
  <2> QED
    BY <1>3, <2>1
<1>6. CASE Crash
  <2>1. ~index'.up
    BY <1>6 DEF Crash, Down
  <2> QED
    BY <2>1 DEF IndexInv, Consistent
<1>7. CASE \/ \E a \in Assets : StoreFile(a) \/ CreateAsset(a)
           \/ \E p \in Products, a \in Assets : AddProductImage(p, a) \/ DeleteProductImage(p, a)
           \/ \E p \in Products : Publish(p) \/ Stage(p)
           \/ SaveWebsiteWorking \/ RestoreWebsiteVersion \/ BeginSwitch
  BY <1>1, <1>7 DEF StoreFile, CreateAsset, AddProductImage, DeleteProductImage, Publish, Stage,
     SaveWebsiteWorking, RestoreWebsiteVersion, SetWorking, BeginSwitch, catalogVars, siteVars
<1>8. CASE Collect \/ (\E b \in Backups : ClaimBackupRun(b)) \/ Backing \/ ReconcileRuns
           \/ ToggleRoot \/ Tick \/ UNCHANGED vars
  BY <1>1, <1>8 DEF Collect, Plan, ListPending, RemoveFile, RecordDeletion, ClaimBackupRun,
     Backing, Snapshot, PinAssets, CopyAsset, PublishBackup, BackupFails, FinishBackupRun,
     ReconcileRuns, ToggleRoot, Tick, vars, catalogVars, siteVars
<1> QED
  BY <1>2, <1>4, <1>5, <1>6, <1>7, <1>8 DEF Next

\* However the index was brought up to date, entry by entry (InstallProductVisibility) or at
\* once (installLocked), it serves the assets of the active website and of the listed views
\* and no other.
THEOREM IndexServesTheRows == Spec => []IndexServesPublished
<1>1. Init => IndexInv
  <2>1. ASSUME Init PROVE IndexInv
    <3>1. /\ index.up /\ index.served = {} /\ site = {}
          /\ index.assets = [p \in Products |-> None] /\ index.refs = [a \in Assets |-> 0]
      BY <2>1 DEF Init, Down
    <3>2. Assigned(index.assets) = {} /\ \A a : Holders(index.assets, a) = {} /\ One(a, site) = 0
      BY <3>1 DEF Assigned, Holders, One
    <3>3. Cardinality({}) = 0
      BY FS_EmptySet
    <3> QED
      BY <3>1, <3>2, <3>3 DEF IndexInv, Consistent
  <2> QED
    BY <2>1
<1>2. AssetInv => TypeOK
  BY DEF AssetInv
<1>3. TypeOK /\ TypeOK' /\ IndexInv /\ [Next]_vars => IndexInv'
  BY IndexStep
<1>4. IndexInv => IndexServesPublished
  BY DEF IndexInv, Consistent, IndexServesPublished
<1> QED
  BY <1>1, <1>2, <1>3, <1>4, AssetInvariant, PTL DEF Spec
=============================================================================
