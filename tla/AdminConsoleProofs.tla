------------------------- MODULE AdminConsoleProofs -------------------------
(***************************************************************************)
(* Proofs about AdminConsole, for any number of tabs, sessions, calls in   *)
(* flight and texts, and for every combination of events.                  *)
(***************************************************************************)
EXTENDS AdminConsole, TLAPS

\* An answer is of a revision there has been; of the present one it is exact.
KnownTo(v, w) == v.rev <= w.rev /\ (v.rev = w.rev => v.doc = w.doc)

\* Only an open tab is bound to a session, and shows what that one was told.
\* The forms of the listing and the copy panel have what the panel holds.
GoodTab(v, w) ==
  /\ v.mode = "open" => v.scope \in Sessions
  /\ v.mode # "open" => v.scope = None /\ v.view = NoView
  /\ v.view.rev > 0 => v.from = v.scope
  /\ KnownTo(v.view, w)
  /\ v.panel \in {"listing", "copy"} => v.form = v.view.doc

\* A call belongs to a page that is there; its component edits what it saves.
Placed(q, tb) ==
  /\ q.pc = "idle" => q.tab = None
  /\ q.shown => q.tab # None
  /\ q.tab # None => \/ tb[q.tab].mode = "open"
                     \/ tb[q.tab].mode = "starting" /\ q.what = "session"
  /\ q.shown /\ q.what \in Saves => q.what \in Editable(tb[q.tab].panel)
  /\ q.shown /\ q.what = "css" => tb[q.tab].panel = "website"

\* A call names the session its page is bound to, is served for that session
\* only, and so is answered to it.
Scoped(q, tb) ==
  /\ q.pc \in Serving \cup {"ok"} => q.as \in Sessions
  /\ q.pc \in Serving => q.what \notin Reads /\ q.as = q.scope
  /\ q.what # "session" /\ q.pc \in {"sent"} \cup Serving =>
       q.scope \in Sessions /\ (q.tab # None => q.scope = tb[q.tab].scope)
  /\ q.what # "session" /\ q.pc = "ok" /\ q.tab # None => q.as = tb[q.tab].scope

\* While the revision a save names is the present one, it carries along what
\* the other fields are, and a form that was filled with the view saw the field.
Carried(q, w) ==
  /\ KnownTo(q.got, w)
  /\ q.what \in Saves /\ q.pc \in {"sent", "admitted", "read"} =>
       /\ q.expect <= w.rev
       /\ q.expect = w.rev =>
            /\ \A f \in Fields \ {q.what} : q.put[f] = w.doc[f]
            /\ q.what \notin {"site", "locale"} => q.base = w.doc[q.what]

GoodCall(q, tb, w) == Placed(q, tb) /\ Scoped(q, tb) /\ Carried(q, w)

ConsoleInv ==
  /\ TypeOK
  /\ work.rev >= 1
  /\ \A t \in Tabs : GoodTab(tab[t], work)
  /\ \A c \in Slots : GoodCall(call[c], tab, work)

-----------------------------------------------------------------------------
(* Types *)

LEMMA FieldsNamed ==
  /\ {"site", "profiles", "locale"} \subseteq Fields /\ CopyKeys \subseteq Fields
  /\ Saves = Fields
  /\ NoDoc \in Doc /\ NoView \in View /\ NoView.rev = 0 /\ NoView.doc = NoDoc
BY ConsoleAssumption DEF Fields, Config, Localization, Saves, NoDoc, Doc, NoView, View

LEMMA IdleIs ==
  /\ Idle \in Call /\ Idle.tab = None /\ ~Idle.shown /\ Idle.what = "load" /\ Idle.pc = "idle"
  /\ Idle.got = NoView /\ Idle.expect = 0
BY FieldsNamed, ConsoleAssumption DEF Idle, Call, What, Reads

LEMMA BlankIs ==
  ASSUME NEW mode \in {"closed", "starting", "open"}
  PROVE  /\ Blank(mode) \in Tab /\ Blank(mode).mode = mode /\ Blank(mode).scope = None
         /\ Blank(mode).panel = None /\ Blank(mode).view = NoView /\ Blank(mode).form = NoDoc
BY FieldsNamed, ConsoleAssumption DEF Blank, Tab

LEMMA FetchIs ==
  ASSUME TypeOK, NEW t \in Tabs, NEW what \in What
  PROVE  LET q == Fetch(t, what) IN
         /\ q \in Call
         /\ q.tab = t /\ q.shown /\ q.what = what /\ q.as = cookie /\ q.scope = tab[t].scope
         /\ q.pc = "sent" /\ q.got = NoView /\ q.expect = 0
<1>1. tab[t] \in Tab /\ cookie \in Sessions \cup {None}
  BY DEF TypeOK
<1>2. tab[t].scope \in Sessions \cup {None} /\ tab[t].page \in Sessions \cup {None}
  BY <1>1 DEF Tab
<1>3. Fetch(t, what) \in Call
  BY <1>1, <1>2, IdleIs DEF Fetch, Call
<1>4. QED
  BY <1>3 DEF Fetch, Idle

LEMMA WriteIs ==
  ASSUME TypeOK, NEW t \in Tabs, NEW what \in What, NEW put \in Doc, NEW base \in 0..MaxRev
  PROVE  LET q == Write(t, what, put, base) IN
         /\ q \in Call
         /\ q.tab = t /\ q.shown /\ q.what = what /\ q.as = cookie /\ q.scope = tab[t].scope
         /\ q.pc = "sent" /\ q.got = NoView
         /\ q.expect = tab[t].view.rev /\ q.put = put /\ q.base = base
<1>1. tab[t].view.rev \in 0..MaxRev
  BY DEF TypeOK, Tab, View
<1>2. Fetch(t, what) \in Call
  BY FetchIs
<1>3. Write(t, what, put, base) \in Call
  BY <1>1, <1>2 DEF Write, Call
<1>4. QED
  BY <1>3 DEF Write, Fetch, Idle

\* What an answer or a save under way may hold besides.
LEMMA OverIs ==
  ASSUME NEW q \in Call, NEW pc \in Serving \cup Answers,
         NEW w \in View, NEW s \in Sessions \cup {None},
         NEW o, o \in {Over(q, pc), [Over(q, pc) EXCEPT !.got = w],
                       [Over(q, pc) EXCEPT !.scope = s]}
  PROVE  /\ o \in Call
         /\ o.tab = q.tab /\ o.shown = q.shown /\ o.what = q.what /\ o.as = q.as /\ o.pc = pc
<1>1. Over(q, pc) \in Call
  BY IdleIs, ZenonT(60) DEF Over, Call
<1>2. o \in Call
  BY <1>1 DEF Call
<1>3. QED
  BY <1>2, ZenonT(60) DEF Over, Idle

LEMMA OverHolds ==
  ASSUME NEW q \in Call, NEW pc, NEW w, NEW s
  PROVE  /\ Over(q, pc).got = NoView
         /\ [Over(q, pc) EXCEPT !.got = w].got = w
         /\ [Over(q, pc) EXCEPT !.scope = s].got = NoView
         /\ [Over(q, pc) EXCEPT !.scope = s].scope = s
BY DEF Over, Idle

LEMMA OrphanIs ==
  ASSUME NEW q \in Call
  PROVE  /\ Orphan(q) \in Call /\ Orphan(q).tab = None /\ ~Orphan(q).shown
         /\ Orphan(q) # Idle =>
              /\ q.what \notin Reads
              /\ Orphan(q) = [q EXCEPT !.tab = None, !.shown = FALSE]
<1> DEFINE o == [q EXCEPT !.tab = None, !.shown = FALSE]
<1>1. Orphan(q) = Idle \/ (q.what \notin Reads /\ Orphan(q) = o)
  BY DEF Orphan, Reads
<1>2. o \in Call
  BY DEF Call
<1>3. o.tab = None /\ ~o.shown
  BY DEF Call
<1> HIDE DEF o
<1>4. /\ Orphan(q) \in Call /\ Orphan(q).tab = None /\ ~Orphan(q).shown
  BY <1>1, <1>2, <1>3, IdleIs
<1>5. QED
  BY <1>1, <1>4 DEF o

-----------------------------------------------------------------------------
(* Calls *)

LEMMA IdleGood ==
  ASSUME NEW tb, NEW w \in View, w.rev >= 1
  PROVE  GoodCall(Idle, tb, w)
<1>1. Placed(Idle, tb)
  BY IdleIs DEF Placed
<1>2. Scoped(Idle, tb)
  BY IdleIs DEF Scoped, Serving
<1>3. Carried(Idle, w)
  BY IdleIs, FieldsNamed DEF Carried, KnownTo, View
<1>4. QED
  BY <1>1, <1>2, <1>3 DEF GoodCall

\* What another tab does is no matter to a call.
LEMMA Elsewhere ==
  ASSUME ConsoleInv, NEW q \in Call, GoodCall(q, tab, work), NEW t \in Tabs, NEW v, q.tab # t
  PROVE  GoodCall(q, [tab EXCEPT ![t] = v], work)
<1> DEFINE tb == [tab EXCEPT ![t] = v]
<1>1. q.tab # None => tb[q.tab] = tab[q.tab]
  BY DEF ConsoleInv, TypeOK, Call
<1>2. q.shown => q.tab # None
  BY DEF GoodCall, Placed
<1> HIDE DEF tb
<1>3. Placed(q, tb)
  BY <1>1, <1>2 DEF GoodCall, Placed
<1>4. Scoped(q, tb)
  BY <1>1, <1>2 DEF GoodCall, Scoped
<1>5. QED
  BY <1>3, <1>4 DEF GoodCall, tb

LEMMA OrphanGood ==
  ASSUME ConsoleInv, NEW q \in Call, GoodCall(q, tab, work), NEW tb
  PROVE  GoodCall(Orphan(q), tb, work)
<1>1. CASE Orphan(q) = Idle
  BY <1>1, IdleGood DEF ConsoleInv, TypeOK
<1>2. CASE Orphan(q) # Idle
  <2>1. /\ Orphan(q) = [q EXCEPT !.tab = None, !.shown = FALSE]
        /\ Orphan(q).tab = None /\ ~Orphan(q).shown
    BY <1>2, OrphanIs
  <2>2. /\ Orphan(q).pc = q.pc /\ Orphan(q).what = q.what /\ Orphan(q).as = q.as
        /\ Orphan(q).scope = q.scope /\ Orphan(q).got = q.got /\ Orphan(q).expect = q.expect
        /\ Orphan(q).put = q.put /\ Orphan(q).base = q.base
    BY <2>1 DEF Call
  <2>3. Placed(Orphan(q), tb)
    BY <2>1 DEF Placed
  <2>4. Scoped(Orphan(q), tb)
    BY <2>1, <2>2 DEF GoodCall, Scoped
  <2>5. Carried(Orphan(q), work)
    BY <2>2 DEF GoodCall, Carried
  <2>6. QED
    BY <2>3, <2>4, <2>5 DEF GoodCall
<1>3. QED
  BY <1>1, <1>2

LEMMA FetchGood ==
  ASSUME ConsoleInv, NEW t \in Tabs, NEW what \in What \ Saves,
         \/ tab[t].mode = "open"
         \/ tab[t].mode = "starting" /\ what = "session",
         what = "css" => tab[t].panel = "website"
  PROVE  GoodCall(Fetch(t, what), tab, work)
<1> DEFINE q == Fetch(t, what)
<1>1. /\ q.tab = t /\ q.shown /\ q.what = what /\ q.scope = tab[t].scope
      /\ q.pc = "sent" /\ q.got = NoView
  BY FetchIs DEF ConsoleInv
<1>2. GoodTab(tab[t], work) /\ work \in View /\ work.rev >= 1
  BY DEF ConsoleInv, TypeOK
<1> HIDE DEF q
<1>3. Placed(q, tab)
  BY <1>1, ConsoleAssumption DEF Placed
<1>4. Scoped(q, tab)
  BY <1>1, <1>2 DEF Scoped, GoodTab, Serving
<1>5. Carried(q, work)
  BY <1>1, <1>2, FieldsNamed DEF Carried, KnownTo, View
<1>6. QED
  BY <1>3, <1>4, <1>5 DEF GoodCall, q

LEMMA WriteGood ==
  ASSUME ConsoleInv, NEW t \in Tabs, NEW what \in Saves \cup {"restore"},
         NEW put \in Doc, NEW base \in 0..MaxRev, tab[t].mode = "open",
         what \in Saves =>
           /\ what \in Editable(tab[t].panel)
           /\ \A f \in Fields \ {what} : put[f] = tab[t].view.doc[f]
           /\ what \notin {"site", "locale"} => base = tab[t].view.doc[what]
  PROVE  GoodCall(Write(t, what, put, base), tab, work)
<1> DEFINE q == Write(t, what, put, base)
<1>1. /\ q.tab = t /\ q.shown /\ q.what = what /\ q.scope = tab[t].scope
      /\ q.pc = "sent" /\ q.got = NoView
      /\ q.expect = tab[t].view.rev /\ q.put = put /\ q.base = base
  BY WriteIs DEF ConsoleInv, What
<1>2. GoodTab(tab[t], work) /\ work \in View /\ work.rev >= 1
  BY DEF ConsoleInv, TypeOK
<1>3. what # "css"
  BY ConsoleAssumption DEF Saves
<1> HIDE DEF q
<1>4. Placed(q, tab)
  BY <1>1, <1>3, ConsoleAssumption DEF Placed
<1>5. Scoped(q, tab)
  BY <1>1, <1>2 DEF Scoped, GoodTab, Serving
<1>6. KnownTo(q.got, work)
  BY <1>1, <1>2, FieldsNamed DEF KnownTo, View
<1>7. KnownTo(tab[t].view, work)
  BY <1>2 DEF GoodTab
<1>8. Carried(q, work)
  BY <1>1, <1>6, <1>7 DEF Carried, KnownTo
<1>9. QED
  BY <1>4, <1>5, <1>8 DEF GoodCall, q

\* What is answered: a refusal, or the working copy to whom it was served for.
LEMMA OverGood ==
  ASSUME ConsoleInv, NEW q \in Call, GoodCall(q, tab, work),
         NEW pc \in Answers, NEW o, o \in {Over(q, pc), [Over(q, pc) EXCEPT !.got = work]},
         pc = "ok" =>
           \/ q.pc \in Serving
           \/ /\ q.pc = "sent" /\ q.as \in Sessions
              /\ q.what = "session" \/ q.as = q.scope
  PROVE  GoodCall(o, tab, work)
<1>0. work \in View /\ work.rev >= 1
  BY DEF ConsoleInv, TypeOK
<1>1. /\ o.tab = q.tab /\ o.shown = q.shown /\ o.what = q.what /\ o.as = q.as /\ o.pc = pc
  BY OverIs, <1>0, ConsoleAssumption
<1>2. o.got \in {NoView, work}
  BY DEF Over, Idle
<1>3. pc \notin Serving \cup {"idle", "sent"}
  BY DEF Answers, Serving
<1>4. Placed(o, tab)
  BY <1>1, <1>3 DEF Placed, GoodCall
<1>5. pc = "ok" => q.as \in Sessions /\ (q.what # "session" /\ q.tab # None => q.as = tab[q.tab].scope)
  BY DEF GoodCall, Scoped
<1>6. Scoped(o, tab)
  BY <1>1, <1>3, <1>5 DEF Scoped
<1>7. Carried(o, work)
  BY <1>0, <1>1, <1>2, <1>3, FieldsNamed DEF Carried, KnownTo, View, Serving
<1>8. QED
  BY <1>4, <1>6, <1>7 DEF GoodCall

\* What is done is known to the server only.
LEMMA SavedGood ==
  ASSUME ConsoleInv, NEW q \in Call, GoodCall(q, tab, work), q.pc \in {"admitted", "read"},
         NEW w, w \in View, w.rev >= 1
  PROVE  LET o == [Over(q, "saved") EXCEPT !.scope = q.scope] IN
         o \in Call /\ GoodCall(o, tab, w)
<1> DEFINE o == [Over(q, "saved") EXCEPT !.scope = q.scope]
<1>1. "saved" \in Serving /\ "admitted" \in Serving /\ "read" \in Serving
      /\ q.scope \in Sessions \cup {None} /\ work \in View
  BY DEF Serving, Call, ConsoleInv, TypeOK
<1>2. /\ o \in Call
      /\ o.tab = q.tab /\ o.shown = q.shown /\ o.what = q.what /\ o.as = q.as /\ o.pc = "saved"
  BY <1>1, OverIs
<1>3. o.got = NoView /\ o.scope = q.scope
  BY OverHolds
<1> HIDE DEF o
<1>4. Placed(o, tab)
  BY <1>2 DEF GoodCall, Placed
<1>5. Scoped(o, tab)
  BY <1>1, <1>2, <1>3 DEF GoodCall, Scoped
<1>6. Carried(o, w)
  BY <1>2, <1>3, FieldsNamed DEF Carried, KnownTo, View
<1>7. QED
  BY <1>2, <1>4, <1>5, <1>6 DEF GoodCall, o

-----------------------------------------------------------------------------
(* Steps *)

\* Steps that take one call further.
LEMMA CallStep ==
  ASSUME ConsoleInv, NEW c \in Slots, NEW q \in Call, GoodCall(q, tab, work),
         call' = [call EXCEPT ![c] = q],
         cookie' \in Sessions \cup {None},
         session' \in [Sessions -> {"unused", "valid", "ended"}],
         work' = work, past' = past, tab' = tab
  PROVE  ConsoleInv'
<1>1. call' \in [Slots -> Call]
  BY DEF ConsoleInv, TypeOK
<1>2. TypeOK'
  BY <1>1 DEF ConsoleInv, TypeOK
<1>3. \A d \in Slots : call'[d] = IF d = c THEN q ELSE call[d]
  BY DEF ConsoleInv, TypeOK
<1>4. \A d \in Slots : GoodCall(call'[d], tab', work')
  BY <1>3 DEF ConsoleInv
<1>5. \A t \in Tabs : GoodTab(tab'[t], work')
  BY DEF ConsoleInv
<1>6. work'.rev >= 1
  BY DEF ConsoleInv
<1>7. QED
  BY <1>2, <1>4, <1>5, <1>6 DEF ConsoleInv

\* Steps that change what one tab shows.
LEMMA TabStep ==
  ASSUME ConsoleInv, NEW t \in Tabs, NEW v \in Tab, GoodTab(v, work),
         tab' = [tab EXCEPT ![t] = v], work' = work, past' = past,
         cookie' \in Sessions \cup {None}, session' = session,
         \A d \in Slots : call'[d] \in Call /\ GoodCall(call'[d], tab', work),
         call' = [d \in Slots |-> call'[d]]
  PROVE  ConsoleInv'
<1>1. call' \in [Slots -> Call]
  OBVIOUS
<1>2. tab' \in [Tabs -> Tab]
  BY DEF ConsoleInv, TypeOK
<1>3. TypeOK'
  BY <1>1, <1>2 DEF ConsoleInv, TypeOK
<1>4. \A u \in Tabs : tab'[u] = IF u = t THEN v ELSE tab[u]
  BY DEF ConsoleInv, TypeOK
<1>5. \A u \in Tabs : GoodTab(tab'[u], work')
  BY <1>4 DEF ConsoleInv
<1>6. work'.rev >= 1 /\ \A d \in Slots : GoodCall(call'[d], tab', work')
  BY DEF ConsoleInv
<1>7. QED
  BY <1>3, <1>5, <1>6 DEF ConsoleInv

\* A page that ends: its calls are orphans, those of other pages go on.
LEMMA PageEnds ==
  ASSUME ConsoleInv, NEW t \in Tabs,
         tab' = [tab EXCEPT ![t] = Blank("closed")],
         \A d \in Slots : call'[d] \in {Idle, CallsWithout(t)[d]},
         call' = [d \in Slots |-> call'[d]],
         work' = work, past' = past, cookie' \in Sessions \cup {None}, session' = session
  PROVE  ConsoleInv'
<1>1. Blank("closed") \in Tab /\ GoodTab(Blank("closed"), work)
  <2>1. work \in View /\ work.rev >= 1
    BY DEF ConsoleInv, TypeOK
  <2>2. QED
    BY <2>1, BlankIs, FieldsNamed, ConsoleAssumption DEF GoodTab, KnownTo, View
<1>2. ASSUME NEW d \in Slots
      PROVE  call'[d] \in Call /\ GoodCall(call'[d], tab', work)
  <2>1. call[d] \in Call /\ GoodCall(call[d], tab, work) /\ work \in View /\ work.rev >= 1
    BY DEF ConsoleInv, TypeOK
  <2>2. \/ call'[d] = Idle
        \/ call'[d] = Orphan(call[d])
        \/ call'[d] = call[d] /\ call[d].tab # t
    BY DEF CallsWithout
  <2>3. CASE call'[d] = Idle
    BY <2>1, <2>3, IdleIs, IdleGood
  <2>4. CASE call'[d] = Orphan(call[d])
    <3>1. GoodCall(Orphan(call[d]), tab', work)
      BY <2>1, OrphanGood
    <3>2. Orphan(call[d]) \in Call
      BY <2>1, OrphanIs
    <3>3. QED
      BY <2>4, <3>1, <3>2
  <2>5. CASE call'[d] = call[d] /\ call[d].tab # t
    BY <2>1, <2>5, Elsewhere
  <2>6. QED
    BY <2>2, <2>3, <2>4, <2>5
<1>3. QED
  BY <1>1, <1>2, TabStep

\* A page that is open has been bound to a session; what is loaded has a
\* revision, what is in flight has its types.
LEMMA Known ==
  ASSUME ConsoleInv
  PROVE  /\ work \in View /\ work.rev \in 1..MaxRev /\ work.doc \in Doc
         /\ cookie \in Sessions \cup {None}
         /\ session \in [Sessions -> {"unused", "valid", "ended"}]
         /\ \A t \in Tabs : /\ tab[t] \in Tab /\ GoodTab(tab[t], work)
                            /\ tab[t].view \in View /\ tab[t].view.rev \in 0..MaxRev
                            /\ tab[t].view.doc \in Doc /\ tab[t].form \in Doc
         /\ \A c \in Slots : /\ call[c] \in Call /\ GoodCall(call[c], tab, work)
                             /\ call[c].tab \in Tabs \cup {None} /\ call[c].what \in What
                             /\ call[c].put \in Doc
<1>1. work \in View /\ work.rev >= 1 /\ MaxRev \in Nat
  BY ConsoleAssumption DEF ConsoleInv, TypeOK
<1>2. work.rev \in 1..MaxRev /\ work.doc \in Doc
  BY <1>1 DEF View
<1>3. ASSUME NEW t \in Tabs
      PROVE  /\ tab[t] \in Tab /\ GoodTab(tab[t], work)
             /\ tab[t].view \in View /\ tab[t].view.rev \in 0..MaxRev
             /\ tab[t].view.doc \in Doc /\ tab[t].form \in Doc
  BY DEF ConsoleInv, TypeOK, Tab, View
<1>4. ASSUME NEW c \in Slots
      PROVE  /\ call[c] \in Call /\ GoodCall(call[c], tab, work)
             /\ call[c].tab \in Tabs \cup {None} /\ call[c].what \in What
             /\ call[c].put \in Doc
  BY DEF ConsoleInv, TypeOK, Call
<1>5. QED
  BY <1>1, <1>2, <1>3, <1>4 DEF ConsoleInv, TypeOK

LEMMA InitInv == Init => ConsoleInv
<1> SUFFICES ASSUME Init PROVE ConsoleInv
  OBVIOUS
<1>1. work \in View /\ work.rev = 1 /\ work.doc \in Doc
  BY ConsoleAssumption DEF Init, View, Doc
<1>2. past \in [1..MaxRev -> Doc]
  BY <1>1, FieldsNamed DEF Init
<1>3. Blank("closed") \in Tab /\ GoodTab(Blank("closed"), work)
  BY <1>1, BlankIs, FieldsNamed, ConsoleAssumption DEF GoodTab, KnownTo, View
<1>4. Idle \in Call /\ GoodCall(Idle, tab, work)
  BY <1>1, IdleIs, IdleGood
<1>5. TypeOK
  BY <1>1, <1>2, <1>3, <1>4 DEF TypeOK, Init
<1>6. \A t \in Tabs : GoodTab(tab[t], work)
  BY <1>3 DEF Init
<1>7. \A c \in Slots : call[c] = Idle
  BY DEF Init
<1>8. QED
  BY <1>1, <1>4, <1>5, <1>6, <1>7 DEF ConsoleInv

LEMMA PageCalls ==
  ASSUME ConsoleInv, NEW t \in Tabs, NEW c \in Slots,
         \/ CheckSession(t, c) \/ Logout(t, c) \/ SetCustomCSS(t, c)
         \/ \E f \in Fields, edited \in BOOLEAN : Save(t, c, f, edited)
         \/ \E v \in 1..MaxRev : RestoreVersion(t, c, v)
  PROVE  ConsoleInv'
<1>1. ASSUME NEW what \in {"session", "logout", "css"}, call' = [call EXCEPT ![c] = Fetch(t, what)],
             UNCHANGED <<cookie, session, work, past, tab>>,
             \/ tab[t].mode = "open"
             \/ tab[t].mode = "starting" /\ what = "session",
             what = "css" => tab[t].panel = "website"
      PROVE  ConsoleInv'
  <2>1. what \in What \ Saves
    BY ConsoleAssumption DEF What, Reads, Saves
  <2>2. Fetch(t, what) \in Call
    BY <2>1, FetchIs DEF ConsoleInv
  <2>3. GoodCall(Fetch(t, what), tab, work)
    BY <1>1, <2>1, FetchGood
  <2>4. QED
    BY <1>1, <2>2, <2>3, CallStep, Known
<1>2. ASSUME NEW what \in Saves \cup {"restore"}, NEW put \in Doc, NEW base \in 0..MaxRev,
             call' = [call EXCEPT ![c] = Write(t, what, put, base)],
             UNCHANGED <<cookie, session, work, past, tab>>, tab[t].mode = "open",
             what \in Saves =>
               /\ what \in Editable(tab[t].panel)
               /\ \A f \in Fields \ {what} : put[f] = tab[t].view.doc[f]
               /\ what \notin {"site", "locale"} => base = tab[t].view.doc[what]
      PROVE  ConsoleInv'
  <2>1. Write(t, what, put, base) \in Call
    BY WriteIs DEF ConsoleInv, What
  <2>2. GoodCall(Write(t, what, put, base), tab, work)
    BY <1>2, WriteGood
  <2>3. QED
    BY <1>2, <2>1, <2>2, CallStep, Known
<1>3. CASE CheckSession(t, c)
  BY <1>1, <1>3 DEF CheckSession
<1>4. CASE Logout(t, c)
  BY <1>1, <1>4 DEF Logout
<1>5. CASE SetCustomCSS(t, c)
  BY <1>1, <1>5 DEF SetCustomCSS, Free
<1>6. ASSUME NEW f \in Fields, NEW edited \in BOOLEAN, Save(t, c, f, edited)
      PROVE  ConsoleInv'
  <2> DEFINE put == Draft(t, f, edited)
             base == tab[t].form[f]
  <2>1. /\ tab[t].mode = "open" /\ tab[t].panel # None /\ f \in Editable(tab[t].panel)
        /\ tab[t].view.rev \in 1..MaxRev - 1
        /\ call' = [call EXCEPT ![c] = Write(t, f, put, base)]
        /\ UNCHANGED <<cookie, session, work, past, tab>>
    BY <1>6 DEF Save, Free
  <2>2. base \in 0..MaxRev
    BY Known DEF Doc
  <2>3. tab[t].view.rev + 1 \in 0..MaxRev
    BY <2>1, ConsoleAssumption
  <2>4. put \in Doc /\ \A g \in Fields \ {f} : put[g] = tab[t].view.doc[g]
    BY <2>2, <2>3, Known DEF Draft, Doc
  <2>5. f \notin {"site", "locale"} => base = tab[t].view.doc[f]
    <3>1. tab[t].panel \in Panels /\ GoodTab(tab[t], work)
      BY <2>1, Known DEF Tab
    <3>2. CASE tab[t].panel = "website"
      BY <2>1, <3>2 DEF Editable
    <3>3. CASE tab[t].panel \in {"listing", "copy"}
      BY <3>1, <3>3 DEF GoodTab
    <3>4. QED
      BY <3>1, <3>2, <3>3 DEF Panels
  <2>6. f \in Saves
    BY FieldsNamed
  <2> HIDE DEF put, base
  <2>7. QED
    BY <1>2, <2>1, <2>2, <2>4, <2>5, <2>6
<1>7. ASSUME NEW v \in 1..MaxRev, RestoreVersion(t, c, v)
      PROVE  ConsoleInv'
  <2>1. past[v] \in Doc /\ 0 \in 0..MaxRev
    BY ConsoleAssumption DEF ConsoleInv, TypeOK
  <2>2. "restore" \notin Saves
    BY ConsoleAssumption DEF Saves
  <2>3. QED
    BY <1>2, <1>7, <2>1, <2>2 DEF RestoreVersion, Free
<1>8. QED
  BY <1>3, <1>4, <1>5, <1>6, <1>7

LEMMA ServerSteps ==
  ASSUME ConsoleInv, NEW c \in Slots,
         Admit(c) \/ ReadCopy(c) \/ ToggleCSS(c) \/ ReadBack(c) \/ EndSession(c) \/ Fail(c)
  PROVE  ConsoleInv'
<1> DEFINE q == call[c]
<1>1. q \in Call /\ GoodCall(q, tab, work) /\ work \in View /\ cookie \in Sessions \cup {None}
  BY Known
<1>2. ASSUME NEW o \in Call, GoodCall(o, tab, work), call' = [call EXCEPT ![c] = o],
             UNCHANGED <<cookie, session, work, past, tab>>
      PROVE  ConsoleInv'
  BY <1>2, CallStep, Known
<1>3. ASSUME NEW pc \in Answers, call' = [call EXCEPT ![c] = Over(q, pc)], pc # "ok",
             UNCHANGED <<cookie, session, work, past, tab>>
      PROVE  ConsoleInv'
  <2>1. Over(q, pc) \in Call
    BY <1>1, OverIs, ConsoleAssumption
  <2>2. GoodCall(Over(q, pc), tab, work)
    BY <1>1, <1>3, OverGood
  <2>3. QED
    BY <1>2, <1>3, <2>1, <2>2
<1>4. ASSUME \/ q.pc \in Serving
             \/ /\ q.pc = "sent" /\ q.as \in Sessions
                /\ q.what = "session" \/ q.as = q.scope,
             NEW o, o \in {Over(q, "ok"), [Over(q, "ok") EXCEPT !.got = work]}
      PROVE  o \in Call /\ GoodCall(o, tab, work)
  <2>1. o \in Call
    BY <1>1, <1>4, OverIs, ConsoleAssumption DEF Answers
  <2>2. GoodCall(o, tab, work)
    BY <1>1, <1>4, OverGood DEF Answers
  <2>3. QED
    BY <2>1, <2>2
<1>5. CASE Admit(c)
  <2>1. CASE Verdict(q) # "admitted"
    BY <1>3, <1>5, <2>1 DEF Admit, Verdict, Answers
  <2>2. ASSUME Verdict(q) = "admitted"
        PROVE  q.as \in Sessions /\ (q.what = "session" \/ q.as = q.scope)
    <3>1. q.as # None /\ InScope(q.scope, q.as)
      BY <2>2 DEF Verdict
    <3>2. q.as \in Sessions /\ (q.what # "session" => q.scope \in Sessions)
      BY <1>1, <1>5, <3>1 DEF Call, Admit, GoodCall, Scoped
    <3>3. QED
      BY <3>1, <3>2, ConsoleAssumption DEF InScope
  <2>3. CASE Verdict(q) = "admitted" /\ q.what \in Reads
    BY <1>2, <1>4, <1>5, <2>2, <2>3 DEF Admit
  <2>4. CASE Verdict(q) = "admitted" /\ q.what \notin Reads
    <3> DEFINE o == [q EXCEPT !.pc = "admitted"]
    <3>1. /\ o \in Call /\ o.tab = q.tab /\ o.shown = q.shown /\ o.what = q.what /\ o.as = q.as
          /\ o.scope = q.scope /\ o.pc = "admitted" /\ o.got = q.got /\ o.expect = q.expect
          /\ o.put = q.put /\ o.base = q.base /\ q.pc = "sent"
      BY <1>1, <1>5 DEF Call, Serving, Admit
    <3>2. q.what # "session" /\ "admitted" \in Serving
      BY <2>4 DEF Reads, Serving
    <3>3. call' = [call EXCEPT ![c] = o] /\ UNCHANGED <<cookie, session, work, past, tab>>
      BY <1>5, <2>4 DEF Admit
    <3> HIDE DEF o
    <3>4. Placed(o, tab)
      BY <1>1, <3>1 DEF GoodCall, Placed
    <3>5. Scoped(o, tab)
      BY <1>1, <2>2, <2>4, <3>1, <3>2 DEF GoodCall, Scoped
    <3>6. Carried(o, work)
      BY <1>1, <3>1 DEF GoodCall, Carried
    <3>7. QED
      BY <1>2, <3>1, <3>3, <3>4, <3>5, <3>6 DEF GoodCall
  <2>5. QED
    BY <2>1, <2>3, <2>4
<1>6. CASE ReadCopy(c)
  <2> DEFINE put == [work.doc EXCEPT ![q.what] = q.put[q.what]]
             o == [q EXCEPT !.pc = "read", !.put = put]
  <2>1. /\ q.pc = "admitted" /\ q.what \in CopyKeys /\ call' = [call EXCEPT ![c] = o]
        /\ UNCHANGED <<cookie, session, work, past, tab>>
    BY <1>6 DEF ReadCopy
  <2>2. put \in Doc /\ \A f \in Fields \ {q.what} : put[f] = work.doc[f]
    BY <2>1, Known, FieldsNamed DEF Doc
  <2> HIDE DEF put
  <2>3. /\ o \in Call /\ o.tab = q.tab /\ o.shown = q.shown /\ o.what = q.what /\ o.as = q.as
        /\ o.scope = q.scope /\ o.pc = "read" /\ o.got = q.got /\ o.expect = q.expect
        /\ o.put = put /\ o.base = q.base
    BY <1>1, <2>2 DEF Call, Serving
  <2>4. "read" \in Serving /\ "admitted" \in Serving
    BY DEF Serving
  <2> HIDE DEF o
  <2>5. Placed(o, tab)
    BY <1>1, <2>3 DEF GoodCall, Placed
  <2>6. Scoped(o, tab)
    BY <1>1, <2>1, <2>3, <2>4 DEF GoodCall, Scoped
  <2>7. Carried(o, work)
    BY <1>1, <2>1, <2>2, <2>3 DEF GoodCall, Carried
  <2>8. QED
    BY <1>2, <2>1, <2>3, <2>5, <2>6, <2>7 DEF GoodCall
<1>7. CASE ToggleCSS(c)
  <2> DEFINE o == [Over(q, "saved") EXCEPT !.scope = q.scope]
  <2>1. /\ q.pc = "admitted" /\ q.what = "css" /\ call' = [call EXCEPT ![c] = o]
        /\ UNCHANGED <<cookie, session, work, past, tab>>
    BY <1>7 DEF ToggleCSS
  <2>2. /\ o \in Call /\ GoodCall(o, tab, work)
    BY <1>1, <2>1, SavedGood, Known
  <2>3. QED
    BY <1>2, <2>1, <2>2
<1>8. CASE ReadBack(c)
  BY <1>2, <1>4, <1>8 DEF ReadBack, Serving
<1>9. CASE EndSession(c)
  <2>1. q.pc \in Serving /\ call' = [call EXCEPT ![c] = Over(q, "ok")]
    BY <1>9 DEF EndSession, Serving
  <2>2. session' \in [Sessions -> {"unused", "valid", "ended"}]
    BY <1>9, Known DEF EndSession
  <2>3. Over(q, "ok") \in Call /\ GoodCall(Over(q, "ok"), tab, work)
    BY <1>4, <2>1
  <2>4. UNCHANGED <<cookie, work, past, tab>>
    BY <1>9 DEF EndSession
  <2>5. QED
    BY <2>1, <2>2, <2>3, <2>4, <1>1, CallStep
<1>10. CASE Fail(c)
  BY <1>3, <1>10 DEF Fail, Answers
<1>11. QED
  BY <1>5, <1>6, <1>7, <1>8, <1>9, <1>10

\* What has been answered and carried along is of an older revision now.
LEMMA Older ==
  ASSUME ConsoleInv, NEW w \in View, w.rev = work.rev + 1
  PROVE  /\ \A t \in Tabs : GoodTab(tab[t], w)
         /\ \A d \in Slots : GoodCall(call[d], tab, w)
<1>1. ASSUME NEW v \in View, KnownTo(v, work) PROVE KnownTo(v, w)
  BY <1>1, Known, ConsoleAssumption DEF KnownTo, View
<1>2. ASSUME NEW t \in Tabs PROVE GoodTab(tab[t], w)
  BY <1>1, Known DEF GoodTab
<1>3. ASSUME NEW d \in Slots PROVE GoodCall(call[d], tab, w)
  <2>1. call[d] \in Call /\ GoodCall(call[d], tab, work)
    BY Known
  <2>2. call[d].got \in View /\ call[d].expect \in 0..MaxRev
    BY <2>1 DEF Call
  <2>3. call[d].expect <= work.rev => call[d].expect <= w.rev /\ call[d].expect # w.rev
    BY <2>2, Known, ConsoleAssumption
  <2>4. Carried(call[d], w)
    BY <1>1, <2>1, <2>2, <2>3 DEF GoodCall, Carried
  <2>5. QED
    BY <2>1, <2>4 DEF GoodCall
<1>4. QED
  BY <1>2, <1>3

LEMMA CommitStep ==
  ASSUME ConsoleInv, NEW c \in Slots, Commit(c)
  PROVE  ConsoleInv'
<1> DEFINE q == call[c]
<1>1. q \in Call /\ GoodCall(q, tab, work) /\ Ready(q) /\ UNCHANGED <<cookie, session, tab>>
  BY Known DEF Commit
<1>2. q.pc \in {"admitted", "read"}
  BY <1>1 DEF Ready
<1>3. CASE Current(q) /\ work.rev < MaxRev
  <2> DEFINE doc == [f \in Fields |-> IF f \in Columns(q.what) THEN q.put[f] ELSE work.doc[f]]
             o == [Over(q, "saved") EXCEPT !.scope = q.scope]
  <2>1. /\ work' = [rev |-> work.rev + 1, doc |-> doc]
        /\ past' = [past EXCEPT ![work.rev + 1] = work'.doc]
        /\ call' = [call EXCEPT ![c] = o]
    BY <1>3 DEF Commit
  <2>2. doc \in Doc
    BY Known DEF Doc
  <2> HIDE DEF doc
  <2>3. work' \in View /\ work'.rev = work.rev + 1 /\ work'.rev >= 1 /\ work'.doc \in Doc
    BY <1>3, <2>1, <2>2, Known, ConsoleAssumption DEF View
  <2>4. o \in Call /\ GoodCall(o, tab, work')
    BY <1>1, <1>2, <2>3, SavedGood
  <2> HIDE DEF o
  <2>5. past' \in [1..MaxRev -> Doc]
    BY <2>1, <2>3 DEF ConsoleInv, TypeOK
  <2>6. call' \in [Slots -> Call] /\ \A d \in Slots : call'[d] = IF d = c THEN o ELSE call[d]
    BY <2>1, <2>4 DEF ConsoleInv, TypeOK
  <2>7. TypeOK'
    BY <1>1, <2>3, <2>5, <2>6 DEF ConsoleInv, TypeOK
  <2>8. /\ \A t \in Tabs : GoodTab(tab[t], work')
        /\ \A d \in Slots : GoodCall(call[d], tab, work')
    BY <2>3, Older
  <2>9. \A t \in Tabs : GoodTab(tab'[t], work')
    BY <1>1, <2>8
  <2>10. \A d \in Slots : GoodCall(call'[d], tab', work')
    BY <1>1, <2>4, <2>6, <2>8
  <2>11. QED
    BY <2>3, <2>7, <2>9, <2>10 DEF ConsoleInv
<1>4. CASE ~(Current(q) /\ work.rev < MaxRev)
  <2>1. call' = [call EXCEPT ![c] = Over(q, "refused")] /\ UNCHANGED <<work, past>>
    BY <1>4 DEF Commit
  <2>2. Over(q, "refused") \in Call
    BY <1>1, OverIs, Known, ConsoleAssumption DEF Answers
  <2>3. GoodCall(Over(q, "refused"), tab, work)
    BY <1>1, OverGood DEF Answers
  <2>4. QED
    BY <1>1, <2>1, <2>2, <2>3, CallStep, Known
<1>5. QED
  BY <1>3, <1>4

LEMMA AfterErrorGood ==
  ASSUME ConsoleInv, NEW q \in Call, GoodCall(q, tab, work)
  PROVE  AfterError(q) \in Call /\ GoodCall(AfterError(q), tab, work)
<1>1. Idle \in Call /\ GoodCall(Idle, tab, work)
  BY IdleIs, IdleGood, Known
<1>2. CASE q.shown /\ q.what \in Reloading
  <2>1. q.tab \in Tabs /\ q.what # "session" /\ tab[q.tab].mode = "open"
    BY <1>2 DEF GoodCall, Placed, Call, Reloading
  <2>2. "load" \in What \ Saves
    BY ConsoleAssumption DEF What, Reads, Saves
  <2>3. Fetch(q.tab, "load") \in Call /\ GoodCall(Fetch(q.tab, "load"), tab, work)
    BY <2>1, <2>2, FetchIs, FetchGood DEF ConsoleInv
  <2>4. QED
    BY <1>2, <2>3 DEF AfterError
<1>3. CASE ~(q.shown /\ q.what \in Reloading)
  BY <1>1, <1>3 DEF AfterError
<1>4. QED
  BY <1>2, <1>3

LEMMA AnswerSteps ==
  ASSUME ConsoleInv, NEW c \in Slots,
         Refused(c) \/ CopySaved(c) \/ TooLate(c) \/ Unheard(c)
  PROVE  ConsoleInv'
<1> DEFINE q == call[c]
<1>1. q \in Call /\ GoodCall(q, tab, work)
  BY Known
<1>2. ASSUME NEW o \in Call, GoodCall(o, tab, work), call' = [call EXCEPT ![c] = o],
             cookie' \in Sessions \cup {None}, UNCHANGED <<session, work, past, tab>>
      PROVE  ConsoleInv'
  BY <1>2, CallStep, Known
<1>3. Idle \in Call /\ GoodCall(Idle, tab, work)
  BY IdleIs, IdleGood, Known
<1>4. CASE Refused(c)
  BY <1>1, <1>2, <1>4, AfterErrorGood, Known DEF Refused
<1>5. CASE CopySaved(c)
  <2>1. q.tab \in Tabs /\ q.what # "session" /\ tab[q.tab].mode = "open"
    BY <1>1, <1>5, ConsoleAssumption DEF CopySaved, Expecting, GoodCall, Placed, Call
  <2>2. "load" \in What \ Saves
    BY ConsoleAssumption DEF What, Reads, Saves
  <2>3. Fetch(q.tab, "load") \in Call /\ GoodCall(Fetch(q.tab, "load"), tab, work)
    BY <2>1, <2>2, FetchIs, FetchGood DEF ConsoleInv
  <2>4. QED
    BY <1>2, <1>5, <2>3, Known DEF CopySaved
<1>6. CASE TooLate(c)
  BY <1>2, <1>3, <1>6, Known DEF TooLate
<1>7. CASE Unheard(c)
  BY <1>2, <1>3, <1>7, Known DEF Unheard
<1>8. QED
  BY <1>4, <1>5, <1>6, <1>7

\* A connection that breaks while the call is served leaves two calls.
LEMMA LoseStep ==
  ASSUME ConsoleInv, NEW c \in Slots, Lose(c)
  PROVE  ConsoleInv'
<1> DEFINE q == call[c]
<1>1. q \in Call /\ GoodCall(q, tab, work) /\ UNCHANGED <<cookie, session, work, past, tab>>
  BY Known DEF Lose
<1>2. AfterError(q) \in Call /\ GoodCall(AfterError(q), tab, work)
  BY <1>1, AfterErrorGood
<1>3. Orphan(q) \in Call /\ GoodCall(Orphan(q), tab, work)
  BY <1>1, OrphanIs, OrphanGood
<1>4. CASE q.pc \in Serving
  <2>1. PICK d \in Slots : call' = [call EXCEPT ![c] = Orphan(q), ![d] = AfterError(q)]
    BY <1>4 DEF Lose
  <2>2. call' \in [Slots -> Call]
    BY <1>2, <1>3, <2>1 DEF ConsoleInv, TypeOK
  <2>3. \A e \in Slots : call'[e] = IF e = d THEN AfterError(q)
                                    ELSE IF e = c THEN Orphan(q) ELSE call[e]
    BY <1>2, <1>3, <2>1 DEF ConsoleInv, TypeOK
  <2>4. TypeOK'
    BY <1>1, <2>2 DEF ConsoleInv, TypeOK
  <2>5. \A e \in Slots : GoodCall(call'[e], tab', work')
    BY <1>1, <1>2, <1>3, <2>3 DEF ConsoleInv
  <2>6. work'.rev >= 1 /\ \A t \in Tabs : GoodTab(tab'[t], work')
    BY <1>1 DEF ConsoleInv
  <2>7. QED
    BY <2>4, <2>5, <2>6 DEF ConsoleInv
<1>5. CASE q.pc \notin Serving
  <2>1. call' = [call EXCEPT ![c] = AfterError(q)]
    BY <1>5 DEF Lose
  <2>2. QED
    BY <1>1, <1>2, <2>1, CallStep, Known
<1>6. QED
  BY <1>4, <1>5

LEMMA PageOpens ==
  ASSUME ConsoleInv, NEW t \in Tabs, Open(t)
  PROVE  ConsoleInv'
<1> DEFINE v == [Blank("starting") EXCEPT !.page = cookie]
<1>1. /\ tab[t].mode = "closed" /\ tab' = [tab EXCEPT ![t] = v]
      /\ UNCHANGED <<cookie, session, work, past, call>>
  BY DEF Open
<1>2. v \in Tab /\ v.mode = "starting" /\ v.scope = None /\ v.view = NoView /\ v.form = NoDoc
  BY BlankIs, Known DEF Tab
<1> HIDE DEF v
<1>3. GoodTab(v, work)
  BY <1>2, Known, FieldsNamed, ConsoleAssumption DEF GoodTab, KnownTo, View
<1>4. ASSUME NEW d \in Slots
      PROVE  call'[d] \in Call /\ GoodCall(call'[d], tab', work)
  <2>1. call[d] \in Call /\ GoodCall(call[d], tab, work)
    BY Known
  <2>2. call[d].tab # t
    BY <1>1, <2>1, ConsoleAssumption DEF GoodCall, Placed
  <2>3. GoodCall(call[d], tab', work)
    BY <1>1, <2>1, <2>2, Elsewhere
  <2>4. QED
    BY <1>1, <2>1, <2>3
<1>5. call' = [d \in Slots |-> call'[d]]
  BY <1>1 DEF ConsoleInv, TypeOK
<1>6. QED
  BY <1>1, <1>2, <1>3, <1>4, <1>5, TabStep, Known

LEMMA PageCloses ==
  ASSUME ConsoleInv, NEW t \in Tabs, Close(t)
  PROVE  ConsoleInv'
<1>1. \A d \in Slots : call'[d] \in {Idle, CallsWithout(t)[d]}
  BY DEF Close
<1>2. call' = [d \in Slots |-> call'[d]]
  BY DEF Close, CallsWithout
<1>3. QED
  BY <1>1, <1>2, PageEnds, Known DEF Close

\* The session is over, or another one's.
LEMMA PageExpires ==
  ASSUME ConsoleInv, NEW c \in Slots, call[c].tab \in Tabs,
         End(call[c].tab), AbortCalls(c, call[c].tab),
         cookie' \in Sessions \cup {None}, UNCHANGED <<session, work, past>>
  PROVE  ConsoleInv'
<1>1. /\ \A d \in Slots : call'[d] \in {Idle, CallsWithout(call[c].tab)[d]}
      /\ call' = [d \in Slots |-> call'[d]]
  BY DEF AbortCalls, CallsWithout
<1>2. QED
  BY <1>1, PageEnds, Known DEF End

LEMMA PageShows ==
  ASSUME ConsoleInv, NEW t \in Tabs, NEW c \in Slots, NEW p \in Panels, Show(t, c, p)
  PROVE  ConsoleInv'
<1> DEFINE v == [Blank("open") EXCEPT !.page = tab[t].page, !.scope = tab[t].scope, !.panel = p]
           hidden(q) == [q EXCEPT !.shown = FALSE]
<1>1. /\ tab[t].mode = "open" /\ tab' = [tab EXCEPT ![t] = v]
      /\ call' = [d \in Slots |->
           IF d = c THEN Fetch(t, "load")
           ELSE IF call[d].tab = t /\ call[d].what \notin {"session", "logout"}
                THEN hidden(call[d]) ELSE call[d]]
      /\ UNCHANGED <<cookie, session, work, past>>
  BY DEF Show
<1>2. tab[t] \in Tab /\ GoodTab(tab[t], work)
  BY Known
<1>3. /\ v \in Tab /\ v.mode = "open" /\ v.scope = tab[t].scope /\ v.view = NoView
      /\ v.form = NoDoc
  BY <1>2, BlankIs DEF Tab
<1> HIDE DEF v
<1>4. GoodTab(v, work)
  BY <1>1, <1>2, <1>3, Known, FieldsNamed, ConsoleAssumption DEF GoodTab, KnownTo, View
<1>5. tab'[t] = v
  BY <1>1 DEF ConsoleInv, TypeOK
<1>6. ASSUME NEW q \in Call, Placed(q, tab), q.tab = t, q.what \notin Saves \cup {"css"} \/ ~q.shown
      PROVE  Placed(q, tab')
  BY <1>1, <1>3, <1>5, <1>6 DEF Placed
<1>7. ASSUME NEW q \in Call, Scoped(q, tab), q.tab = t
      PROVE  Scoped(q, tab')
  BY <1>3, <1>5, <1>7 DEF Scoped
<1>8. ASSUME NEW d \in Slots
      PROVE  call'[d] \in Call /\ GoodCall(call'[d], tab', work)
  <2>1. call[d] \in Call /\ GoodCall(call[d], tab, work)
    BY Known
  <2>2. CASE d = c
    <3>1. "load" \in What \ Saves /\ "load" # "css"
      BY ConsoleAssumption DEF What, Reads, Saves
    <3>2. /\ Fetch(t, "load") \in Call /\ Fetch(t, "load").tab = t
          /\ Fetch(t, "load").what = "load" /\ GoodCall(Fetch(t, "load"), tab, work)
      BY <1>1, <3>1, FetchIs, FetchGood DEF ConsoleInv
    <3>3. GoodCall(Fetch(t, "load"), tab', work)
      BY <1>6, <1>7, <3>1, <3>2 DEF GoodCall
    <3>4. QED
      BY <1>1, <2>2, <3>2, <3>3
  <2>3. CASE d # c /\ call[d].tab = t /\ call[d].what \notin {"session", "logout"}
    <3> DEFINE q == hidden(call[d])
    <3>1. /\ q \in Call /\ q.tab = t /\ ~q.shown /\ q.what = call[d].what /\ q.as = call[d].as
          /\ q.scope = call[d].scope /\ q.pc = call[d].pc /\ q.got = call[d].got
          /\ q.expect = call[d].expect /\ q.put = call[d].put /\ q.base = call[d].base
      BY <2>1, <2>3 DEF Call
    <3>2. call'[d] = q
      BY <1>1, <2>3
    <3> HIDE DEF q
    <3>3. Placed(q, tab)
      BY <2>1, <2>3, <3>1 DEF GoodCall, Placed
    <3>4. Scoped(q, tab)
      BY <2>1, <2>3, <3>1 DEF GoodCall, Scoped
    <3>5. Carried(q, work)
      BY <2>1, <3>1 DEF GoodCall, Carried
    <3>6. QED
      BY <1>6, <1>7, <3>1, <3>2, <3>3, <3>4, <3>5 DEF GoodCall
  <2>4. CASE d # c /\ call[d].tab = t /\ call[d].what \in {"session", "logout"}
    <3>1. call[d].what \notin Saves \cup {"css"}
      BY <2>4, ConsoleAssumption DEF Saves
    <3>2. QED
      BY <1>1, <1>6, <1>7, <2>1, <2>4, <3>1 DEF GoodCall
  <2>5. CASE d # c /\ call[d].tab # t
    <3>1. GoodCall(call[d], tab', work)
      BY <1>1, <2>1, <2>5, Elsewhere
    <3>2. QED
      BY <1>1, <2>1, <2>5, <3>1
  <2>6. QED
    BY <2>2, <2>3, <2>4, <2>5
<1>9. call' = [d \in Slots |-> call'[d]]
  BY <1>1
<1>10. QED
  BY <1>1, <1>3, <1>4, <1>8, <1>9, TabStep, Known

\* The session is answered: the page is bound to it.
LEMMA PageBinds ==
  ASSUME ConsoleInv, NEW c \in Slots, SessionAnswered(c)
  PROVE  ConsoleInv'
<1> DEFINE q == call[c]
           t == call[c].tab
           v == [tab[t] EXCEPT !.mode = "open", !.scope = q.as]
<1>1. q \in Call /\ GoodCall(q, tab, work) /\ q.pc = "ok" /\ q.what = "session"
  BY Known DEF SessionAnswered
<1>2. t \in Tabs /\ q.as \in Sessions
  BY <1>1, Known DEF SessionAnswered, Expecting, GoodCall, Scoped
<1>3. UNCHANGED <<cookie, session, work, past>>
  BY DEF SessionAnswered
<1>4. Idle \in Call /\ GoodCall(Idle, tab, work) /\ GoodCall(Idle, tab', work)
  BY IdleIs, IdleGood, Known
<1>5. CASE tab[t].mode = "starting"
  <2>1. tab' = [tab EXCEPT ![t] = v] /\ call' = [call EXCEPT ![c] = Idle]
    BY <1>5 DEF SessionAnswered
  <2>2. tab[t] \in Tab /\ tab[t].view = NoView
    BY <1>2, <1>5, Known DEF GoodTab
  <2>3. v \in Tab /\ v.mode = "open" /\ v.scope = q.as /\ v.view = NoView /\ v.panel = tab[t].panel
        /\ v.form = tab[t].form
    BY <1>2, <2>2 DEF Tab
  <2> HIDE DEF v
  <2>4. GoodTab(v, work)
    BY <1>2, <2>2, <2>3, Known, FieldsNamed DEF GoodTab
  <2>5. ASSUME NEW d \in Slots
        PROVE  call'[d] \in Call /\ GoodCall(call'[d], tab', work)
    <3>1. call[d] \in Call /\ GoodCall(call[d], tab, work)
      BY Known
    <3>2. CASE d = c
      BY <1>4, <2>1, <3>2 DEF ConsoleInv, TypeOK
    <3>3. CASE d # c /\ call[d].tab # t
      <4>1. GoodCall(call[d], tab', work)
        BY <1>2, <2>1, <3>1, <3>3, Elsewhere
      <4>2. QED
        BY <2>1, <3>1, <3>3, <4>1
    <3>4. CASE d # c /\ call[d].tab = t
      <4>1. call[d].what = "session" /\ call[d].what \notin Saves \cup {"css"}
        BY <1>2, <1>5, <3>1, <3>4, ConsoleAssumption DEF GoodCall, Placed, Saves
      <4>2. tab'[t].mode = "open"
        BY <1>2, <2>1, <2>3 DEF ConsoleInv, TypeOK
      <4>3. Placed(call[d], tab')
        BY <3>1, <3>4, <4>1, <4>2 DEF GoodCall, Placed
      <4>4. Scoped(call[d], tab')
        BY <3>1, <4>1 DEF GoodCall, Scoped
      <4>5. QED
        BY <2>1, <3>1, <3>4, <4>3, <4>4 DEF GoodCall
    <3>5. QED
      BY <3>2, <3>3, <3>4
  <2>6. call' = [d \in Slots |-> call'[d]]
    BY <2>1 DEF ConsoleInv, TypeOK
  <2>7. QED
    BY <1>2, <1>3, <2>1, <2>3, <2>4, <2>5, <2>6, TabStep, Known
<1>6. CASE tab[t].mode # "starting" /\ q.as = tab[t].scope
  <2>1. call' = [call EXCEPT ![c] = Idle] /\ UNCHANGED tab
    BY <1>6 DEF SessionAnswered
  <2>2. QED
    BY <1>3, <1>4, <2>1, CallStep, Known
<1>7. CASE tab[t].mode # "starting" /\ q.as # tab[t].scope
  <2>1. End(t) /\ AbortCalls(c, t)
    BY <1>7 DEF SessionAnswered
  <2>2. QED
    BY <1>2, <1>3, <2>1, PageExpires, Known
<1>8. QED
  BY <1>5, <1>6, <1>7

\* A panel takes the answer as a whole; forms are filled from it.
LEMMA PageIsTold ==
  ASSUME ConsoleInv, NEW c \in Slots, PanelAnswered(c)
  PROVE  ConsoleInv'
<1> DEFINE q == call[c]
           t == call[c].tab
           form == [f \in Fields |-> IF f \in Fills(q.what) THEN q.got.doc[f] ELSE tab[t].form[f]]
           v == [tab[t] EXCEPT !.view = q.got, !.from = q.as, !.form = form]
<1>1. /\ q \in Call /\ GoodCall(q, tab, work) /\ q.pc = "ok" /\ q.shown
      /\ q.what \in Reloading \cup {"load"}
  BY Known DEF PanelAnswered
<1>2. t \in Tabs /\ q.got \in View /\ q.as \in Sessions /\ q.what # "session" /\ q.got.doc \in Doc
  BY <1>1, Known DEF PanelAnswered, Expecting, GoodCall, Scoped, Call, Reloading, View
<1>3. /\ tab[t].mode = "open" /\ q.as = tab[t].scope
      /\ tab[t] \in Tab /\ GoodTab(tab[t], work) /\ tab[t].form \in Doc
  BY <1>1, <1>2, Known, ConsoleAssumption DEF GoodCall, Placed, Scoped
<1>4. tab' = [tab EXCEPT ![t] = v] /\ call' = [call EXCEPT ![c] = Idle]
      /\ UNCHANGED <<cookie, session, work, past>>
  BY DEF PanelAnswered, Told, Shown
<1>5. form \in Doc
  BY <1>2, <1>3 DEF Doc
<1>6. Fills(q.what) = Fields => form = q.got.doc
  BY <1>2, <1>5 DEF Doc
<1> HIDE DEF form
<1>7. /\ v \in Tab /\ v.mode = "open" /\ v.scope = tab[t].scope /\ v.panel = tab[t].panel
      /\ v.view = q.got /\ v.from = q.as /\ v.form = form
  BY <1>2, <1>3, <1>5 DEF Tab
<1> HIDE DEF v
<1>8. tab[t].panel \in {"listing", "copy"} => Fills(q.what) = Fields
  <2>1. CASE q.what = "css"
    BY <1>1, <2>1 DEF GoodCall, Placed
  <2>2. CASE q.what = "locale"
    <3>1. "locale" \in Editable(tab[t].panel)
      BY <1>1, <2>2 DEF GoodCall, Placed, Saves
    <3>2. QED
      BY <3>1, ConsoleAssumption DEF Editable
  <2>3. CASE q.what \notin {"css", "locale"}
    BY <2>3 DEF Fills
  <2>4. QED
    BY <2>1, <2>2, <2>3
<1>9. GoodTab(v, work)
  BY <1>1, <1>2, <1>3, <1>6, <1>7, <1>8 DEF GoodTab, GoodCall, Carried
<1>10. ASSUME NEW d \in Slots
       PROVE  call'[d] \in Call /\ GoodCall(call'[d], tab', work)
  <2>1. call[d] \in Call /\ GoodCall(call[d], tab, work)
    BY Known
  <2>2. CASE d = c
    BY <1>4, <2>2, IdleIs, IdleGood, Known DEF ConsoleInv, TypeOK
  <2>3. CASE d # c /\ call[d].tab # t
    <3>1. GoodCall(call[d], tab', work)
      BY <1>2, <1>4, <2>1, <2>3, Elsewhere
    <3>2. QED
      BY <1>4, <2>1, <2>3, <3>1
  <2>4. CASE d # c /\ call[d].tab = t
    <3>1. tab'[t] = v
      BY <1>2, <1>4 DEF ConsoleInv, TypeOK
    <3>2. Placed(call[d], tab')
      BY <1>3, <1>7, <2>1, <2>4, <3>1 DEF GoodCall, Placed
    <3>3. Scoped(call[d], tab')
      BY <1>7, <2>1, <2>4, <3>1 DEF GoodCall, Scoped
    <3>4. QED
      BY <1>4, <2>1, <2>4, <3>2, <3>3 DEF GoodCall
  <2>5. QED
    BY <2>2, <2>3, <2>4
<1>11. call' = [d \in Slots |-> call'[d]]
  BY <1>4 DEF ConsoleInv, TypeOK
<1>12. QED
  BY <1>2, <1>4, <1>7, <1>9, <1>10, <1>11, TabStep, Known

-----------------------------------------------------------------------------
(* Theorems *)

LEMMA StepInv == ConsoleInv /\ [Next]_vars => ConsoleInv'
<1> SUFFICES ASSUME ConsoleInv, [Next]_vars PROVE ConsoleInv'
  OBVIOUS
<1>1. CASE Browser
  <2>1. ASSUME NEW s \in Sessions, SignIn(s) \/ Revoke(s) PROVE ConsoleInv'
    <3>1. /\ session' \in [Sessions -> {"unused", "valid", "ended"}]
          /\ cookie' \in Sessions \cup {None} /\ UNCHANGED <<work, past, tab, call>>
      BY <2>1, Known DEF SignIn, Revoke
    <3>2. QED
      BY <3>1 DEF ConsoleInv, TypeOK
  <2>2. ASSUME NEW t \in Tabs, Open(t) \/ Close(t) PROVE ConsoleInv'
    BY <2>2, PageOpens, PageCloses
  <2>3. ASSUME NEW t \in Tabs, NEW c \in Slots,
               \/ CheckSession(t, c) \/ Logout(t, c) \/ SetCustomCSS(t, c)
               \/ \E f \in Fields, edited \in BOOLEAN : Save(t, c, f, edited)
               \/ \E v \in 1..MaxRev : RestoreVersion(t, c, v)
        PROVE  ConsoleInv'
    BY <2>3, PageCalls
  <2>4. ASSUME NEW t \in Tabs, NEW c \in Slots, NEW p \in Panels, Show(t, c, p)
        PROVE  ConsoleInv'
    BY <2>4, PageShows
  <2>5. QED
    BY <1>1, <2>1, <2>2, <2>3, <2>4 DEF Browser
<1>2. CASE Server
  <2>1. ASSUME NEW c \in Slots, Commit(c) PROVE ConsoleInv'
    BY <2>1, CommitStep
  <2>2. ASSUME NEW c \in Slots,
               Admit(c) \/ ReadCopy(c) \/ ToggleCSS(c) \/ ReadBack(c) \/ EndSession(c) \/ Fail(c)
        PROVE  ConsoleInv'
    BY <2>2, ServerSteps
  <2>3. QED
    BY <1>2, <2>1, <2>2 DEF Server
<1>3. CASE Answer
  <2>1. ASSUME NEW c \in Slots, Refused(c) \/ CopySaved(c) \/ TooLate(c) \/ Unheard(c)
        PROVE  ConsoleInv'
    BY <2>1, AnswerSteps
  <2>2. ASSUME NEW c \in Slots, Denied(c) \/ LoggedOut(c) PROVE ConsoleInv'
    <3>1. /\ call[c].tab \in Tabs /\ End(call[c].tab) /\ AbortCalls(c, call[c].tab)
          /\ cookie' \in Sessions \cup {None} /\ UNCHANGED <<session, work, past>>
      BY <2>2, Known DEF Denied, LoggedOut, Expecting
    <3>2. QED
      BY <3>1, PageExpires
  <2>3. ASSUME NEW c \in Slots, SessionAnswered(c) PROVE ConsoleInv'
    BY <2>3, PageBinds
  <2>4. ASSUME NEW c \in Slots, PanelAnswered(c) PROVE ConsoleInv'
    BY <2>4, PageIsTold
  <2>5. ASSUME NEW c \in Slots, Lose(c) PROVE ConsoleInv'
    BY <2>5, LoseStep
  <2>6. QED
    BY <1>3, <2>1, <2>2, <2>3, <2>4, <2>5 DEF Answer
<1>4. CASE UNCHANGED vars
  BY <1>4 DEF ConsoleInv, TypeOK, vars
<1>5. QED
  BY <1>1, <1>2, <1>3, <1>4 DEF Next

\* The inductive invariant: types; what tabs and calls know of the working copy
\* and of its session; what a save carries along.
THEOREM ConsoleInvariant == Spec => []ConsoleInv
<1>1. QED
  BY InitInv, StepInv, PTL DEF Spec

\* A tab shows only what was answered to the session it is bound to
\* (bindSessionScope, matchesAdminScope).
THEOREM SessionsKeptApart == Spec => []OneSession
<1>1. ConsoleInv => OneSession
  BY DEF ConsoleInv, GoodTab, OneSession
<1>2. QED
  BY <1>1, ConsoleInvariant, PTL

\* A write is served only for the session whose data the page showed.
THEOREM WritesAsShown == Spec => []WrittenAsShown
<1>1. ConsoleInv => WrittenAsShown
  BY DEF ConsoleInv, GoodCall, Scoped, WrittenAsShown
<1>2. QED
  BY <1>1, ConsoleInvariant, PTL

\* Nothing but a transaction of a save or a restoration writes the working copy.
LEMMA OnlyCommits ==
  ASSUME ConsoleInv, [Next]_vars, NEW c \in Slots, Committed(c)
  PROVE  Commit(c) /\ Current(call[c])
<1>1. work' # work
  BY DEF Committed
<1>2. PICK d \in Slots : Commit(d)
  <2>1. CASE Browser
    BY <1>1, <2>1, ZenonT(60) DEF Browser, SignIn, Revoke, Open, Close, CheckSession, Logout, SetCustomCSS,
                      Show, Save, RestoreVersion
  <2>2. CASE Answer
    BY <1>1, <2>2 DEF Answer, Denied, Refused, SessionAnswered, LoggedOut, PanelAnswered,
                      CopySaved, TooLate, Unheard, Lose
  <2>3. CASE Server
    BY <1>1, <2>3 DEF Server, Admit, ReadCopy, ToggleCSS, ReadBack, EndSession, Fail
  <2>4. QED
    BY <1>1, <2>1, <2>2, <2>3 DEF Next, vars
<1>3. Current(call[d]) /\ call' = [call EXCEPT ![d] = [Over(call[d], "saved") EXCEPT !.scope = call[d].scope]]
  BY <1>1, <1>2 DEF Commit
<1>4. c = d
  BY <1>3 DEF Committed, ConsoleInv, TypeOK
<1>5. QED
  BY <1>2, <1>3, <1>4

\* What a committed save writes besides its own field is what was there, and
\* its form had shown what it replaces, unless the form is one of the website's.
LEMMA CommittedSave ==
  ASSUME ConsoleInv, [Next]_vars, NEW c \in Slots, Committed(c), call[c].what \in Saves
  PROVE  /\ \A f \in Fields \ {call[c].what} : work'.doc[f] = work.doc[f]
         /\ call[c].what \notin {"site", "locale"} => call[c].base = work.doc[call[c].what]
<1> DEFINE q == call[c]
<1>1. Commit(c) /\ q.expect = work.rev
  BY OnlyCommits DEF Current
<1>2. q.pc \in {"admitted", "read"}
  BY <1>1 DEF Commit, Ready
<1>3. /\ \A f \in Fields \ {q.what} : q.put[f] = work.doc[f]
      /\ q.what \notin {"site", "locale"} => q.base = work.doc[q.what]
  BY <1>1, <1>2, Known DEF GoodCall, Carried
<1>4. work'.doc = [f \in Fields |-> IF f \in Columns(q.what) THEN q.put[f] ELSE work.doc[f]]
  BY <1>1 DEF Commit, Committed
<1>5. QED
  BY <1>3, <1>4

\* A save changes the one field it edits (the WHERE revision=? of its
\* statement, against the configuration and the texts a panel carries along).
THEOREM SavesCarryAlong == Spec => CarriesAlong
<1> DEFINE Kept == \A c \in Slots : Committed(c) /\ call[c].what \in Saves =>
                     \A f \in Fields \ {call[c].what} : work'.doc[f] = work.doc[f]
<1>1. ConsoleInv /\ [Next]_vars => Kept
  BY CommittedSave
<1> HIDE DEF Kept
<1>2. Spec => [][Kept]_vars
  BY <1>1, ConsoleInvariant, PTL DEF Spec
<1>3. QED
  BY <1>2 DEF Kept, CarriesAlong

\* The listing and the copy panel replace nothing their forms had not shown.
THEOREM NothingUnseenReplaced == Spec => ListingAndCopySeen
<1> DEFINE Seen == \A c \in Slots : call[c].what \in {"profiles"} \cup CopyKeys => SeenBefore(c)
<1>1. ConsoleInv /\ [Next]_vars => Seen
  BY CommittedSave, ConsoleAssumption DEF SeenBefore, Saves
<1> HIDE DEF Seen
<1>2. Spec => [][Seen]_vars
  BY <1>1, ConsoleInvariant, PTL DEF Spec
<1>3. QED
  BY <1>2 DEF Seen, ListingAndCopySeen
=============================================================================
